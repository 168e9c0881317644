# Golden CRM: verification development

This directory holds TLA+ models of the Golden CRM server (`packages/api`, an
Express API over PostgreSQL), the TLC runs that check them on small instances,
and TLAPS proofs of the theorems that matter most. Paths below are relative to
the repository.

## Inventory

The server is stateless but for its database: every behaviour worth checking is
about rows that several callers, several worker processes and several
transactions touch in an order nobody fixed. Isolation is PostgreSQL's default,
READ COMMITTED, so a plain `SELECT` may be stale by the time of the `UPDATE`
that relies on it; `FOR UPDATE` makes a handler one step.

| Component | State it keeps | Operations | What is hard, and what makes it right |
|---|---|---|---|
| Service-request triage (`services/serviceRequests`) | `service_requests`: status, reviewer, escalation, archive mark, reopen count, beneficiary, device | create, claim, link, relink, resolve, approve, reject, cancel, reopen, escalate, archive | the freeze is read by a middleware before the handler's transaction; long legal sequences; decided requests stay claimed, unfrozen, archived only when closed |
| Emergency hand-over (`promoteService`, `problemsService`) | `open_tasks`, `service_request_problems`, device owners | promote, split, merge, add, delete, restore a problem | two promotes of one device; merge against transfers; a second statement outside the transaction |
| Notification outbox (`services/appNotifications`) | `app_notification_outbox`, `app_notifications`, the pushes in memory | capture trigger, drain, push | several processes, crashes, failing rows; exactly-once rows, order, progress |
| Field-visit status (`visitCompletion`, `routes/fieldVisits`) | `field_visits.status` | book, start, end, complete, close, reopen, cancel | completion and reopening check without a lock |
| Visit results, open tasks, delivery suspension | `visit_task_results`, `visit_tasks`, `open_tasks`, `installed_devices.status` | record, edit and reflect results, create and cancel tasks, pull, undo, suspend, resume | one result updates many rows and may be edited long after its visit; visits are written by unlocked checks; a suspension meets bookings under way |
| Booking, telemarketing, planning day cycle | team slots, `contact_targets` locks, `planning_day_cycles` | claim, book, activate, close the day | check then write; a daily job against callers |
| Tabular reports | `report_runs`, `report_run_runtime` | queue, claim, heartbeat, requeue, finish, clean up | a worker presumed dead that is not |
| OTP, app accounts, sessions | `otp_verifications`, `app_accounts`, `app_refresh_tokens` | send, verify, consume, request, approve, rotate | proofs used once, caps under concurrency |
| Complaints | complaint rows, public updates, attachments | submit, assign, resolve, publish | context proofs, status history |
| Contracts, instalments, movements | `contracts`, `contract_installments`, `contract_payment_entries`, `financial_movements`, collection tasks | edit, approve, settle a trial, collect, cancel | the same money is kept in three books written by different code and by triggers; sums read before the lock |
| Gifts, warranties, delivery | promises, warranties, suspensions | promise, grant, suspend delivery | several tables agree |
| Recruitment | applications, interviews, vacancies | stage changes, hiring | capacity against concurrent hires |
| Clients, candidates, roles, catalogues, reports, media, web UI | records, files | CRUD, queries | sequential; no property a model checker adds to |

`PROJECT.json` lists the components with their sources and status, and under
`hazards` each place where the code is hard to test, with the properties that
cover it.

## Plan

Written in this order; the first eight groups exist.

1. `ServiceRequests` (the core), its abstract specification `EmergencyDesk`, the
   refinement mapping `ServiceRequestsRefinement`.
2. `ServiceRequestsProofs`, `ServiceRequestsHandOverProofs`.
3. `NotificationOutbox` for field visits, its abstract specification `VisitNews`, the
   mapping `NotificationOutboxRefinement`; `NotificationOutboxProofs`.
4. `ReportRuns`: the report queue with heartbeats, requeueing and workers that
   outlive their claim; its abstract specification `ReportShelf`, the mapping
   `ReportRunsRefinement`; `ReportRunsProofs`.
5. `AppAccounts`: one-time codes, sessions, the requests for an account and the
   accounts; `AppAccountsProofs`.
6. `PlanningDay`: the day's assignment, the telemarketers' list, bookings and the
   closing of the day; `PlanningDayProofs`.
7. `ContractLedger`: a contract's money from the draft to the last instalment or
   the cancellation; `ContractForm`, the same as the contract form uses it;
   `ContractLedgerProofs`.
8. `DeliveryVisits`: the delivery of a device, its visits, results and suspension;
   `DeliveryVisitsProofs`. The other result types and the escalation tiers are left.
9. A composition of `ServiceRequests` and `NotificationOutbox`: a notification is
   written for the beneficiary at handling time, not at transition time.
10. The other request types' hand-offs; complaints; gift promises; recruitment.
11. Proofs: every safety property the runs check is proved, and three modules refine an
    abstract one; the next worth stating are a slot of `PlanningDay` and an account of
    `AppAccounts` without calls and locks.

## Modules

### `ServiceRequests`

One action per handler. Every handler opens a transaction and takes the
request's row `FOR UPDATE` first, and the problem handlers' foreign-key locks
conflict with it too, so a handler is one atomic step. Two things are not atomic
and are modelled as such:

* `blockIfEscalated` (`routes/serviceRequests.ts:292`) reads the escalation in a
  query of its own. A call that passed it is kept in `admitted` until its
  handler runs (`Promote`, `MergeIntoExistingTask`, `LinkBeneficiary`, the
  problem actions) or answers with a refusal (`Answer`). Claim and transitions
  read the escalation again under the lock and are single steps.
* the visit wizard's `POST /problems` puts the new problem on its task in a
  second statement. `stamp` holds the task until `StampProblem`, or `StampLost`
  when the process dies in between.

| Variable | Code |
|---|---|
| `sr` | `service_requests`; `party` is the one of `beneficiary_client_id` and `beneficiary_candidate_id` that is set, `task` is `linked_open_task_id`, `reviewer` is `reviewed_by_user_id`, `escalated` and `archived` say whether the timestamps are set |
| `problem` | `service_request_problems`; `stamp` is the request's pending second statement |
| `task` | `open_tasks` of type `emergency_maintenance`; `active` is any status but completed, closed, cancelled |
| `owner` | `installed_devices.customer_id`; `NoParty` for a device that does not exist yet |
| `transfer` | devices with an active `device_transfer` task |
| `admitted` | calls between middleware and handler |

Abstracted: free text, snapshots and audit rows, branches, permissions (any
operator may do what some authorised one may), contract columns, priorities, the
fuzzy duplicate search (a free Boolean). Two request types are instantiated: the
emergency visit, the only one that promotes, and the agent licence, completed by
an approval. A problem stamped by the wizard carries the task of its own request,
which is what `EmergencyProblemsSection.tsx` sends; the route does not check it.
`AddProblem` merges the route's check of the device's owner, a plain `SELECT`
(`problemsService.ts:78-118`), with its insert; a transfer in between looks like one
right after the insert.
`FinishTask` stands for every way an emergency task ends. A device transfer is
opened for any owned device, which allows more than `openTasks.ts` does.

### `EmergencyDesk`, `ServiceRequestsRefinement`

What the desk promises without claims, freezes or middleware: per device at most
one visit, each report handed over once, to a visit opened for it or to the one
going on for its device, a visit that ended never opened again. The mapping
collapses the statuses to five stages and reads the visit of a device off `task`;
`ImplementsDesk` says every step of the code maps to a step or a stutter.

### `NotificationOutbox`

`visit`, `checked`: the status of each visit and, per call, the status a
completion or reopening read and is about to write. `outbox`: the rows the
trigger captured (`SetStatus`), in id order. `told`, `pushed`: how often each
account was told of each row in a committed notification, and pushed. `worker`:
per process, its phase between two of its transactions (idle, claimed, failed,
dispatch), the row, and the pushes still in memory. `Claim` takes the oldest
pending unlocked row; `Handle` commits notifications and mark together; `Fail`
rolls back, `CountFailure` is the separate `UPDATE`; `Dispatch` is one turn of
the push loop; `Fault` is a crash with restart, or a lost connection.

A sender that fails or an account with no registered phone counts as a push
handed over: the code does not ask again. Which accounts are reached, and whether
the notification type is switched on, is a free choice of recipients. The batch
limit of a drain is left out: the next tick continues.

### `VisitNews`, `NotificationOutboxRefinement`

What the outbox owes a customer, without processes, claims, retries or crashes.
Visits move forward (`Follows`: a cancelled visit stays so, one that was worked on
stays worked on, whatever late completion or reopening overwrites it), every change is
one piece of `news`, `Tell` settles it once and tells each account once, and only
what is worth telling; `Ring` follows, once. The mapping forgets who works on a row
and how often it failed (`Piece`); `ImplementsNews` says that claiming, failing,
counting, crashing and reading ahead are stutters and everything else is one of the
three steps.

### `ReportRuns`

`run`, `rows`, `runtime` are `report_runs`, `report_run_rows` (each row named by
the attempt that wrote it) and `report_run_runtime` (only the age of its
heartbeat: `fresh`, or `stale` after 15 minutes). `tick` is where each process's
tick is; `worker` has, per process, the calls of `runTabularReportWorkerOnce` its
tick awaits. A call claims (`claimNextRun`), opens its REPEATABLE READ
transaction (`StartSnapshot`), commits or fails, records a failure, drops the
runtime row.

Two rules of PostgreSQL carry the design and are modelled as such. A REPEATABLE
READ transaction whose run row changed after its snapshot cannot commit
(`dirty`), which keeps two workers of one run from mixing their rows. A READ
COMMITTED statement that joins two tables evaluates the join in its snapshot
(`Match`) and, for a row that changed before it got to it, checks again only the
table it writes (`Apply`, `StillMatches`), so `heartbeat_at` and, in the last
statement, `status` may be stale. A row that was deleted meanwhile is passed over,
also when another was inserted for the same run (`Forgotten`).

`GoStale` may happen under a live worker: heartbeats are written after a batch,
and nothing is written while the access is checked or the first rows are fetched.
`LostCall` is a claim or a failure record that throws: `Promise.all` rejects, the
tick is over, its other call is no longer awaited. A call left over by such a
tick takes the place of one of the next tick's; with two slots a third call could
not get further than asking for one. Only the number of rows of a snapshot is
kept; progress counters, metrics and pinning are left out (clean-up may take any
completed or failed run).

### `ReportShelf`, `ReportRunsRefinement`

The report queue as its users see it: a report is asked for, taken up, given up (queued
again, or failed after its last attempt), published or failed by an attempt, removed.
There are no processes, slots, heartbeats or transactions; `Publish` puts all rows and
their count there in one step. It does not promise that the attempt that answers is the
latest one, or that a late failure leaves a completed report alone: the last statement
of either writes by the run's id alone. The mapping keeps `run` and `rows` and forgets
the rest, so `ImplementsShelf` says that slots, heartbeats, statements that match before
they write, and open transactions do not show until something is written.

### `AppAccounts`

| Variable | Code |
|---|---|
| `codes` | `otp_verifications`, in the order of `created_at`; `age` and `held` are ticks since it was sent and since its handle was verified, `consumed` is `consumed_at` |
| `accounts` | `app_accounts`; `closedBy` is history: the code whose handle deleted it |
| `tokens` | `app_refresh_tokens`; `family` is the first token, `next` is `replaced_by_id`, `openedBy` is history: the code whose handle opened the family |
| `requests` | `service_requests` of type `account_creation`; `madeBy` as above |
| `call` | the calls in flight: what each has read and which rows it has locked |

A call is a read step and a commit. The read step takes the row locks of its
`SELECT ... FOR UPDATE` (`CodeLocked`, `AccountLocked`, `TokenLocked`,
`RequestLocked`), which the commit or `Abort` releases. What a handler reads
without a lock is read in the first step only: the cap and the resend window of
`SendCheck` (whose three queries for cap and window are merged: `SendsBounded`
counts the calls that passed them either way), the account of `ExchangeRead` and `RefreshRead`, the free number of
`ActivateRead` and `LinkRead`. Three rules of PostgreSQL do the rest. An insert
that references a row another transaction holds `FOR UPDATE` waits
(`RotateCommit`, `ExchangeCommit` against a suspension). An `UPDATE` changes the
rows its snapshot saw once it has waited for them, so the statements that revoke a
family or an account's sessions are two steps and carry what they `saw`. The
partial unique index on live numbers answers last (`IndexAdmits`).

`Tick` ages codes and handles at any time. Abstracted: the 60 days of a refresh
token, access tokens, audit rows, SMS delivery, the escalation, duplicate flags
and notes of account requests, the purposes whose handles other modules take
(`service_request`, `complaint`, `complaint_tracking`) and `request_status`,
whose handle only buys a look at one's own request.

### `PlanningDay`

| Variable | Code |
|---|---|
| `cycle` | `planning_day_cycles.status` of each day; a day without a row is `planning` |
| `task` | `open_tasks`: the status, `last_waiting_status`, and `assigned_for_date`, kept for assigned tasks, the only ones it is read of |
| `contact` | `contact_targets` of a client on a day, with its task links and its items on the telemarketers' list; `owner` is the claim |
| `blocked` | `clients.do_not_contact` |
| `visits` | `field_visits` with their `visit_tasks`; `listed` are the bookings made from the list |
| `call` | handlers between two of their transactions, and the closing under way |

The plan's operations hold the advisory lock of branch and date to their commit
(`DayLocked`), so each of their transactions is a step; preparing is two
(`Prepare`, `Reconcile`), and the closing is two because its statements wait for
rows: `CloseDay` closes the contacts and chooses the tasks by its snapshot,
`CloseDayCommit` writes those tasks by id. A booking takes no lock of the day. It
reads (`BookRead`), writes what it read (`BookCommit`, where the trigger of
migration 371 asks for the slot again under its lock) and, from the list, closes
the contact afterwards in a statement of its own (`BookedContact`). A booking from
the list holds the client's contact control in share mode, so `DoNotContact`
waits for it (`ClientLocked`). Starting a visit is a sequence of autocommitted
statements (`StartVisit`, `StartTasks`). `Abort` stops a handler between steps.

One branch and one team. Left out: the cooldown between calls, excluding and
restoring single tasks or names, upserting and pulling lists by hand, and what
happens to a visit and its tasks after they have started. The
statements of one call log are merged, and the status of a list item or a link is
not kept apart from the contact's. The status `closing` of a cycle is never
visible outside the transaction that sets it.

### `ContractLedger`

| Variable | Code |
|---|---|
| `contract` | `contracts`: `status`, `kind` is `sale_subtype`, `cash` is `payment_type = 'cash'`, `price` is `final_price` |
| `device` | whether `installed_devices` has a row of the contract, which the approval creates |
| `inst` | `contract_installments` by number: `amount_syp` (0 where there is no row), `left` is `remaining_balance`, `confirmed` |
| `paid` | `contract_payment_entries`, summed by `installment_id`; `Signing` is the sum of those without one |
| `ledger` | `financial_movements` of the contract, summed by what they are for: `charge`, `credit` (payments), `discount` |
| `tasks` | the `installment_collection` tasks of each instalment, oldest first, each with its visit task |
| `call` | what an edit, a cancellation or a collection has read and not yet written |

The routes of a draft, the approval and the settlement lock the contract's row
first, and an insert of a payment waits for that lock by its foreign key, so each
is one step, with the triggers its statements fire: `Balanced` is
`recompute_installment_balance`, `Completed` is `recompute_contract_completion` in
the form migration 459 gave it. Their order is kept: the approval inserts the
device, sets the status, and the trigger of that `UPDATE` replays the payments
before tasks and movements are made; the settlement enters the payment, whose
trigger evaluates completion, while the trial's old instalments are still there.

Three handlers are two steps. An edit reads the status in a query of its own
(`EditCheck`) and updates by id (`EditWrite`). What it writes follows from the body:
the status it derives is the client's own if that is `completed`, `cancelled` or
`discarded`, and `draft` otherwise (`deriveContractWriteStatus`). The trigger of
migration 390 (`BackToDraft`) refuses a late draft, and nothing refuses another late
status. `Bodies` are the contracts clients send. The sums of the cancellation are subqueries of the
statement that takes the lock: PostgreSQL evaluates the contract's own columns
again when it gets the row, the subqueries in the statement's snapshot
(`CancelRead`, `CancelWrite`). The collection reads the open balance of the
instalment in the statement that locks the task and the visit task (`CollectRead`);
their status is the one under the lock, so a result may be sent again for a
completed task.

Amounts are in units above the code's tolerances of 0.5 and 1. Merged: a
collection task and its visit task have one status, and what the scheduling does to
the task before the visit is `active`. The cancellation is offered for active
contracts (`ContractDetail.tsx`). `SavePayments` enters what is paid on signing, since
no entry the form sends names an instalment (`ContractForm.tsx:1517-1529`), although the
route would take one (`contracts.ts:1811`). Left out: refunds, instalments and payments
of 0, currencies and parts of a payment, deletion of a contract, contracts that
are no sale, the settlement's document, gifts, delivery, warranty and periodic
maintenance, and other ways a collection task is cancelled by hand.

`ContractForm` is `ContractLedger` with the only client the repository has. The form's
payload has `status: 'draft'`, and a price and instalments only for a definitive sale
(`FormBodies`, `AsSaved`; `ContractForm.tsx:1439-1499`). `FormAssumption`, that clients
save drafts, is the part of it the proofs use. The properties stated there are of such
contracts: a client that sends another status ends an approved contract by a late edit,
has a completed one that was never paid, or a cancelled one that still owes, since that
route makes no movements. `ApprovedOnce`, in `ContractLedger` itself, is of every client.

"A completed sale is paid its price" is not stated, because it does not hold: a
payment collected for an instalment while the contract is still a draft counts twice
in what the approval adds up (`collectApprovalIssues`, `contracts.ts:2322-2370`), as a
payment and in the schedule, and a sale of 2 with an instalment of 1 collected early
is approved, and completed, with 1 on signing charged and never paid.

### `DeliveryVisits`

| Variable | Code |
|---|---|
| `contract` | whether `contracts.status` is active |
| `device` | `installed_devices.status` of the contract's device, as far as the delivery goes |
| `tasks` | its `open_tasks` of type `device_delivery`; `waiting` is `last_waiting_status` |
| `visits` | `field_visits` of the client; `survey` says that `visit_surveys` has a row, filled or skipped |
| `rows` | `visit_tasks`: `pulled` is `added_via`, `result` says that `visit_task_results` has a row, `gone` that it was deleted |
| `call` | what each request under way has read, or holds |

What is one step follows the code's transactions and locks:

* Start, end and reopen are autocommitted statements: `StartRead`, `StartVisit`,
  `StartTasks`; `EndRead`, `EndVisit`, `EndTasks`, then the check; `ReopenRead`,
  `ReopenVisit`, `ReopenRows`. A process may die between any two (`Abort`).
* `checkAndCompleteVisit` reads and then updates by id (`CheckVisit`,
  `PromoteVisit`). Its reads are one step: nothing between them can make them true
  together that was not. After a result it runs inside the result's transaction
  (`WouldComplete`), where it sees its own result and the committed ones only.
* Booking, pulling, undoing a pull and creating a task read without a lock and
  write by id in a second step; the pull's task update has a condition, the
  booking's has none.
* A result reads its row (`ResultRead`), locks the device if it delivers
  (`Eligible`), writes and holds what it wrote (`Reflect`), and commits (`Commit`).
  Cancelling a visit or a task, closing, suspending, resuming and the contract's
  cancellation lock what they read first and are one step.

`DeviceFree`, `DeviceReadable`, `RowFree`, `TaskFree` and `VisitFree` say which
locks a step waits for. The trigger of migration 435 (`TriggerAdmits`) reads the
device `FOR KEY SHARE` for every task that becomes or stays active, the unique index
of migration 265 (`IndexAdmits`) admits one active delivery task of a device.

The three failed outcomes are one (`postponed`), those that cancel the task are
another (`refused`); rescheduling dates, addresses, serial numbers, photos, the
installation task of a delivery, teams, slots (see `PlanningDay`) and the escalation
alerts are abstracted. A survey's check, upsert and answer are one step up to the
completion check, since only its row is read by others. That starting a visit is
refused while an old one is undocumented is left out, which allows more. Visits carry
delivery tasks only. The form that edits a device by hand is left out, so
`DeliveredWhileAwaited` is about what results do.

### Proof modules

`ServiceRequestsProofs`: `TypeCorrect` and the life cycle. The invariant behind
`LifecycleHolds` is `LifecycleInv`: of every row, `SoundRow` says a
decided status has a reviewer, an archive mark sits on a terminal, more than two
reopenings go with the flag, and a decision is not frozen. The four parts are
inductive together with `TypeOK`: `TransitionFields` says what `TransitionRow`
changes, `TransitionKeepsRowSound` that the state machine keeps a row sound, and
`OneRowChanges` that an action on one row leaves the others alone.

`ServiceRequestsHandOverProofs`:

* `OneActiveEmergency`: inductive by itself; a new active task meets the index.
* `HandOversMatch`: inductive with `TypeOK`. A promotion and a merge set both ends
  (`MatchingAfterPromote`, `MatchingAfterMerge`); every other step leaves
  `status`, `party`, `device` and `task` of a promoted row and the task's own
  fields alone, which is what `SameHandOver` isolates.
* `ProblemsFollowRequests`: a stamp still to be written has to point at the
  request's task as well, which strengthens the property to `ProblemInv`; that a
  request keeps its task (`TaskIsKept`) needs `HandedOverToMatchingTask`.
* `HandOversAreFinal`: an action property, by `TerminalExits`: no transition
  leaves `promoted` or `completed`, and no other action writes the row's outcome.
* `FreezeHolds`: an action property; it needs that only filed requests are frozen
  (`FrozenIsFiled`), or intake could rewrite a frozen row. Of the transitions a
  freeze lets only the rejection pass (`FrozenTransition`); the problems counted for
  a request are written by its own calls alone (`FrozenProblems`).
* `DeskImplemented`: the refinement. Only promote, merge and the end of a task change
  more than where a report stands (`DeskMoves`). A promotion is `OpenVisit`: the index
  left the device without a visit, and a task nobody is handed to is fresh by
  `HandedOverToMatchingTask`. A merge is `JoinVisit` and the end of a task `EndVisit`
  because the visit of a device is its one active task (`VisitIsTask`), for which
  `OneActiveEmergencyPerDevice` is needed before and after the step.

`NotificationOutboxProofs`:

* `Typed`: `TypeOK`, a process at work has a row there is, and a call that has read
  a status has a visit. `WriteSetsOrReads` reduces the writers of a visit to two
  cases: a status is set, or only a call's memory changes.
* `ToldOnce` strengthens to `Once`: a claimed row is nobody else's and still to be
  handled (`Claims`, the row lock), so the process that handles it is the only one
  to push for it, and what is due was told once and not pushed (`Sending`).
* `FailuresStayBounded`: `Tries` counts the attempts that may still fail with those
  that did; counting a failure moves one from one term to the other, and a claim
  is made below the limit.
* `ThankedAtMostOnce`: `Balanced` equates the changes that finished a visit with
  those that reopened it, plus one while it is finished.
* `OneProcessTellsInOrder` assumes a single process: no row is locked when it
  claims, so the oldest claimable row (`OldestIsClaimable`) is the oldest pending
  one (`ClaimsInOrder`).
* `NewsImplemented`: the refinement. A status that is written follows the one there
  was, because a call that read ahead still finds its visit worked on
  (`CallsFindWorked`), though not as it read it; a row that is handled was not
  settled and nobody was told of it, a push finds its account told and its phone
  silent, which is `Once`; `NewsAdded` and `NewsRewritten` say how the news follows
  the outbox.

`ReportRunsProofs`:

* `AnsweredStays` and `AttemptsLimited` rest on what a step does to a run: only a
  claim counts an attempt and starts a run (`OnlyClaimsAttempt`, `ClaimEffect`),
  and the statements of a tick act on running runs only (`ApplyActsOnRunning`).
  `AttemptInv` strengthens the bound to what a late requeue needs: a queued run
  has an attempt left, and a call works as an attempt its run has counted.
* `StoredSnapshotsAreWhole`: the strengthening is `CurrentOld`, the point of the
  REPEATABLE READ transaction: one that may still commit has deleted all rows
  there are, because the rows of a run only change with the run's own row.
* `ShelfImplemented`: the refinement. A claim overtakes fewer reports than there are slots
  (`CountsAreNat`), and a queued one has an attempt left (`AttemptInv`); what a statement of a tick writes was running when it
  wrote (`ShelfGivesUp`), though not when it matched; a commit publishes all rows of
  one attempt and no other, because its transaction deleted the ones before
  (`ShelfPublishes`, from `CurrentOld`). `AnsweredIsNotRequeued` follows from it.

`AppAccountsProofs` first says what each action does to each table, in the
predicates `CodeRows`, `TokenRows`, `AccountRows` and `RequestRows` (which rows
change, which one is new); the invariants are then proved from those, not from
the actions.

* `Locking` is behind everything: `Typed` (`TypeOK`, and every call, token,
  account and request refers to rows there are), and `Held`: two calls never hold one row
  (`Exclusive`), and what a call knows of the row it has locked is still so
  (`AllKnow`): the code it is to consume is not consumed, the token it rotates is
  live, the sessions it saw are all an account under suspension has.
* `OneLiveToken` needs that a family is named by its first token
  (`FamiliesKnown`); `OneLiveAccount` follows from the index and from `Reactivate`
  never meeting a live number it is not itself; `ClosingLeavesNoSession` is an
  action property of `Locking`: what a suspension saw is what there is, because
  no insert passes the account's lock.
* `HandlesBuyOnce`: the strengthening `Buys` says that an unconsumed code has
  bought nothing (`Unspent`), and that the three purchases exclude each other and
  each happens once (`OneBuy`); `CountAtMostOne` turns this into the sum.
* `SendsStayBounded`: `Capped` counts the sends in flight with the messages sent;
  together they stay below the cap plus the number of calls, since a check passes
  below the cap only, and a message moves from one term to the other.

`PlanningDayProofs`:

* `SlotsHold`, `ScheduledTasksStand` and `BookingHoldsItsContact` are inductive
  with `TypeOK`; one lemma each says what a step does to `visits`, to contacts and
  to calls (`VisitsStep`, `ContactsKept`, `BookingStep`).
* `ClosedDaysAreSettled` strengthens to `ClosingInv`: a closing under way covers
  every open contact and assigned task of its day (`ClosingCovers`), there is one
  of a day (`OneClosing`), only a contact that exists has links (`LinksKnown`).
  `ClosedNeverReopens` uses it.
* `BlockedNeverBooked`: a booking from the list that may still commit is for a
  client who may be called (`ListedMayBeCalled`), because the control lock keeps
  the mark off until it ends.

`ContractLedgerProofs`: an inductive invariant, `IInv`, carries `LedgerHolds`,
`CompletionHolds`, `ReceivableHolds` and `ApprovalHolds` (`Invariance`), for clients
that save drafts (`FormAssumption`, by the lemma `FormSavesDraft`). Beside three of the
properties themselves it has what makes them inductive:

* `DeviceIsSold`: there is a device exactly when the contract is active, completed
  or cancelled. This is why a draft that comes late never gets past the trigger
  (`ApprovalHolds`), and why the activation meets approved contracts only.
* `RowsFollowPayments`: a balance is the excess of the row over its payments, once
  the contract was approved; before (draft, discarded) it is the row's amount. The
  approval replays the payments, which leads from one to the other.
* `PaidIsKept`: an instalment that was paid has its row and an attempt that ended; its
  row therefore cannot be deleted, and no payment loses its row.
* `ReadsAreHigh`: the balance a collection read is never below the one there is.
  A result that calls itself full therefore pays the instalment, and only a result
  that does not needs a follow-up task (`ReceivableHolds`).
* `DiscountsEndIt`: only a cancelled contract has discounts.

One lemma per action says which parts it can disturb (an attempt's end is
`EndsAttempt`, shared by the two results).

`ApprovalIsOnce` does without `FormAssumption`: whatever a client sends, what has a
device is no draft (`SoldIsNoDraft`), and that much is inductive by itself. It is what
migration 390 is there for: a contract is approved once. `ApprovedIsFinal` fails for
such a client in three steps: the check, the approval, the write of `discarded`.

`TypeCorrect`, `CancellationSettles` and `PriceIsCharged` are about sums over all
accounts. `Total` is a fold, a `CHOOSE` of a function defined by recursion over the
subsets of its domain, so the first section of the module shows that there is such a
function: partial results `PartialSum` exist on the subsets of every size (`SumsExtend`,
`SumsExist`), because otherwise a smallest subset would be without (`SubsetInduction`,
from the well-founded order of the library). From this follow that a total does not
depend on the order of the fold (`AnyOrder`), is a natural number (`TotalNat`), and
splits off any account (`TotalWith`). The invariant of the amounts, `MInv`, adds to
`IInv`:

* `Numbers`: every charge, credit, discount and every sum a call has read is a
  natural number, although the cancellation subtracts sums that are no longer true.
* `ReadsCoverSigning`: a cancellation under way has read the sums its contract still
  has, or the trial was settled while it waited and then nothing is owed on signing.
  Without it the discount of the sale's price could fall short (`DiscountCovers`). That
  it may exceed what is owed is the defect of `doc_cancel`.
* `ScheduleWithinPrice`: an approved sale by instalments schedules no more than its
  price, which is why signing and schedule sum to it (`ChargesSum`); only a cash sale
  may keep a schedule beyond it.

`DeliveryVisitsProofs` first says what a step may do to each table: `TasksStep` (a task
becomes active only while the device is not suspended), `VisitsStep` (visits move
along `VisitPath` and keep their survey) and `RowsStep` (results and deletions stay, and
only a pull adds a row to a visit that was there), each proved per action. The inductive invariant `IInv` consists of `SuspendedIdle`,
`CompletedDocumented` and what they need:

* `Typed`: `TypeOK`, and every call refers to a visit, task and row there are.
* `OneHolder`, `AwaitedWhileDelivering`: one call at a time holds the device to
  deliver it or has written it, and while one delivers, the device waits. From this
  follows `DeliveriesAwaited`.
* `Promoting`: a visit a check is about to complete, however late, has its survey and
  lacks no result but the one that completes it, since it has ended and rows are
  booked onto new visits only; a pulled row may still come, which is why
  `CompletedDocumented` speaks of the booked ones.
* `Reopening`: a visit about to be reopened is ended, completed or closed, because
  nothing leaves these three.

The theorems of the first two modules hold under `SentinelAssumption`
(the NULLs are no ids) and `TypesAssumption`, those of the third under
`ReportAssumption` (sizes are natural numbers, the limits positive), those of
`NotificationOutboxProofs` under `OutboxAssumption` (finitely many processes, at
least one attempt), those of `AppAccountsProofs` under `AccountsAssumption` (finitely many calls; ages, bounds
and the cap are natural numbers, at least one guess), those of
`PlanningDayProofs` under `PlanningAssumption` (every task has a client; nobody is
no operator, the job is no request), those of `ContractLedgerProofs` under
`LedgerAssumption` (finitely many instalments; prices and amounts positive) and, but for
`ApprovalIsOnce`, `FormAssumption`, those of
`DeliveryVisitsProofs` under `DeliveryAssumption` (the bounds are natural numbers, one
task at least).

## Runs

| Run | Question | Bounds |
|---|---|---|
| `desk` | is the hand-over safe, and does the code implement the desk, with two requests for one device | 2 requests, 2 tasks, 2 problems, 1 operator, 1 client, 1 device, 1 call in flight |
| `request` | the life of one request, of either type, relinked and reopened | 2 operators, 2 clients, 1 candidate, 2 devices, 1 task, both device sources, 3 reopenings, 1 call in flight |
| `outbox_cluster` | is every change notified at most once, and settled, by two processes, as the abstract news has it | 1 visit, 3 changes, 2 accounts, 2 attempts, 1 fault |
| `outbox_single` | order and thanks with one process | 1 visit, 6 changes, 2 calls |
| `report_cluster` | is a report whole, answered, and not made for ever, by two processes, as the abstract shelf has it | 1 run, 2 calls per process, 2 slots, 2 attempts, 0 or 1 rows, 1 fault |
| `accounts` | do handles, caps, rotation and the life of accounts hold with two calls at once | 1 phone, 2 calls, 3 codes, 2 accounts, 3 tokens, 2 requests, 2 guesses, cap 1 |
| `planning` | do bookings, the list and the closing of a day agree, and is a day closed in the end | 1 client, 1 task, 2 operators, 1 slot, 2 calls and the job, 1 day, 2 visits |
| `ledger` | do instalments, movements, price, status and tasks of a contract the form writes agree | 2 instalments, amounts 1 and 2, price 2, 2 requests, 3 tasks, 2 paid on an instalment |
| `deliveries` | do the results, visits, suspension and contract of one delivery agree | 2 calls, 1 visit, 1 task with 2 rows or 2 tasks with 1 row |
| `doc_heartbeat` | is a stopped report recovered | as `report_cluster` |
| `doc_cancel` | does a cancellation discount only what was charged and not paid | as `ledger`, 1 instalment, 1 request |
| `doc_resume` | is a suspended delivery resumed only by its own action | 1 call, 1 task, 1 visit, 1 row |

Two requests and two tasks are the smallest instance in which a promote races a
promote, a split or a merge, and in which a problem could end on another
request's task. One call in flight is enough for a stale middleware read: the
other steps of the race (escalation, transfers, the other request's closing) need
no middleware. `request` reaches the third reopening, the one that raises the
flag. `MaxAttempts` is 2, where the code has 5 for the outbox and 3 for reports:
one attempt to retry and one to give up. Six changes let a visit be completed,
closed, reopened and completed again. In `report_cluster` both slots may be taken
by attempts at the same run while a tick requeues it; a size of 0
matters, because two snapshots without rows do not meet on the primary key.
In `accounts` two calls of any two kinds meet on every row, two accounts are one
more than a number may have, and three tokens are a family that rotates twice or
two families; a cap of one lets two calls exceed it. In `planning` two visits
compete for one slot and one task, and two operators for one contact; the day
after the last is there so that it may be closed late.
In `ledger` a price of 2 is one unit at signing and one in an instalment, or two
instalments, or a signing alone; an instalment of 2 is paid in two visits, overpaid
by a result sent twice, or cancelled half paid, and three tasks allow a follow-up
and one more. In `deliveries` two calls meet on one visit, with a booked and a pulled row of the
task, or with a second task after the first was cancelled (`FewRecords` bounds tasks
and rows together); that a postponed delivery is booked on a second visit is left to
the proofs, which hold for any bounds. Symmetry is used
where no liveness is checked. Deadlock is checked but in the two runs of `ContractLedger`: a discarded contract without tasks, or a
cancelled one that is at its bounds, really stops.

The `doc_*` runs each check one sentence of the documentation that the code does
not keep; `PROJECT.json` quotes it under `findings`. In `doc_heartbeat` a
report stays `running` for ever, in `doc_cancel` a cancellation that waited for a
settlement discounts the whole price of a sale that was partly paid, and in
`doc_resume` a pull that was checked before a suspension adds its row after it, and the
first result of that row, a refusal, ends the suspension.

No run checks a `TypeOK`: each is proved for every instance, by an inductive
invariant that contains it.

**Fairness.** `FairSpec` assumes weak fairness of each process's `Drain`. The job
ticks at boot and on an interval (`outboxJob.ts`), the cluster primary forks a
new process for a dead one, and a tick that threw is followed by the next. It is
not assumed that an attempt succeeds: `Fail` and `Handle` are alternatives of the
same fair action, and `Fault` is bounded by `MaxFaults`, without which a process
could crash for ever between a failure and its count. For the reports it assumes
weak fairness of each process's tick (every two seconds, and after a restart), of
each call of a worker (its queries return or throw), and of `GoStale`: time
passes, so a heartbeat nobody renews gets old. `Beat` is not fair. For the planning
day it assumes strong fairness of the job's closing (`AutoClose`, and its
`CloseDayCommit`): the job returns every day, and when a process starts it
catches up on the days that are due, so a closing that is kept out by a lock, or
rolled back, is tried until one commits; and weak fairness of the commit of a
closing by hand, which holds the day's lock until its statements return. No
caller is fair.

## Proved, checked, and left out

Proved for every instance: the theorems listed under `theorems`. Model-checked
only: liveness (`EveryChangeIsSettled`, `EveryRunIsAnswered`, `PastDaysSettle`), which
is out of the prover's reach. Every safety property of a passing run is a theorem.

`EveryRunIsAnswered` excepts the runs of `doc_heartbeat`, whose heartbeat row is
lost; it is what holds besides that defect. How far claims keep the order of
the requests is part of `ImplementsShelf` (the run has one report, so only the proof
says it of several): with `SKIP LOCKED` a claim passes over reports that claims in
flight hold, which is what `NextQueued` allows, so a report is overtaken only by as many
as the other slots could have claimed. That a claim which finds every queued report
held, by claims that are then rolled back, returns empty-handed is not modelled; the
next tick claims again.

`ToldInOrder` is claimed for one process, as DEC-019 describes the deployment;
with several, `SKIP LOCKED` lets a later change of the same visit overtake one
being handled. `NotifiedOnce` says "at most once per change": a row given up
after `MAX_ATTEMPTS` is never told, by design.

Not modelled: see the components with status `not_modelled`, and the `note` of those that
are modelled in part. Of the visit results, the delivery, the collection and what ends an
emergency are modelled; the others (demo, installation, activation but for the contract's
status, check-up, disconnection, retrieval, periodic maintenance, gift and card delivery,
transfer) reflect on tables of their own in a transaction of the same form. The visit
escalation job, the offline queue of the mobile clients, complaints, gift promises,
recruitment and the other request types are planned; clients, roles, catalogues, media,
reports and the web interface (most of the repository's lines) are record keeping,
queries and rendering, where a model would repeat the code. The legacy result
route that upserts a visit as `ended` (`routes/openTasks.ts`) and the statuses
`not_completed`, `postponed_*` and `needs_reschedule`, which no current writer
sets, are left out of the visit statuses.

### Other divergences met while modelling

No run is spent on these; the models follow the code.

* The escalate and archive routes carry lists of terminals without `completed`
  (`routes/serviceRequests.ts:1666`, `2192`), so a completed request can be
  escalated and cannot be archived; `maintenance.md:299` allows the escalation of a
  request that is not terminal only, and `completed` is terminal in `_shared.ts`.
* `promote` checks that the status is under review, not who claimed the request
  (`promoteService.ts:115`); `stateMachine.ts:23-24` wants every human terminal
  decision on a claimed request.
* `linkBeneficiary` does not validate again the problems of a request it moves to
  another device, as the comment at `problemsService.ts:169-170` expects.
* A problem added or restored after the hand-over stays off the task
  (`maintenance.md:926`).
* `decideVisitEvent` thanks again when a reopened visit is completed a second
  time, which its comment (`outboxConsumer.ts:55-59`) does not mention; hence
  `ThankedOncePerOpening` and not once.
* With two processes a completed report may be replaced by the snapshot of a
  worker that starts its transaction late, where `reporting-analytics.md` asks for
  an immutable result.
* A promote that passed the middleware ends a request that was frozen meanwhile
  (`promoteService.ts:99` does not read the escalation again), where `maintenance.md`
  (SR-ESC-02) and `stateMachine.ts:424` let nothing happen to a frozen request.
* An authorised split (`promoteService.ts:47-48`) still meets the unique index at
  `promoteService.ts:301` when the device has an active task, and aborts.
* A push is sent at most once (`outboxConsumer.ts:205`): a crash after the commit
  loses it, where `outboxConsumer.ts:15` and DEC-019 speak of at least once.
* The daily cap of messages is counted before the insert (`otpService.ts:171-172`):
  concurrent calls exceed it by their number less one, as `SendsBounded` says.
* A logout, or the detection of a reused token, revokes what its statement's snapshot
  saw (`appAuthService.ts:224`, `169-173`): a refresh in flight commits a successor
  outside it, so the family is not revoked as line 10 says.
* A login reads its account without a lock (`appAuthService.ts:118`). It may commit
  after a suspension, and its token is live again when the account is reactivated.
* Two requests for one number can be pending, filed by two handles at once
  (`accountRequestService.ts:462-475`), against the one-pending rule.
* A rotation and a suspension can wait for each other (token, then account; account,
  then token); PostgreSQL ends one of them, which is `Abort`.
* The closing of a day writes the tasks it chose by id alone
  (`planningDayCycle.ts:273-281`): a task booked meanwhile is back to waiting while
  its visit stands. Its choice (`266-270`) looks neither at the status of the link nor
  at its day.
* A task `in_scheduling` whose contact was closed before is not among those a closing
  releases.
* Two bookings of one task at two times both pass the check of its status
  (`visitBooking.ts:194-201`; the update at `430-437` is by id): the task is on two
  visits, where `telemarketing-appointments.md:308` refuses the second with 409.
* `book-visit` closes the contact after the booking has committed
  (`telemarketing.ts:2724`); a crash in between leaves it open on the list. That a
  closed contact is not booked is not asked again in `bookVisit`.
* `schedule-from-expected` asks neither for the do-not-contact mark nor for a closed
  contact; an instant visit reads the mark without a lock.
* Starting a visit is several autocommitted statements (`fieldVisits.ts:515-536`).
* A task that needed a follow-up, is booked directly and cancelled, waits as `open`.
* A visit that an operator closed is written over: `checkAndCompleteVisit` reads the
  status without a lock and updates by id (`visitCompletion.ts:52`, `110-118`), so of
  two concurrent completions the later one turns `closed` back into `completed`,
  where `fieldVisits.ts:2300-2301` knows only the reopen route.
* A completed report can be marked failed: the `DELETE` of the runtime row after the
  commit is inside the `try` (`tabularReportWorker.ts:124`), and the catch, which also
  serves superseded workers, updates whatever the status is;
  `reporting-analytics.md:730` has a run end once.
* A collection result that is sent twice is paid twice. A completed visit task takes
  another result (`visitTaskResultReflection.ts:4870`), and of two at once the second
  keeps the balance its statement started with (`4879`), so it may also be called full.
* A result sent again after the cancellation adds a payment without a movement, since
  the contract is no longer active (`financialMovements.ts:91`), and its follow-up task
  belongs to a cancelled contract.
* The cancellation leaves `remaining_balance` as it is: the list of what may be
  collected and the tasks made by hand (`openTasks.ts:1906`, `2205`) still offer the
  instalments it discounted.
* A cash contract with confirmed instalments left from an earlier draft does not
  complete when the cash is paid, and gets collection tasks for them on approval.
* A trial with instalments of an earlier draft that is settled in cash stays active
  though paid (the completion sees the old rows), and one whose instalments were
  collected cannot be settled at all (`ON DELETE RESTRICT`, migration 317).
* An edit that was checked before a rejection makes the discarded contract a draft
  again: the trigger of migration 390 looks for a device only.
* `PUT /contracts/:id` accepts `completed`, `cancelled` and `discarded` from a client
  other than the form (`contractLifecycle.ts:15-20`, which its test asserts,
  `contractLifecycle.test.ts:12-16`). An edit that found a draft may write them over a
  contract approved since, with another price: no trigger looks (migration 390 asks for
  `draft` only), and no movement, task or device follows. `contracts.ts:1489-1495` refuses
  to edit a contract after its approval.
* Saving a draft's payments deletes every entry of the contract, also one a visit
  collected for a task made by hand on the draft.
* `contracts.ts:3017` has no device delivered on a cancelled contract. A later edit of the
  result of a completed row, which the cancellation leaves alone (`3034-3035`), sets the
  device back to waiting (`visitTaskResultReflection.ts:2696-2708`), and the next result
  may deliver it: the guard asks for the device's status only.
* The cancellation of a contract cancels the rows of its tasks in a visit that is under way
  (`contracts.ts:3033-3037`). A cancelled row takes no result
  (`visitTaskResultReflection.ts:2512-2514`), completion asks for one of every row
  (`visitCompletion.ts:74-82`): the technician barred by `fieldVisits.ts:460-461` until he
  closes out that visit cannot.
* Two saves may miss each other: the check in a result's transaction does not see a survey,
  an end or another result not yet committed, nor do their checks see this one
  (`visitCompletion.ts:74-93`). The documented visit stays `ended` until somebody calls
  `POST /:id/complete`, where DEC-004:42 and `visitCompletion.ts:8-9` have it complete by
  itself.
* Undoing a pull reads the result without a lock and deletes the row by id
  (`fieldVisits.ts:2673-2702`); a result that commits in between goes with it
  (`001_initial_schema.sql:9523-9524`), where DEC-010 (D-PB8) allows the undo only while
  there is none.
* The update that completes a visit is by id (`visitCompletion.ts:110-118`), and so is the
  one that reopens it (`fieldVisits.ts:3157-3166`): a late one of either turns a closed or
  completed visit back, which `VisitPath` allows and DEC-004 does not name.
* A pull that was checked before the visit ended adds its row afterwards, also to a
  completed visit, which then has a task without a result (`fieldVisits.ts:2512`).
* Two pulls of one waiting task both insert a row (`fieldVisits.ts:2512-2538`); only the
  task's update is conditional.
* `StartTasks` and `EndTasks` follow also if the visit's own update matched nothing
  (`fieldVisits.ts:526-536`): the start of a visit cancelled meanwhile puts a task that is
  booked on another visit in execution.
* A task in execution or ended can be booked again: `LOCKED_TASK_STATUSES`
  (`visitBooking.ts:177-182`) lists neither.
* Undoing a pull gives back a task scheduled by somebody else since, for the condition
  (`fieldVisits.ts:2709`) is the status alone.
* `openTasks.ts:3736` sets a contract active whatever its status; that legacy route is
  not modelled.
