----------------------------- MODULE DeliveryVisits -----------------------------
(***************************************************************************)
(* The delivery of one contract device: its delivery tasks, the field       *)
(* visits that carry them, the results the team records, and the            *)
(* suspension of the delivery.                                              *)
(*                                                                          *)
(* Starting, ending, surveying, completing and reopening a visit are        *)
(* handlers without a transaction: every statement that writes is a step,   *)
(* and other calls run between them.  Booking, pulling, undoing a pull and  *)
(* creating a task read without a lock and write in a step of their own.    *)
(* Recording a result is one transaction whose writes, held back until it   *)
(* commits, keep the rows it changed locked.  Handlers that lock what they  *)
(* read are one step.                                                       *)
(*                                                                          *)
(* PostgreSQL's part: FOR UPDATE on the device waits for the transactions   *)
(* that changed it and for the deliveries they touched; the trigger on      *)
(* open_tasks takes FOR KEY SHARE on the device, so it waits for a FOR      *)
(* UPDATE only; an insert into the index of active deliveries waits for the *)
(* entries of transactions that have not committed.  A statement the        *)
(* trigger or the index refuses ends its call (Abort), as does a guard.     *)
(*                                                                          *)
(* The form that edits a device, where an administrator may set its status  *)
(* by hand, is left out.                                                    *)
(***************************************************************************)
EXTENDS Naturals, Sequences, FiniteSets

CONSTANTS
    Calls,                          \* requests being handled at a time
    MaxTasks, MaxVisits, MaxRows    \* bounds on what is created

ASSUME DeliveryAssumption ==
    MaxTasks \in Nat \ {0} /\ MaxVisits \in Nat /\ MaxRows \in Nat

VARIABLES
    contract,   \* is contracts.status active
    device,     \* installed_devices.status
    tasks,      \* open_tasks of type device_delivery, by id
    visits,     \* field_visits of the client, by id
    rows,       \* visit_tasks, by id
    call        \* what each call in flight has read

vars == <<contract, device, tasks, visits, rows, call>>

-----------------------------------------------------------------------------

DeviceStates ==
    {"pending_delivery", "delivery_suspended", "delivered", "contract_cancelled"}

WaitingStates == {"open", "needs_follow_up"}
ActiveStates == WaitingStates \cup {"scheduled", "in_execution", "ended"}

\* waiting: last_waiting_status, "none" if null.
Task == [status : ActiveStates \cup {"completed", "cancelled"},
         waiting : WaitingStates \cup {"none"}]

\* survey: visit_surveys has its row, filled or skipped.
Visit == [status : {"scheduled", "in_progress", "ended", "completed", "closed",
                    "cancelled"},
          survey : BOOLEAN]

\* pulled: added_via; result: visit_task_results has its row; gone: deleted.
Row == [visit : Nat, task : Nat,
        status : {"pending", "completed", "cancelled", "closed"},
        pulled : BOOLEAN, result : BOOLEAN, gone : BOOLEAN]

\* What a final_decision means: delivered_successfully, the three that call for
\* another visit, and the two that give up.
Outcomes == {"delivered", "postponed", "refused"}

Idle == [op |-> "idle"]
Call ==
    {Idle, [op |-> "create"]}
      \cup [op : {"book"}, task : Nat]
      \cup [op : {"start", "started", "end", "ended", "check", "promote", "reopen",
                  "reopened"}, visit : Nat]
      \cup [op : {"pull"}, visit : Nat, task : Nat]
      \cup [op : {"undo"}, row : Nat]
      \cup [op : {"result"}, row : Nat, outcome : Outcomes]
      \cup [op : {"eligible"}, row : Nat, outcome : {"delivered"}]
      \cup [op : {"reflect"}, row : Nat, outcome : Outcomes, promote : BOOLEAN]

TypeOK ==
    /\ contract \in BOOLEAN
    /\ device \in DeviceStates
    /\ tasks \in Seq(Task) /\ Len(tasks) <= MaxTasks
    /\ visits \in Seq(Visit) /\ Len(visits) <= MaxVisits
    /\ rows \in Seq(Row) /\ Len(rows) <= MaxRows
    /\ \A r \in DOMAIN rows : /\ rows[r].visit \in DOMAIN visits
                              /\ rows[r].task \in DOMAIN tasks
    /\ call \in [Calls -> Call]

OpenTask == [status |-> "open", waiting |-> "none"]

\* The contract is approved: its device waits for delivery, with a task.
Init ==
    /\ contract = TRUE
    /\ device = "pending_delivery"
    /\ tasks = <<OpenTask>>
    /\ visits = <<>>
    /\ rows = <<>>
    /\ call = [c \in Calls |-> Idle]

-----------------------------------------------------------------------------
(* Rows, locks, the trigger and the index.                                 *)

Active(t) == tasks[t].status \in ActiveStates
RowsOf(v) == {r \in DOMAIN rows : rows[r].visit = v /\ ~rows[r].gone}
TasksOf(v) == {rows[r].task : r \in RowsOf(v)}
Decided(v) == \A r \in RowsOf(v) : rows[r].result

Reflecting(c) == call[c].op = "reflect"
\* Variant: the eligibility guard reads the device without FOR UPDATE.
UnlockedDelivering(c) == Reflecting(c) /\ call[c].outcome = "delivered"

Delivering(c) ==
    call[c].op \in {"eligible", "reflect"} /\ call[c].outcome = "delivered"

\* Nobody but c has changed the device, or locked it for a delivery.
DeviceFree(c) == \A d \in Calls \ {c} : ~Reflecting(d) /\ ~Delivering(d)
NobodyHolds == \A d \in Calls : ~Reflecting(d) /\ ~Delivering(d)
\* The trigger can read the device.
DeviceReadable == \A d \in Calls : ~Delivering(d)
RowFree(r) == \A d \in Calls : Reflecting(d) => call[d].row # r
TaskFree(t) == \A d \in Calls : Reflecting(d) => rows[call[d].row].task # t
VisitFree(v) ==
    \A d \in Calls : Reflecting(d) /\ call[d].promote => rows[call[d].row].visit # v

\* Variant: the trigger is BEFORE INSERT only.
InsertOnlyTrigger(t) ==
    DeviceReadable /\ (t \in DOMAIN tasks \/ device # "delivery_suspended")

\* guard_suspended_device_delivery_task lets a task become or stay active.
TriggerAdmits(t) == DeviceReadable /\ device # "delivery_suspended"

\* open_tasks_unique_active_device_delivery_per_device has no other entry, and
\* none that a transaction may yet leave.
IndexAdmits(t) ==
    /\ \A u \in DOMAIN tasks \ {t} : ~Active(u)
    /\ \A d \in Calls : Reflecting(d) /\ rows[call[d].row].task # t
                          => call[d].outcome # "postponed"

Begin(c, record) == call[c] = Idle /\ call' = [call EXCEPT ![c] = record]
Continue(c, record) == call' = [call EXCEPT ![c] = record]
End(c) == call' = [call EXCEPT ![c] = Idle]

\* COALESCE(last_waiting_status, 'open').
Back(task) ==
    [task EXCEPT !.status = IF task.waiting = "none" THEN "open" ELSE task.waiting]

-----------------------------------------------------------------------------
(* The delivery task.                                                      *)

\* POST /open-tasks reads the device and its active tasks, then inserts.
CreateRead(c) ==
    /\ device = "pending_delivery"
    /\ \A t \in DOMAIN tasks : ~Active(t)
    /\ Begin(c, [op |-> "create"])
    /\ UNCHANGED <<contract, device, tasks, visits, rows>>

CreateWrite(c) ==
    LET t == Len(tasks) + 1 IN
    /\ call[c].op = "create"
    /\ t <= MaxTasks
    /\ TriggerAdmits(t)
    /\ IndexAdmits(t)
    /\ tasks' = Append(tasks, OpenTask)
    /\ End(c)
    /\ UNCHANGED <<contract, device, visits, rows>>

\* Cancelling a task nobody has booked.
CancelTask(t) ==
    /\ tasks[t].status \in WaitingStates
    /\ TaskFree(t)
    /\ \A r \in DOMAIN rows :
         rows[r].task = t /\ ~rows[r].gone /\ ~rows[r].result
           => visits[rows[r].visit].status \notin {"scheduled", "in_progress", "ended"}
    /\ tasks' = [tasks EXCEPT ![t].status = "cancelled"]
    /\ UNCHANGED <<contract, device, visits, rows, call>>

-----------------------------------------------------------------------------
(* Booking, starting, ending and cancelling a visit.                       *)

NewVisit(status) ==
    /\ Len(visits) < MaxVisits
    /\ visits' = Append(visits, [status |-> status, survey |-> FALSE])

NewRow(v, t, pulled) ==
    /\ Len(rows) < MaxRows
    /\ rows' = Append(rows, [visit |-> v, task |-> t, status |-> "pending",
                             pulled |-> pulled, result |-> FALSE, gone |-> FALSE])

BookRead(c, t) ==
    /\ tasks[t].status \notin {"scheduled", "completed", "cancelled"}
    /\ Begin(c, [op |-> "book", task |-> t])
    /\ UNCHANGED <<contract, device, tasks, visits, rows>>

\* The task is scheduled whatever has become of it.
BookWrite(c) ==
    LET t == call[c].task IN
    /\ call[c].op = "book"
    /\ TaskFree(t)
    /\ TriggerAdmits(t)
    /\ IndexAdmits(t)
    /\ NewVisit("scheduled")
    /\ NewRow(Len(visits) + 1, t, FALSE)
    /\ tasks' = [tasks EXCEPT ![t].status = "scheduled"]
    /\ End(c)
    /\ UNCHANGED <<contract, device>>

\* A visit the team opens on the spot, without tasks.
CreateInstantVisit ==
    /\ NewVisit("in_progress")
    /\ UNCHANGED <<contract, device, tasks, rows, call>>

StartRead(c, v) ==
    /\ visits[v].status = "scheduled"
    /\ Begin(c, [op |-> "start", visit |-> v])
    /\ UNCHANGED <<contract, device, tasks, visits, rows>>

\* Variant: the update forgets AND status = 'scheduled'.
UnguardedStart(c) ==
    LET v == call[c].visit IN
    /\ call[c].op = "start"
    /\ visits' = [visits EXCEPT ![v].status = "in_progress"]
    /\ Continue(c, [op |-> "started", visit |-> v])
    /\ UNCHANGED <<contract, device, tasks, rows>>

StartVisit(c) ==
    LET v == call[c].visit IN
    /\ call[c].op = "start"
    /\ visits' = IF visits[v].status = "scheduled"
                 THEN [visits EXCEPT ![v].status = "in_progress"] ELSE visits
    /\ Continue(c, [op |-> "started", visit |-> v])
    /\ UNCHANGED <<contract, device, tasks, rows>>

\* The tasks of visit v that are in status from pass to status to.
Propagate(v, from, to) ==
    LET moved == {t \in TasksOf(v) : tasks[t].status = from} IN
    /\ \A t \in moved : TaskFree(t) /\ TriggerAdmits(t)
    /\ tasks' = [t \in DOMAIN tasks |->
                   IF t \in moved THEN [tasks[t] EXCEPT !.status = to] ELSE tasks[t]]

\* It does not ask whether the visit was started.
StartTasks(c) ==
    /\ call[c].op = "started"
    /\ Propagate(call[c].visit, "scheduled", "in_execution")
    /\ End(c)
    /\ UNCHANGED <<contract, device, visits, rows>>

EndRead(c, v) ==
    /\ visits[v].status = "in_progress"
    /\ Begin(c, [op |-> "end", visit |-> v])
    /\ UNCHANGED <<contract, device, tasks, visits, rows>>

EndVisit(c) ==
    LET v == call[c].visit IN
    /\ call[c].op = "end"
    /\ visits' = IF visits[v].status = "in_progress"
                 THEN [visits EXCEPT ![v].status = "ended"] ELSE visits
    /\ Continue(c, [op |-> "ended", visit |-> v])
    /\ UNCHANGED <<contract, device, tasks, rows>>

EndTasks(c) ==
    /\ call[c].op = "ended"
    /\ Propagate(call[c].visit, "in_execution", "ended")
    /\ Continue(c, [op |-> "check", visit |-> call[c].visit])
    /\ UNCHANGED <<contract, device, visits, rows>>

CancelRows(cancelled) ==
    rows' = [r \in DOMAIN rows |->
               IF r \in cancelled THEN [rows[r] EXCEPT !.status = "cancelled"]
               ELSE rows[r]]

CancelVisit(v) ==
    LET back == {t \in TasksOf(v) : tasks[t].status = "scheduled"} IN
    /\ visits[v].status = "scheduled"
    /\ \A t \in back : TaskFree(t) /\ TriggerAdmits(t)
    /\ \A r \in RowsOf(v) : RowFree(r)
    /\ tasks' = [t \in DOMAIN tasks |-> IF t \in back THEN Back(tasks[t]) ELSE tasks[t]]
    /\ CancelRows({r \in RowsOf(v) : rows[r].status = "pending"})
    /\ visits' = [visits EXCEPT ![v].status = "cancelled"]
    /\ UNCHANGED <<contract, device, call>>

-----------------------------------------------------------------------------
(* Pulling a waiting task into a visit in progress, and undoing it.        *)

PullRead(c, v, t) ==
    /\ visits[v].status = "in_progress"
    /\ tasks[t].status \in WaitingStates
    /\ Begin(c, [op |-> "pull", visit |-> v, task |-> t])
    /\ UNCHANGED <<contract, device, tasks, visits, rows>>

\* The row is inserted even if the task waits no more.
PullWrite(c) ==
    LET t == call[c].task IN
    /\ call[c].op = "pull"
    /\ TaskFree(t)
    /\ NewRow(call[c].visit, t, TRUE)
    /\ IF tasks[t].status \in WaitingStates
       THEN /\ TriggerAdmits(t)
            /\ tasks' = [tasks EXCEPT ![t].waiting = tasks[t].status,
                                      ![t].status = "scheduled"]
       ELSE tasks' = tasks
    /\ End(c)
    /\ UNCHANGED <<contract, device, visits>>

UndoRead(c, r) ==
    /\ ~rows[r].gone
    /\ visits[rows[r].visit].status = "in_progress"
    /\ rows[r].pulled
    /\ ~rows[r].result
    /\ Begin(c, [op |-> "undo", row |-> r])
    /\ UNCHANGED <<contract, device, tasks, visits, rows>>

\* The deletion takes the result of the row with it.
UndoWrite(c) ==
    LET r == call[c].row
        t == rows[r].task IN
    /\ call[c].op = "undo"
    /\ RowFree(r)
    /\ TaskFree(t)
    /\ rows' = [rows EXCEPT ![r].gone = TRUE]
    /\ IF tasks[t].status = "scheduled"
       THEN TriggerAdmits(t) /\ tasks' = [tasks EXCEPT ![t] = Back(@)]
       ELSE tasks' = tasks
    /\ End(c)
    /\ UNCHANGED <<contract, device, visits>>

-----------------------------------------------------------------------------
(* Results, the survey, and the completion they call for.                  *)

ResultRead(c, r, outcome) ==
    /\ ~rows[r].gone
    /\ visits[rows[r].visit].status \in {"in_progress", "ended", "completed"}
    /\ rows[r].status \in {"pending", "completed"}
    /\ Begin(c, [op |-> "result", row |-> r, outcome |-> outcome])
    /\ UNCHANGED <<contract, device, tasks, visits, rows>>

\* assertCanRecordSuccessfulDeviceTaskResult locks the device of a delivery.
Eligible(c) ==
    /\ call[c].op = "result"
    /\ call[c].outcome = "delivered"
    /\ DeviceFree(c)
    /\ device = "pending_delivery"
    /\ Continue(c, [call[c] EXCEPT !.op = "eligible"])
    /\ UNCHANGED <<contract, device, tasks, visits, rows>>

\* checkAndCompleteVisit within the transaction of a result: it sees its own
\* result, and of the others those that have committed.
WouldComplete(r) ==
    LET v == rows[r].visit IN
    /\ visits[v].status = "ended"
    /\ \A s \in RowsOf(v) \ {r} : rows[s].result
    /\ visits[v].survey

\* The writes of a result, which are seen when it commits.
Reflect(c) ==
    LET r == call[c].row
        t == rows[r].task
        o == call[c].outcome IN
    /\ \/ call[c].op = "eligible"
       \/ call[c].op = "result" /\ o # "delivered"
    /\ DeviceFree(c)
    /\ ~rows[r].gone
    /\ o = "postponed" => TriggerAdmits(t) /\ IndexAdmits(t)
    /\ Continue(c, [op |-> "reflect", row |-> r, outcome |-> o,
                    promote |-> WouldComplete(r)])
    /\ UNCHANGED <<contract, device, tasks, visits, rows>>

TaskAfter(task, outcome) ==
    LET waits == task.status \in WaitingStates IN
    CASE outcome = "delivered" ->
           [status |-> "completed",
            waiting |-> IF waits THEN task.status ELSE task.waiting]
      [] outcome = "refused" -> [task EXCEPT !.status = "cancelled"]
      [] outcome = "postponed" ->
           [status |-> "needs_follow_up",
            waiting |-> IF waits THEN task.status ELSE Back(task).status]

Commit(c) ==
    LET r == call[c].row
        v == rows[r].visit
        o == call[c].outcome IN
    /\ call[c].op = "reflect"
    /\ rows' = [rows EXCEPT ![r].result = TRUE,
                            ![r].status = IF o = "refused" THEN "cancelled" ELSE "completed"]
    /\ tasks' = [tasks EXCEPT ![rows[r].task] = TaskAfter(@, o)]
    /\ device' = IF o = "delivered" THEN "delivered" ELSE "pending_delivery"
    /\ visits' = IF call[c].promote
                 THEN [visits EXCEPT ![v].status = "completed"] ELSE visits
    /\ End(c)
    /\ UNCHANGED contract

\* POST /:id/survey and /:id/survey/skip.
SaveSurvey(c, v) ==
    /\ visits[v].status \in {"in_progress", "ended"}
    /\ visits' = [visits EXCEPT ![v].survey = TRUE]
    /\ Begin(c, [op |-> "check", visit |-> v])
    /\ UNCHANGED <<contract, device, tasks, rows>>

\* POST /:id/complete.
CompleteVisit(c, v) ==
    /\ Begin(c, [op |-> "check", visit |-> v])
    /\ UNCHANGED <<contract, device, tasks, visits, rows>>

\* Variant: the survey is not asked for.
CheckTasksOnly(c) ==
    LET v == call[c].visit IN
    /\ call[c].op = "check"
    /\ IF visits[v].status = "ended" /\ Decided(v)
       THEN Continue(c, [op |-> "promote", visit |-> v]) ELSE End(c)
    /\ UNCHANGED <<contract, device, tasks, visits, rows>>

\* checkAndCompleteVisit in a transaction of its own: its reads, and its update.
CheckVisit(c) ==
    LET v == call[c].visit IN
    /\ call[c].op = "check"
    /\ IF visits[v].status = "ended" /\ Decided(v) /\ visits[v].survey
       THEN Continue(c, [op |-> "promote", visit |-> v]) ELSE End(c)
    /\ UNCHANGED <<contract, device, tasks, visits, rows>>

PromoteVisit(c) ==
    /\ call[c].op = "promote"
    /\ visits' = [visits EXCEPT ![call[c].visit].status = "completed"]
    /\ End(c)
    /\ UNCHANGED <<contract, device, tasks, rows>>

CloseVisit(v) ==
    /\ visits[v].status = "completed"
    /\ RowsOf(v) # {}
    /\ Decided(v)
    /\ \A r \in RowsOf(v) : RowFree(r)
    /\ rows' = [r \in DOMAIN rows |->
                  IF r \in RowsOf(v) THEN [rows[r] EXCEPT !.status = "closed"]
                  ELSE rows[r]]
    /\ visits' = [visits EXCEPT ![v].status = "closed"]
    /\ UNCHANGED <<contract, device, tasks, call>>

ReopenRead(c, v) ==
    /\ visits[v].status = "closed"
    /\ Begin(c, [op |-> "reopen", visit |-> v])
    /\ UNCHANGED <<contract, device, tasks, visits, rows>>

ReopenVisit(c) ==
    LET v == call[c].visit IN
    /\ call[c].op = "reopen"
    /\ VisitFree(v)
    /\ visits' = [visits EXCEPT ![v].status = "ended"]
    /\ Continue(c, [op |-> "reopened", visit |-> v])
    /\ UNCHANGED <<contract, device, tasks, rows>>

ReopenRows(c) ==
    LET closed == {r \in RowsOf(call[c].visit) : rows[r].status = "closed"} IN
    /\ call[c].op = "reopened"
    /\ \A r \in closed : RowFree(r)
    /\ rows' = [r \in DOMAIN rows |->
                  IF r \in closed THEN [rows[r] EXCEPT !.status = "completed"]
                  ELSE rows[r]]
    /\ End(c)
    /\ UNCHANGED <<contract, device, tasks, visits>>

-----------------------------------------------------------------------------
(* The suspension of the delivery, and the end of the contract.            *)

Suspend ==
    LET work == {t \in DOMAIN tasks : Active(t)}
        carrying == {rows[r].visit : r \in {s \in DOMAIN rows :
                                              rows[s].task \in work /\ ~rows[s].gone}}
        unstarted == {v \in carrying : visits[v].status = "scheduled"} IN
    /\ NobodyHolds
    /\ device = "pending_delivery"
    /\ \A t \in work : tasks[t].status \notin {"in_execution", "ended"}
    /\ \A v \in carrying : visits[v].status \notin {"in_progress", "ended"}
    /\ CancelRows({r \in DOMAIN rows : /\ rows[r].visit \in unstarted
                                       /\ ~rows[r].gone
                                       /\ rows[r].status = "pending"})
    /\ visits' = [v \in DOMAIN visits |->
                    IF v \in unstarted THEN [visits[v] EXCEPT !.status = "cancelled"]
                    ELSE visits[v]]
    /\ tasks' = [t \in DOMAIN tasks |->
                   IF t \in work THEN [tasks[t] EXCEPT !.status = "cancelled"]
                   ELSE tasks[t]]
    /\ device' = "delivery_suspended"
    /\ UNCHANGED <<contract, call>>

Resume ==
    /\ NobodyHolds
    /\ device = "delivery_suspended"
    /\ device' = "pending_delivery"
    /\ UNCHANGED <<contract, tasks, visits, rows, call>>

\* The visits stay as they are.
CancelContract ==
    LET work == {t \in DOMAIN tasks : Active(t)} IN
    /\ contract
    /\ NobodyHolds
    /\ contract' = FALSE
    /\ tasks' = [t \in DOMAIN tasks |->
                   IF t \in work THEN [tasks[t] EXCEPT !.status = "cancelled"]
                   ELSE tasks[t]]
    /\ CancelRows({r \in DOMAIN rows : /\ rows[r].task \in work
                                       /\ ~rows[r].gone
                                       /\ rows[r].status # "completed"})
    /\ device' = "contract_cancelled"
    /\ UNCHANGED <<visits, call>>

\* A call is refused, or its process dies, before its next statement.  What
\* follows a save is a check, and that is let run.
Abort(c) ==
    /\ call[c].op \notin {"idle", "check", "promote"}
    /\ End(c)
    /\ UNCHANGED <<contract, device, tasks, visits, rows>>

-----------------------------------------------------------------------------

Next ==
    \/ \E c \in Calls : CreateRead(c) \/ CreateWrite(c) \/ BookWrite(c)
    \/ \E c \in Calls, t \in DOMAIN tasks : BookRead(c, t)
    \/ \E t \in DOMAIN tasks : CancelTask(t)
    \/ CreateInstantVisit
    \/ \E c \in Calls, v \in DOMAIN visits : StartRead(c, v) \/ EndRead(c, v)
    \/ \E c \in Calls, v \in DOMAIN visits : ReopenRead(c, v)
    \/ \E c \in Calls : ReopenVisit(c) \/ ReopenRows(c)
    \/ \E c \in Calls : StartVisit(c) \/ StartTasks(c) \/ EndVisit(c) \/ EndTasks(c)
    \/ \E v \in DOMAIN visits : CancelVisit(v) \/ CloseVisit(v)
    \/ \E c \in Calls, v \in DOMAIN visits, t \in DOMAIN tasks : PullRead(c, v, t)
    \/ \E c \in Calls, r \in DOMAIN rows : UndoRead(c, r)
    \/ \E c \in Calls : PullWrite(c) \/ UndoWrite(c)
    \/ \E c \in Calls, r \in DOMAIN rows, o \in Outcomes : ResultRead(c, r, o)
    \/ \E c \in Calls : Eligible(c) \/ Reflect(c) \/ Commit(c)
    \/ \E c \in Calls, v \in DOMAIN visits : SaveSurvey(c, v) \/ CompleteVisit(c, v)
    \/ \E c \in Calls : CheckVisit(c) \/ PromoteVisit(c) \/ Abort(c)
    \/ Suspend \/ Resume \/ CancelContract

Spec == Init /\ [][Next]_vars

-----------------------------------------------------------------------------

\* A device whose delivery is suspended has no active delivery task, whatever
\* bookings, pulls, results and cancellations were under way when it was.
SuspendedIdle ==
    device = "delivery_suspended" => \A t \in DOMAIN tasks : ~Active(t)

\* A completed or closed visit has its survey and a result for every task it
\* was booked with.  (A pull that began before the visit ended may still add a
\* task to it.)
CompletedDocumented ==
    \A v \in DOMAIN visits :
        visits[v].status \in {"completed", "closed"} =>
          /\ visits[v].survey
          /\ \A r \in RowsOf(v) : ~rows[r].pulled => rows[r].result

\* No call, however late, takes a visit off its path: a cancelled visit stays
\* cancelled, a visit is ended before it is completed.  A check that found an
\* ended visit documented may undo the closing that came before its update, and
\* a second reopening the completion that followed the first.
VisitPath ==
    {<<"scheduled", "in_progress">>, <<"scheduled", "cancelled">>,
     <<"in_progress", "ended">>, <<"ended", "completed">>,
     <<"completed", "closed">>, <<"closed", "ended">>, <<"closed", "completed">>,
     <<"completed", "ended">>}
VisitsKeepToPath ==
    [][\A v \in DOMAIN visits :
         visits'[v].status # visits[v].status
           => <<visits[v].status, visits'[v].status>> \in VisitPath]_vars

\* A device is delivered only while it waits for delivery: neither suspended nor
\* taken back with its contract since the team said so.
DeliveredWhileAwaited ==
    [][device' = "delivered" /\ device # "delivered" => device = "pending_delivery"]_vars

-----------------------------------------------------------------------------
(* What the documentation says and the code does not keep.                 *)

\* docs/constitution/features/tasks/device-delivery.md: the device moves between
\* waiting and suspended from its details only, by a permission of its own.
OnlyResumeEndsSuspension ==
    [][device = "delivery_suspended" /\ device' = "pending_delivery" => Resume]_vars
=============================================================================
