-------------------------- MODULE NotificationOutbox --------------------------
(***************************************************************************)
(* The notification outbox for field visits.  A trigger inside the         *)
(* writer's transaction captures every change of a visit's status; one or  *)
(* more worker processes drain the captured rows, write the customers'     *)
(* notifications in the transaction that marks the row processed, and push *)
(* to the phones after the commit.                                         *)
(*                                                                         *)
(* Each database transaction is one step.  Not atomic, and so two steps:   *)
(* completing and reopening a visit, which read its status without a lock  *)
(* and write it later; a failed attempt, rolled back first and counted in  *)
(* a transaction of its own; the pushes, sent one by one after the commit. *)
(***************************************************************************)
EXTENDS Naturals, Sequences, FiniteSets

CONSTANTS
    Visits,         \* ids of field_visits rows
    Calls,          \* concurrent requests to complete or reopen a visit
    Workers,        \* API processes, each running the outbox job
    Accounts,       \* active app accounts of the customer, with a phone
    NoVisit,        \* no visit: the value of an idle call
    MaxAttempts,    \* MAX_ATTEMPTS
    MaxRows,        \* bound on captured changes
    MaxFaults       \* bound on crashes and lost connections

ASSUME OutboxAssumption ==
    /\ NoVisit \notin Visits
    /\ IsFiniteSet(Workers)
    /\ MaxAttempts \in Nat \ {0}
    /\ MaxRows \in Nat
    /\ MaxFaults \in Nat

VARIABLES
    visit,      \* field_visits.status, "none" before the row exists
    checked,    \* per call: the visit and the status it is about to write
    outbox,     \* app_notification_outbox, in id order
    told,       \* per row and account: app_notifications rows committed
    pushed,     \* per row and account: pushes handed to the sender
    worker,     \* per process: its phase, row and pushes still to send
    faults      \* crashes and lost connections so far

vars == <<visit, checked, outbox, told, pushed, worker, faults>>

-----------------------------------------------------------------------------

\* VISIT_DONE: the two internal steps of one fact the customer sees.
Done == {"completed", "closed"}
VisitStatuses == {"scheduled", "in_progress", "ended", "cancelled"} \cup Done

Ids == 1 .. MaxRows

OutboxRow ==
    [visit    : Visits,
     from     : VisitStatuses \cup {"none"},
     to       : VisitStatuses,
     handled  : BOOLEAN,
     attempts : Nat]

Idle == [phase |-> "idle", row |-> 0, due |-> {}]
NoCall == [visit |-> NoVisit, to |-> "none"]

\* The shape of the tables and of the processes' memory.
TypeOK ==
    /\ visit \in [Visits -> VisitStatuses \cup {"none"}]
    /\ checked \in [Calls -> [visit : Visits \cup {NoVisit},
                              to : {"completed", "ended", "none"}]]
    /\ outbox \in Seq(OutboxRow)
    /\ Len(outbox) <= MaxRows
    /\ told \in [Ids \X Accounts -> Nat]
    /\ pushed \in [Ids \X Accounts -> Nat]
    /\ worker \in [Workers -> [phase : {"idle", "claimed", "failed", "dispatch"},
                               row : 0 .. Len(outbox),
                               due : SUBSET Accounts]]
    /\ faults \in 0 .. MaxFaults

Init ==
    /\ visit = [v \in Visits |-> "none"]
    /\ checked = [c \in Calls |-> NoCall]
    /\ outbox = <<>>
    /\ told = [n \in Ids \X Accounts |-> 0]
    /\ pushed = [n \in Ids \X Accounts |-> 0]
    /\ worker = [w \in Workers |-> Idle]
    /\ faults = 0

-----------------------------------------------------------------------------
(* The writers of field_visits.status *)

\* Any UPDATE of the status with its trigger, which skips a write that changes
\* nothing (IS DISTINCT FROM).
SetStatus(v, to) ==
    /\ Len(outbox) < MaxRows
    /\ visit' = [visit EXCEPT ![v] = to]
    /\ outbox' = IF visit[v] = to
                 THEN outbox
                 ELSE Append(outbox, [visit |-> v, from |-> visit[v], to |-> to,
                                      handled |-> FALSE, attempts |-> 0])
    /\ UNCHANGED <<told, pushed, worker, faults>>

\* A visit is booked, or starts on the spot; the INSERT trigger captures it too.
Book(v) ==
    /\ visit[v] = "none"
    /\ \E status \in {"scheduled", "in_progress"} : SetStatus(v, status)
    /\ UNCHANGED checked

StartVisit(v) == visit[v] = "scheduled" /\ SetStatus(v, "in_progress") /\ UNCHANGED checked

EndVisit(v) == visit[v] = "in_progress" /\ SetStatus(v, "ended") /\ UNCHANGED checked

\* Cancelled by an operator, or because the device's delivery was suspended.
CancelVisit(v) == visit[v] = "scheduled" /\ SetStatus(v, "cancelled") /\ UNCHANGED checked

CloseVisit(v) == visit[v] = "completed" /\ SetStatus(v, "closed") /\ UNCHANGED checked

\* Variant: the call does not ask where the visit stands.
CheckAnywhere(c, v, from, to) ==
    /\ checked[c] = NoCall
    /\ checked' = [checked EXCEPT ![c] = [visit |-> v, to |-> to]]
    /\ UNCHANGED <<visit, outbox, told, pushed, worker, faults>>

Check(c, v, from, to) ==
    /\ checked[c] = NoCall
    /\ visit[v] = from
    /\ checked' = [checked EXCEPT ![c] = [visit |-> v, to |-> to]]
    /\ UNCHANGED <<visit, outbox, told, pushed, worker, faults>>

\* checkAndCompleteVisit: a plain SELECT finds the visit ended and documented.
CheckCompletion(c, v) == Check(c, v, "ended", "completed")

\* The reopen route: a plain SELECT finds the visit closed.
CheckReopening(c, v) == Check(c, v, "closed", "ended")

\* The UPDATE of either: WHERE id = $1, whatever the status is by now.
WriteChecked(c) ==
    /\ checked[c] # NoCall
    /\ SetStatus(checked[c].visit, checked[c].to)
    /\ checked' = [checked EXCEPT ![c] = NoCall]

\* A guard fails after the SELECT, or the process dies.
Abandon(c) ==
    /\ checked[c] # NoCall
    /\ checked' = [checked EXCEPT ![c] = NoCall]
    /\ UNCHANGED <<visit, outbox, told, pushed, worker, faults>>

-----------------------------------------------------------------------------
(* Draining *)

\* Variant: every entry into the pair is a completion.
EveryDoneIsNews(from, to) ==
    CASE to \in {"scheduled", "cancelled"} -> to
      [] to \in Done /\ from \in VisitStatuses -> "completed"
      [] OTHER -> "silent"

decideVisitEvent(from, to) ==
    CASE to \in {"scheduled", "cancelled"} -> to
      [] to \in Done /\ from \notin Done -> "completed"
      [] OTHER -> "silent"

\* Variants: SELECT without FOR UPDATE; one attempt too many; newest first; the
\* failure is counted inside the transaction that rolls back.
NoRowLock(i) == i \in DOMAIN outbox
OneMoreAttempt(i) == ~outbox[i].handled /\ outbox[i].attempts <= MaxAttempts
Newest(rows) == CHOOSE i \in rows : \A j \in rows : j <= i
CountRolledBack(i) == outbox[i].attempts

Unlocked(i) == \A w \in Workers : ~(worker[w].phase = "claimed" /\ worker[w].row = i)

Pending(i) == ~outbox[i].handled /\ outbox[i].attempts < MaxAttempts

Oldest(rows) == CHOOSE i \in rows : \A j \in rows : i <= j

Claimable == {i \in DOMAIN outbox : Pending(i) /\ Unlocked(i)}

\* ORDER BY id LIMIT 1 FOR UPDATE SKIP LOCKED.
Claim(w) ==
    /\ worker[w].phase = "idle"
    /\ Claimable # {}
    /\ worker' = [worker EXCEPT ![w] = [phase |-> "claimed", row |-> Oldest(Claimable),
                                        due |-> {}]]
    /\ UNCHANGED <<visit, checked, outbox, told, pushed, faults>>

\* The queue is empty: the drain rolls back and waits for the next tick.
NothingToDrain(w) ==
    /\ worker[w].phase = "idle"
    /\ Claimable = {}
    /\ UNCHANGED vars

\* processOutboxRow and the mark, committed together.  Which accounts are linked
\* and active is read now; a silent event reaches none, and neither does one
\* whose type is switched off or whose visit has no customer.
Handle(w, recipients) ==
    LET i == worker[w].row
    IN
    /\ worker[w].phase = "claimed"
    /\ decideVisitEvent(outbox[i].from, outbox[i].to) = "silent" => recipients = {}
    /\ outbox' = [outbox EXCEPT ![i].handled = TRUE]
    /\ told' = [n \in Ids \X Accounts |->
                  IF n[1] = i /\ n[2] \in recipients THEN told[n] + 1 ELSE told[n]]
    /\ worker' = [worker EXCEPT ![w] = IF recipients = {}
                                       THEN Idle
                                       ELSE [phase |-> "dispatch", row |-> i,
                                             due |-> recipients]]
    /\ UNCHANGED <<visit, checked, pushed, faults>>

\* A query fails; ROLLBACK gives the row lock back.
Fail(w) ==
    /\ worker[w].phase = "claimed"
    /\ worker' = [worker EXCEPT ![w].phase = "failed"]
    /\ UNCHANGED <<visit, checked, outbox, told, pushed, faults>>

CountedAttempts(i) == outbox[i].attempts + 1

\* The failure is counted in an UPDATE of its own, which waits for the row lock
\* if another worker has claimed the row in the meantime.
CountFailure(w) ==
    LET i == worker[w].row
    IN
    /\ worker[w].phase = "failed"
    /\ Unlocked(i)
    /\ outbox' = [outbox EXCEPT ![i].attempts = CountedAttempts(i)]
    /\ worker' = [worker EXCEPT ![w] = Idle]
    /\ UNCHANGED <<visit, checked, told, pushed, faults>>

LeftDue(w, a) == worker[w].due \ {a}

\* One turn of dispatchPreparedPushes; a sender that fails is not asked again.
Dispatch(w, a) ==
    /\ worker[w].phase = "dispatch"
    /\ a \in worker[w].due
    /\ pushed' = [pushed EXCEPT ![<<worker[w].row, a>>] = @ + 1]
    /\ worker' = [worker EXCEPT ![w] = IF LeftDue(w, a) = {}
                                       THEN Idle
                                       ELSE [@ EXCEPT !.due = LeftDue(w, a)]]
    /\ UNCHANGED <<visit, checked, outbox, told, faults>>

\* The process dies and is started again, or loses its connection and waits for
\* the next tick: an open transaction rolls back, what was in memory is gone.
Fault(w) ==
    /\ worker[w].phase # "idle"
    /\ faults < MaxFaults
    /\ faults' = faults + 1
    /\ worker' = [worker EXCEPT ![w] = Idle]
    /\ UNCHANGED <<visit, checked, outbox, told, pushed>>

-----------------------------------------------------------------------------

Write ==
    \/ \E v \in Visits : \/ Book(v)
                         \/ StartVisit(v)
                         \/ EndVisit(v)
                         \/ CancelVisit(v)
                         \/ CloseVisit(v)
    \/ \E c \in Calls : \/ \E v \in Visits : CheckCompletion(c, v) \/ CheckReopening(c, v)
                        \/ WriteChecked(c)
                        \/ Abandon(c)

Drain(w) ==
    \/ Claim(w)
    \/ \E recipients \in SUBSET Accounts : Handle(w, recipients)
    \/ Fail(w)
    \/ CountFailure(w)
    \/ \E a \in Accounts : Dispatch(w, a)

Next ==
    \/ Write
    \/ \E w \in Workers : Drain(w) \/ NothingToDrain(w) \/ Fault(w)

Spec == Init /\ [][Next]_vars

\* Every process keeps ticking: the job drains at boot and on an interval.
FairSpec == Spec /\ \A w \in Workers : WF_vars(Drain(w))

-----------------------------------------------------------------------------
(* Safety *)

Event(i) == decideVisitEvent(outbox[i].from, outbox[i].to)

\* DEC-019 D-N15, "exactly once" for a row: whatever fails or crashes between the
\* claim and the commit, no account gets two notifications of one change, and
\* none gets one from a row that is still to be handled.  A push goes out once, and
\* not "before the rows it refers to are durable" (outboxConsumer.ts:203).
NotifiedOnce ==
    \A i \in Ids, a \in Accounts :
        /\ told[<<i, a>>] > 0 => told[<<i, a>>] = 1 /\ outbox[i].handled
        /\ pushed[<<i, a>>] <= told[<<i, a>>]

\* The changes that thanked account a for visit v, and those that undid a finish.
Thanks(v, a) ==
    {i \in DOMAIN outbox : outbox[i].visit = v /\ Event(i) = "completed" /\ told[<<i, a>>] > 0}
Reopenings(v) ==
    {i \in DOMAIN outbox : outbox[i].visit = v /\ outbox[i].from \in Done
                             /\ outbox[i].to \notin Done}

\* decideVisitEvent: between two thanks for a visit somebody reopened it, also
\* when a late completion overwrites the close.
ThankedOncePerOpening ==
    \A v \in Visits, a \in Accounts :
        Cardinality(Thanks(v, a)) <= 1 + Cardinality(Reopenings(v))

\* MAX_ATTEMPTS: a row that keeps failing is given up, at the latest after the
\* attempts that were already running when the last failure was counted.
FailuresBounded ==
    \A i \in DOMAIN outbox :
        outbox[i].attempts < MaxAttempts + Cardinality(Workers)

\* With one process, as DEC-019 D-N15 describes it, the changes of a visit are
\* told in the order they happened: a later one only after every earlier one was
\* handled or given up.
ToldInOrder ==
    \A i, j \in DOMAIN outbox :
        (i < j /\ outbox[i].visit = outbox[j].visit /\ outbox[j].handled) => ~Pending(i)

-----------------------------------------------------------------------------
(* Liveness *)

\* Every captured change is handled or, having failed MAX_ATTEMPTS times, given
\* up; one that always fails does not hold up the others.
EveryChangeIsSettled ==
    \A i \in Ids : (i \in DOMAIN outbox) ~> (i \in DOMAIN outbox /\ ~Pending(i))
=============================================================================
