-------------------------- MODULE DeliveryVisitsProofs --------------------------
(***************************************************************************)
(* Theorems about DeliveryVisits, for any calls and any number of tasks,    *)
(* visits and rows.                                                         *)
(***************************************************************************)
EXTENDS DeliveryVisits, SequenceTheorems, TLAPS

-----------------------------------------------------------------------------
(* The inductive invariant.                                                *)

OnVisit ==
    {"start", "started", "end", "ended", "check", "promote", "pull", "reopen", "reopened"}
OnTask == {"book", "pull"}
OnRow == {"undo", "result", "eligible", "reflect"}

\* What a call has read exists.
RefersTo(x, V, T, R) ==
    /\ x.op \in OnVisit => x.visit \in V
    /\ x.op \in OnTask => x.task \in T
    /\ x.op \in OnRow => x.row \in R
Referring ==
    \A c \in Calls : RefersTo(call[c], DOMAIN visits, DOMAIN tasks, DOMAIN rows)

Typed == TypeOK /\ Referring

\* At most one call holds the device, and while it delivers the device waits.
Holding == {"eligible", "reflect"}
OneHolder ==
    \A c, d \in Calls : call[c].op \in Holding /\ call[d].op \in Holding => c = d
AwaitedWhileDelivering ==
    \A c \in Calls :
      call[c].op \in Holding /\ call[c].outcome = "delivered"
        => device = "pending_delivery"

\* A visit about to be completed has ended and lacks nothing but, if a result
\* completes it, that result.
LateStates == {"ended", "completed", "closed"}
Lacks(v, but) ==
    \E r \in DOMAIN rows :
      /\ rows[r].visit = v /\ ~rows[r].gone /\ ~rows[r].pulled /\ ~rows[r].result
      /\ r # but
Promoting ==
    \A c \in Calls :
      /\ call[c].op = "promote" =>
           /\ visits[call[c].visit].status \in LateStates
           /\ visits[call[c].visit].survey
           /\ ~Lacks(call[c].visit, 0)
      /\ call[c].op = "reflect" /\ call[c].promote =>
           /\ visits[rows[call[c].row].visit].status \in LateStates
           /\ visits[rows[call[c].row].visit].survey
           /\ ~Lacks(rows[call[c].row].visit, call[c].row)

\* A visit about to be reopened was closed, or others have reopened it since.
Reopening ==
    \A c \in Calls : call[c].op = "reopen" => visits[call[c].visit].status \in LateStates

Holders == OneHolder /\ AwaitedWhileDelivering
IInv ==
    /\ Typed /\ Holders /\ Promoting /\ Reopening
    /\ SuspendedIdle /\ CompletedDocumented

-----------------------------------------------------------------------------
(* Types.                                                                  *)

LEMMA Lengths ==
    ASSUME TypeOK
    PROVE  /\ Len(tasks) \in Nat /\ DOMAIN tasks = 1..Len(tasks)
           /\ Len(visits) \in Nat /\ DOMAIN visits = 1..Len(visits)
           /\ Len(rows) \in Nat /\ DOMAIN rows = 1..Len(rows)
           /\ \A t \in DOMAIN tasks : tasks[t] \in Task
           /\ \A v \in DOMAIN visits : visits[v] \in Visit
           /\ \A r \in DOMAIN rows : rows[r] \in Row
  BY LenProperties, ElementOfSeq DEF TypeOK

\* A row added to a table.
LEMMA Added ==
    ASSUME NEW S, NEW list \in Seq(S), NEW x \in S
    PROVE  /\ Append(list, x) \in Seq(S)
           /\ Len(Append(list, x)) = Len(list) + 1
           /\ DOMAIN Append(list, x) = 1..(Len(list) + 1)
           /\ Append(list, x)[Len(list) + 1] = x
           /\ \A i \in 1..Len(list) : Append(list, x)[i] = list[i]
  <1>1. Len(list) \in Nat
    BY LenProperties
  <1>2. QED
    BY <1>1

\* A table whose rows are changed in place.
LEMMA Changed ==
    ASSUME NEW S, NEW list \in Seq(S), NEW new, DOMAIN new = DOMAIN list,
           new = [i \in DOMAIN list |-> new[i]], \A i \in DOMAIN list : new[i] \in S
    PROVE  new \in Seq(S) /\ Len(new) = Len(list)
  <1>1. Len(list) \in Nat /\ DOMAIN list = 1..Len(list)
    BY LenProperties
  <1>2. new \in [1..Len(list) -> S]
    BY <1>1
  <1>3. QED
    BY <1>1, <1>2

LEMMA CallFields ==
    ASSUME NEW x \in Call
    PROVE  /\ x.op \in OnVisit => x.visit \in Nat
           /\ x.op \in OnTask => x.task \in Nat
           /\ x.op \in OnRow => x.row \in Nat
           /\ x.op \in {"result", "eligible", "reflect"} => x.outcome \in Outcomes
           /\ x.op = "eligible" => x.outcome = "delivered"
           /\ x.op = "reflect" => x.promote \in BOOLEAN
  BY DEF Call, Idle, OnVisit, OnTask, OnRow, Outcomes

-----------------------------------------------------------------------------
(* What a step does to each table: rows are added at the end, and those that *)
(* were there change only so far.                                           *)

TasksStep ==
    /\ tasks' \in Seq(Task) /\ Len(tasks') <= MaxTasks
    /\ DOMAIN tasks \subseteq DOMAIN tasks'
    /\ \/ device # "delivery_suspended"
       \/ /\ DOMAIN tasks' = DOMAIN tasks
          /\ \A t \in DOMAIN tasks :
               tasks'[t].status \in ActiveStates => tasks[t].status \in ActiveStates

RowsStep ==
    /\ rows' \in Seq(Row) /\ Len(rows') <= MaxRows
    /\ DOMAIN rows \subseteq DOMAIN rows'
    /\ \A r \in DOMAIN rows :
         /\ rows'[r].visit = rows[r].visit
         /\ rows'[r].task = rows[r].task
         /\ rows'[r].pulled = rows[r].pulled
         /\ rows[r].result => rows'[r].result
         /\ rows[r].gone => rows'[r].gone
    /\ \A r \in DOMAIN rows' \ DOMAIN rows :
         /\ rows'[r].visit \in DOMAIN visits'
         /\ rows'[r].task \in DOMAIN tasks'
         /\ rows'[r].pulled \/ rows'[r].visit \notin DOMAIN visits

VisitsStep ==
    /\ visits' \in Seq(Visit) /\ Len(visits') <= MaxVisits
    /\ DOMAIN visits \subseteq DOMAIN visits'
    /\ \A v \in DOMAIN visits :
         /\ visits[v].survey => visits'[v].survey
         /\ \/ visits'[v].status = visits[v].status
            \/ <<visits[v].status, visits'[v].status>> \in VisitPath
    /\ \A v \in DOMAIN visits' \ DOMAIN visits :
         visits'[v].status \in {"scheduled", "in_progress"}

LEMMA TasksSame == TypeOK /\ tasks' = tasks => TasksStep
  BY DEF TypeOK, TasksStep

LEMMA RowsSame == TypeOK /\ rows' = rows => RowsStep
  BY DEF TypeOK, RowsStep

LEMMA VisitsSame == TypeOK /\ visits' = visits => VisitsStep
  BY DEF TypeOK, VisitsStep

LEMMA TasksInPlace ==
    ASSUME TypeOK, tasks' = [t \in DOMAIN tasks |-> tasks'[t]],
           \A t \in DOMAIN tasks :
             /\ tasks'[t] \in Task
             /\ \/ device # "delivery_suspended"
                \/ tasks'[t].status \in ActiveStates => tasks[t].status \in ActiveStates
    PROVE  TasksStep
  <1>1. DOMAIN tasks' = DOMAIN tasks
    OBVIOUS
  <1>2. tasks' \in Seq(Task) /\ Len(tasks') = Len(tasks)
    BY <1>1, Changed DEF TypeOK
  <1>3. QED
    BY <1>1, <1>2 DEF TasksStep, TypeOK

LEMMA RowsInPlace ==
    ASSUME TypeOK, rows' = [r \in DOMAIN rows |-> rows'[r]],
           \A r \in DOMAIN rows :
             /\ rows'[r] \in Row
             /\ rows'[r].visit = rows[r].visit
             /\ rows'[r].task = rows[r].task
             /\ rows'[r].pulled = rows[r].pulled
             /\ rows[r].result => rows'[r].result
             /\ rows[r].gone => rows'[r].gone
    PROVE  RowsStep
  <1>1. DOMAIN rows' = DOMAIN rows
    OBVIOUS
  <1>2. rows' \in Seq(Row) /\ Len(rows') = Len(rows)
    BY <1>1, Changed DEF TypeOK
  <1>3. QED
    BY <1>1, <1>2 DEF RowsStep, TypeOK

LEMMA VisitsInPlace ==
    ASSUME TypeOK, visits' = [v \in DOMAIN visits |-> visits'[v]],
           \A v \in DOMAIN visits :
             /\ visits'[v] \in Visit
             /\ visits[v].survey => visits'[v].survey
             /\ \/ visits'[v].status = visits[v].status
                \/ <<visits[v].status, visits'[v].status>> \in VisitPath
    PROVE  VisitsStep
  <1>1. DOMAIN visits' = DOMAIN visits
    OBVIOUS
  <1>2. visits' \in Seq(Visit) /\ Len(visits') = Len(visits)
    BY <1>1, Changed DEF TypeOK
  <1>3. QED
    BY <1>1, <1>2 DEF VisitsStep, TypeOK

\* One task, row or visit changed.
LEMMA OneTask ==
    ASSUME TypeOK, NEW t \in DOMAIN tasks, NEW x \in Task, tasks' = [tasks EXCEPT ![t] = x],
           \/ device # "delivery_suspended"
           \/ x.status \in ActiveStates => tasks[t].status \in ActiveStates
    PROVE  TasksStep
  <1>1. tasks' = [u \in DOMAIN tasks |-> tasks'[u]]
    OBVIOUS
  <1>2. \A u \in DOMAIN tasks : tasks'[u] = IF u = t THEN x ELSE tasks[u]
    OBVIOUS
  <1>3. QED
    BY <1>1, <1>2, TasksInPlace, Lengths

LEMMA OneVisit ==
    ASSUME TypeOK, NEW v \in DOMAIN visits, NEW x \in Visit, visits' = [visits EXCEPT ![v] = x],
           visits[v].survey => x.survey,
           x.status = visits[v].status \/ <<visits[v].status, x.status>> \in VisitPath
    PROVE  VisitsStep
  <1>1. visits' = [w \in DOMAIN visits |-> visits'[w]]
    OBVIOUS
  <1>2. \A w \in DOMAIN visits : visits'[w] = IF w = v THEN x ELSE visits[w]
    OBVIOUS
  <1>3. QED
    BY <1>1, <1>2, VisitsInPlace, Lengths

-----------------------------------------------------------------------------
(* The steps of the task table.                                            *)

LEMMA CallRecord == TypeOK => \A c \in Calls : call[c] \in Call
  BY DEF TypeOK

LEMMA BackTask ==
    ASSUME NEW x \in Task
    PROVE  Back(x) \in Task /\ Back(x).status \in WaitingStates
  BY DEF Back, Task, WaitingStates, ActiveStates

LEMMA MovedTask ==
    ASSUME NEW x \in Task, NEW s \in ActiveStates \cup {"completed", "cancelled"}
    PROVE  /\ [x EXCEPT !.status = s] \in Task
           /\ [x EXCEPT !.status = s].status = s
  BY DEF Task

LEMMA AppendedTask ==
    ASSUME TypeOK, device # "delivery_suspended", Len(tasks) + 1 <= MaxTasks,
           tasks' = Append(tasks, OpenTask)
    PROVE  TasksStep
  <1>1. OpenTask \in Task
    BY DEF OpenTask, Task, WaitingStates, ActiveStates
  <1>2. tasks' \in Seq(Task) /\ Len(tasks') = Len(tasks) + 1
        /\ DOMAIN tasks' = 1..(Len(tasks) + 1)
    BY <1>1, Added DEF TypeOK
  <1>3. DOMAIN tasks \subseteq DOMAIN tasks'
    BY <1>2, Lengths
  <1>4. QED
    BY <1>2, <1>3 DEF TasksStep

LEMMA CreateTasks == ASSUME Typed, NEW c \in Calls, CreateWrite(c) PROVE TasksStep
  BY AppendedTask DEF CreateWrite, Typed, TriggerAdmits

LEMMA CancelTasks == ASSUME Typed, NEW t \in DOMAIN tasks, CancelTask(t) PROVE TasksStep
  <1>1. tasks[t] \in Task
    BY Lengths DEF Typed
  <1>2. [tasks[t] EXCEPT !.status = "cancelled"] \in Task
        /\ [tasks[t] EXCEPT !.status = "cancelled"].status = "cancelled"
    BY <1>1, MovedTask
  <1>3. tasks' = [tasks EXCEPT ![t] = [tasks[t] EXCEPT !.status = "cancelled"]]
    BY DEF CancelTask
  <1>4. "cancelled" \notin ActiveStates
    BY DEF ActiveStates, WaitingStates
  <1>5. QED
    BY <1>2, <1>3, <1>4, OneTask DEF Typed

LEMMA BookTasks == ASSUME Typed, NEW c \in Calls, BookWrite(c) PROVE TasksStep
  <1> DEFINE t == call[c].task
             x == [tasks[t] EXCEPT !.status = "scheduled"]
  <1>1. t \in DOMAIN tasks
    BY DEF BookWrite, Typed, Referring, RefersTo, OnTask
  <1>2. x \in Task
    BY <1>1, MovedTask, Lengths DEF Typed, ActiveStates
  <1>3. tasks' = [tasks EXCEPT ![t] = x] /\ device # "delivery_suspended"
    BY DEF BookWrite, TriggerAdmits
  <1> HIDE DEF x
  <1>4. QED
    BY <1>1, <1>2, <1>3, OneTask DEF Typed

LEMMA PropagatedTasks ==
    ASSUME TypeOK, NEW v, NEW from, NEW to \in ActiveStates,
           Propagate(v, from, to)
    PROVE  TasksStep
  <1> DEFINE moved == {t \in TasksOf(v) : tasks[t].status = from}
  <1>1. tasks' = [t \in DOMAIN tasks |->
                    IF t \in moved THEN [tasks[t] EXCEPT !.status = to] ELSE tasks[t]]
        /\ (device # "delivery_suspended" \/ moved = {})
    BY DEF Propagate, TriggerAdmits
  <1> HIDE DEF moved
  <1>2. \A t \in DOMAIN tasks : [tasks[t] EXCEPT !.status = to] \in Task /\ tasks[t] \in Task
    BY MovedTask, Lengths
  <1>3. tasks' = [t \in DOMAIN tasks |-> tasks'[t]]
    BY <1>1
  <1>4. \A t \in DOMAIN tasks :
          /\ tasks'[t] \in Task
          /\ device # "delivery_suspended" \/ tasks'[t] = tasks[t]
    BY <1>1, <1>2
  <1>5. QED
    BY <1>3, <1>4, TasksInPlace

LEMMA StartTasksTasks == ASSUME Typed, NEW c \in Calls, StartTasks(c) PROVE TasksStep
  BY PropagatedTasks DEF Typed, StartTasks, ActiveStates

LEMMA EndTasksTasks == ASSUME Typed, NEW c \in Calls, EndTasks(c) PROVE TasksStep
  BY PropagatedTasks DEF Typed, EndTasks, ActiveStates

LEMMA CancelVisitTasks ==
    ASSUME Typed, NEW v \in DOMAIN visits, CancelVisit(v)
    PROVE  TasksStep
  <1> DEFINE back == {t \in TasksOf(v) : tasks[t].status = "scheduled"}
  <1>1. tasks' = [t \in DOMAIN tasks |-> IF t \in back THEN Back(tasks[t]) ELSE tasks[t]]
        /\ (device # "delivery_suspended" \/ back = {})
    BY DEF CancelVisit, TriggerAdmits
  <1> HIDE DEF back
  <1>2. \A t \in DOMAIN tasks : Back(tasks[t]) \in Task /\ tasks[t] \in Task
    BY BackTask, Lengths DEF Typed
  <1>3. tasks' = [t \in DOMAIN tasks |-> tasks'[t]]
    BY <1>1
  <1>4. \A t \in DOMAIN tasks :
          /\ tasks'[t] \in Task
          /\ device # "delivery_suspended" \/ tasks'[t] = tasks[t]
    BY <1>1, <1>2
  <1>5. QED
    BY <1>3, <1>4, TasksInPlace DEF Typed

LEMMA PullTasks == ASSUME Typed, NEW c \in Calls, PullWrite(c) PROVE TasksStep
  <1> DEFINE t == call[c].task
             x == [tasks[t] EXCEPT !.waiting = tasks[t].status, !.status = "scheduled"]
  <1>1. t \in DOMAIN tasks
    BY DEF PullWrite, Typed, Referring, RefersTo, OnTask
  <1>2. CASE tasks[t].status \in WaitingStates
    <2>1. x \in Task
      BY <1>1, <1>2, Lengths DEF Typed, Task, ActiveStates
    <2>2. tasks' = [tasks EXCEPT ![t] = x] /\ device # "delivery_suspended"
      BY <1>2, <1>1 DEF PullWrite, TriggerAdmits
    <2> HIDE DEF x
    <2>3. QED
      BY <1>1, <2>1, <2>2, OneTask DEF Typed
  <1>3. CASE tasks[t].status \notin WaitingStates
    BY <1>3, TasksSame DEF PullWrite, Typed
  <1>4. QED
    BY <1>2, <1>3

LEMMA UndoTasks == ASSUME Typed, NEW c \in Calls, UndoWrite(c) PROVE TasksStep
  <1> DEFINE t == rows[call[c].row].task
             x == Back(tasks[t])
  <1>1. t \in DOMAIN tasks
    BY DEF UndoWrite, Typed, TypeOK, Referring, RefersTo, OnRow
  <1>2. CASE tasks[t].status = "scheduled"
    <2>1. x \in Task
      BY <1>1, BackTask, Lengths DEF Typed
    <2>2. tasks' = [tasks EXCEPT ![t] = x] /\ device # "delivery_suspended"
      BY <1>2, <1>1 DEF UndoWrite, TriggerAdmits
    <2> HIDE DEF x
    <2>3. QED
      BY <1>1, <2>1, <2>2, OneTask DEF Typed
  <1>3. CASE tasks[t].status # "scheduled"
    BY <1>3, TasksSame DEF UndoWrite, Typed
  <1>4. QED
    BY <1>2, <1>3

\* A result postpones only a delivery the trigger admits; the device may be
\* suspended when it gives up.
LEMMA ResultTask ==
    ASSUME NEW x \in Task, NEW o \in Outcomes
    PROVE  TaskAfter(x, o) \in Task
  <1>1. CASE o = "delivered"
    BY <1>1 DEF TaskAfter, Task, WaitingStates, ActiveStates
  <1>2. CASE o = "refused"
    BY <1>2 DEF TaskAfter, Task, WaitingStates, ActiveStates
  <1>3. CASE o = "postponed"
    <2>1. Back(x).status \in WaitingStates
      BY BackTask
    <2>2. TaskAfter(x, o) =
            [status |-> "needs_follow_up",
             waiting |-> IF x.status \in WaitingStates THEN x.status ELSE Back(x).status]
      BY <1>3 DEF TaskAfter
    <2>3. QED
      BY <2>1, <2>2 DEF Task, WaitingStates, ActiveStates
  <1>4. QED
    BY <1>1, <1>2, <1>3 DEF Outcomes

\* The commit of a result: the types only, as the device is suspended no more.
LEMMA CommitTasks ==
    ASSUME Typed, NEW c \in Calls, Commit(c)
    PROVE  tasks' \in Seq(Task) /\ Len(tasks') <= MaxTasks /\ DOMAIN tasks' = DOMAIN tasks
  <1> DEFINE t == rows[call[c].row].task
             x == TaskAfter(tasks[t], call[c].outcome)
  <1>1. t \in DOMAIN tasks
    BY DEF Commit, Typed, TypeOK, Referring, RefersTo, OnRow
  <1>2. call[c].outcome \in Outcomes
    BY CallRecord, CallFields DEF Commit, Typed
  <1>3. x \in Task
    BY <1>1, <1>2, ResultTask, Lengths DEF Typed
  <1>4. tasks' = [tasks EXCEPT ![t] = x]
    BY <1>1 DEF Commit
  <1> HIDE DEF x
  <1>5. tasks' \in Seq(Task) /\ Len(tasks') = Len(tasks)
    BY <1>1, <1>3, <1>4, Lengths, ExceptSeq DEF Typed, TypeOK
  <1>6. QED
    BY <1>4, <1>5 DEF Typed, TypeOK

LEMMA WorkCancelled ==
    ASSUME TypeOK, NEW work,
           tasks' = [t \in DOMAIN tasks |->
                       IF t \in work THEN [tasks[t] EXCEPT !.status = "cancelled"]
                       ELSE tasks[t]]
    PROVE  /\ TasksStep /\ DOMAIN tasks' = DOMAIN tasks
           /\ \A t \in DOMAIN tasks :
                tasks'[t].status \in ActiveStates
                  => t \notin work /\ tasks[t].status \in ActiveStates
  <1>1. \A t \in DOMAIN tasks :
          /\ tasks[t] \in Task
          /\ [tasks[t] EXCEPT !.status = "cancelled"] \in Task
          /\ [tasks[t] EXCEPT !.status = "cancelled"].status = "cancelled"
    BY MovedTask, Lengths
  <1>2. tasks' = [t \in DOMAIN tasks |-> tasks'[t]]
    OBVIOUS
  <1>3. "cancelled" \notin ActiveStates
    BY DEF ActiveStates, WaitingStates
  <1>4. \A t \in DOMAIN tasks :
          /\ tasks'[t] \in Task
          /\ tasks'[t].status \in ActiveStates
               => t \notin work /\ tasks[t].status \in ActiveStates
    BY <1>1, <1>3
  <1>5. QED
    BY <1>2, <1>4, TasksInPlace

LEMMA SuspendTasks ==
    ASSUME Typed, Suspend
    PROVE  TasksStep /\ \A t \in DOMAIN tasks' : tasks'[t].status \notin ActiveStates
  <1> DEFINE work == {t \in DOMAIN tasks : Active(t)}
  <1>1. tasks' = [t \in DOMAIN tasks |->
                    IF t \in work THEN [tasks[t] EXCEPT !.status = "cancelled"]
                    ELSE tasks[t]]
    BY DEF Suspend
  <1>2. \A t \in DOMAIN tasks : tasks[t].status \in ActiveStates => t \in work
    BY DEF Active
  <1> HIDE DEF work
  <1>3. QED
    BY <1>1, <1>2, WorkCancelled DEF Typed

LEMMA CancelContractTasks == ASSUME Typed, CancelContract PROVE TasksStep
  BY WorkCancelled DEF Typed, CancelContract

-----------------------------------------------------------------------------
(* The steps of the visit table.                                           *)

LEMMA AppendedVisit ==
    ASSUME TypeOK, NEW s \in {"scheduled", "in_progress"}, NewVisit(s)
    PROVE  /\ VisitsStep
           /\ Len(visits) + 1 \in DOMAIN visits' /\ Len(visits) + 1 \notin DOMAIN visits
  <1> DEFINE x == [status |-> s, survey |-> FALSE]
  <1>1. x \in Visit /\ x.status = s
    BY DEF Visit
  <1>2. visits' = Append(visits, x) /\ Len(visits) < MaxVisits
    BY DEF NewVisit
  <1> HIDE DEF x
  <1>3. visits' \in Seq(Visit) /\ Len(visits') = Len(visits) + 1
        /\ DOMAIN visits' = 1..(Len(visits) + 1)
        /\ visits'[Len(visits) + 1] = x /\ \A v \in 1..Len(visits) : visits'[v] = visits[v]
    BY <1>1, <1>2, Added DEF TypeOK
  <1>4. Len(visits') <= MaxVisits /\ DOMAIN visits \subseteq DOMAIN visits'
        /\ DOMAIN visits' \ DOMAIN visits = {Len(visits) + 1}
    BY <1>2, <1>3, Lengths, DeliveryAssumption DEF DeliveryAssumption
  <1>5. QED
    BY <1>1, <1>3, <1>4, Lengths DEF VisitsStep

LEMMA BookVisits == ASSUME Typed, NEW c \in Calls, BookWrite(c) PROVE VisitsStep
  BY AppendedVisit DEF BookWrite, Typed

LEMMA InstantVisits == ASSUME Typed, CreateInstantVisit PROVE VisitsStep
  BY AppendedVisit DEF CreateInstantVisit, Typed

LEMMA StatusVisit ==
    ASSUME TypeOK, NEW v \in DOMAIN visits, NEW s,
           visits' = [visits EXCEPT ![v].status = s],
           visits[v].status = s \/ <<visits[v].status, s>> \in VisitPath
    PROVE  VisitsStep
  <1> DEFINE x == [visits[v] EXCEPT !.status = s]
  <1>1. visits[v] \in Visit
    BY Lengths
  <1>2. s \in {"scheduled", "in_progress", "ended", "completed", "closed", "cancelled"}
    BY <1>1 DEF Visit, VisitPath
  <1>3. x \in Visit /\ x.status = s /\ x.survey = visits[v].survey
    BY <1>1, <1>2 DEF Visit
  <1>4. visits' = [visits EXCEPT ![v] = x]
    OBVIOUS
  <1> HIDE DEF x
  <1>5. QED
    BY <1>3, <1>4, OneVisit

LEMMA StartVisits == ASSUME Typed, NEW c \in Calls, StartVisit(c) PROVE VisitsStep
  <1> DEFINE v == call[c].visit
  <1>1. v \in DOMAIN visits
    BY DEF StartVisit, Typed, Referring, RefersTo, OnVisit
  <1>2. CASE visits[v].status = "scheduled"
    BY <1>1, <1>2, StatusVisit DEF StartVisit, Typed, VisitPath
  <1>3. CASE visits[v].status # "scheduled"
    BY <1>3, VisitsSame DEF StartVisit, Typed
  <1>4. QED
    BY <1>2, <1>3

LEMMA EndVisits == ASSUME Typed, NEW c \in Calls, EndVisit(c) PROVE VisitsStep
  <1> DEFINE v == call[c].visit
  <1>1. v \in DOMAIN visits
    BY DEF EndVisit, Typed, Referring, RefersTo, OnVisit
  <1>2. CASE visits[v].status = "in_progress"
    BY <1>1, <1>2, StatusVisit DEF EndVisit, Typed, VisitPath
  <1>3. CASE visits[v].status # "in_progress"
    BY <1>3, VisitsSame DEF EndVisit, Typed
  <1>4. QED
    BY <1>2, <1>3

LEMMA CancelVisitVisits ==
    ASSUME Typed, NEW v \in DOMAIN visits, CancelVisit(v) PROVE VisitsStep
  BY StatusVisit DEF CancelVisit, Typed, VisitPath

LEMMA CloseVisits == ASSUME Typed, NEW v \in DOMAIN visits, CloseVisit(v) PROVE VisitsStep
  BY StatusVisit DEF CloseVisit, Typed, VisitPath

LEMMA SurveyVisits ==
    ASSUME Typed, NEW c \in Calls, NEW v \in DOMAIN visits, SaveSurvey(c, v)
    PROVE  VisitsStep
  <1> DEFINE x == [visits[v] EXCEPT !.survey = TRUE]
  <1>1. x \in Visit /\ x.survey /\ x.status = visits[v].status
    BY Lengths DEF Typed, Visit
  <1>2. visits' = [visits EXCEPT ![v] = x]
    BY DEF SaveSurvey
  <1> HIDE DEF x
  <1>3. QED
    BY <1>1, <1>2, OneVisit DEF Typed

LEMMA LateCompletes ==
    \A s \in LateStates :
      /\ s = "completed" \/ <<s, "completed">> \in VisitPath
      /\ s = "ended" \/ <<s, "ended">> \in VisitPath
  BY DEF LateStates, VisitPath

LEMMA ReopenVisits ==
    ASSUME Typed, Reopening, NEW c \in Calls, ReopenVisit(c) PROVE VisitsStep
  <1> DEFINE v == call[c].visit
  <1>1. v \in DOMAIN visits
    BY DEF ReopenVisit, Typed, Referring, RefersTo, OnVisit
  <1>2. visits[v].status \in LateStates
    BY DEF ReopenVisit, Reopening
  <1>3. visits' = [visits EXCEPT ![v].status = "ended"]
    BY DEF ReopenVisit
  <1> HIDE DEF v
  <1>4. QED
    BY <1>1, <1>2, <1>3, LateCompletes, StatusVisit DEF Typed

LEMMA PromoteVisits ==
    ASSUME Typed, Promoting, NEW c \in Calls, PromoteVisit(c) PROVE VisitsStep
  <1> DEFINE v == call[c].visit
  <1>1. v \in DOMAIN visits
    BY DEF PromoteVisit, Typed, Referring, RefersTo, OnVisit
  <1>2. visits[v].status \in LateStates
    BY DEF PromoteVisit, Promoting
  <1>3. visits' = [visits EXCEPT ![v].status = "completed"]
    BY DEF PromoteVisit
  <1> HIDE DEF v
  <1>4. QED
    BY <1>1, <1>2, <1>3, LateCompletes, StatusVisit DEF Typed

LEMMA CommitVisits ==
    ASSUME Typed, Promoting, NEW c \in Calls, Commit(c) PROVE VisitsStep
  <1> DEFINE v == rows[call[c].row].visit
  <1>1. v \in DOMAIN visits
    BY DEF Commit, Typed, TypeOK, Referring, RefersTo, OnRow
  <1>2. CASE call[c].promote
    <2>1. visits[v].status \in LateStates
      BY <1>2 DEF Commit, Promoting
    <2>2. visits' = [visits EXCEPT ![v].status = "completed"]
      BY <1>2 DEF Commit
    <2> HIDE DEF v
    <2>3. QED
      BY <1>1, <2>1, <2>2, LateCompletes, StatusVisit DEF Typed
  <1>3. CASE ~call[c].promote
    BY <1>3, VisitsSame DEF Commit, Typed
  <1>4. QED
    BY <1>2, <1>3

LEMMA SuspendVisits ==
    ASSUME Typed, Suspend
    PROVE  VisitsStep
  <1> DEFINE work == {t \in DOMAIN tasks : Active(t)}
             carrying == {rows[r].visit : r \in {s \in DOMAIN rows :
                                            rows[s].task \in work /\ ~rows[s].gone}}
             unstarted == {v \in carrying : visits[v].status = "scheduled"}
  <1>1. /\ visits' = [v \in DOMAIN visits |->
                        IF v \in unstarted THEN [visits[v] EXCEPT !.status = "cancelled"]
                        ELSE visits[v]]
        /\ \A v \in unstarted : visits[v].status = "scheduled"
    BY DEF Suspend
  <1> HIDE DEF unstarted
  <1>2. visits' = [v \in DOMAIN visits |-> visits'[v]]
    BY <1>1
  <1>3. <<"scheduled", "cancelled">> \in VisitPath
    BY DEF VisitPath
  <1>4. ASSUME NEW v \in DOMAIN visits
        PROVE  /\ visits'[v] \in Visit
               /\ visits[v].survey => visits'[v].survey
               /\ \/ visits'[v].status = visits[v].status
                  \/ <<visits[v].status, visits'[v].status>> \in VisitPath
    <2>1. visits[v] \in Visit
      BY Lengths DEF Typed
    <2>2. CASE visits'[v] = visits[v]
      BY <2>1, <2>2
    <2>3. CASE /\ visits[v].status = "scheduled"
               /\ visits'[v] = [visits[v] EXCEPT !.status = "cancelled"]
      <3>1. visits'[v] \in Visit /\ visits'[v].survey = visits[v].survey
            /\ visits'[v].status = "cancelled"
        BY <2>1, <2>3 DEF Visit
      <3>2. QED
        BY <2>3, <3>1, <1>3
    <2>4. QED
      BY <1>1, <2>2, <2>3
  <1>5. QED
    BY <1>2, <1>4, VisitsInPlace DEF Typed

-----------------------------------------------------------------------------
(* The steps of the row table.                                             *)

LEMMA AppendedRow ==
    ASSUME TypeOK, NEW v \in DOMAIN visits', v \in Nat, NEW t \in DOMAIN tasks,
           t \in DOMAIN tasks', NEW p \in BOOLEAN, p \/ v \notin DOMAIN visits,
           NewRow(v, t, p)
    PROVE  RowsStep
  <1> DEFINE x == [visit |-> v, task |-> t, status |-> "pending",
                   pulled |-> p, result |-> FALSE, gone |-> FALSE]
  <1>1. t \in Nat
    BY Lengths
  <1>2. x \in Row /\ x.visit = v /\ x.task = t /\ x.pulled = p
    BY <1>1 DEF Row
  <1>3. rows' = Append(rows, x) /\ Len(rows) < MaxRows
    BY DEF NewRow
  <1> HIDE DEF x
  <1>4. rows' \in Seq(Row) /\ Len(rows') = Len(rows) + 1
        /\ DOMAIN rows' = 1..(Len(rows) + 1)
        /\ rows'[Len(rows) + 1] = x /\ \A r \in 1..Len(rows) : rows'[r] = rows[r]
    BY <1>2, <1>3, Added DEF TypeOK
  <1>5. Len(rows') <= MaxRows /\ DOMAIN rows \subseteq DOMAIN rows'
        /\ DOMAIN rows' \ DOMAIN rows = {Len(rows) + 1}
    BY <1>3, <1>4, Lengths, DeliveryAssumption DEF DeliveryAssumption
  <1>6. QED
    BY <1>2, <1>4, <1>5, Lengths DEF RowsStep

LEMMA BookRows == ASSUME Typed, NEW c \in Calls, BookWrite(c) PROVE RowsStep
  <1>1. call[c].task \in DOMAIN tasks
    BY DEF BookWrite, Typed, Referring, RefersTo, OnTask
  <1>2. call[c].task \in DOMAIN tasks'
    BY <1>1 DEF BookWrite
  <1>3. NewVisit("scheduled") /\ NewRow(Len(visits) + 1, call[c].task, FALSE)
    BY DEF BookWrite
  <1>4. Len(visits) + 1 \in DOMAIN visits' /\ Len(visits) + 1 \notin DOMAIN visits
        /\ Len(visits) + 1 \in Nat
    BY <1>3, AppendedVisit, Lengths DEF Typed
  <1>5. QED
    BY <1>1, <1>2, <1>3, <1>4, AppendedRow DEF Typed

LEMMA PullRows == ASSUME Typed, NEW c \in Calls, PullWrite(c) PROVE RowsStep
  <1>1. call[c].task \in DOMAIN tasks /\ call[c].visit \in DOMAIN visits
    BY DEF PullWrite, Typed, Referring, RefersTo, OnTask, OnVisit
  <1>2. call[c].task \in DOMAIN tasks'
    BY <1>1, PullTasks DEF TasksStep
  <1>3. NewRow(call[c].visit, call[c].task, TRUE) /\ visits' = visits
    BY DEF PullWrite
  <1>4. call[c].visit \in Nat
    BY <1>1, Lengths DEF Typed
  <1>5. QED
    BY <1>1, <1>2, <1>3, <1>4, AppendedRow DEF Typed

RowStates == {"pending", "completed", "cancelled", "closed"}

LEMMA RowOf ==
    ASSUME NEW x \in Row, NEW s \in RowStates
    PROVE  /\ [x EXCEPT !.status = s] \in Row
           /\ [x EXCEPT !.status = s].visit = x.visit
           /\ [x EXCEPT !.status = s].task = x.task
           /\ [x EXCEPT !.status = s].pulled = x.pulled
           /\ [x EXCEPT !.status = s].result = x.result
           /\ [x EXCEPT !.status = s].gone = x.gone
  BY DEF Row, RowStates

\* Some rows of a table are given a status.
LEMMA StatusRows ==
    ASSUME TypeOK, NEW S, NEW s \in RowStates,
           rows' = [r \in DOMAIN rows |->
                      IF r \in S THEN [rows[r] EXCEPT !.status = s] ELSE rows[r]]
    PROVE  RowsStep
  <1>1. rows' = [r \in DOMAIN rows |-> rows'[r]]
    OBVIOUS
  <1>2. \A r \in DOMAIN rows :
          rows'[r] = rows[r] \/ rows'[r] = [rows[r] EXCEPT !.status = s]
    OBVIOUS
  <1>3. QED
    BY <1>1, <1>2, RowOf, Lengths, RowsInPlace

LEMMA CancelVisitRows ==
    ASSUME Typed, NEW v \in DOMAIN visits, CancelVisit(v) PROVE RowsStep
  BY StatusRows DEF CancelVisit, CancelRows, Typed, RowStates

LEMMA SuspendRows == ASSUME Typed, Suspend PROVE RowsStep
  BY StatusRows DEF Suspend, CancelRows, Typed, RowStates

LEMMA CancelContractRows == ASSUME Typed, CancelContract PROVE RowsStep
  BY StatusRows DEF CancelContract, CancelRows, Typed, RowStates

LEMMA CloseRows == ASSUME Typed, NEW v \in DOMAIN visits, CloseVisit(v) PROVE RowsStep
  BY StatusRows DEF CloseVisit, Typed, RowStates

LEMMA ReopenedRows == ASSUME Typed, NEW c \in Calls, ReopenRows(c) PROVE RowsStep
  <1> DEFINE S == {r \in RowsOf(call[c].visit) : rows[r].status = "closed"}
  <1>1. rows' = [r \in DOMAIN rows |->
                   IF r \in S THEN [rows[r] EXCEPT !.status = "completed"] ELSE rows[r]]
    BY DEF ReopenRows
  <1> HIDE DEF S
  <1>2. QED
    BY <1>1, StatusRows DEF Typed, RowStates

LEMMA OneRow ==
    ASSUME TypeOK, NEW r \in DOMAIN rows, NEW x \in Row, rows' = [rows EXCEPT ![r] = x],
           x.visit = rows[r].visit, x.task = rows[r].task, x.pulled = rows[r].pulled,
           rows[r].result => x.result, rows[r].gone => x.gone
    PROVE  RowsStep
  <1>1. rows' = [s \in DOMAIN rows |-> rows'[s]]
    OBVIOUS
  <1>2. \A s \in DOMAIN rows : rows'[s] = IF s = r THEN x ELSE rows[s]
    OBVIOUS
  <1>3. QED
    BY <1>1, <1>2, RowsInPlace, Lengths

LEMMA UndoRows == ASSUME Typed, NEW c \in Calls, UndoWrite(c) PROVE RowsStep
  <1> DEFINE r == call[c].row
             x == [rows[r] EXCEPT !.gone = TRUE]
  <1>1. r \in DOMAIN rows
    BY DEF UndoWrite, Typed, Referring, RefersTo, OnRow
  <1>2. /\ x \in Row /\ x.visit = rows[r].visit /\ x.task = rows[r].task
        /\ x.pulled = rows[r].pulled /\ x.result = rows[r].result /\ x.gone
    BY <1>1, Lengths DEF Typed, Row
  <1>3. rows' = [rows EXCEPT ![r] = x]
    BY DEF UndoWrite
  <1> HIDE DEF x
  <1>4. QED
    BY <1>1, <1>2, <1>3, OneRow DEF Typed

LEMMA CommitRows ==
    ASSUME Typed, NEW c \in Calls, Commit(c)
    PROVE  RowsStep /\ rows'[call[c].row].result /\ DOMAIN rows' = DOMAIN rows
  <1> DEFINE r == call[c].row
             s == IF call[c].outcome = "refused" THEN "cancelled" ELSE "completed"
             x == [rows[r] EXCEPT !.result = TRUE, !.status = s]
  <1>1. r \in DOMAIN rows
    BY DEF Commit, Typed, Referring, RefersTo, OnRow
  <1>2. /\ x \in Row /\ x.visit = rows[r].visit /\ x.task = rows[r].task
        /\ x.pulled = rows[r].pulled /\ x.result /\ x.gone = rows[r].gone
    BY <1>1, Lengths DEF Typed, Row
  <1>3. rows' = [rows EXCEPT ![r] = x]
    BY <1>1 DEF Commit
  <1> HIDE DEF x
  <1>4. RowsStep
    BY <1>1, <1>2, <1>3, OneRow DEF Typed
  <1>5. QED
    BY <1>1, <1>2, <1>3, <1>4

-----------------------------------------------------------------------------
(* Plain steps: all but those that hold or change the device and those that  *)
(* complete a visit.                                                        *)

PlainOps == {"idle", "create", "book", "start", "started", "end", "ended", "check",
             "pull", "undo", "result", "reopen", "reopened"}

CallPlain ==
    \/ call' = call
    \/ \E c \in Calls : \E x \in Call :
         /\ x.op \in PlainOps
         /\ x.op = "reopen" => visits'[x.visit].status \in LateStates
         /\ RefersTo(x, DOMAIN visits', DOMAIN tasks', DOMAIN rows')
         /\ call' = [call EXCEPT ![c] = x]

NoneCompletes ==
    \A v \in DOMAIN visits :
        visits'[v].status = "completed" => visits[v].status = "completed"

PlainStep ==
    /\ TasksStep /\ RowsStep /\ VisitsStep /\ NoneCompletes /\ CallPlain
    /\ contract' = contract /\ device' = device

LEMMA PlainRecords ==
    /\ Idle \in Call /\ [op |-> "create"] \in Call
    /\ \A n \in Nat : [op |-> "book", task |-> n] \in Call
    /\ \A n \in Nat : \A o \in {"start", "started", "end", "ended", "check", "reopen",
                                "reopened"} :
         [op |-> o, visit |-> n] \in Call
    /\ \A n, m \in Nat : [op |-> "pull", visit |-> n, task |-> m] \in Call
    /\ \A n \in Nat : [op |-> "undo", row |-> n] \in Call
    /\ \A n \in Nat : \A o \in Outcomes : [op |-> "result", row |-> n, outcome |-> o] \in Call
  BY DEF Call, Idle

LEMMA IdleRefers ==
    \A V, T, R : RefersTo(Idle, V, T, R) /\ Idle.op \in PlainOps /\ Idle.op # "reopen"
  BY DEF RefersTo, Idle, OnVisit, OnTask, OnRow, PlainOps

LEMMA Ended ==
    ASSUME NEW c \in Calls, End(c)
    PROVE  CallPlain
  BY IdleRefers, PlainRecords DEF End, CallPlain

\* A call that only reads.
LEMMA ReadStep ==
    ASSUME Typed, NEW c \in Calls, NEW x \in Call, x.op \in PlainOps,
           x.op = "reopen" => visits[x.visit].status \in LateStates,
           RefersTo(x, DOMAIN visits, DOMAIN tasks, DOMAIN rows),
           call' = [call EXCEPT ![c] = x],
           UNCHANGED <<contract, device, tasks, visits, rows>>
    PROVE  PlainStep
  <1>1. TasksStep /\ RowsStep /\ VisitsStep /\ NoneCompletes
    BY TasksSame, RowsSame, VisitsSame DEF Typed, NoneCompletes
  <1>2. RefersTo(x, DOMAIN visits', DOMAIN tasks', DOMAIN rows')
    OBVIOUS
  <1>3. CallPlain
    BY <1>2 DEF CallPlain
  <1>4. QED
    BY <1>1, <1>3 DEF PlainStep

LEMMA Begins ==
    ASSUME Typed, NEW c \in Calls,
           \/ CreateRead(c) \/ Abort(c)
           \/ \E t \in DOMAIN tasks : BookRead(c, t)
           \/ \E v \in DOMAIN visits : StartRead(c, v) \/ EndRead(c, v) \/ CompleteVisit(c, v)
           \/ \E v \in DOMAIN visits : ReopenRead(c, v)
           \/ \E v \in DOMAIN visits, t \in DOMAIN tasks : PullRead(c, v, t)
           \/ \E r \in DOMAIN rows : UndoRead(c, r)
           \/ \E r \in DOMAIN rows, o \in Outcomes : ResultRead(c, r, o)
    PROVE  PlainStep
  <1>1. /\ \A t \in DOMAIN tasks : t \in Nat
        /\ \A v \in DOMAIN visits : v \in Nat
        /\ \A r \in DOMAIN rows : r \in Nat
    BY Lengths DEF Typed
  <1>2. CASE CreateRead(c)
    <2>1. [op |-> "create"] \in Call
      BY PlainRecords
    <2>2. RefersTo([op |-> "create"], DOMAIN visits, DOMAIN tasks, DOMAIN rows)
      BY DEF RefersTo, OnVisit, OnTask, OnRow
    <2>3. QED
      BY <1>2, <2>1, <2>2, ReadStep DEF CreateRead, Begin, PlainOps
  <1>3. CASE Abort(c)
    BY <1>3, PlainRecords, IdleRefers, ReadStep DEF Abort, End
  <1>4. ASSUME NEW t \in DOMAIN tasks, BookRead(c, t) PROVE PlainStep
    <2> DEFINE x == [op |-> "book", task |-> t]
    <2>1. x \in Call /\ x.op \in PlainOps
      BY <1>1, PlainRecords DEF PlainOps
    <2>2. RefersTo(x, DOMAIN visits, DOMAIN tasks, DOMAIN rows)
      BY DEF RefersTo, OnVisit, OnTask, OnRow
    <2>3. QED
      BY <1>4, <2>1, <2>2, ReadStep DEF BookRead, Begin
  <1>5. ASSUME NEW v \in DOMAIN visits, NEW o \in {"start", "end", "check", "reopen"},
               o = "reopen" => visits[v].status \in LateStates,
               call' = [call EXCEPT ![c] = [op |-> o, visit |-> v]],
               UNCHANGED <<contract, device, tasks, visits, rows>>
        PROVE  PlainStep
    <2> DEFINE x == [op |-> o, visit |-> v]
    <2>1. x \in Call /\ x.op \in PlainOps
      BY <1>1, PlainRecords DEF PlainOps
    <2>2. RefersTo(x, DOMAIN visits, DOMAIN tasks, DOMAIN rows)
      BY DEF RefersTo, OnVisit, OnTask, OnRow
    <2>3. QED
      BY <1>5, <2>1, <2>2, ReadStep
  <1>6. ASSUME NEW v \in DOMAIN visits,
               \/ StartRead(c, v) \/ EndRead(c, v)
               \/ CompleteVisit(c, v) \/ ReopenRead(c, v)
        PROVE  PlainStep
    BY <1>5, <1>6 DEF StartRead, EndRead, CompleteVisit, ReopenRead, Begin, LateStates
  <1>7. ASSUME NEW v \in DOMAIN visits, NEW t \in DOMAIN tasks, PullRead(c, v, t)
        PROVE  PlainStep
    <2> DEFINE x == [op |-> "pull", visit |-> v, task |-> t]
    <2>1. x \in Call /\ x.op \in PlainOps
      BY <1>1, PlainRecords DEF PlainOps
    <2>2. RefersTo(x, DOMAIN visits, DOMAIN tasks, DOMAIN rows)
      BY DEF RefersTo, OnVisit, OnTask, OnRow
    <2>3. QED
      BY <1>7, <2>1, <2>2, ReadStep DEF PullRead, Begin
  <1>8. ASSUME NEW r \in DOMAIN rows, UndoRead(c, r) PROVE PlainStep
    <2> DEFINE x == [op |-> "undo", row |-> r]
    <2>1. x \in Call /\ x.op \in PlainOps
      BY <1>1, PlainRecords DEF PlainOps
    <2>2. RefersTo(x, DOMAIN visits, DOMAIN tasks, DOMAIN rows)
      BY DEF RefersTo, OnVisit, OnTask, OnRow
    <2>3. QED
      BY <1>8, <2>1, <2>2, ReadStep DEF UndoRead, Begin
  <1>9. ASSUME NEW r \in DOMAIN rows, NEW o \in Outcomes, ResultRead(c, r, o)
        PROVE  PlainStep
    <2> DEFINE x == [op |-> "result", row |-> r, outcome |-> o]
    <2>1. x \in Call /\ x.op \in PlainOps
      BY <1>1, PlainRecords DEF PlainOps
    <2>2. RefersTo(x, DOMAIN visits, DOMAIN tasks, DOMAIN rows)
      BY DEF RefersTo, OnVisit, OnTask, OnRow
    <2>3. QED
      BY <1>9, <2>1, <2>2, ReadStep DEF ResultRead, Begin
  <1>10. QED
    BY <1>2, <1>3, <1>4, <1>6, <1>7, <1>8, <1>9

LEMMA AppendedComplete ==
    ASSUME TypeOK, NEW s \in {"scheduled", "in_progress"}, NewVisit(s)
    PROVE  NoneCompletes
  BY Lengths DEF NewVisit, NoneCompletes, TypeOK

\* A call that changes tables and ends.
LEMMA Writes ==
    ASSUME Typed, NEW c \in Calls,
           \/ CreateWrite(c) \/ BookWrite(c) \/ StartTasks(c)
           \/ PullWrite(c) \/ UndoWrite(c) \/ ReopenRows(c)
    PROVE  PlainStep
  <1>1. CASE CreateWrite(c)
    <2>1. RowsStep /\ VisitsStep /\ NoneCompletes /\ CallPlain /\ contract' = contract
          /\ device' = device
      BY <1>1, RowsSame, VisitsSame, Ended DEF CreateWrite, NoneCompletes, Typed
    <2>2. QED
      BY <1>1, <2>1, CreateTasks DEF PlainStep
  <1>2. CASE BookWrite(c)
    <2>1. NoneCompletes /\ CallPlain /\ contract' = contract /\ device' = device
      BY <1>2, AppendedComplete, Ended DEF BookWrite, Typed
    <2>2. QED
      BY <1>2, <2>1, BookTasks, BookRows, BookVisits DEF PlainStep
  <1>3. CASE StartTasks(c)
    <2>1. RowsStep /\ VisitsStep /\ NoneCompletes /\ CallPlain /\ contract' = contract
          /\ device' = device
      BY <1>3, RowsSame, VisitsSame, Ended DEF StartTasks, NoneCompletes, Typed
    <2>2. QED
      BY <1>3, <2>1, StartTasksTasks DEF PlainStep
  <1>4. CASE PullWrite(c)
    <2>1. VisitsStep /\ NoneCompletes /\ CallPlain /\ contract' = contract
          /\ device' = device
      BY <1>4, VisitsSame, Ended DEF PullWrite, NoneCompletes, Typed
    <2>2. QED
      BY <1>4, <2>1, PullTasks, PullRows DEF PlainStep
  <1>5. CASE UndoWrite(c)
    <2>1. VisitsStep /\ NoneCompletes /\ CallPlain /\ contract' = contract
          /\ device' = device
      BY <1>5, VisitsSame, Ended DEF UndoWrite, NoneCompletes, Typed
    <2>2. QED
      BY <1>5, <2>1, UndoTasks, UndoRows DEF PlainStep
  <1>6. CASE ReopenRows(c)
    <2>1. VisitsStep /\ NoneCompletes /\ CallPlain /\ contract' = contract
          /\ device' = device
      BY <1>6, VisitsSame, Ended DEF ReopenRows, NoneCompletes, Typed
    <2>2. QED
      BY <1>6, <2>1, TasksSame, ReopenedRows DEF ReopenRows, PlainStep, Typed
  <1>7. QED
    BY <1>1, <1>2, <1>3, <1>4, <1>5, <1>6

\* A call that goes on to the next statement of its visit.
LEMMA GoesOn ==
    ASSUME Typed, VisitsStep, NEW c \in Calls, NEW v \in DOMAIN visits,
           NEW o \in {"started", "ended", "check", "reopened"},
           call' = [call EXCEPT ![c] = [op |-> o, visit |-> v]]
    PROVE  CallPlain
  <1> DEFINE x == [op |-> o, visit |-> v]
  <1>1. v \in DOMAIN visits' /\ v \in Nat
    BY Lengths DEF VisitsStep, Typed
  <1>2. x \in Call /\ x.op \in PlainOps /\ x.op # "reopen"
    BY <1>1, PlainRecords DEF PlainOps
  <1>3. RefersTo(x, DOMAIN visits', DOMAIN tasks', DOMAIN rows')
    BY <1>1 DEF RefersTo, OnVisit, OnTask, OnRow
  <1>4. call' = [call EXCEPT ![c] = x]
    OBVIOUS
  <1> HIDE DEF x
  <1>5. QED
    BY <1>2, <1>3, <1>4 DEF CallPlain

LEMMA Continues ==
    ASSUME Typed, Reopening, NEW c \in Calls,
           StartVisit(c) \/ EndVisit(c) \/ EndTasks(c) \/ ReopenVisit(c)
    PROVE  PlainStep
  <1>1. CASE StartVisit(c)
    <2>1. call[c].visit \in DOMAIN visits
      BY <1>1 DEF StartVisit, Typed, Referring, RefersTo, OnVisit
    <2>2. VisitsStep
      BY <1>1, StartVisits
    <2>3. call' = [call EXCEPT ![c] = [op |-> "started", visit |-> call[c].visit]]
      BY <1>1 DEF StartVisit, Continue
    <2>4. CallPlain
      BY <2>1, <2>2, <2>3, GoesOn
    <2>5. NoneCompletes
      BY <1>1, <2>1 DEF StartVisit, NoneCompletes
    <2>6. QED
      BY <1>1, <2>2, <2>4, <2>5, TasksSame, RowsSame DEF StartVisit, PlainStep, Typed
  <1>2. CASE EndVisit(c)
    <2>1. call[c].visit \in DOMAIN visits
      BY <1>2 DEF EndVisit, Typed, Referring, RefersTo, OnVisit
    <2>2. VisitsStep
      BY <1>2, EndVisits
    <2>3. call' = [call EXCEPT ![c] = [op |-> "ended", visit |-> call[c].visit]]
      BY <1>2 DEF EndVisit, Continue
    <2>4. CallPlain
      BY <2>1, <2>2, <2>3, GoesOn
    <2>5. NoneCompletes
      BY <1>2, <2>1 DEF EndVisit, NoneCompletes
    <2>6. QED
      BY <1>2, <2>2, <2>4, <2>5, TasksSame, RowsSame DEF EndVisit, PlainStep, Typed
  <1>3. CASE EndTasks(c)
    <2>1. call[c].visit \in DOMAIN visits
      BY <1>3 DEF EndTasks, Typed, Referring, RefersTo, OnVisit
    <2>2. VisitsStep
      BY <1>3, VisitsSame DEF EndTasks, Typed
    <2>3. call' = [call EXCEPT ![c] = [op |-> "check", visit |-> call[c].visit]]
      BY <1>3 DEF EndTasks, Continue
    <2>4. CallPlain
      BY <2>1, <2>2, <2>3, GoesOn
    <2>5. QED
      BY <1>3, <2>2, <2>4, EndTasksTasks, RowsSame
         DEF EndTasks, PlainStep, NoneCompletes, Typed
  <1>4. CASE ReopenVisit(c)
    <2>1. call[c].visit \in DOMAIN visits
      BY <1>4 DEF ReopenVisit, Typed, Referring, RefersTo, OnVisit
    <2>2. VisitsStep
      BY <1>4, ReopenVisits
    <2>3. call' = [call EXCEPT ![c] = [op |-> "reopened", visit |-> call[c].visit]]
      BY <1>4 DEF ReopenVisit, Continue
    <2>4. CallPlain
      BY <2>1, <2>2, <2>3, GoesOn
    <2>5. NoneCompletes
      BY <1>4, <2>1 DEF ReopenVisit, NoneCompletes
    <2>6. QED
      BY <1>4, <2>2, <2>4, <2>5, TasksSame, RowsSame DEF ReopenVisit, PlainStep, Typed
  <1>5. QED
    BY <1>1, <1>2, <1>3, <1>4

LEMMA OfAVisit ==
    ASSUME Typed, NEW v \in DOMAIN visits,
           \/ CancelVisit(v) \/ CloseVisit(v)
           \/ \E c \in Calls : SaveSurvey(c, v)
    PROVE  PlainStep
  <1>1. CASE CancelVisit(v)
    <2>1. NoneCompletes /\ CallPlain
      BY <1>1 DEF CancelVisit, NoneCompletes, CallPlain
    <2>2. QED
      BY <1>1, <2>1, CancelVisitTasks, CancelVisitRows, CancelVisitVisits
         DEF CancelVisit, PlainStep
  <1>2. CASE CloseVisit(v)
    <2>1. NoneCompletes /\ CallPlain
      BY <1>2 DEF CloseVisit, NoneCompletes, CallPlain
    <2>2. QED
      BY <1>2, <2>1, TasksSame, CloseRows, CloseVisits DEF CloseVisit, PlainStep, Typed
  <1>3. ASSUME NEW c \in Calls, SaveSurvey(c, v) PROVE PlainStep
    <2>1. VisitsStep
      BY <1>3, SurveyVisits
    <2>2. call' = [call EXCEPT ![c] = [op |-> "check", visit |-> v]]
      BY <1>3 DEF SaveSurvey, Begin
    <2>3. CallPlain
      BY <2>1, <2>2, GoesOn
    <2>4. NoneCompletes
      BY <1>3, Lengths DEF SaveSurvey, NoneCompletes, Typed, Visit
    <2>5. QED
      BY <1>3, <2>1, <2>3, <2>4, TasksSame, RowsSame DEF SaveSurvey, PlainStep, Typed
  <1>4. QED
    BY <1>1, <1>2, <1>3

LEMMA Alone ==
    ASSUME Typed, CreateInstantVisit \/ \E t \in DOMAIN tasks : CancelTask(t)
    PROVE  PlainStep
  <1>1. CASE CreateInstantVisit
    <2>1. NoneCompletes /\ CallPlain
      BY <1>1, AppendedComplete DEF CreateInstantVisit, CallPlain, Typed
    <2>2. QED
      BY <1>1, <2>1, TasksSame, RowsSame, InstantVisits DEF CreateInstantVisit, PlainStep, Typed
  <1>2. ASSUME NEW t \in DOMAIN tasks, CancelTask(t) PROVE PlainStep
    <2>1. TasksStep
      BY <1>2, CancelTasks
    <2>2. QED
      BY <1>2, <2>1, RowsSame, VisitsSame
         DEF CancelTask, PlainStep, NoneCompletes, CallPlain, Typed
  <1>3. QED
    BY <1>1, <1>2

-----------------------------------------------------------------------------
(* What the invariant takes from a step.                                   *)

TasksTyped ==
    tasks' \in Seq(Task) /\ Len(tasks') <= MaxTasks /\ DOMAIN tasks \subseteq DOMAIN tasks'

LEMMA TypedThen ==
    ASSUME Typed, TasksTyped, RowsStep, VisitsStep,
           contract' \in BOOLEAN, device' \in DeviceStates,
           \/ call' = call
           \/ \E c \in Calls : \E x \in Call :
                /\ RefersTo(x, DOMAIN visits', DOMAIN tasks', DOMAIN rows')
                /\ call' = [call EXCEPT ![c] = x]
    PROVE  Typed'
  <1>1. \A r \in DOMAIN rows' : rows'[r].visit \in DOMAIN visits' /\ rows'[r].task \in DOMAIN tasks'
    <2>1. \A r \in DOMAIN rows : rows[r].visit \in DOMAIN visits /\ rows[r].task \in DOMAIN tasks
      BY DEF Typed, TypeOK
    <2>2. QED
      BY <2>1 DEF RowsStep, VisitsStep, TasksTyped
  <1>2. \A c \in Calls : RefersTo(call[c], DOMAIN visits', DOMAIN tasks', DOMAIN rows')
    BY DEF Typed, Referring, RefersTo, RowsStep, VisitsStep, TasksTyped
  <1>3. call' \in [Calls -> Call]
    BY DEF Typed, TypeOK
  <1>4. \A c \in Calls : RefersTo(call'[c], DOMAIN visits', DOMAIN tasks', DOMAIN rows')
    <2>1. CASE call' = call
      BY <1>2, <2>1
    <2>2. ASSUME NEW c \in Calls, NEW x \in Call,
                 RefersTo(x, DOMAIN visits', DOMAIN tasks', DOMAIN rows'),
                 call' = [call EXCEPT ![c] = x]
          PROVE  \A d \in Calls :
                   RefersTo(call'[d], DOMAIN visits', DOMAIN tasks', DOMAIN rows')
      <3>1. \A d \in Calls : call'[d] = IF d = c THEN x ELSE call[d]
        BY <2>2 DEF Typed, TypeOK
      <3>2. TAKE d \in Calls
      <3>3. CASE d = c
        BY <2>2, <3>1, <3>3
      <3>4. CASE d # c
        BY <1>2, <3>1, <3>4
      <3>5. QED
        BY <3>3, <3>4
    <2>3. QED
      BY <2>1, <2>2
  <1>5. TypeOK'
    BY <1>1, <1>3 DEF TypeOK, TasksTyped, RowsStep, VisitsStep
  <1>6. Referring'
    BY <1>4 DEF Referring
  <1>7. QED
    BY <1>5, <1>6 DEF Typed

\* What a visit lacks after a step.
LacksThen(v, but) ==
    \E r \in DOMAIN rows' :
      /\ rows'[r].visit = v /\ ~rows'[r].gone /\ ~rows'[r].pulled /\ ~rows'[r].result
      /\ r # but

LEMMA LacksNoMore ==
    ASSUME RowsStep, NEW v \in DOMAIN visits, NEW but, ~Lacks(v, but)
    PROVE  ~LacksThen(v, but)
  BY DEF RowsStep, Lacks, LacksThen

LEMMA LateStays ==
    ASSUME VisitsStep, NEW v \in DOMAIN visits
    PROVE  /\ visits[v].status \in LateStates => visits'[v].status \in LateStates
           /\ visits[v].survey => visits'[v].survey
  <1>1. visits'[v].status = visits[v].status
        \/ <<visits[v].status, visits'[v].status>> \in VisitPath
    BY DEF VisitsStep
  <1>2. \A a \in LateStates : \A b : <<a, b>> \in VisitPath => b \in LateStates
    BY DEF LateStates, VisitPath
  <1>3. QED
    BY <1>1, <1>2 DEF VisitsStep

\* The visits about to be completed, of the calls that stay as they are.
LEMMA PromotingStays ==
    ASSUME Typed, Promoting, RowsStep, VisitsStep, NEW c \in Calls, call'[c] = call[c]
    PROVE  /\ call'[c].op = "promote" =>
                /\ visits'[call'[c].visit].status \in LateStates
                /\ visits'[call'[c].visit].survey
                /\ ~LacksThen(call'[c].visit, 0)
           /\ call'[c].op = "reflect" /\ call'[c].promote =>
                /\ visits'[rows'[call'[c].row].visit].status \in LateStates
                /\ visits'[rows'[call'[c].row].visit].survey
                /\ ~LacksThen(rows'[call'[c].row].visit, call'[c].row)
  <1>1. CASE call[c].op = "promote"
    <2>1. call[c].visit \in DOMAIN visits
      BY <1>1 DEF Typed, Referring, RefersTo, OnVisit
    <2>2. /\ visits[call[c].visit].status \in LateStates
          /\ visits[call[c].visit].survey /\ ~Lacks(call[c].visit, 0)
      BY <1>1 DEF Promoting
    <2>3. ~LacksThen(call[c].visit, 0)
      BY <2>1, <2>2, LacksNoMore
    <2>4. QED
      BY <1>1, <2>1, <2>2, <2>3, LateStays
  <1>2. CASE call[c].op = "reflect" /\ call[c].promote
    <2>1. call[c].row \in DOMAIN rows /\ rows[call[c].row].visit \in DOMAIN visits
      BY <1>2 DEF Typed, TypeOK, Referring, RefersTo, OnRow
    <2>2. /\ visits[rows[call[c].row].visit].status \in LateStates
          /\ visits[rows[call[c].row].visit].survey
          /\ ~Lacks(rows[call[c].row].visit, call[c].row)
      BY <1>2 DEF Promoting
    <2>3. rows'[call[c].row].visit = rows[call[c].row].visit
      BY <2>1 DEF RowsStep
    <2>4. ~LacksThen(rows[call[c].row].visit, call[c].row)
      BY <2>1, <2>2, LacksNoMore
    <2>5. QED
      BY <1>2, <2>1, <2>2, <2>3, <2>4, LateStays
  <1>3. QED
    BY <1>1, <1>2

\* The visits about to be reopened.
LEMMA ReopeningThen ==
    ASSUME Typed, Reopening, VisitsStep,
           \/ call' = call
           \/ \E c \in Calls : \E x \in Call :
                /\ x.op = "reopen" => visits'[x.visit].status \in LateStates
                /\ call' = [call EXCEPT ![c] = x]
    PROVE  Reopening'
  <1>1. \A d \in Calls :
          call[d].op = "reopen" => visits'[call[d].visit].status \in LateStates
    BY LateStays DEF Reopening, Typed, Referring, RefersTo, OnVisit
  <1>2. CASE call' = call
    BY <1>1, <1>2 DEF Reopening
  <1>3. ASSUME NEW c \in Calls, NEW x \in Call,
               x.op = "reopen" => visits'[x.visit].status \in LateStates,
               call' = [call EXCEPT ![c] = x]
        PROVE  Reopening'
    <2>1. \A d \in Calls : call'[d] = IF d = c THEN x ELSE call[d]
      BY <1>3 DEF Typed, TypeOK
    <2>2. \A d \in Calls :
            call'[d].op = "reopen" => visits'[call'[d].visit].status \in LateStates
      BY <1>1, <1>3, <2>1
    <2>3. QED
      BY <2>2 DEF Reopening
  <1>4. QED
    BY <1>2, <1>3

LEMMA PromotingThen ==
    ASSUME \A c \in Calls :
             /\ call'[c].op = "promote" =>
                  /\ visits'[call'[c].visit].status \in LateStates
                  /\ visits'[call'[c].visit].survey
                  /\ ~LacksThen(call'[c].visit, 0)
             /\ call'[c].op = "reflect" /\ call'[c].promote =>
                  /\ visits'[rows'[call'[c].row].visit].status \in LateStates
                  /\ visits'[rows'[call'[c].row].visit].survey
                  /\ ~LacksThen(rows'[call'[c].row].visit, call'[c].row)
    PROVE  Promoting'
  BY DEF Promoting, Lacks, LacksThen

\* A visit that completes has what it needs.
LEMMA DocumentedThen ==
    ASSUME TypeOK, TypeOK', CompletedDocumented, RowsStep, VisitsStep,
           \A v \in DOMAIN visits :
             visits'[v].status = "completed" =>
               \/ visits[v].status \in {"completed", "closed"}
               \/ visits'[v].survey /\ ~LacksThen(v, 0)
    PROVE  CompletedDocumented'
  <1>1. ASSUME NEW v \in DOMAIN visits', visits'[v].status \in {"completed", "closed"}
        PROVE  visits'[v].survey /\ ~LacksThen(v, 0)
    <2>1. v \in DOMAIN visits
      BY <1>1 DEF VisitsStep
    <2>2. \/ visits[v].status \in {"completed", "closed"}
          \/ visits'[v].survey /\ ~LacksThen(v, 0)
      <3>1. visits'[v].status = "closed" => visits[v].status \in {"completed", "closed"}
        BY <2>1 DEF VisitsStep, VisitPath
      <3>2. QED
        BY <1>1, <2>1, <3>1
    <2>3. CASE visits[v].status \in {"completed", "closed"}
      <3>1. visits[v].survey /\ ~Lacks(v, 0)
        BY <2>1, <2>3 DEF CompletedDocumented, RowsOf, Lacks
      <3>2. QED
        BY <2>1, <3>1, LacksNoMore, LateStays
    <2>4. QED
      BY <2>2, <2>3
  <1>2. \A r \in DOMAIN rows' : r # 0
    BY Lengths DEF TypeOK, RowsStep
  <1>3. \A v \in DOMAIN visits' :
          visits'[v].status \in {"completed", "closed"} =>
            /\ visits'[v].survey
            /\ \A r \in DOMAIN rows' :
                 rows'[r].visit = v /\ ~rows'[r].gone /\ ~rows'[r].pulled => rows'[r].result
    BY <1>1, <1>2 DEF LacksThen
  <1>4. QED
    BY <1>3 DEF CompletedDocumented, RowsOf

-----------------------------------------------------------------------------
(* Each step keeps the invariant.                                          *)

LEMMA PlainCalls ==
    ASSUME Typed, CallPlain, NEW c \in Calls,
           call'[c].op \in {"eligible", "reflect", "promote"}
    PROVE  call'[c] = call[c]
  <1>1. CASE call' = call
    BY <1>1
  <1>2. ASSUME NEW d \in Calls, NEW x \in Call, x.op \in PlainOps,
               call' = [call EXCEPT ![d] = x]
        PROVE  call'[c] = call[c]
    <2>1. call'[c] = IF c = d THEN x ELSE call[c]
      BY <1>2 DEF Typed, TypeOK
    <2>2. x.op \notin {"eligible", "reflect", "promote"}
      BY <1>2 DEF PlainOps
    <2>3. QED
      BY <2>1, <2>2
  <1>3. QED
    BY <1>1, <1>2 DEF CallPlain

LEMMA PlainKeeps ==
    ASSUME IInv, PlainStep
    PROVE  IInv'
  <1>1. Typed'
    <2>1. TasksTyped /\ RowsStep /\ VisitsStep
      BY DEF PlainStep, TasksStep, TasksTyped
    <2>2. contract' \in BOOLEAN /\ device' \in DeviceStates
      BY DEF IInv, Typed, TypeOK, PlainStep
    <2>3. \/ call' = call
          \/ \E c \in Calls : \E x \in Call :
               /\ RefersTo(x, DOMAIN visits', DOMAIN tasks', DOMAIN rows')
               /\ call' = [call EXCEPT ![c] = x]
      BY DEF PlainStep, CallPlain
    <2>4. QED
      BY <2>1, <2>2, <2>3, TypedThen DEF IInv
  <1>2. \A c \in Calls :
          call'[c].op \in {"eligible", "reflect", "promote"} => call'[c] = call[c]
    BY PlainCalls DEF IInv, PlainStep
  <1>3. Holders'
    BY <1>2 DEF IInv, Holders, OneHolder, AwaitedWhileDelivering, Holding, PlainStep
  <1>4. Promoting'
    <2>1. ASSUME NEW c \in Calls
          PROVE  /\ call'[c].op = "promote" =>
                      /\ visits'[call'[c].visit].status \in LateStates
                      /\ visits'[call'[c].visit].survey
                      /\ ~LacksThen(call'[c].visit, 0)
                 /\ call'[c].op = "reflect" /\ call'[c].promote =>
                      /\ visits'[rows'[call'[c].row].visit].status \in LateStates
                      /\ visits'[rows'[call'[c].row].visit].survey
                      /\ ~LacksThen(rows'[call'[c].row].visit, call'[c].row)
      <3>1. CASE call'[c] = call[c]
        BY <3>1, PromotingStays DEF IInv, PlainStep
      <3>2. CASE call'[c] # call[c]
        BY <3>2, <1>2
      <3>3. QED
        BY <3>1, <3>2
    <2>2. QED
      BY <2>1, PromotingThen
  <1>5. SuspendedIdle'
    BY DEF IInv, PlainStep, TasksStep, SuspendedIdle, Active
  <1>6. CompletedDocumented'
    <2>1. TypeOK /\ TypeOK'
      BY <1>1 DEF IInv, Typed
    <2>2. \A v \in DOMAIN visits :
            visits'[v].status = "completed" => visits[v].status \in {"completed", "closed"}
      BY DEF PlainStep, NoneCompletes
    <2>3. QED
      BY <2>1, <2>2, DocumentedThen DEF IInv, PlainStep
  <1>7. Reopening'
    <2>1. \/ call' = call
          \/ \E c \in Calls : \E x \in Call :
               /\ x.op = "reopen" => visits'[x.visit].status \in LateStates
               /\ call' = [call EXCEPT ![c] = x]
      BY DEF PlainStep, CallPlain
    <2>2. QED
      BY <2>1, ReopeningThen DEF IInv, PlainStep
  <1>8. QED
    BY <1>1, <1>3, <1>4, <1>5, <1>6, <1>7 DEF IInv

\* What every other step has to show: its tables and calls, its holders, and
\* the visits it completes.
LEMMA OtherKeeps ==
    ASSUME IInv, TasksTyped, RowsStep, VisitsStep,
           contract' \in BOOLEAN, device' \in DeviceStates,
           \/ call' = call
           \/ \E c \in Calls : \E x \in Call :
                /\ x.op # "reopen"
                /\ RefersTo(x, DOMAIN visits', DOMAIN tasks', DOMAIN rows')
                /\ call' = [call EXCEPT ![c] = x],
           Holders', Promoting', SuspendedIdle',
           \A v \in DOMAIN visits :
             visits'[v].status = "completed" =>
               \/ visits[v].status \in {"completed", "closed"}
               \/ visits'[v].survey /\ ~LacksThen(v, 0)
    PROVE  IInv'
  <1>1. Typed'
    BY TypedThen DEF IInv
  <1>2. CompletedDocumented'
    BY <1>1, DocumentedThen DEF IInv, Typed
  <1>3. Reopening'
    BY ReopeningThen DEF IInv
  <1>4. QED
    BY <1>1, <1>2, <1>3 DEF IInv

LEMMA SameTables ==
    ASSUME Typed, UNCHANGED <<tasks, visits, rows>>
    PROVE  /\ TasksTyped /\ RowsStep /\ VisitsStep
           /\ \A v \in DOMAIN visits :
                visits'[v].status = "completed" => visits[v].status \in {"completed", "closed"}
  BY TasksSame, RowsSame, VisitsSame DEF Typed, TasksTyped, TasksStep

LEMMA CallSet ==
    ASSUME Typed, NEW c \in Calls, NEW x, call' = [call EXCEPT ![c] = x]
    PROVE  \A d \in Calls : call'[d] = IF d = c THEN x ELSE call[d]
  BY DEF Typed, TypeOK

\* Only c can hold the device if nobody else has changed it or locked it.
LEMMA FreeDevice ==
    ASSUME Typed, NEW c, DeviceFree(c), NEW d \in Calls, d # c
    PROVE  call[d].op \notin Holding
  <1>1. call[d].op # "reflect" /\ ~Delivering(d)
    BY DEF DeviceFree, Reflecting
  <1>2. call[d].op = "eligible" => call[d].outcome = "delivered"
    BY CallRecord, CallFields DEF Typed
  <1>3. QED
    BY <1>1, <1>2 DEF Delivering, Holding

LEMMA NoHolder ==
    ASSUME Typed, NobodyHolds
    PROVE  \A d \in Calls : call[d].op \notin Holding
  <1>1. ASSUME NEW d \in Calls PROVE call[d].op \notin Holding
    <2>1. call[d].op # "reflect" /\ ~Delivering(d)
      BY DEF NobodyHolds, Reflecting
    <2>2. call[d].op = "eligible" => call[d].outcome = "delivered"
      BY CallRecord, CallFields DEF Typed
    <2>3. QED
      BY <2>1, <2>2 DEF Delivering, Holding
  <1>2. QED
    BY <1>1

LEMMA PromotingBut ==
    ASSUME Typed, Promoting, RowsStep, VisitsStep, NEW c \in Calls,
           \A d \in Calls \ {c} : call'[d] = call[d],
           /\ call'[c].op = "promote" =>
                /\ visits'[call'[c].visit].status \in LateStates
                /\ visits'[call'[c].visit].survey
                /\ ~LacksThen(call'[c].visit, 0)
           /\ call'[c].op = "reflect" /\ call'[c].promote =>
                /\ visits'[rows'[call'[c].row].visit].status \in LateStates
                /\ visits'[rows'[call'[c].row].visit].survey
                /\ ~LacksThen(rows'[call'[c].row].visit, call'[c].row)
    PROVE  Promoting'
  <1>1. ASSUME NEW d \in Calls
        PROVE  /\ call'[d].op = "promote" =>
                    /\ visits'[call'[d].visit].status \in LateStates
                    /\ visits'[call'[d].visit].survey
                    /\ ~LacksThen(call'[d].visit, 0)
               /\ call'[d].op = "reflect" /\ call'[d].promote =>
                    /\ visits'[rows'[call'[d].row].visit].status \in LateStates
                    /\ visits'[rows'[call'[d].row].visit].survey
                    /\ ~LacksThen(rows'[call'[d].row].visit, call'[d].row)
    <2>1. CASE d = c
      BY <2>1
    <2>2. CASE d # c
      <3>1. call'[d] = call[d]
        BY <2>2
      <3>2. QED
        BY <3>1, PromotingStays
    <2>3. QED
      BY <2>1, <2>2
  <1>2. QED
    BY <1>1, PromotingThen

LEMMA PromotingSame ==
    ASSUME Typed, Promoting, RowsStep, VisitsStep, call' = call
    PROVE  Promoting'
  <1>1. ASSUME NEW d \in Calls
        PROVE  /\ call'[d].op = "promote" =>
                    /\ visits'[call'[d].visit].status \in LateStates
                    /\ visits'[call'[d].visit].survey
                    /\ ~LacksThen(call'[d].visit, 0)
               /\ call'[d].op = "reflect" /\ call'[d].promote =>
                    /\ visits'[rows'[call'[d].row].visit].status \in LateStates
                    /\ visits'[rows'[call'[d].row].visit].survey
                    /\ ~LacksThen(rows'[call'[d].row].visit, call'[d].row)
    BY PromotingStays
  <1>2. QED
    BY <1>1, PromotingThen

LEMMA EligibleKeeps == ASSUME IInv, NEW c \in Calls, Eligible(c) PROVE IInv'
  <1> DEFINE x == [call[c] EXCEPT !.op = "eligible"]
  <1>1. Typed
    BY DEF IInv
  <1>2. call[c] \in [op : {"result"}, row : Nat, outcome : Outcomes]
    BY <1>1, CallRecord DEF Eligible, Typed, Call, Idle
  <1>3. x = [op |-> "eligible", row |-> call[c].row, outcome |-> "delivered"]
    BY <1>2 DEF Eligible
  <1>4. x \in Call /\ x.op = "eligible" /\ x.row = call[c].row /\ x.outcome = "delivered"
    BY <1>2, <1>3 DEF Call
  <1>5. call' = [call EXCEPT ![c] = x]
    BY DEF Eligible, Continue
  <1>6. call[c].row \in DOMAIN rows
    BY <1>1, <1>2 DEF Typed, Referring, RefersTo, OnRow
  <1> HIDE DEF x
  <1>7. UNCHANGED <<contract, device, tasks, visits, rows>> /\ device = "pending_delivery"
    BY DEF Eligible
  <1>8. TasksTyped /\ RowsStep /\ VisitsStep
    BY <1>1, <1>7, SameTables
  <1>9. \A d \in Calls : call'[d] = IF d = c THEN x ELSE call[d]
    BY <1>1, <1>5, CallSet
  <1>10. RefersTo(x, DOMAIN visits', DOMAIN tasks', DOMAIN rows')
    BY <1>4, <1>6, <1>7 DEF RefersTo, OnVisit, OnTask
  <1>11. \A d \in Calls \ {c} : call[d].op \notin Holding
    BY <1>1, FreeDevice DEF Eligible
  <1>12. Holders'
    BY <1>7, <1>9, <1>11 DEF Holders, OneHolder, AwaitedWhileDelivering
  <1>13. Promoting'
    BY <1>1, <1>4, <1>8, <1>9, PromotingBut DEF IInv
  <1>14. SuspendedIdle'
    BY <1>7 DEF IInv, SuspendedIdle, Active
  <1>15. contract' \in BOOLEAN /\ device' \in DeviceStates
    BY <1>1, <1>7 DEF Typed, TypeOK
  <1>16. QED
    BY <1>1, <1>4, <1>5, <1>7, <1>8, <1>10, <1>12, <1>13, <1>14, <1>15, SameTables, OtherKeeps

LEMMA ReflectKeeps == ASSUME IInv, NEW c \in Calls, Reflect(c) PROVE IInv'
  <1> DEFINE r == call[c].row
             p == WouldComplete(r)
             x == [op |-> "reflect", row |-> r, outcome |-> call[c].outcome, promote |-> p]
  <1>1. Typed
    BY DEF IInv
  <1>2. call[c].op \in {"result", "eligible"}
    BY DEF Reflect
  <1>3. r \in DOMAIN rows /\ r \in Nat /\ call[c].outcome \in Outcomes
    BY <1>1, <1>2, Lengths, CallRecord, CallFields DEF Typed, Referring, RefersTo, OnRow
  <1>4. rows[r].visit \in DOMAIN visits
    BY <1>1, <1>3 DEF Typed, TypeOK
  <1>5. p \in BOOLEAN
    BY DEF WouldComplete
  <1>6. p => /\ visits[rows[r].visit].status \in LateStates
             /\ visits[rows[r].visit].survey
             /\ ~Lacks(rows[r].visit, r)
    BY <1>1, <1>4, Lengths DEF WouldComplete, RowsOf, Lacks, LateStates, Typed, Visit
  <1>7. call' = [call EXCEPT ![c] = x]
    BY DEF Reflect, Continue
  <1>8. UNCHANGED <<contract, device, tasks, visits, rows>>
    BY DEF Reflect
  <1>9. call[c].outcome = "delivered" => device = "pending_delivery"
    BY DEF Reflect, IInv, Holders, AwaitedWhileDelivering, Holding
  <1>10. \A d \in Calls \ {c} : call[d].op \notin Holding
    BY <1>1, FreeDevice DEF Reflect
  <1> HIDE DEF r, p
  <1>11. x \in Call /\ x.op = "reflect" /\ x.row = r /\ x.outcome = call[c].outcome
         /\ x.promote = p
    BY <1>3, <1>5 DEF Call
  <1> HIDE DEF x
  <1>12. TasksTyped /\ RowsStep /\ VisitsStep
    BY <1>1, <1>8, SameTables
  <1>13. \A d \in Calls : call'[d] = IF d = c THEN x ELSE call[d]
    BY <1>1, <1>7, CallSet
  <1>14. RefersTo(x, DOMAIN visits', DOMAIN tasks', DOMAIN rows')
    BY <1>3, <1>8, <1>11 DEF RefersTo, OnVisit, OnTask
  <1>15. Holders'
    BY <1>8, <1>9, <1>10, <1>11, <1>13 DEF Holders, OneHolder, AwaitedWhileDelivering
  <1>16. Promoting'
    <2>1. p => ~LacksThen(rows[r].visit, r)
      BY <1>4, <1>6, <1>12, LacksNoMore
    <2>2. p => /\ visits'[rows'[r].visit].status \in LateStates
               /\ visits'[rows'[r].visit].survey
               /\ ~LacksThen(rows'[r].visit, r)
      BY <1>6, <1>8, <2>1
    <2>3. QED
      BY <1>1, <1>11, <1>12, <1>13, <2>2, PromotingBut DEF IInv
  <1>17. SuspendedIdle'
    BY <1>8 DEF IInv, SuspendedIdle, Active
  <1>18. contract' \in BOOLEAN /\ device' \in DeviceStates
    BY <1>1, <1>8 DEF Typed, TypeOK
  <1>19. QED
    BY <1>1, <1>7, <1>8, <1>11, <1>12, <1>14, <1>15, <1>16, <1>17, <1>18, SameTables, OtherKeeps

LEMMA CommitKeeps == ASSUME IInv, NEW c \in Calls, Commit(c) PROVE IInv'
  <1> DEFINE r == call[c].row
             v == rows[r].visit
  <1>1. Typed /\ Promoting
    BY DEF IInv
  <1>2. r \in DOMAIN rows /\ v \in DOMAIN visits
    BY <1>1 DEF Commit, Typed, TypeOK, Referring, RefersTo, OnRow
  <1>3. TasksTyped /\ RowsStep /\ VisitsStep /\ rows'[r].result
    BY <1>1, CommitTasks, CommitRows, CommitVisits DEF TasksTyped
  <1>4. call' = [call EXCEPT ![c] = Idle]
    BY DEF Commit, End
  <1>5. \A d \in Calls : call'[d] = IF d = c THEN Idle ELSE call[d]
    BY <1>1, <1>4, CallSet
  <1>6. \A d \in Calls \ {c} : call[d].op \notin Holding
    BY DEF Commit, IInv, Holders, OneHolder, Holding
  <1>7. Idle.op \notin Holding /\ Idle.op # "promote"
    BY DEF Idle, Holding
  <1>8. Holders'
    BY <1>5, <1>6, <1>7 DEF Holders, OneHolder, AwaitedWhileDelivering
  <1>9. Promoting'
    BY <1>1, <1>3, <1>5, <1>7, PromotingBut DEF Holding
  <1>10. device' \in {"delivered", "pending_delivery"} /\ contract' = contract
    BY DEF Commit
  <1>11. SuspendedIdle'
    BY <1>10 DEF SuspendedIdle
  <1>12. contract' \in BOOLEAN /\ device' \in DeviceStates
    BY <1>1, <1>10 DEF Typed, TypeOK, DeviceStates
  <1>13. ASSUME NEW w \in DOMAIN visits, visits'[w].status = "completed",
                visits[w].status \notin {"completed", "closed"}
         PROVE  visits'[w].survey /\ ~LacksThen(w, 0)
    <2>1. w = v /\ call[c].promote
      BY <1>2, <1>13 DEF Commit
    <2>2. visits[v].survey /\ ~Lacks(v, r)
      BY <1>1, <2>1 DEF Promoting, Commit
    <2>3. visits'[v].survey /\ ~LacksThen(v, r)
      BY <1>2, <1>3, <2>2, LacksNoMore, LateStays
    <2>4. QED
      BY <1>3, <2>1, <2>3 DEF LacksThen
  <1>14. Idle \in Call /\ RefersTo(Idle, DOMAIN visits', DOMAIN tasks', DOMAIN rows')
         /\ Idle.op # "reopen"
    BY PlainRecords, IdleRefers
  <1>15. QED
    BY <1>3, <1>4, <1>8, <1>9, <1>11, <1>12, <1>13, <1>14, OtherKeeps

LEMMA CheckKeeps == ASSUME IInv, NEW c \in Calls, CheckVisit(c) PROVE IInv'
  <1> DEFINE v == call[c].visit
             x == [op |-> "promote", visit |-> v]
  <1>1. Typed /\ Promoting
    BY DEF IInv
  <1>2. v \in DOMAIN visits /\ v \in Nat
    BY <1>1, Lengths DEF CheckVisit, Typed, Referring, RefersTo, OnVisit
  <1>3. UNCHANGED <<contract, device, tasks, visits, rows>>
    BY DEF CheckVisit
  <1>4. TasksTyped /\ RowsStep /\ VisitsStep
    BY <1>1, <1>3, SameTables
  <1>5. CASE visits[v].status = "ended" /\ Decided(v) /\ visits[v].survey
    <2>1. call' = [call EXCEPT ![c] = x]
      BY <1>5 DEF CheckVisit, Continue
    <2>2. ~Lacks(v, 0)
      BY <1>5 DEF Decided, RowsOf, Lacks
    <2>3. ~LacksThen(v, 0)
      BY <1>2, <1>4, <2>2, LacksNoMore
    <2>4. visits'[v].status \in LateStates /\ visits'[v].survey
      BY <1>3, <1>5 DEF LateStates
    <2> HIDE DEF v
    <2>5. x \in Call /\ x.op = "promote" /\ x.visit = v
      BY <1>2 DEF Call
    <2> HIDE DEF x
    <2>6. \A d \in Calls : call'[d] = IF d = c THEN x ELSE call[d]
      BY <1>1, <2>1, CallSet
    <2>7. RefersTo(x, DOMAIN visits', DOMAIN tasks', DOMAIN rows')
      BY <1>2, <1>3, <2>5 DEF RefersTo, OnTask, OnRow
    <2>8. Holders'
      BY <1>3, <2>5, <2>6 DEF IInv, Holders, OneHolder, AwaitedWhileDelivering, Holding
    <2>9. Promoting'
      BY <1>1, <1>4, <2>3, <2>4, <2>5, <2>6, PromotingBut
    <2>10. SuspendedIdle' /\ contract' \in BOOLEAN /\ device' \in DeviceStates
      BY <1>3 DEF IInv, SuspendedIdle, Active, Typed, TypeOK
    <2>11. QED
      BY <1>1, <1>3, <1>4, <2>1, <2>5, <2>7, <2>8, <2>9, <2>10, SameTables, OtherKeeps
  <1>6. CASE ~(visits[v].status = "ended" /\ Decided(v) /\ visits[v].survey)
    <2>1. PlainStep
      BY <1>1, <1>3, <1>6, Ended, TasksSame, RowsSame, VisitsSame
         DEF CheckVisit, PlainStep, NoneCompletes, Typed
    <2>2. QED
      BY <2>1, PlainKeeps
  <1>7. QED
    BY <1>5, <1>6

LEMMA PromoteKeeps == ASSUME IInv, NEW c \in Calls, PromoteVisit(c) PROVE IInv'
  <1> DEFINE v == call[c].visit
  <1>1. Typed /\ Promoting
    BY DEF IInv
  <1>2. v \in DOMAIN visits
    BY <1>1 DEF PromoteVisit, Typed, Referring, RefersTo, OnVisit
  <1>3. UNCHANGED <<contract, device, tasks, rows>>
    BY DEF PromoteVisit
  <1>4. TasksTyped /\ RowsStep /\ VisitsStep
    BY <1>1, <1>3, TasksSame, RowsSame, PromoteVisits DEF Typed, TasksStep, TasksTyped
  <1>5. call' = [call EXCEPT ![c] = Idle]
    BY DEF PromoteVisit, End
  <1>6. \A d \in Calls : call'[d] = IF d = c THEN Idle ELSE call[d]
    BY <1>1, <1>5, CallSet
  <1>7. Idle.op \notin Holding /\ Idle.op # "promote"
    BY DEF Idle, Holding
  <1>8. Holders'
    BY <1>3, <1>6, <1>7 DEF IInv, Holders, OneHolder, AwaitedWhileDelivering
  <1>9. Promoting'
    BY <1>1, <1>4, <1>6, <1>7, PromotingBut DEF Holding
  <1>10. SuspendedIdle' /\ contract' \in BOOLEAN /\ device' \in DeviceStates
    BY <1>1, <1>3 DEF IInv, SuspendedIdle, Active, Typed, TypeOK
  <1>11. ASSUME NEW w \in DOMAIN visits, visits'[w].status = "completed",
                visits[w].status \notin {"completed", "closed"}
         PROVE  visits'[w].survey /\ ~LacksThen(w, 0)
    <2>1. w = v
      BY <1>2, <1>11 DEF PromoteVisit
    <2>2. visits[v].survey /\ ~Lacks(v, 0)
      BY <1>1 DEF Promoting, PromoteVisit
    <2>3. QED
      BY <1>2, <1>4, <2>1, <2>2, LacksNoMore, LateStays
  <1>12. Idle \in Call /\ RefersTo(Idle, DOMAIN visits', DOMAIN tasks', DOMAIN rows')
         /\ Idle.op # "reopen"
    BY PlainRecords, IdleRefers
  <1>13. QED
    BY <1>4, <1>5, <1>8, <1>9, <1>10, <1>11, <1>12, OtherKeeps

\* The device is suspended, resumed or taken back when nobody holds it.
LEMMA DeviceKeeps == ASSUME IInv, Suspend \/ Resume \/ CancelContract PROVE IInv'
  <1>1. Typed /\ Promoting
    BY DEF IInv
  <1>2. call' = call /\ NobodyHolds
    BY DEF Suspend, Resume, CancelContract
  <1>3. Holders'
    BY <1>1, <1>2, NoHolder DEF Holders, OneHolder, AwaitedWhileDelivering
  <1>4. contract' \in BOOLEAN /\ device' \in DeviceStates
    BY <1>1 DEF Suspend, Resume, CancelContract, Typed, TypeOK, DeviceStates
  <1>5. TasksStep /\ RowsStep /\ VisitsStep
    <2>1. CASE Suspend
      BY <1>1, <2>1, SuspendTasks, SuspendRows, SuspendVisits
    <2>2. CASE Resume
      BY <1>1, <2>2, TasksSame, RowsSame, VisitsSame DEF Resume, Typed
    <2>3. CASE CancelContract
      BY <1>1, <2>3, CancelContractTasks, CancelContractRows, VisitsSame DEF CancelContract, Typed
    <2>4. QED
      BY <2>1, <2>2, <2>3
  <1>6. Promoting'
    BY <1>1, <1>2, <1>5, PromotingSame
  <1>7. SuspendedIdle'
    <2>1. CASE Suspend
      BY <1>1, <2>1, SuspendTasks DEF SuspendedIdle, Active
    <2>2. CASE Resume \/ CancelContract
      BY <2>2 DEF Resume, CancelContract, SuspendedIdle
    <2>3. QED
      BY <2>1, <2>2
  <1>8. \A v \in DOMAIN visits : visits'[v].status = "completed" => visits[v].status = "completed"
    <2>1. CASE Suspend
      <3>1. \A v \in DOMAIN visits :
              \/ visits'[v] = visits[v]
              \/ visits'[v] = [visits[v] EXCEPT !.status = "cancelled"]
        BY <2>1 DEF Suspend
      <3>2. \A v \in DOMAIN visits :
              visits[v] \in Visit /\ [visits[v] EXCEPT !.status = "cancelled"].status = "cancelled"
        BY <1>1, Lengths DEF Typed, Visit
      <3>3. QED
        BY <3>1, <3>2
    <2>2. CASE Resume \/ CancelContract
      BY <2>2 DEF Resume, CancelContract
    <2>3. QED
      BY <2>1, <2>2
  <1>9. TasksTyped
    BY <1>5 DEF TasksStep, TasksTyped
  <1>10. QED
    BY <1>2, <1>3, <1>4, <1>5, <1>6, <1>7, <1>8, <1>9, OtherKeeps

-----------------------------------------------------------------------------
(* The theorems.                                                           *)

LEMMA InitInv == Init => IInv
  <1> SUFFICES ASSUME Init PROVE IInv
    OBVIOUS
  <1>1. OpenTask \in Task
    BY DEF OpenTask, Task, WaitingStates, ActiveStates
  <1>2. tasks \in Seq(Task) /\ Len(tasks) = 1 /\ visits \in Seq(Visit) /\ Len(visits) = 0
        /\ rows \in Seq(Row) /\ Len(rows) = 0 /\ DOMAIN rows = {} /\ DOMAIN visits = {}
    BY <1>1 DEF Init
  <1>3. call \in [Calls -> Call] /\ \A c \in Calls : call[c] = Idle
    BY PlainRecords DEF Init
  <1>4. TypeOK
    BY <1>2, <1>3, DeliveryAssumption DEF TypeOK, Init, DeviceStates, DeliveryAssumption
  <1>5. Typed
    BY <1>3, <1>4, IdleRefers DEF Typed, Referring
  <1>6. Holders /\ Promoting /\ Reopening
    BY <1>3
       DEF Holders, OneHolder, AwaitedWhileDelivering, Promoting, Reopening, Idle, Holding
  <1>7. SuspendedIdle /\ CompletedDocumented
    BY <1>2 DEF Init, SuspendedIdle, CompletedDocumented
  <1>8. QED
    BY <1>5, <1>6, <1>7 DEF IInv

\* Every step is plain, or one of those that hold or change the device or
\* complete a visit.
LEMMA Steps ==
    ASSUME Typed, Reopening, [Next]_vars
    PROVE  \/ PlainStep
           \/ \E c \in Calls : Eligible(c) \/ Reflect(c) \/ Commit(c)
           \/ \E c \in Calls : CheckVisit(c) \/ PromoteVisit(c)
           \/ Suspend \/ Resume \/ CancelContract
  <1>1. CASE UNCHANGED vars
    BY <1>1, TasksSame, RowsSame, VisitsSame
       DEF vars, PlainStep, NoneCompletes, CallPlain, Typed
  <1>2. ASSUME NEW c \in Calls,
               \/ CreateRead(c) \/ Abort(c)
               \/ \E t \in DOMAIN tasks : BookRead(c, t)
               \/ \E v \in DOMAIN visits : StartRead(c, v) \/ EndRead(c, v) \/ CompleteVisit(c, v)
               \/ \E v \in DOMAIN visits : ReopenRead(c, v)
               \/ \E v \in DOMAIN visits, t \in DOMAIN tasks : PullRead(c, v, t)
               \/ \E r \in DOMAIN rows : UndoRead(c, r)
               \/ \E r \in DOMAIN rows, o \in Outcomes : ResultRead(c, r, o)
        PROVE  PlainStep
    BY <1>2, Begins
  <1>3. ASSUME NEW c \in Calls,
               \/ CreateWrite(c) \/ BookWrite(c) \/ StartTasks(c)
               \/ PullWrite(c) \/ UndoWrite(c) \/ ReopenRows(c)
        PROVE  PlainStep
    BY <1>3, Writes
  <1>4. ASSUME NEW c \in Calls,
               StartVisit(c) \/ EndVisit(c) \/ EndTasks(c) \/ ReopenVisit(c)
        PROVE  PlainStep
    BY <1>4, Continues
  <1>5. ASSUME NEW v \in DOMAIN visits,
               \/ CancelVisit(v) \/ CloseVisit(v)
               \/ \E c \in Calls : SaveSurvey(c, v)
        PROVE  PlainStep
    BY <1>5, OfAVisit
  <1>6. CASE CreateInstantVisit \/ \E t \in DOMAIN tasks : CancelTask(t)
    BY <1>6, Alone
  <1>7. QED
    BY <1>1, <1>2, <1>3, <1>4, <1>5, <1>6 DEF Next

LEMMA NextInv == IInv /\ [Next]_vars => IInv'
  <1> SUFFICES ASSUME IInv, [Next]_vars PROVE IInv'
    OBVIOUS
  <1>1. Typed /\ Reopening
    BY DEF IInv
  <1>2. QED
    BY <1>1, Steps, PlainKeeps, EligibleKeeps, ReflectKeeps, CommitKeeps, CheckKeeps,
       PromoteKeeps, DeviceKeeps

\* What a step does to the visits and to the device.
LEMMA NextVisits == IInv /\ [Next]_vars => VisitsStep
  <1> SUFFICES ASSUME IInv, [Next]_vars PROVE VisitsStep
    OBVIOUS
  <1>1. Typed /\ Promoting /\ Reopening
    BY DEF IInv
  <1>2. CASE PlainStep
    BY <1>2 DEF PlainStep
  <1>3. ASSUME NEW c \in Calls, Eligible(c) \/ Reflect(c) \/ CheckVisit(c) PROVE VisitsStep
    BY <1>1, <1>3, VisitsSame DEF Eligible, Reflect, CheckVisit, Typed
  <1>4. ASSUME NEW c \in Calls, Commit(c) \/ PromoteVisit(c) PROVE VisitsStep
    BY <1>1, <1>4, CommitVisits, PromoteVisits
  <1>5. CASE Resume \/ CancelContract
    BY <1>1, <1>5, VisitsSame DEF Resume, CancelContract, Typed
  <1>6. CASE Suspend
    BY <1>1, <1>6, SuspendVisits
  <1>7. QED
    BY <1>1, <1>2, <1>3, <1>4, <1>5, <1>6, Steps

LEMMA NextDevice ==
    IInv /\ [Next]_vars =>
      (device' = "delivered" /\ device # "delivered" => device = "pending_delivery")
  <1> SUFFICES ASSUME IInv, [Next]_vars, device' = "delivered", device # "delivered"
               PROVE  device = "pending_delivery"
    OBVIOUS
  <1>1. Typed /\ Reopening
    BY DEF IInv
  <1>2. ~PlainStep
    BY DEF PlainStep
  <1>3. \A c \in Calls : ~Eligible(c) /\ ~Reflect(c) /\ ~CheckVisit(c) /\ ~PromoteVisit(c)
    BY DEF Eligible, Reflect, CheckVisit, PromoteVisit
  <1>4. ~Suspend /\ ~Resume /\ ~CancelContract
    BY DEF Suspend, Resume, CancelContract
  <1>5. PICK c \in Calls : Commit(c)
    BY <1>1, <1>2, <1>3, <1>4, Steps
  <1>6. call[c].op \in Holding /\ call[c].outcome = "delivered"
    BY <1>5 DEF Commit, Holding
  <1>7. QED
    BY <1>6 DEF IInv, Holders, AwaitedWhileDelivering

\* The invariant the theorems rest on.
THEOREM DeliveryInv == Spec => []IInv
  <1>1. QED
    BY InitInv, NextInv, PTL DEF Spec

\* The tables keep their shape, whatever calls run against them.
THEOREM DeliveryTypes == Spec => []TypeOK
  <1>1. IInv => TypeOK
    BY DEF IInv, Typed
  <1>2. QED
    BY <1>1, DeliveryInv, PTL

\* A suspended delivery has no active task, whatever was under way.
THEOREM SuspendedDeliveriesRest == Spec => []SuspendedIdle
  <1>1. IInv => SuspendedIdle
    BY DEF IInv
  <1>2. QED
    BY <1>1, DeliveryInv, PTL

\* A completed or closed visit has its survey and the results of its tasks.
THEOREM CompletedVisitsDocumented == Spec => []CompletedDocumented
  <1>1. IInv => CompletedDocumented
    BY DEF IInv
  <1>2. QED
    BY <1>1, DeliveryInv, PTL

\* Late calls take no visit off its path: cancelled stays cancelled, and ended
\* comes before completed.
THEOREM VisitsOnTheirPath == Spec => VisitsKeepToPath
  <1>1. IInv /\ [Next]_vars =>
          [\A v \in DOMAIN visits :
             visits'[v].status # visits[v].status
               => <<visits[v].status, visits'[v].status>> \in VisitPath]_vars
    BY NextVisits DEF VisitsStep
  <1>2. QED
    BY <1>1, DeliveryInv, PTL DEF Spec, VisitsKeepToPath

\* A device is delivered only while it waits for its delivery.
THEOREM DeliveriesAwaited == Spec => DeliveredWhileAwaited
  <1>1. IInv /\ [Next]_vars =>
          [device' = "delivered" /\ device # "delivered" => device = "pending_delivery"]_vars
    BY NextDevice
  <1>2. QED
    BY <1>1, DeliveryInv, PTL DEF Spec, DeliveredWhileAwaited
=============================================================================
