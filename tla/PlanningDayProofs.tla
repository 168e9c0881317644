--------------------------- MODULE PlanningDayProofs ---------------------------
(***************************************************************************)
(* Theorems about PlanningDay, for any clients, tasks, operators, times,    *)
(* handlers and days.                                                      *)
(***************************************************************************)
EXTENDS PlanningDay, SequenceTheorems, TLAPS

-----------------------------------------------------------------------------
(* Types *)

LEMMA TaskTypes ==
    ASSUME NEW x \in Task
    PROVE  /\ Released(x) \in Task
           /\ \A d \in Days : Synced(x, TRUE, d) \in Task /\ Synced(x, FALSE, d) \in Task
           /\ \A s \in {"in_scheduling", "scheduled"} : [x EXCEPT !.status = s, !.day = 0] \in Task
           /\ [x EXCEPT !.status = "in_execution"] \in Task
  <1>0. 0 \in 0..LastDay /\ Days \subseteq 0..LastDay
    BY PlanningAssumption DEF PlanningAssumption, Days
  <1>1. Released(x) \in Task
    BY <1>0 DEF Task, Released, WaitingStates
  <1>2. ASSUME NEW d \in Days
        PROVE  Synced(x, TRUE, d) \in Task /\ Synced(x, FALSE, d) \in Task
    <2>1. d \in 0..LastDay
      BY <1>0
    <2>2. [status |-> "assigned", waiting |-> "open", day |-> d] \in Task
          /\ [status |-> "assigned", waiting |-> "needs_follow_up", day |-> d] \in Task
      BY <2>1 DEF Task, WaitingStates
    <2>3. QED
      BY <1>1, <2>2 DEF Synced, WaitingStates
  <1>3. \A s \in {"in_scheduling", "scheduled"} : [x EXCEPT !.status = s, !.day = 0] \in Task
    BY <1>0 DEF Task
  <1>4. [x EXCEPT !.status = "in_execution"] \in Task
    BY DEF Task
  <1>5. QED
    BY <1>1, <1>2, <1>3, <1>4

LEMMA ContactTypes ==
    ASSUME NEW x \in Contact
    PROVE  /\ Shut(x) \in Contact
           /\ [Shut(x) EXCEPT !.owner = NoOne] \in Contact
           /\ \A o \in Operators :
                /\ Claimed(x, o) \in Contact
                /\ Shut(Claimed(x, o)) \in Contact
                /\ Called(x, o) \in Contact
           /\ \A S \in SUBSET Tasks : Linked(x, S) \in Contact /\ Listed(x, S) \in Contact
  BY DEF Contact, Shut, Claimed, Called, Linked, Listed, OpenContact

\* The records of a handler, by the operation it is in.
LEMMA CallFields ==
    ASSUME NEW x \in Call
    PROVE  /\ x.op = "prepare" => x.day \in Days
           /\ x.op = "close" => /\ x.day \in Days
                                /\ x.contacts \in SUBSET Clients
                                /\ x.tasks \in SUBSET Tasks
           /\ x.op = "book" => /\ x \in Booking
                               /\ x.contact # 0 => x.contact \in Days /\ x.by \in Operators
           /\ x.op = "booked" => x.client \in Clients /\ x.contact \in Days /\ x.by \in Operators
           /\ x.op = "instant" => x.client \in Clients /\ x.day \in Days /\ x.slot \in Slots
           /\ x.op = "start" => x.visit \in Nat
  <1>2. CASE x \in Booking
    <2>1. /\ x.op = "book" /\ x.contact \in 0..LastDay
          /\ x.by \in Operators \cup {NoOne} /\ (x.by = NoOne <=> x.contact = 0)
      BY <1>2 DEF Booking
    <2>2. x.contact # 0 => x.contact \in Days /\ x.by \in Operators
      BY <2>1, PlanningAssumption DEF PlanningAssumption, Days
    <2>3. QED
      BY <1>2, <2>1, <2>2
  <1>3. CASE x \notin Booking
    <2>1. \/ x = Idle
          \/ x \in [op : {"booked"}, listed : BOOLEAN, client : Clients,
                    contact : Days, by : Operators]
          \/ x \in [op : {"prepare"}, day : Days]
          \/ x \in [op : {"close"}, day : Days, contacts : SUBSET Clients, tasks : SUBSET Tasks]
          \/ x \in [op : {"instant"}, client : Clients, day : Days, slot : Slots]
          \/ x \in [op : {"start"}, visit : Nat]
      BY <1>3 DEF Call
    <2>2. QED
      BY <2>1 DEF Idle
  <1>4. QED
    BY <1>2, <1>3

LEMMA TypeInit == Init => TypeOK
  <1>1. <<>> \in Seq(Visit) /\ Len(<<>>) = 0
    BY EmptySeq
  <1>2. NoContact \in Contact /\ Idle \in Call
    BY DEF NoContact, Contact, Idle, Call
  <1>3. QED
    BY <1>1, <1>2, PlanningAssumption
       DEF PlanningAssumption, Init, TypeOK, Task, WaitingStates

\* One contact, and all contacts of a day, take a new record.
LEMMA OneContactType ==
    ASSUME TypeOK, NEW k \in Clients, NEW d \in Days, NEW x \in Contact
    PROVE  [contact EXCEPT ![k][d] = x] \in [Clients -> [Days -> Contact]]
  BY DEF TypeOK

LEMMA CallType ==
    ASSUME TypeOK, NEW c \in Calls \cup {Job}, NEW x \in Call
    PROVE  [call EXCEPT ![c] = x] \in [Calls \cup {Job} -> Call]
  BY DEF TypeOK

LEMMA IdleIsCall == Idle \in Call
  BY DEF Call

LEMMA InsertType ==
    ASSUME TypeOK, NEW v \in Visit, Insert(v)
    PROVE  /\ visits' \in Seq(Visit) /\ Len(visits') <= MaxVisits
           /\ Len(visits') = Len(visits) + 1
           /\ \A w \in 1..Len(visits) : visits'[w] = visits[w]
           /\ visits'[Len(visits) + 1] = v
  <1>1. Len(visits) \in Nat
    BY LenProperties DEF TypeOK
  <1>2. QED
    BY <1>1, PlanningAssumption DEF PlanningAssumption, Insert, TypeOK

LEMMA VisitStatusType ==
    ASSUME TypeOK, NEW v \in DOMAIN visits, NEW s \in {"scheduled", "in_progress", "cancelled"},
           visits' = [visits EXCEPT ![v].status = s]
    PROVE  /\ visits' \in Seq(Visit) /\ Len(visits') = Len(visits)
           /\ \A w \in 1..Len(visits) :
                visits'[w] = IF w = v THEN [visits[v] EXCEPT !.status = s] ELSE visits[w]
  <1>1. v \in 1..Len(visits) /\ visits[v] \in Visit
    BY LenProperties, ElementOfSeq DEF TypeOK
  <1>2. [visits[v] EXCEPT !.status = s] \in Visit
    BY <1>1 DEF Visit
  <1>3. visits' = [visits EXCEPT ![v] = [visits[v] EXCEPT !.status = s]]
    OBVIOUS
  <1>4. QED
    BY <1>1, <1>2, <1>3, ExceptSeq DEF TypeOK

LEMMA PlanTypes ==
    ASSUME TypeOK, PlanStep
    PROVE  TypeOK'
  <1>t. \A t \in Tasks : task[t] \in Task
    BY DEF TypeOK
  <1>k. \A k \in Clients, d \in Days : contact[k][d] \in Contact
    BY DEF TypeOK
  <1>1. ASSUME NEW c \in Calls \cup {Job}, NEW d \in Days, CloseDay(c, d)
        PROVE  TypeOK'
    <2>1. [op |-> "close", day |-> d, contacts |-> OpenContacts(d),
           tasks |-> AssignedFor(d) \cup
                     {t \in Tasks : /\ task[t].status = "in_scheduling"
                                    /\ \E k \in OpenContacts(d) : t \in contact[k][d].links}]
            \in Call
      BY DEF Call, OpenContacts, AssignedFor
    <2>2. QED
      BY <1>1, <2>1, CallType DEF CloseDay, Begin, TypeOK
  <1>2. ASSUME NEW c \in Calls, NEW d \in Days, NEW plan \in SUBSET Tasks, Prepare(c, d, plan)
        PROVE  TypeOK'
    <2>1. [op |-> "prepare", day |-> d] \in Call
      BY DEF Call
    <2>2. \A t \in Tasks : Synced(task[t], t \in plan, d) \in Task
      <3>1. TAKE t \in Tasks
      <3>2. CASE t \in plan
        <4>1. (t \in plan) = TRUE
          BY <3>2
        <4>2. QED
          BY <4>1, <1>t, TaskTypes
      <3>3. CASE t \notin plan
        <4>1. (t \in plan) = FALSE
          BY <3>3
        <4>2. QED
          BY <4>1, <1>t, TaskTypes
      <3>4. QED
        BY <3>2, <3>3
    <2>3. QED
      BY <1>2, <2>1, <2>2, CallType DEF Prepare, Begin, TypeOK
  <1>3. ASSUME NEW c \in Calls, Reconcile(c)
        PROVE  TypeOK'
    <2> DEFINE d == call[c].day
    <2> DEFINE Scoped(k) == TasksOf(k) \cap (AssignedFor(d) \cup contact[k][d].links)
    <2>1. d \in Days
      BY <1>3, CallFields DEF Reconcile, End, TypeOK
    <2>2. \A k \in Clients : Scoped(k) \in SUBSET Tasks
      BY DEF TasksOf
    <2>3. contact' = [k \in Clients |-> [contact[k] EXCEPT ![d] = Linked(contact[k][d], Scoped(k))]]
      BY <1>3 DEF Reconcile
    <2> HIDE DEF d, Scoped
    <2>4. contact' \in [Clients -> [Days -> Contact]]
      BY <1>k, <2>1, <2>2, <2>3, ContactTypes DEF TypeOK
    <2>5. QED
      BY <1>3, <2>4, IdleIsCall, CallType DEF Reconcile, End, TypeOK
  <1>4. ASSUME NEW d \in Days, Generate(d)
        PROVE  TypeOK'
    <2> DEFINE Leads(k) == {t \in TasksOf(k) \cap AssignedFor(d) :
                              contact[k][d].status = "closed" => t \in contact[k][d].items}
    <2> DEFINE listed == UNION {Leads(k) : k \in Clients \ blocked}
    <2>1. task' = [t \in Tasks |->
            IF t \in listed THEN [task[t] EXCEPT !.status = "in_scheduling", !.day = 0]
                            ELSE task[t]]
      BY <1>4 DEF Generate
    <2>2. contact' = [k \in Clients |->
                        [contact[k] EXCEPT ![d] = Listed(contact[k][d], TasksOf(k) \cap listed)]]
      BY <1>4 DEF Generate
    <2> HIDE DEF listed
    <2>3. \A k \in Clients : TasksOf(k) \cap listed \in SUBSET Tasks
      BY DEF TasksOf
    <2>4. contact' \in [Clients -> [Days -> Contact]]
      BY <1>k, <2>2, <2>3, ContactTypes DEF TypeOK
    <2>5. task' \in [Tasks -> Task]
      BY <1>t, <2>1, TaskTypes
    <2>6. QED
      BY <1>4, <2>4, <2>5 DEF Generate, TypeOK
  <1>5. ASSUME NEW c \in Calls \cup {Job}, CloseDayCommit(c)
        PROVE  TypeOK'
    <2>1. call[c].day \in Days
      BY <1>5, CallFields DEF CloseDayCommit, End, TypeOK
    <2>2. task' \in [Tasks -> Task]
      BY <1>5, <1>t, TaskTypes DEF CloseDayCommit
    <2>3. contact' = [k \in Clients |-> [contact[k] EXCEPT ![call[c].day] =
             IF k \in call[c].contacts THEN [Shut(contact[k][call[c].day]) EXCEPT !.owner = NoOne]
                                       ELSE contact[k][call[c].day]]]
      BY <1>5 DEF CloseDayCommit
    <2>4. contact' \in [Clients -> [Days -> Contact]]
      BY <1>k, <2>1, <2>3, ContactTypes DEF TypeOK
    <2>5. QED
      BY <1>5, <2>1, <2>2, <2>4, IdleIsCall, CallType DEF CloseDayCommit, End, TypeOK
  <1>6. QED
    BY <1>1, <1>2, <1>3, <1>4, <1>5 DEF PlanStep, AutoClose

LEMMA ContactTypesKept ==
    ASSUME TypeOK, ContactStep
    PROVE  TypeOK'
  <1>t. \A t \in Tasks : task[t] \in Task
    BY DEF TypeOK
  <1>k. \A k \in Clients, d \in Days : contact[k][d] \in Contact
    BY DEF TypeOK
  <1>1. ASSUME NEW k \in Clients, NEW d \in Days, NEW o \in Operators,
               Claim(k, d, o) \/ LogCall(k, d, o)
        PROVE  TypeOK'
    <2>1. contact[k][d] \in Contact
      BY <1>k
    <2>2. \/ contact' = [contact EXCEPT ![k][d] = Claimed(contact[k][d], o)]
          \/ contact' = [contact EXCEPT ![k][d] = Called(contact[k][d], o)]
      BY <1>1 DEF Claim, LogCall
    <2>3. contact' \in [Clients -> [Days -> Contact]]
      <3>1. Claimed(contact[k][d], o) \in Contact /\ Called(contact[k][d], o) \in Contact
        BY <2>1, ContactTypes
      <3>2. QED
        BY <2>2, <3>1, OneContactType
    <2>4. QED
      BY <1>1, <2>3 DEF Claim, LogCall, TypeOK
  <1>2. ASSUME NEW k \in Clients, NEW d \in Days, NEW o \in Operators, CloseItem(k, d, o)
        PROVE  TypeOK'
    <2>1. task' \in [Tasks -> Task]
      BY <1>2, <1>t, TaskTypes DEF CloseItem
    <2>2. QED
      BY <1>2, <1>k, <2>1, ContactTypes, OneContactType DEF CloseItem, TypeOK
  <1>3. ASSUME NEW k \in Clients, DoNotContact(k)
        PROVE  TypeOK'
    <2>1. task' \in [Tasks -> Task]
      BY <1>3, <1>t, TaskTypes DEF DoNotContact
    <2>2. contact' \in [Clients -> [Days -> Contact]]
      BY <1>3, <1>k, ContactTypes DEF DoNotContact, TypeOK
    <2>3. QED
      BY <1>3, <2>1, <2>2 DEF DoNotContact, TypeOK
  <1>4. ASSUME NEW k \in Clients, AllowContact(k)
        PROVE  TypeOK'
    BY <1>4 DEF AllowContact, TypeOK
  <1>5. QED
    BY <1>1, <1>2, <1>3, <1>4 DEF ContactStep

LEMMA BookingTypes ==
    ASSUME TypeOK, NEW c \in Calls,
           BookCommit(c) \/ \E r \in Booking : BookRead(c, r)
    PROVE  TypeOK'
  <1>t. \A t \in Tasks : task[t] \in Task
    BY DEF TypeOK
  <1>k. \A k \in Clients, d \in Days : contact[k][d] \in Contact
    BY DEF TypeOK
  <1>1. ASSUME NEW r \in Booking, BookRead(c, r)
        PROVE  TypeOK'
    <2>1. r \in Call /\ r.op = "book" /\ r.client \in Clients
      BY DEF Call, Booking
    <2>2. CASE r.contact = 0
      BY <1>1, <2>1, <2>2, CallType DEF BookRead, Begin, TypeOK
    <2>3. CASE r.contact # 0
      <3>1. r.contact \in Days /\ r.by \in Operators
        BY <2>1, <2>3, CallFields
      <3>2. Claimed(contact[r.client][r.contact], r.by) \in Contact
        BY <1>k, <2>1, <3>1, ContactTypes
      <3>3. contact' = [contact EXCEPT ![r.client][r.contact] =
                          Claimed(contact[r.client][r.contact], r.by)]
        BY <1>1, <2>3 DEF BookRead
      <3>4. contact' \in [Clients -> [Days -> Contact]]
        BY <2>1, <3>1, <3>2, <3>3, OneContactType
      <3>5. QED
        BY <1>1, <2>1, <3>4, CallType DEF BookRead, Begin, TypeOK
    <2>4. QED
      BY <2>2, <2>3
  <1>2. CASE BookCommit(c)
    <2> DEFINE r == call[c]
    <2> DEFINE v == [client |-> r.client, tasks |-> r.tasks, day |-> r.day, slot |-> r.slot,
                     listed |-> r.listed, status |-> "scheduled"]
    <2>1. r \in Booking /\ (r.contact # 0 => r.contact \in Days /\ r.by \in Operators)
      BY <1>2, CallFields DEF BookCommit, TypeOK
    <2>2. /\ r.client \in Clients /\ r.tasks \in SUBSET Tasks /\ r.day \in Days
          /\ r.slot \in Slots /\ r.listed \in BOOLEAN
      BY <2>1 DEF Booking
    <2>3. v \in Visit
      BY <2>2 DEF Visit
    <2>4. visits' \in Seq(Visit) /\ Len(visits') <= MaxVisits
      BY <1>2, <2>3, InsertType DEF BookCommit, BookWrite
    <2>5. call' \in [Calls \cup {Job} -> Call]
      <3>1. CASE r.contact = 0
        BY <1>2, <3>1, IdleIsCall, CallType DEF BookCommit, BookWrite
      <3>2. CASE r.contact # 0
        <4>1. [op |-> "booked", listed |-> r.listed, client |-> r.client,
               contact |-> r.contact, by |-> r.by] \in Call
          BY <2>1, <2>2, <3>2 DEF Call
        <4>2. QED
          BY <1>2, <3>2, <4>1, CallType DEF BookCommit, BookWrite
      <3>3. QED
        BY <3>1, <3>2
    <2>6. task' \in [Tasks -> Task]
      BY <1>2, <1>t, TaskTypes DEF BookCommit, BookWrite
    <2>7. QED
      BY <1>2, <2>4, <2>5, <2>6 DEF BookCommit, BookWrite, TypeOK
  <1>3. QED
    BY <1>1, <1>2

LEMMA VisitTypes ==
    ASSUME TypeOK, VisitStep
    PROVE  TypeOK'
  <1>t. \A t \in Tasks : task[t] \in Task
    BY DEF TypeOK
  <1>k. \A k \in Clients, d \in Days : contact[k][d] \in Contact
    BY DEF TypeOK
  <1>1. ASSUME NEW c \in Calls, BookedContact(c)
        PROVE  TypeOK'
    <2>1. call[c].client \in Clients /\ call[c].contact \in Days
      BY <1>1, CallFields DEF BookedContact, End, TypeOK
    <2>2. Shut(contact[call[c].client][call[c].contact]) \in Contact
      BY <1>k, <2>1, ContactTypes
    <2>3. contact' \in [Clients -> [Days -> Contact]]
      BY <1>1, <2>1, <2>2, OneContactType DEF BookedContact
    <2>4. QED
      BY <1>1, <2>3, IdleIsCall, CallType DEF BookedContact, End, TypeOK
  <1>2. ASSUME NEW c \in Calls, NEW k \in Clients, NEW s \in Slots, InstantRead(c, k, s)
        PROVE  TypeOK'
    <2>1. [op |-> "instant", client |-> k, day |-> today, slot |-> s] \in Call
      BY <1>2 DEF InstantRead, Call
    <2>2. QED
      BY <1>2, <2>1, CallType DEF InstantRead, Begin, TypeOK
  <1>3. ASSUME NEW c \in Calls, InstantCommit(c)
        PROVE  TypeOK'
    <2> DEFINE r == call[c]
    <2>1. r.client \in Clients /\ r.day \in Days /\ r.slot \in Slots
      BY <1>3, CallFields DEF InstantCommit, End, TypeOK
    <2>2. [client |-> r.client, tasks |-> {}, day |-> r.day, slot |-> r.slot,
           listed |-> FALSE, status |-> "in_progress"] \in Visit
      BY <2>1 DEF Visit
    <2>3. visits' \in Seq(Visit) /\ Len(visits') <= MaxVisits
      BY <1>3, <2>2, InsertType DEF InstantCommit
    <2>4. Shut(contact[r.client][r.day]) \in Contact
      BY <1>k, <2>1, ContactTypes
    <2>5. contact' \in [Clients -> [Days -> Contact]]
      BY <1>3, <2>1, <2>4, OneContactType DEF InstantCommit
    <2>6. QED
      BY <1>3, <2>3, <2>5, IdleIsCall, CallType DEF InstantCommit, End, TypeOK
  <1>4. ASSUME NEW c \in Calls, NEW v \in DOMAIN visits, StartVisit(c, v)
        PROVE  TypeOK'
    <2>1. v \in Nat
      BY LenProperties DEF TypeOK
    <2>2. [op |-> "start", visit |-> v] \in Call
      BY <2>1 DEF Call
    <2>3. visits' \in Seq(Visit) /\ Len(visits') <= MaxVisits
      BY <1>4, VisitStatusType DEF StartVisit, TypeOK
    <2>4. QED
      BY <1>4, <2>2, <2>3, CallType DEF StartVisit, Begin, TypeOK
  <1>5. ASSUME NEW c \in Calls, StartTasks(c)
        PROVE  TypeOK'
    <2>1. task' \in [Tasks -> Task]
      BY <1>5, <1>t, TaskTypes DEF StartTasks
    <2>2. QED
      BY <1>5, <2>1, IdleIsCall, CallType DEF StartTasks, End, TypeOK
  <1>6. ASSUME NEW v \in DOMAIN visits, CancelVisit(v)
        PROVE  TypeOK'
    <2>1. task' \in [Tasks -> Task]
      BY <1>6, <1>t, TaskTypes DEF CancelVisit
    <2>2. visits' \in Seq(Visit) /\ Len(visits') <= MaxVisits
      BY <1>6, VisitStatusType DEF CancelVisit, TypeOK
    <2>3. QED
      BY <1>6, <2>1, <2>2 DEF CancelVisit, TypeOK
  <1>7. QED
    BY <1>1, <1>2, <1>3, <1>4, <1>5, <1>6, BookingTypes DEF VisitStep

LEMMA TypeNext == TypeOK /\ [Next]_vars => TypeOK'
  <1> SUFFICES ASSUME TypeOK, [Next]_vars PROVE TypeOK'
    OBVIOUS
  <1>1. ASSUME NEW c \in Calls \cup {Job}, Abort(c)
        PROVE  TypeOK'
    BY <1>1, IdleIsCall, CallType DEF Abort, TypeOK
  <1>2. CASE NextDay
    BY <1>2, PlanningAssumption DEF PlanningAssumption, NextDay, TypeOK
  <1>3. CASE UNCHANGED vars
    BY <1>3 DEF vars, TypeOK
  <1>4. QED
    BY <1>1, <1>2, <1>3, PlanTypes, ContactTypesKept, VisitTypes DEF Next

\* Every variable keeps its type.
THEOREM TypeCorrect == Spec => []TypeOK
  BY TypeInit, TypeNext, PTL DEF Spec

-----------------------------------------------------------------------------
(* Visits *)

\* A visit keeps its client, tasks and time; a cancelled one stays cancelled.
KeepsVisits(old, new) ==
    /\ Len(new) = Len(old)
    /\ \A v \in 1..Len(old) :
         /\ new[v].day = old[v].day /\ new[v].slot = old[v].slot
         /\ new[v].tasks = old[v].tasks
         /\ old[v].status = "cancelled" => new[v].status = "cancelled"

\* A visit from the list is added by a booking that was checked before.
Adds(v) ==
    /\ SlotFree(v.day, v.slot) /\ Insert(v)
    /\ v.listed => \E c \in Calls :
          call[c].op = "book" /\ call[c].listed /\ call[c].client = v.client

\* A visit is added at a time the team is free, or the visits are kept.
LEMMA VisitsStep ==
    ASSUME TypeOK, [Next]_vars
    PROVE  \/ KeepsVisits(visits, visits')
           \/ \E v \in Visit : Adds(v)
  <1>0. Len(visits) \in Nat /\ DOMAIN visits = 1..Len(visits)
    BY LenProperties DEF TypeOK
  <1>1. ASSUME NEW c \in Calls, BookCommit(c)
        PROVE  \E v \in Visit : Adds(v)
    <2> DEFINE r == call[c]
    <2> DEFINE v == [client |-> r.client, tasks |-> r.tasks, day |-> r.day, slot |-> r.slot,
                     listed |-> r.listed, status |-> "scheduled"]
    <2>1. r \in Booking
      BY <1>1, CallFields DEF BookCommit, TypeOK
    <2>2. v \in Visit
      BY <2>1 DEF Booking, Visit
    <2>3. Adds(v)
      BY <1>1 DEF BookCommit, BookWrite, Adds
    <2> HIDE DEF v
    <2>4. QED
      BY <2>2, <2>3
  <1>2. ASSUME NEW c \in Calls, InstantCommit(c)
        PROVE  \E v \in Visit : Adds(v)
    <2> DEFINE r == call[c]
    <2> DEFINE v == [client |-> r.client, tasks |-> {}, day |-> r.day, slot |-> r.slot,
                     listed |-> FALSE, status |-> "in_progress"]
    <2>1. r.client \in Clients /\ r.day \in Days /\ r.slot \in Slots
      BY <1>2, CallFields DEF InstantCommit, End, TypeOK
    <2>2. v \in Visit
      BY <2>1 DEF Visit
    <2>3. Adds(v)
      BY <1>2 DEF InstantCommit, Adds
    <2> HIDE DEF v
    <2>4. QED
      BY <2>2, <2>3
  <1>3. ASSUME NEW v \in DOMAIN visits, NEW s \in {"in_progress", "cancelled"},
               visits[v].status = "scheduled",
               visits' = [visits EXCEPT ![v].status = s]
        PROVE  KeepsVisits(visits, visits')
    <2>1. visits[v] \in Visit
      BY <1>0, ElementOfSeq DEF TypeOK
    <2>2. Len(visits') = Len(visits)
          /\ \A w \in 1..Len(visits) :
                visits'[w] = IF w = v THEN [visits[v] EXCEPT !.status = s] ELSE visits[w]
      BY <1>3, VisitStatusType
    <2>3. QED
      BY <1>3, <2>1, <2>2 DEF KeepsVisits, Visit
  <1>4. CASE UNCHANGED visits
    BY <1>4 DEF KeepsVisits
  <1>5. CASE PlanStep
    BY <1>4, <1>5 DEF PlanStep, Prepare, Reconcile, Generate, CloseDay, CloseDayCommit, AutoClose
  <1>6. CASE ContactStep
    BY <1>4, <1>6 DEF ContactStep, Claim, LogCall, CloseItem, DoNotContact, AllowContact
  <1>7. CASE VisitStep
    <2>1. ASSUME NEW c \in Calls,
                 \/ \E r \in Booking : BookRead(c, r)
                 \/ BookedContact(c)
                 \/ \E k \in Clients, s \in Slots : InstantRead(c, k, s)
                 \/ StartTasks(c)
          PROVE  UNCHANGED visits
      BY <2>1 DEF BookRead, BookedContact, InstantRead, StartTasks
    <2>2. ASSUME NEW c \in Calls, NEW v \in DOMAIN visits, StartVisit(c, v)
          PROVE  KeepsVisits(visits, visits')
      BY <2>2, <1>3 DEF StartVisit
    <2>3. ASSUME NEW v \in DOMAIN visits, CancelVisit(v)
          PROVE  KeepsVisits(visits, visits')
      BY <2>3, <1>3 DEF CancelVisit
    <2>4. QED
      BY <1>1, <1>2, <1>4, <1>7, <2>1, <2>2, <2>3 DEF VisitStep
  <1>8. CASE NextDay \/ UNCHANGED vars \/ \E c \in Calls \cup {Job} : Abort(c)
    BY <1>4, <1>8 DEF NextDay, vars, Abort
  <1>9. QED
    BY <1>5, <1>6, <1>7, <1>8 DEF Next

LEMMA OneVisitNext == TypeOK /\ OneVisitPerSlot /\ [Next]_vars => OneVisitPerSlot'
  <1> SUFFICES ASSUME TypeOK, OneVisitPerSlot, [Next]_vars PROVE OneVisitPerSlot'
    OBVIOUS
  <1>0. Len(visits) \in Nat /\ DOMAIN visits = 1..Len(visits)
    BY LenProperties DEF TypeOK
  <1>d. DOMAIN visits' = 1..Len(visits')
    BY TypeNext, LenProperties DEF TypeOK
  <1>1. CASE KeepsVisits(visits, visits')
    BY <1>0, <1>d, <1>1 DEF KeepsVisits, OneVisitPerSlot
  <1>2. ASSUME NEW v \in Visit, Adds(v)
        PROVE  OneVisitPerSlot'
    <2>1. /\ Len(visits') = Len(visits) + 1 /\ visits'[Len(visits) + 1] = v
          /\ \A w \in 1..Len(visits) : visits'[w] = visits[w]
      BY <1>2, InsertType DEF Adds
    <2>2. \A w \in 1..Len(visits) :
             visits'[w].day = v.day /\ visits'[w].slot = v.slot => visits'[w].status = "cancelled"
      BY <1>0, <1>2, <2>1 DEF SlotFree, Adds
    <2>3. \A w, x \in 1..Len(visits) :
             /\ visits'[w].status # "cancelled" /\ visits'[x].status # "cancelled"
             /\ visits'[w].day = visits'[x].day /\ visits'[w].slot = visits'[x].slot
             => w = x
      BY <1>0, <2>1 DEF OneVisitPerSlot
    <2>4. \A w \in DOMAIN visits' : w \in 1..Len(visits) \/ w = Len(visits) + 1
      BY <1>0, <1>d, <2>1
    <2>5. QED
      BY <2>1, <2>2, <2>3, <2>4 DEF OneVisitPerSlot
  <1>3. QED
    BY <1>1, <1>2, VisitsStep

\* The team has one visit at a time, however many handlers check and insert.
THEOREM SlotsHold == Spec => []OneVisitPerSlot
  <1>1. Init => OneVisitPerSlot
    BY DEF Init, OneVisitPerSlot
  <1>2. QED
    BY <1>1, OneVisitNext, TypeInit, TypeNext, PTL DEF Spec

\* Every scheduled task is on a visit that stands.
LEMMA ScheduledNext == TypeOK /\ ScheduledHasVisit /\ [Next]_vars => ScheduledHasVisit'
  <1> SUFFICES ASSUME TypeOK, ScheduledHasVisit, [Next]_vars PROVE ScheduledHasVisit'
    OBVIOUS
  <1>0. Len(visits) \in Nat /\ DOMAIN visits = 1..Len(visits) /\ \A t \in Tasks : task[t] \in Task
    BY LenProperties DEF TypeOK
  <1>d. DOMAIN visits' = 1..Len(visits')
    BY TypeNext, LenProperties DEF TypeOK
  <1>k. ASSUME NEW v \in DOMAIN visits,
               \A w \in 1..Len(visits) : w # v => visits'[w] = visits[w],
               Len(visits') = Len(visits), visits'[v].tasks = visits[v].tasks,
               \A t \in Tasks : task'[t].status = "scheduled" =>
                  /\ task[t].status = "scheduled"
                  /\ t \in visits[v].tasks => visits'[v].status # "cancelled"
        PROVE  ScheduledHasVisit'
    BY <1>0, <1>d, <1>k DEF ScheduledHasVisit
  <1>n. ASSUME visits' = visits,
               \A t \in Tasks : task'[t].status = "scheduled" => task[t].status = "scheduled"
        PROVE  ScheduledHasVisit'
    BY <1>n DEF ScheduledHasVisit
  <1>r. ASSUME NEW x \in Task PROVE Released(x).status # "scheduled"
    BY DEF Released, Task, WaitingStates
  <1>1. CASE PlanStep
    <2>1. \A x \in Task, p \in BOOLEAN, d \in Days :
            Synced(x, p, d).status = "scheduled" => x.status = "scheduled"
      BY <1>r DEF Synced
    <2>2. ASSUME NEW c \in Calls, NEW d \in Days, NEW plan \in SUBSET Tasks, Prepare(c, d, plan)
          PROVE  ScheduledHasVisit'
      <3>1. \A t \in Tasks : (t \in plan) \in BOOLEAN
        OBVIOUS
      <3>2. \A t \in Tasks : task'[t].status = "scheduled" => task[t].status = "scheduled"
        BY <1>0, <2>1, <2>2, <3>1, Zenon DEF Prepare
      <3>3. QED
        BY <1>n, <2>2, <3>2 DEF Prepare
    <2>3. ASSUME NEW d \in Days, Generate(d)
          PROVE  ScheduledHasVisit'
      <3>1. \A t \in Tasks : task'[t].status = "scheduled" => task[t].status = "scheduled"
        BY <1>0, <2>3 DEF Generate, Task
      <3>2. visits' = visits
        BY <2>3 DEF Generate
      <3>3. QED
        BY <1>n, <3>1, <3>2
    <2>4. ASSUME NEW c \in Calls \cup {Job}, CloseDayCommit(c)
          PROVE  ScheduledHasVisit'
      BY <1>0, <1>n, <1>r, <2>4 DEF CloseDayCommit
    <2>5. ASSUME NEW c \in Calls \cup {Job}, Reconcile(c) \/ \E d \in Days : CloseDay(c, d)
          PROVE  ScheduledHasVisit'
      <3>1. visits' = visits /\ task' = task
        BY <2>5 DEF CloseDay, Reconcile
      <3>2. QED
        BY <1>n, <3>1
    <2>6. QED
      BY <1>1, <2>2, <2>3, <2>4, <2>5 DEF PlanStep, AutoClose
  <1>2. CASE ContactStep
    BY <1>0, <1>n, <1>r, <1>2 DEF ContactStep, Claim, LogCall, CloseItem, DoNotContact, AllowContact
  <1>3. CASE VisitStep
    <2>1. ASSUME NEW c \in Calls, BookCommit(c)
          PROVE  ScheduledHasVisit'
      <3> DEFINE r == call[c]
      <3> DEFINE v == [client |-> r.client, tasks |-> r.tasks, day |-> r.day, slot |-> r.slot,
                       listed |-> r.listed, status |-> "scheduled"]
      <3>1. r \in Booking
        BY <2>1, CallFields DEF BookCommit, TypeOK
      <3>2. v \in Visit /\ v.tasks = r.tasks /\ v.status = "scheduled"
        BY <3>1 DEF Booking, Visit
      <3>3. Insert(v)
        BY <2>1 DEF BookCommit, BookWrite
      <3>4. \A t \in Tasks : task'[t].status = "scheduled" =>
               t \in r.tasks \/ task[t].status = "scheduled"
        BY <2>1 DEF BookCommit, BookWrite
      <3> HIDE DEF v, r
      <3>5. /\ Len(visits') = Len(visits) + 1 /\ visits'[Len(visits) + 1] = v
            /\ \A w \in 1..Len(visits) : visits'[w] = visits[w]
        BY <3>2, <3>3, InsertType
      <3>6. QED
        BY <1>0, <1>d, <3>2, <3>4, <3>5 DEF ScheduledHasVisit
    <2>2. ASSUME NEW c \in Calls, InstantCommit(c)
          PROVE  ScheduledHasVisit'
      <3> DEFINE r == call[c]
      <3> DEFINE v == [client |-> r.client, tasks |-> {}, day |-> r.day, slot |-> r.slot,
                       listed |-> FALSE, status |-> "in_progress"]
      <3>1. r.client \in Clients /\ r.day \in Days /\ r.slot \in Slots
        BY <2>2, CallFields DEF InstantCommit, End, TypeOK
      <3>2. v \in Visit
        BY <3>1 DEF Visit
      <3>3. Insert(v) /\ task' = task
        BY <2>2 DEF InstantCommit
      <3> HIDE DEF v, r
      <3>4. /\ Len(visits') = Len(visits) + 1
            /\ \A w \in 1..Len(visits) : visits'[w] = visits[w]
        BY <3>2, <3>3, InsertType
      <3>5. QED
        BY <1>0, <1>d, <3>3, <3>4 DEF ScheduledHasVisit
    <2>3. ASSUME NEW c \in Calls, NEW v \in DOMAIN visits, StartVisit(c, v)
          PROVE  ScheduledHasVisit'
      <3>1. visits[v] \in Visit /\ task' = task
        BY <1>0, <2>3, ElementOfSeq DEF StartVisit, TypeOK
      <3>2. /\ Len(visits') = Len(visits)
            /\ \A w \in 1..Len(visits) : visits'[w] =
                  IF w = v THEN [visits[v] EXCEPT !.status = "in_progress"] ELSE visits[w]
        BY <2>3, VisitStatusType DEF StartVisit
      <3>3. visits'[v].tasks = visits[v].tasks /\ visits'[v].status = "in_progress"
        BY <1>0, <3>1, <3>2 DEF Visit
      <3>4. QED
        BY <1>k, <3>1, <3>2, <3>3
    <2>4. ASSUME NEW v \in DOMAIN visits, CancelVisit(v)
          PROVE  ScheduledHasVisit'
      <3>1. visits[v] \in Visit
        BY <1>0, ElementOfSeq DEF TypeOK
      <3>2. /\ Len(visits') = Len(visits)
            /\ \A w \in 1..Len(visits) : visits'[w] =
                  IF w = v THEN [visits[v] EXCEPT !.status = "cancelled"] ELSE visits[w]
        BY <2>4, VisitStatusType DEF CancelVisit
      <3>3. visits'[v].tasks = visits[v].tasks
        BY <1>0, <3>1, <3>2 DEF Visit
      <3>4. \A t \in Tasks : task'[t].status = "scheduled" =>
               task[t].status = "scheduled" /\ t \notin visits[v].tasks
        BY <1>0, <1>r, <2>4 DEF CancelVisit
      <3>5. QED
        BY <1>k, <3>2, <3>3, <3>4
    <2>5. ASSUME NEW c \in Calls, StartTasks(c)
          PROVE  ScheduledHasVisit'
      BY <1>0, <1>n, <2>5 DEF StartTasks, Task
    <2>6. ASSUME NEW c \in Calls,
                 \/ \E r \in Booking : BookRead(c, r)
                 \/ BookedContact(c)
                 \/ \E k \in Clients, s \in Slots : InstantRead(c, k, s)
          PROVE  ScheduledHasVisit'
      BY <1>n, <2>6 DEF BookRead, BookedContact, InstantRead
    <2>7. QED
      BY <1>3, <2>1, <2>2, <2>3, <2>4, <2>5, <2>6 DEF VisitStep
  <1>4. CASE NextDay \/ UNCHANGED vars \/ \E c \in Calls \cup {Job} : Abort(c)
    BY <1>n, <1>4 DEF NextDay, vars, Abort
  <1>5. QED
    BY <1>1, <1>2, <1>3, <1>4 DEF Next

\* No task is lost in a status nothing leads out of.
THEOREM ScheduledTasksStand == Spec => []ScheduledHasVisit
  <1>1. Init => ScheduledHasVisit
    BY DEF Init, ScheduledHasVisit, WaitingStates
  <1>2. QED
    BY <1>1, ScheduledNext, TypeInit, TypeNext, PTL DEF Spec

-----------------------------------------------------------------------------
(* Contacts and days that are closed *)

\* A contact that is there, or closed, stays so; its owner is given up only to
\* whoever may claim it, or when it is closed; it has links only if it is there.
KeepsContact(x, y) ==
    /\ x.status = "closed" => y.status = "closed"
    /\ x.status # "none" => y.status # "none"
    /\ \/ y.owner = x.owner
       \/ x.owner = NoOne
       \/ y.status = "closed" /\ y.owner = NoOne
    /\ y.links # {} => x.links # {} \/ y.status # "none"

Opens(x, y) == y.status \in OpenContact /\ x.status \notin OpenContact

\* What a step may do to one contact: only a list opens it.
Settles(x, y) == KeepsContact(x, y) /\ ~Opens(x, y)

LEMMA OneContactKept ==
    ASSUME NEW x \in Contact
    PROVE  /\ Settles(x, x)
           /\ Settles(x, Shut(x))
           /\ Settles(x, [Shut(x) EXCEPT !.owner = NoOne])
           /\ \A S \in SUBSET Tasks : /\ KeepsContact(x, Linked(x, S))
                                      /\ KeepsContact(x, Listed(x, S))
                                      /\ Opens(x, Linked(x, S)) => S # {}
           /\ \A o \in Operators : x.owner \in {NoOne, o} /\ x.status # "none" =>
                /\ Settles(x, Claimed(x, o))
                /\ Settles(x, Shut(Claimed(x, o)))
                /\ x.status # "closed" => Settles(x, Called(x, o))
  BY DEF Contact, OpenContact, KeepsContact, Opens, Settles, Shut, Linked, Listed, Claimed, Called

\* The only steps that open a contact.
OpenedBy(k, d) ==
    \/ Generate(d)
    \/ \E c \in Calls : /\ Reconcile(c) /\ call[c].day = d
                        /\ TasksOf(k) \cap (AssignedFor(d) \cup contact[k][d].links) # {}

LEMMA ContactsKept ==
    ASSUME TypeOK, [Next]_vars, NEW k \in Clients, NEW d \in Days
    PROVE  KeepsContact(contact[k][d], contact'[k][d])
           /\ (Opens(contact[k][d], contact'[k][d]) => OpenedBy(k, d))
  <1>k. \A j \in Clients, e \in Days : contact[j][e] \in Contact
    BY DEF TypeOK
  <1>f. contact \in [Clients -> [Days -> Contact]]
    BY DEF TypeOK
  <1>s. contact'[k][d] = contact[k][d] => Settles(contact[k][d], contact'[k][d])
    BY <1>k, OneContactKept
  <1>1. ASSUME NEW c \in Calls, Reconcile(c)
        PROVE  KeepsContact(contact[k][d], contact'[k][d])
               /\ (Opens(contact[k][d], contact'[k][d]) => OpenedBy(k, d))
    <2> DEFINE e == call[c].day
    <2> DEFINE Scoped(j) == TasksOf(j) \cap (AssignedFor(e) \cup contact[j][e].links)
    <2>1. contact' = [j \in Clients |-> [contact[j] EXCEPT ![e] = Linked(contact[j][e], Scoped(j))]]
      BY <1>1 DEF Reconcile
    <2>2. Scoped(k) \in SUBSET Tasks
      BY DEF TasksOf
    <2>5. e = d /\ Scoped(k) # {} => OpenedBy(k, d)
      BY <1>1 DEF OpenedBy
    <2> HIDE DEF e, Scoped
    <2>3. contact'[k][d] = IF d = e THEN Linked(contact[k][d], Scoped(k)) ELSE contact[k][d]
      BY <1>f, <2>1
    <2>4. QED
      BY <1>k, <1>s, <2>2, <2>3, <2>5, OneContactKept DEF Settles
  <1>2. ASSUME NEW e \in Days, Generate(e)
        PROVE  KeepsContact(contact[k][d], contact'[k][d])
               /\ (Opens(contact[k][d], contact'[k][d]) => OpenedBy(k, d))
    <2> DEFINE Leads(j) == {t \in TasksOf(j) \cap AssignedFor(e) :
                              contact[j][e].status = "closed" => t \in contact[j][e].items}
    <2> DEFINE listed == UNION {Leads(j) : j \in Clients \ blocked}
    <2>1. contact' = [j \in Clients |->
                        [contact[j] EXCEPT ![e] = Listed(contact[j][e], TasksOf(j) \cap listed)]]
      BY <1>2 DEF Generate
    <2> HIDE DEF listed
    <2>2. TasksOf(k) \cap listed \in SUBSET Tasks
      BY DEF TasksOf
    <2>3. contact'[k][d] = IF d = e THEN Listed(contact[k][d], TasksOf(k) \cap listed)
                                   ELSE contact[k][d]
      BY <1>f, <2>1
    <2>4. QED
      BY <1>2, <1>k, <1>s, <2>2, <2>3, OneContactKept DEF Settles, OpenedBy
  <1>3. ASSUME NEW c \in Calls \cup {Job}, CloseDayCommit(c)
        PROVE  Settles(contact[k][d], contact'[k][d])
    <2>1. contact'[k][d] = contact[k][d]
          \/ contact'[k][d] = [Shut(contact[k][d]) EXCEPT !.owner = NoOne]
      BY <1>3, <1>f DEF CloseDayCommit
    <2>2. QED
      BY <1>k, <2>1, OneContactKept
  <1>4. ASSUME NEW j \in Clients, NEW e \in Days, NEW o \in Operators,
               Claim(j, e, o) \/ LogCall(j, e, o) \/ CloseItem(j, e, o)
        PROVE  Settles(contact[k][d], contact'[k][d])
    <2>1. contact[j][e].owner \in {NoOne, o} /\ contact[j][e].status # "none"
      BY <1>4 DEF Claim, LogCall, CloseItem, MayClaim
    <2>2. \/ contact' = [contact EXCEPT ![j][e] = Claimed(contact[j][e], o)]
          \/ contact' = [contact EXCEPT ![j][e] = Shut(Claimed(contact[j][e], o))]
          \/ /\ contact' = [contact EXCEPT ![j][e] = Called(contact[j][e], o)]
             /\ contact[j][e].status # "closed"
      BY <1>4 DEF Claim, LogCall, CloseItem
    <2>3. CASE j = k /\ e = d
      <3>1. \/ contact'[k][d] = Claimed(contact[k][d], o)
            \/ contact'[k][d] = Shut(Claimed(contact[k][d], o))
            \/ contact'[k][d] = Called(contact[k][d], o) /\ contact[k][d].status # "closed"
        BY <1>f, <2>2, <2>3
      <3>2. QED
        BY <1>k, <2>1, <2>3, <3>1, OneContactKept
    <2>4. CASE ~(j = k /\ e = d)
      BY <1>f, <1>s, <2>2, <2>4
    <2>5. QED
      BY <2>3, <2>4
  <1>5. ASSUME NEW j \in Clients, DoNotContact(j)
        PROVE  Settles(contact[k][d], contact'[k][d])
    <2>1. contact'[k][d] = contact[k][d] \/ contact'[k][d] = Shut(contact[k][d])
      BY <1>5, <1>f DEF DoNotContact
    <2>2. QED
      BY <1>k, <2>1, OneContactKept
  <1>6. ASSUME NEW c \in Calls, NEW r \in Booking, BookRead(c, r)
        PROVE  Settles(contact[k][d], contact'[k][d])
    <2>1. CASE r.contact = 0
      BY <1>6, <1>s, <2>1 DEF BookRead
    <2>2. CASE r.contact # 0
      <3>1. r.client \in Clients /\ r.contact \in Days /\ r.by \in Operators
        <4>1. r \in Call /\ r.op = "book" /\ r.client \in Clients
          BY DEF Call, Booking
        <4>2. QED
          BY <2>2, <4>1, CallFields
      <3>2. contact' = [contact EXCEPT ![r.client][r.contact] =
                          Claimed(contact[r.client][r.contact], r.by)]
        BY <1>6, <2>2 DEF BookRead
      <3>3. contact[r.client][r.contact].owner \in {NoOne, r.by}
            /\ contact[r.client][r.contact].status # "none"
        BY <1>6, <2>2 DEF BookRead, MayClaim
      <3>4. CASE k = r.client /\ d = r.contact
        <4>1. contact'[k][d] = Claimed(contact[k][d], r.by)
          BY <1>f, <3>1, <3>2, <3>4
        <4>2. QED
          BY <1>k, <3>1, <3>3, <3>4, <4>1, OneContactKept
      <3>5. CASE ~(k = r.client /\ d = r.contact)
        BY <1>f, <1>s, <3>1, <3>2, <3>5
      <3>6. QED
        BY <3>4, <3>5
    <2>3. QED
      BY <2>1, <2>2
  <1>7. ASSUME NEW c \in Calls, BookedContact(c) \/ InstantCommit(c)
        PROVE  Settles(contact[k][d], contact'[k][d])
    <2>1. contact'[k][d] = contact[k][d] \/ contact'[k][d] = Shut(contact[k][d])
      BY <1>7, <1>f DEF BookedContact, InstantCommit
    <2>2. QED
      BY <1>k, <2>1, OneContactKept
  <1>8. CASE UNCHANGED contact
    BY <1>8, <1>s DEF Settles
  <1>9. QED
    <2>1. CASE PlanStep
      BY <2>1, <1>1, <1>2, <1>3, <1>8 DEF Settles, PlanStep, Prepare, CloseDay, AutoClose
    <2>2. CASE ContactStep
      BY <2>2, <1>4, <1>5, <1>8 DEF Settles, ContactStep, AllowContact
    <2>3. CASE VisitStep
      BY <2>3, <1>6, <1>7, <1>8
         DEF Settles, VisitStep, BookCommit, BookWrite, InstantRead, StartVisit, StartTasks, CancelVisit
    <2>4. CASE NextDay \/ UNCHANGED vars \/ \E c \in Calls \cup {Job} : Abort(c)
      BY <2>4, <1>8 DEF Settles, NextDay, vars, Abort
    <2>5. QED
      BY <2>1, <2>2, <2>3, <2>4 DEF Next


\* A day is closed by the end of a closing, and never opened again.
LEMMA CycleStep ==
    ASSUME TypeOK, [Next]_vars, NEW d \in Days
    PROVE  \/ cycle'[d] = cycle[d]
           \/ cycle[d] # "closed" /\ cycle'[d] = "active"
           \/ /\ cycle'[d] = "closed"
              /\ \E c \in Calls \cup {Job} : CloseDayCommit(c) /\ call[c].day = d
  <1> DEFINE Goal == \/ cycle'[d] = cycle[d]
                     \/ cycle[d] # "closed" /\ cycle'[d] = "active"
                     \/ /\ cycle'[d] = "closed"
                        /\ \E c \in Calls \cup {Job} : CloseDayCommit(c) /\ call[c].day = d
  <1>f. cycle \in [Days -> {"planning", "active", "closed"}]
    BY DEF TypeOK
  <1>1. ASSUME NEW e \in Days, Generate(e) PROVE Goal
    <2>1. cycle[e] # "closed" /\ cycle' = [cycle EXCEPT ![e] = "active"]
      BY <1>1 DEF Generate
    <2>2. QED
      BY <1>f, <2>1
  <1>2. ASSUME NEW c \in Calls \cup {Job}, CloseDayCommit(c) PROVE Goal
    <2>1. cycle' = [cycle EXCEPT ![call[c].day] = "closed"]
      BY <1>2 DEF CloseDayCommit
    <2>2. QED
      BY <1>2, <1>f, <2>1
  <1>3. CASE UNCHANGED cycle
    BY <1>3
  <1>4. CASE PlanStep
    BY <1>1, <1>2, <1>3, <1>4 DEF PlanStep, Prepare, Reconcile, CloseDay, AutoClose
  <1>5. CASE ContactStep
    BY <1>3, <1>5 DEF ContactStep, Claim, LogCall, CloseItem, DoNotContact, AllowContact
  <1>6. CASE VisitStep
    BY <1>3, <1>6
       DEF VisitStep, BookRead, BookCommit, BookWrite, BookedContact, InstantRead, InstantCommit,
           StartVisit, StartTasks, CancelVisit
  <1>7. CASE NextDay \/ UNCHANGED vars \/ \E c \in Calls \cup {Job} : Abort(c)
    BY <1>3, <1>7 DEF NextDay, vars, Abort
  <1>8. QED
    BY <1>4, <1>5, <1>6, <1>7 DEF Next

\* Only preparing a day assigns tasks for it.
LEMMA AssignStep ==
    ASSUME TypeOK, [Next]_vars, NEW d \in Days, NEW t \in Tasks,
           t \in AssignedFor(d)', t \notin AssignedFor(d)
    PROVE  /\ ~DayLocked(d) /\ cycle[d] # "closed" /\ UNCHANGED <<cycle, contact>>
  <1> DEFINE Goal == ~DayLocked(d) /\ cycle[d] # "closed" /\ UNCHANGED <<cycle, contact>>
  <1>t. task[t] \in Task /\ task \in [Tasks -> Task]
    BY DEF TypeOK
  <1>r. ~(Released(task[t]).status = "assigned")
    BY <1>t DEF Released, Task, WaitingStates
  <1>a. /\ task'[t].status = "assigned" /\ task'[t].day = d
        /\ ~(task[t].status = "assigned" /\ task[t].day = d)
    BY DEF AssignedFor
  <1>1. ASSUME NEW c \in Calls, NEW e \in Days, NEW plan \in SUBSET Tasks, Prepare(c, e, plan)
        PROVE  Goal
    <2>1. task'[t] = Synced(task[t], t \in plan, e)
      BY <1>1, <1>t DEF Prepare
    <2>2. task'[t] = [status |-> "assigned", waiting |-> task[t].status, day |-> e]
      BY <1>a, <1>r, <2>1 DEF Synced
    <2>3. e = d
      BY <1>a, <2>2
    <2>4. QED
      BY <1>1, <2>3 DEF Prepare
  <1>2. ASSUME task'[t] = task[t] \/ task'[t] = Released(task[t])
               \/ task'[t].status \in {"in_scheduling", "scheduled", "in_execution"}
        PROVE  FALSE
    BY <1>2, <1>a, <1>r
  <1>3. CASE PlanStep
    <2>1. ASSUME NEW e \in Days, Generate(e) PROVE FALSE
      <3>1. task'[t] = task[t] \/ task'[t] = [task[t] EXCEPT !.status = "in_scheduling", !.day = 0]
        BY <2>1, <1>t DEF Generate
      <3>2. QED
        BY <1>2, <1>t, <3>1 DEF Task
    <2>2. ASSUME NEW c \in Calls \cup {Job},
                 \/ CloseDayCommit(c)
                 \/ Reconcile(c)
                 \/ \E e \in Days : CloseDay(c, e)
          PROVE  FALSE
      BY <2>2, <1>2, <1>t DEF CloseDayCommit, Reconcile, CloseDay
    <2>3. QED
      BY <1>1, <1>3, <2>1, <2>2 DEF PlanStep, AutoClose
  <1>4. CASE ContactStep
    <2>1. task'[t] = task[t] \/ task'[t] = Released(task[t])
      BY <1>4, <1>t DEF ContactStep, Claim, LogCall, CloseItem, DoNotContact, AllowContact
    <2>2. QED
      BY <1>2, <2>1
  <1>5. CASE VisitStep
    <2>1. \/ task'[t] = task[t] \/ task'[t] = Released(task[t])
          \/ task'[t] = [task[t] EXCEPT !.status = "scheduled", !.day = 0]
          \/ task'[t] = [task[t] EXCEPT !.status = "in_execution"]
      BY <1>5, <1>t
         DEF VisitStep, BookRead, BookCommit, BookWrite, BookedContact, InstantRead, InstantCommit,
             StartVisit, StartTasks, CancelVisit
    <2>2. QED
      BY <1>2, <1>t, <2>1 DEF Task
  <1>6. CASE NextDay \/ UNCHANGED vars \/ \E c \in Calls \cup {Job} : Abort(c)
    BY <1>2, <1>6 DEF NextDay, vars, Abort
  <1>7. QED
    BY <1>3, <1>4, <1>5, <1>6 DEF Next

\* What the handlers know: a step leaves a handler's record, ends it or begins it.
LEMMA CallStep ==
    ASSUME TypeOK, [Next]_vars, NEW c \in Calls \cup {Job}, call'[c].op = "close"
    PROVE  call'[c] = call[c] \/ \E d \in Days : CloseDay(c, d)
  <1>f. call \in [Calls \cup {Job} -> Call] /\ Idle.op # "close"
    BY DEF TypeOK, Idle
  <1>i. ASSUME NEW b \in Calls \cup {Job}, NEW x, x.op # "close", call' = [call EXCEPT ![b] = x]
        PROVE  call'[c] = call[c]
    BY <1>f, <1>i
  <1>1. CASE PlanStep
    <2>1. ASSUME NEW b \in Calls \cup {Job}, NEW d \in Days, CloseDay(b, d)
          PROVE  call'[c] = call[c] \/ \E e \in Days : CloseDay(c, e)
      BY <1>f, <2>1 DEF CloseDay, Begin
    <2>2. ASSUME NEW b \in Calls, NEW d \in Days, NEW plan \in SUBSET Tasks, Prepare(b, d, plan)
          PROVE  call'[c] = call[c]
      BY <1>i, <2>2 DEF Prepare, Begin
    <2>3. ASSUME NEW b \in Calls \cup {Job}, Reconcile(b) \/ CloseDayCommit(b)
          PROVE  call'[c] = call[c]
      BY <1>f, <1>i, <2>3 DEF Reconcile, CloseDayCommit, End
    <2>4. ASSUME NEW d \in Days, Generate(d)
          PROVE  call'[c] = call[c]
      BY <2>4 DEF Generate
    <2>5. QED
      BY <1>1, <2>1, <2>2, <2>3, <2>4 DEF PlanStep, AutoClose
  <1>2. CASE ContactStep
    BY <1>2 DEF ContactStep, Claim, LogCall, CloseItem, DoNotContact, AllowContact
  <1>3. CASE VisitStep
    <2>1. ASSUME NEW b \in Calls, NEW r \in Booking, BookRead(b, r)
          PROVE  call'[c] = call[c]
      <3>1. r.op # "close"
        BY DEF Booking
      <3>2. QED
        BY <1>i, <2>1, <3>1 DEF BookRead, Begin
    <2>2. ASSUME NEW b \in Calls, BookCommit(b)
          PROVE  call'[c] = call[c]
      <3>1. CASE call[b].contact = 0
        BY <1>f, <1>i, <2>2, <3>1 DEF BookCommit, BookWrite
      <3>2. CASE call[b].contact # 0
        BY <1>i, <2>2, <3>2 DEF BookCommit, BookWrite
      <3>3. QED
        BY <3>1, <3>2
    <2>3. ASSUME NEW b \in Calls, BookedContact(b) \/ InstantCommit(b) \/ StartTasks(b)
          PROVE  call'[c] = call[c]
      BY <1>f, <1>i, <2>3 DEF BookedContact, InstantCommit, StartTasks, End
    <2>4. ASSUME NEW b \in Calls,
                 \/ \E k \in Clients, s \in Slots : InstantRead(b, k, s)
                 \/ \E v \in DOMAIN visits : StartVisit(b, v)
          PROVE  call'[c] = call[c]
      BY <1>i, <2>4 DEF InstantRead, StartVisit, Begin
    <2>5. ASSUME NEW v \in DOMAIN visits, CancelVisit(v)
          PROVE  call'[c] = call[c]
      BY <2>5 DEF CancelVisit
    <2>6. QED
      BY <1>3, <2>1, <2>2, <2>3, <2>4, <2>5 DEF VisitStep
  <1>4. ASSUME NEW b \in Calls \cup {Job}, Abort(b)
        PROVE  call'[c] = call[c]
    BY <1>f, <1>i, <1>4 DEF Abort
  <1>5. CASE NextDay \/ UNCHANGED vars
    BY <1>5 DEF NextDay, vars
  <1>6. QED
    BY <1>1, <1>2, <1>3, <1>4, <1>5 DEF Next

\* Why a closed day is settled: a day has one closing at a time, which holds the
\* lock, so the day is not closed and what the closing chose covers what is open
\* for it; and a contact without a row has no links, so that preparing a closed
\* day creates none.
ClosingCovers ==
    \A c \in Calls \cup {Job} : call[c].op = "close" =>
        /\ cycle[call[c].day] # "closed"
        /\ OpenContacts(call[c].day) \subseteq call[c].contacts
        /\ AssignedFor(call[c].day) \subseteq call[c].tasks

OneClosing ==
    \A b, c \in Calls \cup {Job} :
        call[b].op = "close" /\ call[c].op = "close" /\ call[b].day = call[c].day => b = c

LinksKnown ==
    \A k \in Clients, d \in Days : contact[k][d].links # {} => contact[k][d].status # "none"

ClosingInv == TypeOK /\ ClosingCovers /\ OneClosing /\ LinksKnown /\ ClosedDayIsSettled

LEMMA ClosingInit == Init => ClosingInv
  <1> SUFFICES ASSUME Init PROVE ClosingInv
    OBVIOUS
  <1>1. TypeOK
    BY TypeInit
  <1>2. \A c \in Calls \cup {Job} : call[c].op # "close"
    BY DEF Init, Idle
  <1>3. LinksKnown
    BY DEF Init, LinksKnown, NoContact
  <1>4. ClosedDayIsSettled
    BY DEF Init, ClosedDayIsSettled
  <1>5. QED
    BY <1>1, <1>2, <1>3, <1>4 DEF ClosingInv, ClosingCovers, OneClosing

\* Nothing is opened or assigned for a day while it is being closed, or after.
LEMMA NothingNew ==
    ASSUME ClosingInv, [Next]_vars, NEW d \in Days, DayLocked(d) \/ cycle[d] = "closed"
    PROVE  OpenContacts(d)' \subseteq OpenContacts(d) /\ AssignedFor(d)' \subseteq AssignedFor(d)
  <1>1. ASSUME NEW k \in Clients, k \in OpenContacts(d)', k \notin OpenContacts(d)
        PROVE  FALSE
    <2>1. OpenedBy(k, d)
      BY <1>1, ContactsKept DEF ClosingInv, OpenContacts, Opens
    <2>2. ~Generate(d)
      BY DEF Generate
    <2>3. PICK c \in Calls : /\ Reconcile(c) /\ call[c].day = d
                             /\ TasksOf(k) \cap (AssignedFor(d) \cup contact[k][d].links) # {}
      BY <2>1, <2>2 DEF OpenedBy
    <2>4. cycle[d] = "closed"
      BY <2>3 DEF Reconcile
    <2>5. AssignedFor(d) = {} /\ contact[k][d].status \notin OpenContact
      BY <2>4 DEF ClosingInv, ClosedDayIsSettled, OpenContacts
    <2>6. contact[k][d].status = "none"
      <3>1. contact[k][d] \in Contact /\ contact'[k][d].status \in OpenContact
        BY <1>1 DEF ClosingInv, TypeOK, OpenContacts
      <3>2. contact[k][d].status = "closed" => contact'[k][d].status = "closed"
        BY ContactsKept DEF ClosingInv, KeepsContact
      <3>3. QED
        BY <2>5, <3>1, <3>2 DEF Contact, OpenContact
    <2>7. contact[k][d].links = {}
      BY <2>6 DEF ClosingInv, LinksKnown
    <2>8. QED
      BY <2>3, <2>5, <2>7
  <1>2. AssignedFor(d)' \subseteq AssignedFor(d)
    BY AssignStep DEF ClosingInv, AssignedFor
  <1>3. QED
    BY <1>1, <1>2 DEF OpenContacts

LEMMA ClosingNext == ClosingInv /\ [Next]_vars => ClosingInv'
  <1> SUFFICES ASSUME ClosingInv, [Next]_vars PROVE ClosingInv'
    OBVIOUS
  <1>0. TypeOK /\ TypeOK'
    BY TypeNext DEF ClosingInv
  <1>1. LinksKnown'
    <2>1. \A k \in Clients, d \in Days : KeepsContact(contact[k][d], contact'[k][d])
      BY <1>0, ContactsKept
    <2>2. QED
      BY <2>1 DEF ClosingInv, LinksKnown, KeepsContact
  <1>2. OneClosing'
    <2>1. SUFFICES ASSUME NEW b \in Calls \cup {Job}, NEW c \in Calls \cup {Job},
                          call'[b].op = "close", call'[c].op = "close",
                          call'[b].day = call'[c].day
                   PROVE  b = c
      BY DEF OneClosing
    <2>2. ASSUME NEW a \in Calls \cup {Job}, NEW d \in Days, CloseDay(a, d)
          PROVE  /\ call'[a].day = d
                 /\ \A e \in Calls \cup {Job} : /\ e # a => call'[e] = call[e]
                                                /\ ~(call[e].op = "close" /\ call[e].day = d)
      BY <1>0, <2>2 DEF CloseDay, Begin, DayLocked, Closing, TypeOK
    <2>3. CASE call'[b] = call[b] /\ call'[c] = call[c]
      BY <2>1, <2>3 DEF ClosingInv, OneClosing
    <2>4. CASE ~(call'[b] = call[b] /\ call'[c] = call[c])
      <3>1. \E d \in Days : CloseDay(b, d) \/ CloseDay(c, d)
        BY <1>0, <2>1, <2>4, CallStep
      <3>2. QED
        BY <2>1, <2>2, <3>1
    <2>5. QED
      BY <2>3, <2>4
  <1>3. ClosingCovers'
    <2>1. SUFFICES ASSUME NEW c \in Calls \cup {Job}, call'[c].op = "close"
                   PROVE  /\ cycle'[call'[c].day] # "closed"
                          /\ OpenContacts(call[c].day)' \subseteq call'[c].contacts
                          /\ AssignedFor(call[c].day)' \subseteq call'[c].tasks
      BY DEF ClosingCovers
    <2>2. CASE call'[c] = call[c]
      <3>0. call[c].day \in Days /\ call[c].op = "close"
        BY <1>0, <2>1, <2>2, CallFields DEF TypeOK
      <3>1. PICK d \in Days : call[c].day = d /\ call[c].op = "close"
        BY <3>0
      <3>2. DayLocked(d)
        BY <3>1 DEF DayLocked, Closing
      <3>3. OpenContacts(d)' \subseteq OpenContacts(d) /\ AssignedFor(d)' \subseteq AssignedFor(d)
        BY <3>1, <3>2, NothingNew
      <3>4. ASSUME NEW b \in Calls \cup {Job}, CloseDayCommit(b), call[b].day = d
            PROVE  FALSE
        <4>1. b = c
          BY <3>1, <3>4 DEF CloseDayCommit, End, ClosingInv, OneClosing
        <4>2. call'[c].op = "idle"
          BY <1>0, <3>4, <4>1 DEF CloseDayCommit, End, Idle, TypeOK
        <4>3. QED
          BY <2>1, <4>2
      <3>5. cycle[d] # "closed"
        BY <3>1 DEF ClosingInv, ClosingCovers
      <3>6. cycle'[d] # "closed"
        BY <1>0, <3>1, <3>4, <3>5, CycleStep
      <3>7. QED
        <4>1. OpenContacts(d) \subseteq call[c].contacts /\ AssignedFor(d) \subseteq call[c].tasks
          BY <3>1 DEF ClosingInv, ClosingCovers
        <4>2. call'[c].day = d /\ call'[c].contacts = call[c].contacts
              /\ call'[c].tasks = call[c].tasks
          BY <2>2, <3>1
        <4>3. OpenContacts(call[c].day)' = OpenContacts(d)'
              /\ AssignedFor(call[c].day)' = AssignedFor(d)'
          BY <4>2 DEF OpenContacts, AssignedFor
        <4>4. QED
          BY <3>3, <3>6, <4>1, <4>2, <4>3
    <2>3. ASSUME NEW d \in Days, CloseDay(c, d)
          PROVE  /\ cycle'[call'[c].day] # "closed"
                 /\ OpenContacts(call[c].day)' \subseteq call'[c].contacts
                 /\ AssignedFor(call[c].day)' \subseteq call'[c].tasks
      <3>1. /\ call'[c].day = d /\ call'[c].contacts = OpenContacts(d)
            /\ AssignedFor(d) \subseteq call'[c].tasks
        BY <1>0, <2>3 DEF CloseDay, Begin, TypeOK
      <3>2. cycle'[d] # "closed" /\ OpenContacts(d)' = OpenContacts(d)
            /\ AssignedFor(d)' = AssignedFor(d)
        BY <2>3 DEF CloseDay, OpenContacts, AssignedFor
      <3>3. OpenContacts(call[c].day)' = OpenContacts(d)'
            /\ AssignedFor(call[c].day)' = AssignedFor(d)'
        BY <3>1 DEF OpenContacts, AssignedFor
      <3>4. QED
        BY <3>1, <3>2, <3>3
    <2>4. QED
      BY <1>0, <2>1, <2>2, <2>3, CallStep
  <1>4. ClosedDayIsSettled'
    <2>1. SUFFICES ASSUME NEW d \in Days, cycle'[d] = "closed"
                   PROVE  OpenContacts(d)' = {} /\ AssignedFor(d)' = {}
      BY DEF ClosedDayIsSettled, OpenContacts, AssignedFor
    <2>2. CASE cycle[d] = "closed"
      <3>1. OpenContacts(d) = {} /\ AssignedFor(d) = {}
        BY <2>2 DEF ClosingInv, ClosedDayIsSettled
      <3>2. QED
        BY <2>2, <3>1, NothingNew
    <2>3. ASSUME NEW c \in Calls \cup {Job}, CloseDayCommit(c), call[c].day = d
          PROVE  OpenContacts(d)' = {} /\ AssignedFor(d)' = {}
      <3>1. /\ call[c].op = "close"
            /\ OpenContacts(d) \subseteq call[c].contacts /\ AssignedFor(d) \subseteq call[c].tasks
        BY <2>3 DEF CloseDayCommit, End, ClosingInv, ClosingCovers
      <3>2. ASSUME NEW k \in Clients PROVE contact'[k][d].status \notin OpenContact
        <4>1. CASE k \in call[c].contacts
          <5>1. contact[k][d] \in Contact
            BY <1>0 DEF TypeOK
          <5>2. contact'[k][d] = [Shut(contact[k][d]) EXCEPT !.owner = NoOne]
            BY <1>0, <2>3, <4>1 DEF CloseDayCommit, TypeOK
          <5>3. QED
            BY <5>1, <5>2 DEF Contact, Shut, OpenContact
        <4>2. CASE k \notin call[c].contacts
          <5>1. contact'[k][d] = contact[k][d]
            BY <1>0, <2>3, <4>2 DEF CloseDayCommit, TypeOK
          <5>2. QED
            BY <3>1, <4>2, <5>1 DEF OpenContacts
        <4>3. QED
          BY <4>1, <4>2
      <3>3. ASSUME NEW t \in Tasks PROVE ~(task'[t].status = "assigned" /\ task'[t].day = d)
        <4>1. task[t] \in Task
          BY <1>0 DEF TypeOK
        <4>2. task'[t] = IF t \in call[c].tasks THEN Released(task[t]) ELSE task[t]
          BY <2>3 DEF CloseDayCommit
        <4>3. Released(task[t]).status # "assigned"
          BY <4>1 DEF Released, Task, WaitingStates
        <4>4. QED
          BY <3>1, <4>2, <4>3 DEF AssignedFor
      <3>4. QED
        BY <3>2, <3>3 DEF OpenContacts, AssignedFor
    <2>4. QED
      BY <1>0, <2>1, <2>2, <2>3, CycleStep
  <1>5. QED
    BY <1>0, <1>1, <1>2, <1>3, <1>4 DEF ClosingInv

\* A closed day has nothing open or assigned, whatever was going on as it closed.
THEOREM ClosedDaysAreSettled == Spec => []ClosedDayIsSettled
  <1>1. ClosingInv => ClosedDayIsSettled
    BY DEF ClosingInv
  <1>2. QED
    BY <1>1, ClosingInit, ClosingNext, PTL DEF Spec

\* No write made on the strength of an earlier read opens a closed contact or day.
THEOREM ClosedNeverReopens == Spec => ClosedStaysClosed
  <1> DEFINE Keeps == /\ \A k \in Clients, d \in Days :
                            contact[k][d].status = "closed" => contact'[k][d].status = "closed"
                      /\ \A d \in Days : cycle[d] = "closed" => cycle'[d] = "closed"
  <1>1. TypeOK /\ [Next]_vars => Keeps
    BY ContactsKept, CycleStep DEF KeepsContact
  <1>2. Keeps => [Keeps]_vars
    OBVIOUS
  <1>3. QED
    BY <1>1, TypeInit, TypeNext, PTL DEF Spec, ClosedStaysClosed

-----------------------------------------------------------------------------
(* Bookings *)

InBooking(c) == call[c].op \in {"book", "booked"}

\* A booking is checked when it begins and keeps what it was checked for.
LEMMA BookingStep ==
    ASSUME TypeOK, [Next]_vars, NEW c \in Calls, InBooking(c)'
    PROVE  \/ call'[c] = call[c]
           \/ \E r \in Booking : BookRead(c, r) /\ call'[c] = r
           \/ /\ BookCommit(c) /\ InBooking(c)
              /\ call'[c].client = call[c].client /\ call'[c].contact = call[c].contact
              /\ call'[c].by = call[c].by /\ call'[c].listed = call[c].listed
              /\ call'[c].contact # 0
  <1> DEFINE Goal == \/ call'[c] = call[c]
                     \/ \E r \in Booking : BookRead(c, r) /\ call'[c] = r
                     \/ /\ BookCommit(c) /\ InBooking(c)
                        /\ call'[c].client = call[c].client /\ call'[c].contact = call[c].contact
                        /\ call'[c].by = call[c].by /\ call'[c].listed = call[c].listed
                        /\ call'[c].contact # 0
  <1>f. call \in [Calls \cup {Job} -> Call] /\ Idle.op \notin {"book", "booked"}
    BY DEF TypeOK, Idle
  <1>i. ASSUME NEW b \in Calls \cup {Job}, NEW x, x.op \notin {"book", "booked"},
               call' = [call EXCEPT ![b] = x]
        PROVE  call'[c] = call[c]
    BY <1>f, <1>i DEF InBooking
  <1>1. CASE PlanStep
    <2>1. ASSUME NEW b \in Calls \cup {Job}, NEW d \in Days,
                 CloseDay(b, d) \/ \E plan \in SUBSET Tasks : Prepare(b, d, plan)
          PROVE  call'[c] = call[c]
      BY <1>i, <2>1 DEF CloseDay, Prepare, Begin
    <2>2. ASSUME NEW b \in Calls \cup {Job}, Reconcile(b) \/ CloseDayCommit(b)
          PROVE  call'[c] = call[c]
      BY <1>f, <1>i, <2>2 DEF Reconcile, CloseDayCommit, End
    <2>3. ASSUME NEW d \in Days, Generate(d)
          PROVE  call'[c] = call[c]
      BY <2>3 DEF Generate
    <2>4. QED
      BY <1>1, <2>1, <2>2, <2>3 DEF PlanStep, AutoClose
  <1>2. CASE ContactStep
    BY <1>2 DEF ContactStep, Claim, LogCall, CloseItem, DoNotContact, AllowContact
  <1>3. CASE VisitStep
    <2>1. ASSUME NEW b \in Calls, NEW r \in Booking, BookRead(b, r)
          PROVE  Goal
      BY <1>f, <2>1 DEF BookRead, Begin
    <2>2. ASSUME NEW b \in Calls, BookCommit(b)
          PROVE  Goal
      <3>1. CASE call[b].contact = 0
        BY <1>f, <1>i, <2>2, <3>1 DEF BookCommit, BookWrite
      <3>2. CASE call[b].contact # 0
        <4>1. call' = [call EXCEPT ![b] = [op |-> "booked", listed |-> call[b].listed,
                         client |-> call[b].client, contact |-> call[b].contact, by |-> call[b].by]]
          BY <2>2, <3>2 DEF BookCommit, BookWrite
        <4>2. CASE b = c
          BY <1>f, <2>2, <3>2, <4>1, <4>2 DEF BookCommit, InBooking
        <4>3. CASE b # c
          BY <1>f, <4>1, <4>3
        <4>4. QED
          BY <4>2, <4>3
      <3>3. QED
        BY <3>1, <3>2
    <2>3. ASSUME NEW b \in Calls, BookedContact(b) \/ InstantCommit(b) \/ StartTasks(b)
          PROVE  call'[c] = call[c]
      BY <1>f, <1>i, <2>3 DEF BookedContact, InstantCommit, StartTasks, End
    <2>4. ASSUME NEW b \in Calls,
                 \/ \E k \in Clients, s \in Slots : InstantRead(b, k, s)
                 \/ \E v \in DOMAIN visits : StartVisit(b, v)
          PROVE  call'[c] = call[c]
      BY <1>i, <2>4 DEF InstantRead, StartVisit, Begin
    <2>5. ASSUME NEW v \in DOMAIN visits, CancelVisit(v)
          PROVE  call'[c] = call[c]
      BY <2>5 DEF CancelVisit
    <2>6. QED
      BY <1>3, <2>1, <2>2, <2>3, <2>4, <2>5 DEF VisitStep
  <1>4. ASSUME NEW b \in Calls \cup {Job}, Abort(b)
        PROVE  call'[c] = call[c]
    BY <1>f, <1>i, <1>4 DEF Abort
  <1>5. CASE NextDay \/ UNCHANGED vars
    BY <1>5 DEF NextDay, vars
  <1>6. QED
    BY <1>1, <1>2, <1>3, <1>4, <1>5 DEF Next

LEMMA HeldNext == TypeOK /\ ContactHeldByOne /\ [Next]_vars => ContactHeldByOne'
  <1> SUFFICES ASSUME TypeOK, ContactHeldByOne, [Next]_vars,
                      NEW c \in Calls, InBooking(c)', call'[c].contact # 0
               PROVE  \/ contact'[call'[c].client][call'[c].contact].status = "closed"
                      \/ contact'[call'[c].client][call'[c].contact].owner = call'[c].by
    BY DEF ContactHeldByOne, InBooking
  <1>1. ASSUME InBooking(c), call'[c].client = call[c].client,
               call'[c].contact = call[c].contact, call'[c].by = call[c].by
        PROVE  \/ contact'[call'[c].client][call'[c].contact].status = "closed"
               \/ contact'[call'[c].client][call'[c].contact].owner = call'[c].by
    <2> DEFINE k == call[c].client
    <2> DEFINE d == call[c].contact
    <2>1. k \in Clients /\ d \in Days /\ call[c].by \in Operators
      <3>1. call[c] \in Call
        BY DEF TypeOK
      <3>2. CASE call[c].op = "book"
        <4>1. call[c] \in Booking /\ d \in Days /\ call[c].by \in Operators
          BY <1>1, <3>1, <3>2, CallFields
        <4>2. QED
          BY <4>1 DEF Booking
      <3>3. CASE call[c].op = "booked"
        BY <3>1, <3>3, CallFields
      <3>4. QED
        BY <1>1, <3>2, <3>3 DEF InBooking
    <2>2. contact[k][d].status = "closed" \/ contact[k][d].owner = call[c].by
      BY <1>1 DEF ContactHeldByOne, InBooking
    <2>3. KeepsContact(contact[k][d], contact'[k][d])
      BY <2>1, ContactsKept
    <2>4. QED
      BY <1>1, <2>1, <2>2, <2>3, PlanningAssumption DEF PlanningAssumption, KeepsContact
  <1>2. ASSUME NEW r \in Booking, BookRead(c, r), call'[c] = r
        PROVE  contact'[r.client][r.contact].owner = r.by
    <2>1. r \in Call /\ r.op = "book" /\ r.client \in Clients
      BY DEF Call, Booking
    <2>2. r.contact \in Days /\ r.by \in Operators
      BY <1>2, <2>1, CallFields
    <2>3. contact' = [contact EXCEPT ![r.client][r.contact] =
                        Claimed(contact[r.client][r.contact], r.by)]
      BY <1>2 DEF BookRead
    <2>4. contact'[r.client][r.contact] = Claimed(contact[r.client][r.contact], r.by)
      BY <2>1, <2>2, <2>3 DEF TypeOK
    <2>5. contact[r.client][r.contact] \in Contact
      BY <2>1, <2>2 DEF TypeOK
    <2>6. QED
      BY <2>4, <2>5 DEF Claimed, Contact
  <1>3. QED
    BY <1>1, <1>2, BookingStep DEF InBooking

\* The contact of a booking is locked by the operator who makes it.
THEOREM BookingHoldsItsContact == Spec => []ContactHeldByOne
  <1>1. Init => ContactHeldByOne
    BY DEF Init, Idle, ContactHeldByOne
  <1>2. QED
    BY <1>1, HeldNext, TypeInit, TypeNext, PTL DEF Spec

\* While a booking from the list is being made, its client may be contacted.
ListedMayBeCalled ==
    \A c \in Calls : InBooking(c) /\ call[c].listed => call[c].client \notin blocked

LEMMA BlockedStep ==
    ASSUME [Next]_vars, NEW k, k \in blocked', k \notin blocked
    PROVE  ~ClientLocked(k) /\ UNCHANGED call
  <1>1. CASE PlanStep
    BY <1>1 DEF PlanStep, Prepare, Reconcile, Generate, CloseDay, CloseDayCommit, AutoClose
  <1>2. CASE ContactStep
    BY <1>2 DEF ContactStep, Claim, LogCall, CloseItem, DoNotContact, AllowContact
  <1>3. CASE VisitStep
    BY <1>3
       DEF VisitStep, BookRead, BookCommit, BookWrite, BookedContact, InstantRead, InstantCommit,
           StartVisit, StartTasks, CancelVisit
  <1>4. CASE NextDay \/ UNCHANGED vars \/ \E c \in Calls \cup {Job} : Abort(c)
    BY <1>4 DEF NextDay, vars, Abort
  <1>5. QED
    BY <1>1, <1>2, <1>3, <1>4 DEF Next

LEMMA ListedNext == TypeOK /\ ListedMayBeCalled /\ [Next]_vars => ListedMayBeCalled'
  <1> SUFFICES ASSUME TypeOK, ListedMayBeCalled, [Next]_vars,
                      NEW c \in Calls, InBooking(c)', call'[c].listed,
                      call'[c].client \in blocked'
               PROVE  FALSE
    BY DEF ListedMayBeCalled
  <1>1. ASSUME InBooking(c), call'[c].client = call[c].client, call'[c].listed = call[c].listed
        PROVE  FALSE
    <2>1. call[c].client \notin blocked
      BY <1>1 DEF ListedMayBeCalled
    <2>2. ~ClientLocked(call[c].client)
      BY <1>1, <2>1, BlockedStep
    <2>3. QED
      BY <1>1, <2>2 DEF ClientLocked, InBooking
  <1>2. ASSUME NEW r \in Booking, BookRead(c, r), call'[c] = r
        PROVE  FALSE
    BY <1>2 DEF BookRead, Bookable
  <1>3. QED
    BY <1>1, <1>2, BookingStep DEF InBooking

\* No booking from the list is committed for a client who must not be contacted.
THEOREM BlockedNeverBooked == Spec => BlockedIsNotBooked
  <1> DEFINE Free == Len(visits') > Len(visits) =>
                       \A v \in {visits'[Len(visits')]} : v.listed => v.client \notin blocked
  <1>1. Init => ListedMayBeCalled
    BY DEF Init, Idle, ListedMayBeCalled, InBooking
  <1>2. TypeOK /\ ListedMayBeCalled /\ [Next]_vars => Free
    <2> SUFFICES ASSUME TypeOK, ListedMayBeCalled, [Next]_vars, Len(visits') > Len(visits)
                 PROVE  visits'[Len(visits')].listed => visits'[Len(visits')].client \notin blocked
      OBVIOUS
    <2>0. Len(visits) \in Nat
      BY LenProperties DEF TypeOK
    <2>1. ~KeepsVisits(visits, visits')
      BY <2>0 DEF KeepsVisits
    <2>2. PICK v \in Visit : Adds(v)
      BY <2>1, VisitsStep
    <2>3. visits'[Len(visits')] = v
      BY <2>2, InsertType DEF Adds
    <2>4. QED
      BY <2>2, <2>3 DEF Adds, ListedMayBeCalled, InBooking
  <1>3. Free => [Free]_vars
    OBVIOUS
  <1>4. QED
    BY <1>1, <1>2, ListedNext, TypeInit, TypeNext, PTL DEF Spec, BlockedIsNotBooked

=============================================================================
