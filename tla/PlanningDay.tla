------------------------------ MODULE PlanningDay ------------------------------
(***************************************************************************)
(* The planning day of one team: open tasks are assigned to the team for a  *)
(* day, their clients become contacts, the contacts are put on the          *)
(* telemarketers' list, called and booked; at its end the day is closed,    *)
(* which closes the contacts and gives back the tasks nobody booked.        *)
(*                                                                          *)
(* The operations of the plan (syncing the assigned tasks, preparing and    *)
(* generating the list, closing the day) take the advisory lock of branch   *)
(* and date; booking a visit does not.  A transaction under the lock is one *)
(* step, but for the closing, whose statements wait for rows that bookings  *)
(* change.  A handler made of several transactions is several steps, and    *)
(* may stop after any of them (Abort).  A contact is a client on a day.     *)
(***************************************************************************)
EXTENDS Naturals, Sequences, FiniteSets

CONSTANTS
    Clients, Tasks,
    ClientOf,       \* open_tasks.client_id
    Operators,      \* the users who call and book
    NoOne,
    Slots,          \* the times of day at which the team can be booked
    Calls,          \* requests being handled
    Job,            \* the cleanup job, which closes days by itself
    LastDay, MaxVisits   \* bounds

ASSUME PlanningAssumption ==
    /\ ClientOf \in [Tasks -> Clients]
    /\ NoOne \notin Operators
    /\ Job \notin Calls
    /\ LastDay \in Nat /\ MaxVisits \in Nat

Days == 1..LastDay

VARIABLES
    today,
    cycle,      \* planning_day_cycles.status; "planning" where there is no row
    task,       \* open_tasks
    contact,    \* contact_targets, with their links and list items
    blocked,    \* clients.do_not_contact
    visits,     \* field_visits, with their visit_tasks
    call        \* what each handler in progress has read

vars == <<today, cycle, task, contact, blocked, visits, call>>

-----------------------------------------------------------------------------

WaitingStates == {"open", "needs_follow_up"}
LockedTaskStatuses == {"scheduled"}     \* of the statuses a task has here
OpenContact == {"new", "queued", "in_call_list", "contacted"}

\* waiting: last_waiting_status; day: assigned_for_date, which is read of assigned
\* tasks only, 0 for the others.
Task == [status : WaitingStates \cup {"assigned", "in_scheduling", "scheduled", "in_execution"},
         waiting : WaitingStates, day : 0..LastDay]

\* links: contact_target_open_tasks; items: the tasks of its list items.
Contact == [status : OpenContact \cup {"none", "closed"},
            owner : Operators \cup {NoOne},
            links : SUBSET Tasks, items : SUBSET Tasks]

\* listed: origin_type is telemarketing.
Visit == [client : Clients, tasks : SUBSET Tasks, day : Days, slot : Slots,
          listed : BOOLEAN, status : {"scheduled", "in_progress", "cancelled"}]

\* contact: the day of the contact the booking is for, 0 if it names none (and
\* then nobody has to hold it).
Booking == {r \in [op : {"book"}, listed : BOOLEAN, client : Clients,
                   contact : 0..LastDay, by : Operators \cup {NoOne},
                   tasks : SUBSET Tasks, day : Days, slot : Slots] :
              r.by = NoOne <=> r.contact = 0}

Idle == [op |-> "idle"]
Call ==
    {Idle}
      \cup Booking
      \cup [op : {"booked"}, listed : BOOLEAN, client : Clients,
            contact : Days, by : Operators]
      \cup [op : {"prepare"}, day : Days]
      \cup [op : {"close"}, day : Days, contacts : SUBSET Clients, tasks : SUBSET Tasks]
      \cup [op : {"instant"}, client : Clients, day : Days, slot : Slots]
      \cup [op : {"start"}, visit : Nat]

TypeOK ==
    /\ today \in 1..(LastDay + 1)
    /\ cycle \in [Days -> {"planning", "active", "closed"}]
    /\ task \in [Tasks -> Task]
    /\ contact \in [Clients -> [Days -> Contact]]
    /\ blocked \in SUBSET Clients
    /\ visits \in Seq(Visit) /\ Len(visits) <= MaxVisits
    /\ call \in [Calls \cup {Job} -> Call]

NoContact == [status |-> "none", owner |-> NoOne, links |-> {}, items |-> {}]

Init ==
    /\ today = 1
    /\ cycle = [d \in Days |-> "planning"]
    /\ task \in [Tasks -> {[status |-> s, waiting |-> "open", day |-> 0] : s \in WaitingStates}]
    /\ contact = [k \in Clients |-> [d \in Days |-> NoContact]]
    /\ blocked = {}
    /\ visits = <<>>
    /\ call = [c \in Calls \cup {Job} |-> Idle]

-----------------------------------------------------------------------------
(* Locks, and the changes several operations share.                        *)

TasksOf(k) == {t \in Tasks : ClientOf[t] = k}
AssignedFor(d) == {t \in Tasks : task[t].status = "assigned" /\ task[t].day = d}
OpenContacts(d) == {k \in Clients : contact[k][d].status \in OpenContact}

Closing(d) == {c \in Calls \cup {Job} : call[c].op = "close" /\ call[c].day = d}

\* Variant: nobody takes the lock.
DayNeverLocked(d) == FALSE

\* lockPlanningDayMutation has to wait.
DayLocked(d) == Closing(d) # {}

\* The contact's row is locked by a closing that has updated it.
ContactLocked(k, d) == \E c \in Closing(d) : k \in call[c].contacts

\* Variant: control of a client's contacts does not wait for the bookings.
ClientNeverLocked(k) == FALSE

\* client-contact-control is held in share mode by a booking from the list.
ClientLocked(k) == \E c \in Calls : /\ call[c].op \in {"book", "booked"}
                                    /\ call[c].listed /\ call[c].client = k

Begin(c, record) == call[c] = Idle /\ call' = [call EXCEPT ![c] = record]
End(c, op) == call[c].op = op /\ call' = [call EXCEPT ![c] = Idle]

\* Back to the status the task waited in.
Released(x) == [x EXCEPT !.status = x.waiting, !.day = 0]
Shut(x) == [x EXCEPT !.status = "closed"]

\* Variant: whoever asks gets the contact.
HeldByAnyone(k, d, o) == ~ContactLocked(k, d) /\ contact[k][d].status # "none"

\* claimContactTarget: free or already the operator's.
MayClaim(k, d, o) ==
    /\ ~ContactLocked(k, d)
    /\ contact[k][d].status # "none"
    /\ contact[k][d].owner \in {NoOne, o}

\* Variant: claiming always moves the contact on.
ClaimedAndCalled(x, o) == [x EXCEPT !.owner = o, !.status = "in_call_list"]

Claimed(x, o) ==
    [x EXCEPT !.owner = o, !.status = IF @ = "queued" THEN "in_call_list" ELSE @]

Called(x, o) == [x EXCEPT !.owner = o, !.status = "contacted"]

\* resolveOrCreateContactTarget with the tasks S of the client.
Linked(x, S) ==
    IF S = {} THEN x
    ELSE [x EXCEPT !.links = @ \cup S, !.status = IF @ = "none" THEN "new" ELSE @]

\* The same, and the tasks become items of the contact on the list.
Listed(x, S) ==
    IF S = {} THEN x
    ELSE [x EXCEPT !.links = @ \cup S, !.items = @ \cup S,
                   !.status = IF @ \in {"none", "new"} THEN "queued" ELSE @]

\* assertTeamSlotAvailable; the trigger asks the same once it holds the slot.
SlotFree(d, s) ==
    \A v \in DOMAIN visits :
        visits[v].day = d /\ visits[v].slot = s => visits[v].status = "cancelled"

-----------------------------------------------------------------------------
(* The plan.                                                               *)

\* syncAssignedTasks; plan: the tasks the team's work scope has that day.
Synced(x, planned, d) ==
    IF planned /\ x.status \in WaitingStates
      THEN [status |-> "assigned", waiting |-> x.status, day |-> d]
      ELSE IF ~planned /\ x.status = "assigned" /\ x.day = d THEN Released(x) ELSE x

\* The sync of the request that prepares the contacts.  The requests that only
\* sync are those that stop here.
Prepare(c, d, plan) ==
    /\ ~DayLocked(d)
    /\ cycle[d] # "closed"
    /\ \A t \in plan : ClientOf[t] \notin blocked
    /\ Begin(c, [op |-> "prepare", day |-> d])
    /\ task' = [t \in Tasks |-> Synced(task[t], t \in plan, d)]
    /\ UNCHANGED <<today, cycle, contact, blocked, visits>>

\* reconcileContactTargetWorkspace, a transaction of its own which does not ask
\* again whether the day is closed.
Reconcile(c) ==
    /\ End(c, "prepare")
    /\ LET d == call[c].day
           Scoped(k) == TasksOf(k) \cap (AssignedFor(d) \cup contact[k][d].links)
       IN /\ ~DayLocked(d)
          /\ contact' = [k \in Clients |-> [contact[k] EXCEPT ![d] = Linked(@, Scoped(k))]]
    /\ UNCHANGED <<today, cycle, task, blocked, visits>>

\* generate-from-plan: a closed contact takes no task that is not already on
\* its list.
Generate(d) ==
    LET Leads(k) == {t \in TasksOf(k) \cap AssignedFor(d) :
                       contact[k][d].status = "closed" => t \in contact[k][d].items}
        listed == UNION {Leads(k) : k \in Clients \ blocked}
    IN /\ ~DayLocked(d)
       /\ cycle[d] # "closed"
       /\ task' = [t \in Tasks |->
            IF t \in listed THEN [task[t] EXCEPT !.status = "in_scheduling", !.day = 0]
                            ELSE task[t]]
       /\ contact' = [k \in Clients |->
            [contact[k] EXCEPT ![d] = Listed(@, TasksOf(k) \cap listed)]]
       /\ cycle' = [cycle EXCEPT ![d] = "active"]
       /\ UNCHANGED <<today, blocked, visits, call>>

\* closePlanningDayCycle up to the statement that releases the tasks: it has
\* closed the contacts and chosen the tasks by what its snapshot shows.
CloseDay(c, d) ==
    /\ ~DayLocked(d)
    /\ cycle[d] # "closed"
    /\ Begin(c, [op |-> "close", day |-> d, contacts |-> OpenContacts(d),
                 tasks |-> AssignedFor(d) \cup
                           {t \in Tasks : /\ task[t].status = "in_scheduling"
                                          /\ \E k \in OpenContacts(d) : t \in contact[k][d].links}])
    /\ UNCHANGED <<today, cycle, task, contact, blocked, visits>>

\* The tasks chosen are written by their id alone, whatever they are by now.
CloseDayCommit(c) ==
    /\ End(c, "close")
    /\ task' = [t \in Tasks |-> IF t \in call[c].tasks THEN Released(task[t]) ELSE task[t]]
    /\ contact' = [k \in Clients |-> [contact[k] EXCEPT ![call[c].day] =
         IF k \in call[c].contacts THEN [Shut(@) EXCEPT !.owner = NoOne] ELSE @]]
    /\ cycle' = [cycle EXCEPT ![call[c].day] = "closed"]
    /\ UNCHANGED <<today, blocked, visits>>

\* Variant: only the day that ends is looked at.
OnlyToday(d) == d = today /\ (OpenContacts(d) # {} \/ AssignedFor(d) # {} \/ cycle[d] = "active")

\* The candidates of closeExpiredPlanningDayCycles.
Due(d) == d <= today /\ (OpenContacts(d) # {} \/ AssignedFor(d) # {} \/ cycle[d] = "active")

\* The tick in the configured minute, or the catch-up of a process that starts.
AutoClose(d) == Due(d) /\ CloseDay(Job, d)

-----------------------------------------------------------------------------
(* Contacts.                                                               *)

\* POST /contact-targets/:id/claim.
Claim(k, d, o) ==
    /\ k \notin blocked
    /\ contact[k][d].status # "closed"
    /\ MayClaim(k, d, o)
    /\ contact' = [contact EXCEPT ![k][d] = Claimed(@, o)]
    /\ UNCHANGED <<today, cycle, task, blocked, visits, call>>

\* POST /call-logs; its statements ask for the status each on its own.
LogCall(k, d, o) ==
    /\ k \notin blocked
    /\ contact[k][d].status # "closed"
    /\ MayClaim(k, d, o)
    /\ contact' = [contact EXCEPT ![k][d] = Called(@, o)]
    /\ UNCHANGED <<today, cycle, task, blocked, visits, call>>

\* POST .../items/:itemId/close, with returnTasksToWaiting.
CloseItem(k, d, o) ==
    /\ contact[k][d].items # {}
    /\ MayClaim(k, d, o)
    /\ contact' = [contact EXCEPT ![k][d] = Shut(Claimed(@, o))]
    /\ task' = [t \in Tasks |->
         IF t \in contact[k][d].items /\ task[t].status = "in_scheduling"
           THEN Released(task[t]) ELSE task[t]]
    /\ UNCHANGED <<today, cycle, blocked, visits, call>>

\* applyClientDoNotContactState.
DoNotContact(k) ==
    /\ ~ClientLocked(k)
    /\ \A d \in Days : ~ContactLocked(k, d)
    /\ blocked' = blocked \cup {k}
    /\ task' = [t \in Tasks |->
         IF ClientOf[t] = k /\ task[t].status = "assigned" THEN Released(task[t]) ELSE task[t]]
    /\ contact' = [contact EXCEPT ![k] = [d \in Days |->
         IF contact[k][d].status \in OpenContact THEN Shut(contact[k][d]) ELSE contact[k][d]]]
    /\ UNCHANGED <<today, cycle, visits, call>>

AllowContact(k) ==
    /\ ~ClientLocked(k)
    /\ k \in blocked
    /\ blocked' = blocked \ {k}
    /\ UNCHANGED <<today, cycle, task, contact, visits, call>>

-----------------------------------------------------------------------------
(* Visits.                                                                 *)

\* A booking from the list (book-visit) or of an expected date
\* (schedule-from-expected): its checks, the claim, and the checks of bookVisit.
Bookable(r) ==
    IF r.listed
      THEN /\ r.client \notin blocked
           /\ r.contact # 0 => contact[r.client][r.contact].status # "closed"
           /\ \A t \in r.tasks : task[t].status \notin LockedTaskStatuses
      ELSE \A t \in r.tasks : task[t].status \in {"needs_follow_up", "assigned", "in_scheduling"}

BookRead(c, r) ==
    /\ r.tasks # {} /\ r.tasks \subseteq TasksOf(r.client)
    /\ Bookable(r)
    /\ r.contact # 0 => MayClaim(r.client, r.contact, r.by)
    /\ SlotFree(r.day, r.slot)
    /\ Begin(c, r)
    /\ contact' = IF r.contact = 0 THEN contact
                  ELSE [contact EXCEPT ![r.client][r.contact] = Claimed(@, r.by)]
    /\ UNCHANGED <<today, cycle, task, blocked, visits>>

Insert(v) == Len(visits) < MaxVisits /\ visits' = Append(visits, v)

BookWrite(c, r) ==
    /\ call' = [call EXCEPT ![c] =
         IF r.contact = 0 THEN Idle
         ELSE [op |-> "booked", listed |-> r.listed, client |-> r.client,
               contact |-> r.contact, by |-> r.by]]
    /\ Insert([client |-> r.client, tasks |-> r.tasks, day |-> r.day, slot |-> r.slot,
               listed |-> r.listed, status |-> "scheduled"])
    /\ task' = [t \in Tasks |->
         IF t \in r.tasks THEN [task[t] EXCEPT !.status = "scheduled", !.day = 0] ELSE task[t]]
    /\ UNCHANGED <<today, cycle, contact, blocked>>

\* Variant: without the trigger of migration 371.
InsertUnchecked(c) ==
    /\ call[c].op = "book"
    /\ BookWrite(c, call[c])

\* bookVisit from its first write to its commit; the tasks are written by id.
BookCommit(c) ==
    /\ call[c].op = "book"
    /\ SlotFree(call[c].day, call[c].slot)
    /\ BookWrite(c, call[c])

\* The statement after it that closes the contact as booked.
BookedContact(c) ==
    /\ End(c, "booked")
    /\ ~ContactLocked(call[c].client, call[c].contact)
    /\ contact' = [contact EXCEPT ![call[c].client][call[c].contact] = Shut(@)]
    /\ UNCHANGED <<today, cycle, task, blocked, visits>>

\* createInstantVisit, its checks and its writes.
InstantRead(c, k, s) ==
    /\ today \in Days
    /\ k \notin blocked
    /\ SlotFree(today, s)
    /\ Begin(c, [op |-> "instant", client |-> k, day |-> today, slot |-> s])
    /\ UNCHANGED <<today, cycle, task, contact, blocked, visits>>

InstantCommit(c) ==
    /\ End(c, "instant")
    /\ LET r == call[c] IN
         /\ SlotFree(r.day, r.slot)
         /\ ~ContactLocked(r.client, r.day)
         /\ Insert([client |-> r.client, tasks |-> {}, day |-> r.day, slot |-> r.slot,
                    listed |-> FALSE, status |-> "in_progress"])
         /\ contact' = [contact EXCEPT ![r.client][r.day] = Shut(@)]
    /\ UNCHANGED <<today, cycle, task, blocked>>

\* Variant: the tasks of a cancelled visit are left scheduled.
CancelKeepsTasks(v) ==
    /\ visits[v].status = "scheduled"
    /\ visits' = [visits EXCEPT ![v].status = "cancelled"]
    /\ UNCHANGED <<today, cycle, task, contact, blocked, call>>

CancelVisit(v) ==
    /\ visits[v].status = "scheduled"
    /\ visits' = [visits EXCEPT ![v].status = "cancelled"]
    /\ task' = [t \in Tasks |->
         IF t \in visits[v].tasks /\ task[t].status \in {"assigned", "in_scheduling", "scheduled"}
           THEN Released(task[t]) ELSE task[t]]
    /\ UNCHANGED <<today, cycle, contact, blocked, call>>

\* POST /:id/start writes the visit and its tasks in two statements.
StartVisit(c, v) ==
    /\ visits[v].status = "scheduled"
    /\ visits' = [visits EXCEPT ![v].status = "in_progress"]
    /\ Begin(c, [op |-> "start", visit |-> v])
    /\ UNCHANGED <<today, cycle, task, contact, blocked>>

StartTasks(c) ==
    /\ End(c, "start")
    /\ task' = [t \in Tasks |->
         IF t \in visits[call[c].visit].tasks /\ task[t].status = "scheduled"
           THEN [task[t] EXCEPT !.status = "in_execution"] ELSE task[t]]
    /\ UNCHANGED <<today, cycle, contact, blocked, visits>>

-----------------------------------------------------------------------------

\* A process stops or a statement fails: what the handler has committed stays.
Abort(c) ==
    /\ call[c] # Idle
    /\ call' = [call EXCEPT ![c] = Idle]
    /\ UNCHANGED <<today, cycle, task, contact, blocked, visits>>

NextDay ==
    /\ today <= LastDay
    /\ today' = today + 1
    /\ UNCHANGED <<cycle, task, contact, blocked, visits, call>>

PlanStep ==
    \/ \E c \in Calls, d \in Days :
         CloseDay(c, d) \/ \E plan \in SUBSET Tasks : Prepare(c, d, plan)
    \/ \E c \in Calls : Reconcile(c)
    \/ \E d \in Days : Generate(d) \/ AutoClose(d)
    \/ \E c \in Calls \cup {Job} : CloseDayCommit(c)

ContactStep ==
    \/ \E k \in Clients, d \in Days, o \in Operators :
         Claim(k, d, o) \/ LogCall(k, d, o) \/ CloseItem(k, d, o)
    \/ \E k \in Clients : DoNotContact(k) \/ AllowContact(k)

VisitStep ==
    \/ \E c \in Calls :
         \/ \E r \in Booking : BookRead(c, r)
         \/ BookCommit(c)
         \/ BookedContact(c)
         \/ \E k \in Clients, s \in Slots : InstantRead(c, k, s)
         \/ InstantCommit(c)
         \/ \E v \in DOMAIN visits : StartVisit(c, v)
         \/ StartTasks(c)
    \/ \E v \in DOMAIN visits : CancelVisit(v)

Next ==
    \/ PlanStep
    \/ ContactStep
    \/ VisitStep
    \/ \E c \in Calls \cup {Job} : Abort(c)
    \/ NextDay

Spec == Init /\ [][Next]_vars

\* The job comes back every day and after every restart until a closing of the
\* day commits; a closing by hand ends.
FairSpec ==
    /\ Spec
    /\ \A d \in Days : SF_vars(AutoClose(d))
    /\ SF_vars(CloseDayCommit(Job))
    /\ \A c \in Calls : WF_vars(CloseDayCommit(c))

-----------------------------------------------------------------------------
(* Properties.                                                             *)

\* However bookings and instant visits race for a time of the team, it has one
\* visit that is not cancelled: the check before the insert is not enough.
OneVisitPerSlot ==
    \A v, w \in DOMAIN visits :
        /\ visits[v].status # "cancelled" /\ visits[w].status # "cancelled"
        /\ visits[v].day = visits[w].day /\ visits[v].slot = visits[w].slot
        => v = w

\* While a booking is being made for an open contact, the contact is locked by
\* the operator who makes it, so no second operator can be booking it.
ContactHeldByOne ==
    \A c \in Calls :
        call[c].op \in {"book", "booked"} /\ call[c].contact # 0 =>
          \/ contact[call[c].client][call[c].contact].status = "closed"
          \/ contact[call[c].client][call[c].contact].owner = call[c].by

\* A closed day has no open contact and no task assigned for it, whatever plans
\* and bookings were being made while it was closed.
ClosedDayIsSettled ==
    \A d \in Days : cycle[d] = "closed" => OpenContacts(d) = {} /\ AssignedFor(d) = {}

\* A scheduled task is on a visit that was not cancelled: no order of bookings,
\* cancellations and closings loses a task to a status nothing leads out of.
ScheduledHasVisit ==
    \A t \in Tasks : task[t].status = "scheduled" =>
        \E v \in DOMAIN visits : t \in visits[v].tasks /\ visits[v].status # "cancelled"

\* A booking from the list is not committed for a client who by then must not
\* be contacted, although it was checked before the booking began.
BlockedIsNotBooked ==
    [][Len(visits') > Len(visits) =>
         \A v \in {visits'[Len(visits')]} : v.listed => v.client \notin blocked]_vars

\* Contacts and days that are closed stay closed, though claims, calls, lists
\* and bookings write to them on the strength of an earlier read.
ClosedStaysClosed ==
    [][/\ \A k \in Clients, d \in Days :
            contact[k][d].status = "closed" => contact'[k][d].status = "closed"
       /\ \A d \in Days : cycle[d] = "closed" => cycle'[d] = "closed"]_vars

\* Every day that is over gets to a point where nothing is left open for it,
\* also if the job missed the day's minute or its closing failed.
PastDaysSettle ==
    \A d \in Days :
        [](today > d => <>(OpenContacts(d) = {} /\ AssignedFor(d) = {}))
=============================================================================
