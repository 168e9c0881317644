------------------------ MODULE NotificationOutboxProofs ------------------------
(***************************************************************************)
(* Theorems of NotificationOutbox, for any number of visits, changes,      *)
(* processes and accounts: the shape of the tables, at most one            *)
(* notification and push of a change, the bound on failures, the thanks,   *)
(* for one process the order, and that the outbox implements VisitNews.    *)
(***************************************************************************)
EXTENDS NotificationOutboxRefinement, FiniteSetTheorems, SequenceTheorems,
        WellFoundedInduction, TLAPS

-----------------------------------------------------------------------------
(* Types.                                                                  *)

\* A process that is not idle works on a row there is.
RowsKnown == \A w \in Workers : worker[w].phase # "idle" => worker[w].row \in DOMAIN outbox

\* A call remembers what it will write, and to which visit.
CallsKnown ==
    \A c \in Calls : checked[c] # NoCall =>
        checked[c].visit \in Visits /\ checked[c].to \in {"completed", "ended"}

Typed == TypeOK /\ RowsKnown /\ CallsKnown

CallType == [visit : Visits \cup {NoVisit}, to : {"completed", "ended", "none"}]

LEMMA DomainOfOutbox ==
    ASSUME TypeOK
    PROVE  /\ DOMAIN outbox = 1 .. Len(outbox) /\ DOMAIN outbox \subseteq Ids
           /\ DOMAIN outbox \subseteq Nat /\ Len(outbox) \in Nat
           /\ \A i \in DOMAIN outbox : outbox[i] \in OutboxRow
BY OutboxAssumption DEF TypeOK, Ids

LEMMA OldestIsClaimable ==
    ASSUME TypeOK, Claimable # {}
    PROVE  /\ Oldest(Claimable) \in Claimable
           /\ \A j \in Claimable : Oldest(Claimable) <= j
<1> DEFINE T == {1 .. i : i \in Claimable}
           R == StrictSubsetOrdering(Nat)
<1>1. IsWellFoundedOn(R, FiniteSubsetsOf(Nat))
  BY FS_StrictSubsetOrderingWellFounded
<1>2. Claimable \subseteq Nat
  BY DomainOfOutbox DEF Claimable
<1>3. ASSUME NEW i \in Nat PROVE 1 .. i \in FiniteSubsetsOf(Nat)
  BY FS_Interval DEF FiniteSubsetsOf
<1>4. T \subseteq FiniteSubsetsOf(Nat) /\ T # {}
  BY <1>2, <1>3
<1> HIDE DEF R
<1>5. PICK t \in T : \A u \in T : <<u, t>> \notin R
  <2> HIDE DEF T
  <2> QED BY <1>1, <1>4, WFMin
<1>6. PICK x \in Claimable : t = 1 .. x
  BY <1>5
<1>7. ASSUME NEW y \in Claimable PROVE x <= y
  <2>1. <<1 .. y, 1 .. x>> \notin R
    BY <1>5, <1>6
  <2>2. SUFFICES ASSUME y < x PROVE FALSE
    BY <1>2
  <2>3. 1 .. y \subseteq 1 .. x /\ 1 .. y # 1 .. x
    BY <1>2, <2>2
  <2> QED BY <1>2, <1>3, <2>1, <2>3 DEF R, StrictSubsetOrdering
<1> QED BY <1>7 DEF Oldest

\* One row changes.
LEMMA RowWritten ==
    ASSUME TypeOK, NEW i \in DOMAIN outbox, NEW row \in OutboxRow,
           outbox' = [outbox EXCEPT ![i] = row]
    PROVE  /\ outbox' \in Seq(OutboxRow) /\ Len(outbox') = Len(outbox)
           /\ DOMAIN outbox' = DOMAIN outbox
           /\ outbox'[i] = row
           /\ \A j \in DOMAIN outbox : j # i => outbox'[j] = outbox[j]
BY DEF TypeOK

\* A status is written: its change, if it is one, is appended.
LEMMA StatusWritten ==
    ASSUME Typed, NEW v \in Visits, NEW to \in VisitStatuses, SetStatus(v, to)
    PROVE  /\ outbox' \in Seq(OutboxRow) /\ Len(outbox') <= MaxRows
           /\ visit' \in [Visits -> VisitStatuses \cup {"none"}]
           /\ DOMAIN outbox \subseteq DOMAIN outbox' /\ Len(outbox) <= Len(outbox')
           /\ \A i \in DOMAIN outbox : outbox'[i] = outbox[i]
<1> DEFINE row == [visit |-> v, from |-> visit[v], to |-> to, handled |-> FALSE, attempts |-> 0]
<1>1. row \in OutboxRow
  BY DEF Typed, TypeOK, OutboxRow
<1>2. visit' \in [Visits -> VisitStatuses \cup {"none"}]
  BY DEF SetStatus, Typed, TypeOK
<1> HIDE DEF row
<1>3. CASE visit[v] = to
  BY <1>2, <1>3 DEF SetStatus, Typed, TypeOK
<1>4. CASE visit[v] # to
  <2>1. outbox' = Append(outbox, row) /\ Len(outbox) < MaxRows
    BY <1>4 DEF SetStatus, row
  <2> QED BY <1>1, <1>2, <2>1, OutboxAssumption DEF Typed, TypeOK
<1> QED BY <1>3, <1>4

LEMMA StatusKeepsTyped ==
    ASSUME Typed, NEW v \in Visits, NEW to \in VisitStatuses, SetStatus(v, to),
           checked' \in [Calls -> CallType], CallsKnown'
    PROVE  Typed'
<1>1. UNCHANGED <<told, pushed, worker, faults>>
  BY DEF SetStatus
<1>2. 0 .. Len(outbox) \subseteq 0 .. Len(outbox')
  BY StatusWritten DEF Typed, TypeOK
<1>3. worker' \in [Workers -> [phase : {"idle", "claimed", "failed", "dispatch"},
                               row : 0 .. Len(outbox'), due : SUBSET Accounts]]
  BY <1>1, <1>2 DEF Typed, TypeOK
<1>4. TypeOK'
  BY <1>1, <1>3, StatusWritten DEF Typed, TypeOK, CallType
<1>5. RowsKnown'
  BY <1>1, StatusWritten DEF Typed, RowsKnown
<1> QED BY <1>4, <1>5 DEF Typed

\* A process changes what it holds; the outbox keeps its rows.
LEMMA WorkerKeepsTyped ==
    ASSUME Typed, NEW w \in Workers,
           NEW x \in [phase : {"idle", "claimed", "failed", "dispatch"},
                      row : 0 .. Len(outbox), due : SUBSET Accounts],
           x.phase # "idle" => x.row \in DOMAIN outbox,
           worker' = [worker EXCEPT ![w] = x],
           outbox' \in Seq(OutboxRow), Len(outbox') = Len(outbox),
           told' \in [Ids \X Accounts -> Nat], pushed' \in [Ids \X Accounts -> Nat],
           faults' \in 0 .. MaxFaults, UNCHANGED <<visit, checked>>
    PROVE  Typed'
<1>1. DOMAIN outbox' = DOMAIN outbox
  BY DEF Typed, TypeOK
<1>2. worker' \in [Workers -> [phase : {"idle", "claimed", "failed", "dispatch"},
                               row : 0 .. Len(outbox'), due : SUBSET Accounts]]
  BY DEF Typed, TypeOK
<1>3. TypeOK'
  BY <1>2 DEF Typed, TypeOK
<1>4. ASSUME NEW u \in Workers, worker'[u].phase # "idle"
      PROVE  worker'[u].row \in DOMAIN outbox'
  <2>1. CASE u = w
    BY <1>1, <1>4, <2>1 DEF Typed, TypeOK
  <2>2. CASE u # w
    BY <1>1, <1>4, <2>2 DEF Typed, TypeOK, RowsKnown
  <2> QED BY <2>1, <2>2
<1> QED BY <1>3, <1>4 DEF Typed, RowsKnown, CallsKnown

LEMMA IdleIsTyped ==
    ASSUME TypeOK
    PROVE  /\ Idle \in [phase : {"idle", "claimed", "failed", "dispatch"},
                        row : 0 .. Len(outbox), due : SUBSET Accounts]
           /\ Idle.phase = "idle"
BY DomainOfOutbox DEF Idle

\* What a process at work holds.
LEMMA AtWork ==
    ASSUME Typed, NEW w \in Workers, worker[w].phase # "idle"
    PROVE  /\ worker[w].row \in DOMAIN outbox /\ worker[w].row \in Ids
           /\ worker[w].row \in 0 .. Len(outbox)
           /\ worker[w].due \in SUBSET Accounts
           /\ outbox[worker[w].row] \in OutboxRow
BY DomainOfOutbox DEF Typed, TypeOK, RowsKnown

LEMMA ClaimKeepsTyped ==
    ASSUME Typed, NEW w \in Workers, Claim(w)
    PROVE  Typed'
<1>1. Oldest(Claimable) \in DOMAIN outbox
  BY OldestIsClaimable DEF Claim, Typed, Claimable
<1>2. Oldest(Claimable) \in 0 .. Len(outbox)
  BY <1>1, DomainOfOutbox DEF Typed
<1> DEFINE x == [phase |-> "claimed", row |-> Oldest(Claimable), due |-> {}]
<1>3. /\ x \in [phase : {"idle", "claimed", "failed", "dispatch"},
                row : 0 .. Len(outbox), due : SUBSET Accounts]
      /\ x.row \in DOMAIN outbox
  BY <1>1, <1>2
<1>4. worker' = [worker EXCEPT ![w] = x] /\ UNCHANGED <<visit, checked, outbox, told, pushed, faults>>
  BY DEF Claim
<1> HIDE DEF x
<1> QED BY <1>3, <1>4, WorkerKeepsTyped DEF Typed, TypeOK

LEMMA HandleKeepsTyped ==
    ASSUME Typed, NEW w \in Workers, NEW recipients \in SUBSET Accounts, Handle(w, recipients)
    PROVE  Typed'
<1> DEFINE i == worker[w].row
           row == [outbox[i] EXCEPT !.handled = TRUE]
           x == IF recipients = {} THEN Idle
                ELSE [phase |-> "dispatch", row |-> i, due |-> recipients]
<1>1. i \in DOMAIN outbox /\ i \in 0 .. Len(outbox) /\ outbox[i] \in OutboxRow
  BY AtWork DEF Handle
<1>2. row \in OutboxRow
  BY <1>1 DEF OutboxRow
<1>3. outbox' = [outbox EXCEPT ![i] = row]
  BY DEF Handle
<1>4. x \in [phase : {"idle", "claimed", "failed", "dispatch"},
             row : 0 .. Len(outbox), due : SUBSET Accounts]
  BY <1>1, IdleIsTyped DEF Typed
<1>5. x.phase # "idle" => x.row \in DOMAIN outbox
  BY <1>1, IdleIsTyped DEF Typed
<1>6. worker' = [worker EXCEPT ![w] = x] /\ UNCHANGED <<visit, checked, pushed, faults>>
  BY DEF Handle
<1>7. told' \in [Ids \X Accounts -> Nat]
  BY DEF Handle, Typed, TypeOK
<1> HIDE DEF x, row
<1>8. outbox' \in Seq(OutboxRow) /\ Len(outbox') = Len(outbox)
  BY <1>1, <1>2, <1>3, RowWritten DEF Typed
<1> QED BY <1>4, <1>5, <1>6, <1>7, <1>8, WorkerKeepsTyped DEF Typed, TypeOK

LEMMA FailKeepsTyped ==
    ASSUME Typed, NEW w \in Workers, Fail(w)
    PROVE  Typed'
<1> DEFINE x == [worker[w] EXCEPT !.phase = "failed"]
<1>1. worker[w].phase = "claimed"
  BY DEF Fail
<1>2. /\ x \in [phase : {"idle", "claimed", "failed", "dispatch"},
                row : 0 .. Len(outbox), due : SUBSET Accounts]
      /\ x.row \in DOMAIN outbox
  BY <1>1, AtWork DEF Typed, TypeOK
<1>3. worker' = [worker EXCEPT ![w] = x] /\ UNCHANGED <<visit, checked, outbox, told, pushed, faults>>
  BY DEF Fail
<1> HIDE DEF x
<1> QED BY <1>2, <1>3, WorkerKeepsTyped DEF Typed, TypeOK

LEMMA CountFailureKeepsTyped ==
    ASSUME Typed, NEW w \in Workers, CountFailure(w)
    PROVE  Typed'
<1> DEFINE i == worker[w].row
           row == [outbox[i] EXCEPT !.attempts = CountedAttempts(i)]
<1>1. i \in DOMAIN outbox /\ outbox[i] \in OutboxRow
  BY AtWork DEF CountFailure
<1>2. row \in OutboxRow
  BY <1>1 DEF OutboxRow, CountedAttempts
<1>3. outbox' = [outbox EXCEPT ![i] = row]
  BY DEF CountFailure
<1>4. worker' = [worker EXCEPT ![w] = Idle] /\ UNCHANGED <<visit, checked, told, pushed, faults>>
  BY DEF CountFailure
<1> HIDE DEF row
<1>5. outbox' \in Seq(OutboxRow) /\ Len(outbox') = Len(outbox)
  BY <1>1, <1>2, <1>3, RowWritten DEF Typed
<1>6. Idle \in [phase : {"idle", "claimed", "failed", "dispatch"},
                row : 0 .. Len(outbox), due : SUBSET Accounts] /\ Idle.phase = "idle"
  BY IdleIsTyped DEF Typed
<1> QED BY <1>4, <1>5, <1>6, WorkerKeepsTyped DEF Typed, TypeOK

LEMMA DispatchKeepsTyped ==
    ASSUME Typed, NEW w \in Workers, NEW a \in Accounts, Dispatch(w, a)
    PROVE  Typed'
<1> DEFINE x == IF LeftDue(w, a) = {} THEN Idle
                ELSE [worker[w] EXCEPT !.due = LeftDue(w, a)]
<1>1. worker[w].phase = "dispatch"
  BY DEF Dispatch
<1>2. /\ x \in [phase : {"idle", "claimed", "failed", "dispatch"},
                row : 0 .. Len(outbox), due : SUBSET Accounts]
      /\ x.phase # "idle" => x.row \in DOMAIN outbox
  BY <1>1, AtWork, IdleIsTyped DEF Typed, TypeOK, LeftDue
<1>3. worker' = [worker EXCEPT ![w] = x] /\ UNCHANGED <<visit, checked, outbox, told, faults>>
  BY DEF Dispatch
<1>4. <<worker[w].row, a>> \in Ids \X Accounts
  BY <1>1, AtWork
<1>5. pushed' \in [Ids \X Accounts -> Nat]
  BY <1>4 DEF Dispatch, Typed, TypeOK
<1> HIDE DEF x
<1> QED BY <1>2, <1>3, <1>5, WorkerKeepsTyped DEF Typed, TypeOK

LEMMA FaultKeepsTyped ==
    ASSUME Typed, NEW w \in Workers, Fault(w)
    PROVE  Typed'
<1>1. faults' \in 0 .. MaxFaults
  BY OutboxAssumption DEF Fault, Typed, TypeOK
<1>2. worker' = [worker EXCEPT ![w] = Idle] /\ UNCHANGED <<visit, checked, outbox, told, pushed>>
  BY DEF Fault
<1>3. Idle \in [phase : {"idle", "claimed", "failed", "dispatch"},
                row : 0 .. Len(outbox), due : SUBSET Accounts] /\ Idle.phase = "idle"
  BY IdleIsTyped DEF Typed
<1> QED BY <1>1, <1>2, <1>3, WorkerKeepsTyped DEF Typed, TypeOK

-----------------------------------------------------------------------------
(* The writers of a visit, seen from the outbox: a status is written, or a
   call only remembers or forgets one. *)

Sets(v, to) == SetStatus(v, to) /\ checked' \in [Calls -> CallType] /\ CallsKnown'

Reads ==
    /\ checked' \in [Calls -> CallType] /\ CallsKnown'
    /\ UNCHANGED <<visit, outbox, told, pushed, worker, faults>>

LEMMA WriteSetsOrReads ==
    ASSUME Typed, Write
    PROVE  (\E v \in Visits, to \in VisitStatuses : Sets(v, to)) \/ Reads
<1>1. checked \in [Calls -> CallType]
  BY DEF Typed, TypeOK, CallType
<1>2. ASSUME UNCHANGED checked
      PROVE  checked' \in [Calls -> CallType] /\ CallsKnown'
  BY <1>1, <1>2 DEF Typed, CallsKnown
<1>3. ASSUME NEW c \in Calls, checked' = [checked EXCEPT ![c] = NoCall]
      PROVE  checked' \in [Calls -> CallType] /\ CallsKnown'
  <2>1. NoCall \in CallType
    BY DEF NoCall, CallType
  <2>2. checked' \in [Calls -> CallType]
    BY <1>1, <1>3, <2>1
  <2>3. ASSUME NEW d \in Calls PROVE checked'[d] = NoCall \/ checked'[d] = checked[d]
    BY <1>1, <1>3
  <2> QED BY <2>2, <2>3 DEF Typed, CallsKnown
<1>4. ASSUME NEW c \in Calls, NEW v \in Visits, NEW from, NEW to \in {"completed", "ended"},
             Check(c, v, from, to)
      PROVE  Reads
  <2> DEFINE x == [visit |-> v, to |-> to]
  <2>1. x \in CallType /\ x.visit \in Visits /\ x.to \in {"completed", "ended"}
    BY DEF CallType
  <2>2. checked' = [checked EXCEPT ![c] = x]
    BY <1>4 DEF Check
  <2> HIDE DEF x
  <2>3. checked' \in [Calls -> CallType]
    BY <1>1, <2>1, <2>2
  <2>4. ASSUME NEW d \in Calls PROVE checked'[d] = x \/ checked'[d] = checked[d]
    BY <1>1, <2>2
  <2>5. CallsKnown'
    BY <2>1, <2>4 DEF Typed, CallsKnown
  <2> QED BY <1>4, <2>3, <2>5 DEF Check, Reads
<1>5. ASSUME NEW v \in Visits, Book(v) PROVE \E to \in VisitStatuses : Sets(v, to)
  BY <1>2, <1>5 DEF Book, Sets, VisitStatuses
<1>6. ASSUME NEW v \in Visits, StartVisit(v) \/ EndVisit(v) \/ CancelVisit(v) \/ CloseVisit(v)
      PROVE  \E to \in VisitStatuses : Sets(v, to)
  BY <1>2, <1>6 DEF StartVisit, EndVisit, CancelVisit, CloseVisit, Sets, VisitStatuses, Done
<1>7. ASSUME NEW c \in Calls, NEW v \in Visits, CheckCompletion(c, v) \/ CheckReopening(c, v)
      PROVE  Reads
  BY <1>4, <1>7 DEF CheckCompletion, CheckReopening
<1>8. ASSUME NEW c \in Calls, WriteChecked(c)
      PROVE  \E v \in Visits, to \in VisitStatuses : Sets(v, to)
  <2>1. checked[c].visit \in Visits /\ checked[c].to \in VisitStatuses
    BY <1>8 DEF WriteChecked, Typed, CallsKnown, VisitStatuses, Done
  <2> QED BY <1>3, <1>8, <2>1 DEF WriteChecked, Sets
<1>9. ASSUME NEW c \in Calls, Abandon(c) PROVE Reads
  BY <1>3, <1>9 DEF Abandon, Reads
<1> QED BY <1>5, <1>6, <1>7, <1>8, <1>9 DEF Write

LEMMA ReadingKeepsTyped ==
    ASSUME Typed, Reads
    PROVE  Typed'
<1>1. TypeOK'
  BY DEF Typed, TypeOK, Reads, CallType
<1>2. RowsKnown'
  BY DEF Typed, RowsKnown, Reads
<1> QED BY <1>1, <1>2 DEF Typed, Reads

LEMMA TypedInit == Init => Typed
<1> SUFFICES ASSUME Init PROVE Typed
  OBVIOUS
<1>1. outbox = <<>> /\ Len(outbox) = 0
  BY DEF Init
<1>2. TypeOK
  BY <1>1, OutboxAssumption DEF Init, TypeOK, NoCall, Idle
<1>3. RowsKnown /\ CallsKnown
  BY DEF Init, RowsKnown, CallsKnown, Idle
<1> QED BY <1>2, <1>3 DEF Typed

LEMMA TypedNext == Typed /\ [Next]_vars => Typed'
<1> SUFFICES ASSUME Typed, [Next]_vars PROVE Typed'
  OBVIOUS
<1>1. CASE Write
  <2>1. ASSUME NEW v \in Visits, NEW to \in VisitStatuses, Sets(v, to) PROVE Typed'
    BY <2>1, StatusKeepsTyped DEF Sets
  <2> QED BY <1>1, <2>1, WriteSetsOrReads, ReadingKeepsTyped
<1>2. ASSUME NEW w \in Workers, Drain(w) PROVE Typed'
  BY <1>2, ClaimKeepsTyped, HandleKeepsTyped, FailKeepsTyped, CountFailureKeepsTyped,
     DispatchKeepsTyped DEF Drain
<1>3. ASSUME NEW w \in Workers, Fault(w) PROVE Typed'
  BY <1>3, FaultKeepsTyped
<1>4. CASE UNCHANGED vars
  BY <1>4, ReadingKeepsTyped DEF vars, Reads, Typed, TypeOK, CallsKnown, CallType
<1>5. ASSUME NEW w \in Workers, NothingToDrain(w) PROVE Typed'
  BY <1>4, <1>5 DEF NothingToDrain
<1> QED BY <1>1, <1>2, <1>3, <1>4, <1>5 DEF Next

\* The tables and the memory of the processes keep their shape.
THEOREM TypeCorrect == Spec => []TypeOK
<1>1. Spec => []Typed
  BY TypedInit, TypedNext, PTL DEF Spec
<1>2. Typed => TypeOK
  BY DEF Typed
<1> QED BY <1>1, <1>2, PTL

-----------------------------------------------------------------------------
(* One notification and one push.                                          *)

\* A claimed row is nobody else's and still to be handled: the row lock.
Claims ==
    \A w \in Workers : worker[w].phase = "claimed" =>
        /\ ~outbox[worker[w].row].handled
        /\ \A u \in Workers : worker[u].phase = "claimed" /\ worker[u].row = worker[w].row => u = w

\* One process pushes for a row, after the commit, and what is due was not pushed.
Sending ==
    \A w \in Workers : worker[w].phase = "dispatch" =>
        /\ outbox[worker[w].row].handled
        /\ \A a \in worker[w].due : told[<<worker[w].row, a>>] = 1 /\ pushed[<<worker[w].row, a>>] = 0
        /\ \A u \in Workers : worker[u].phase = "dispatch" /\ worker[u].row = worker[w].row => u = w

Notices ==
    \A i \in Ids, a \in Accounts :
        /\ told[<<i, a>>] > 0 => told[<<i, a>>] = 1 /\ i \in DOMAIN outbox /\ outbox[i].handled
        /\ pushed[<<i, a>>] <= told[<<i, a>>]

Once == Claims /\ Sending /\ Notices

\* Rows are only added, and none is handled anew: nothing is told.
LEMMA OnceWhenRowsAreAdded ==
    ASSUME Typed, Once, UNCHANGED <<told, pushed, worker>>,
           DOMAIN outbox \subseteq DOMAIN outbox',
           \A i \in DOMAIN outbox : outbox'[i].handled = outbox[i].handled
    PROVE  Once'
<1>1. Claims'
  BY AtWork DEF Once, Claims
<1>2. Sending'
  BY AtWork DEF Once, Sending
<1>3. Notices'
  BY DEF Once, Notices
<1> QED BY <1>1, <1>2, <1>3 DEF Once

\* A process gives up what it held, or goes from a claim to a failure.
LEMMA OnceWhenGivenUp ==
    ASSUME Typed, Once, NEW w \in Workers, UNCHANGED <<told, pushed>>,
           DOMAIN outbox' = DOMAIN outbox,
           \A i \in DOMAIN outbox : outbox'[i].handled = outbox[i].handled,
           worker'[w].phase \in {"idle", "failed"},
           \A u \in Workers : u # w => worker'[u] = worker[u]
    PROVE  Once'
<1>1. Claims'
  BY AtWork DEF Once, Claims
<1>2. Sending'
  BY AtWork DEF Once, Sending
<1>3. Notices'
  BY DEF Once, Notices
<1> QED BY <1>1, <1>2, <1>3 DEF Once

LEMMA OnceAfterClaim ==
    ASSUME Typed, Once, NEW w \in Workers, Claim(w)
    PROVE  Once'
<1> DEFINE i == Oldest(Claimable)
<1>1. i \in Claimable
  BY OldestIsClaimable DEF Claim, Typed
<1>2. /\ i \in DOMAIN outbox /\ ~outbox[i].handled
      /\ \A u \in Workers : ~(worker[u].phase = "claimed" /\ worker[u].row = i)
  BY <1>1 DEF Claimable, Pending, Unlocked
<1>3. worker' = [worker EXCEPT ![w] = [phase |-> "claimed", row |-> i, due |-> {}]]
  BY DEF Claim
<1>4. UNCHANGED <<outbox, told, pushed>>
  BY DEF Claim
<1> HIDE DEF i
<1>5. worker'[w].phase = "claimed" /\ worker'[w].row = i /\ \A u \in Workers : u # w => worker'[u] = worker[u]
  BY <1>3 DEF Typed, TypeOK
<1>6. Claims'
  BY <1>2, <1>4, <1>5 DEF Once, Claims
<1>7. Sending'
  BY <1>4, <1>5 DEF Once, Sending
<1>8. Notices'
  BY <1>4 DEF Once, Notices
<1> QED BY <1>6, <1>7, <1>8 DEF Once

LEMMA OnceAfterHandle ==
    ASSUME Typed, Once, NEW w \in Workers, NEW recipients \in SUBSET Accounts,
           Handle(w, recipients)
    PROVE  Once'
<1> DEFINE i == worker[w].row
           row == [outbox[i] EXCEPT !.handled = TRUE]
<1>1. worker[w].phase = "claimed" /\ ~outbox[i].handled
  BY DEF Handle, Once, Claims
<1>2. i \in DOMAIN outbox /\ i \in Ids /\ outbox[i] \in OutboxRow
  BY AtWork DEF Handle
<1>3. row \in OutboxRow /\ row.handled
  BY <1>2 DEF OutboxRow
<1>4. outbox' = [outbox EXCEPT ![i] = row] /\ UNCHANGED pushed
  BY DEF Handle
<1>5. /\ DOMAIN outbox' = DOMAIN outbox /\ outbox'[i].handled
      /\ \A j \in DOMAIN outbox : j # i => outbox'[j] = outbox[j]
  <2> HIDE DEF row
  <2> QED BY <1>2, <1>3, <1>4, RowWritten DEF Typed
<1>6. \A j \in Ids, a \in Accounts :
          told'[<<j, a>>] = IF j = i /\ a \in recipients THEN told[<<j, a>>] + 1 ELSE told[<<j, a>>]
  BY DEF Handle
<1>7. \A a \in Accounts : told[<<i, a>>] = 0 /\ pushed[<<i, a>>] = 0
  BY <1>1, <1>2 DEF Once, Notices, Typed, TypeOK
<1>8. /\ \A u \in Workers : u # w => worker'[u] = worker[u]
      /\ worker'[w] = IF recipients = {} THEN Idle
                      ELSE [phase |-> "dispatch", row |-> i, due |-> recipients]
  BY DEF Handle, Typed, TypeOK
<1>9. /\ worker'[w].phase # "claimed"
      /\ worker'[w].phase = "dispatch" => worker'[w].row = i /\ worker'[w].due = recipients
  BY <1>8 DEF Idle
<1>10. \A u \in Workers : worker[u].phase # "idle" => worker[u].row \in DOMAIN outbox /\ worker[u].row \in Ids /\ worker[u].due \in SUBSET Accounts
  BY AtWork
<1>11. \A u \in Workers : u # w /\ worker[u].phase \in {"claimed", "dispatch"} => worker[u].row # i
  BY <1>1 DEF Once, Claims, Sending
<1> HIDE DEF i, row
<1>12. Claims'
  BY <1>5, <1>8, <1>9, <1>10, <1>11 DEF Once, Claims
<1>13. ASSUME NEW u \in Workers, worker'[u].phase = "dispatch"
       PROVE  /\ outbox'[worker'[u].row].handled
              /\ \A a \in worker'[u].due : told'[<<worker'[u].row, a>>] = 1
                                           /\ pushed'[<<worker'[u].row, a>>] = 0
              /\ \A t \in Workers : worker'[t].phase = "dispatch" /\ worker'[t].row = worker'[u].row => t = u
  <2>1. CASE u = w
    BY <1>2, <1>4, <1>5, <1>6, <1>7, <1>8, <1>9, <1>11, <1>13, <2>1
  <2>2. CASE u # w
    <3>1. worker'[u] = worker[u] /\ worker[u].phase = "dispatch"
      BY <1>8, <1>13, <2>2
    <3>2. worker[u].row # i /\ worker[u].row \in DOMAIN outbox /\ worker[u].row \in Ids
          /\ worker[u].due \in SUBSET Accounts
      BY <1>10, <1>11, <2>2, <3>1
    <3>3. /\ outbox[worker[u].row].handled
          /\ \A a \in worker[u].due : told[<<worker[u].row, a>>] = 1 /\ pushed[<<worker[u].row, a>>] = 0
          /\ \A t \in Workers : worker[t].phase = "dispatch" /\ worker[t].row = worker[u].row => t = u
      BY <3>1 DEF Once, Sending
    <3>4. outbox'[worker'[u].row].handled
      BY <1>5, <3>1, <3>2, <3>3
    <3>5. \A a \in worker'[u].due : told'[<<worker'[u].row, a>>] = 1 /\ pushed'[<<worker'[u].row, a>>] = 0
      BY <1>4, <1>6, <3>1, <3>2, <3>3
    <3>6. \A t \in Workers : worker'[t].phase = "dispatch" /\ worker'[t].row = worker'[u].row => t = u
      BY <1>8, <1>9, <3>1, <3>2, <3>3
    <3> QED BY <3>4, <3>5, <3>6
  <2> QED BY <2>1, <2>2
<1>14. Sending'
  BY <1>13 DEF Sending
<1>15. ASSUME NEW j \in Ids, NEW a \in Accounts
       PROVE  /\ told'[<<j, a>>] > 0 => told'[<<j, a>>] = 1 /\ j \in DOMAIN outbox' /\ outbox'[j].handled
              /\ pushed'[<<j, a>>] <= told'[<<j, a>>]
  <2>1. /\ told[<<j, a>>] > 0 => told[<<j, a>>] = 1 /\ j \in DOMAIN outbox /\ outbox[j].handled
        /\ pushed[<<j, a>>] <= told[<<j, a>>]
    BY DEF Once, Notices
  <2>2. CASE j = i /\ a \in recipients
    BY <1>2, <1>4, <1>5, <1>6, <1>7, <2>2
  <2>3. CASE ~(j = i /\ a \in recipients)
    BY <1>4, <1>5, <1>6, <2>1, <2>3
  <2> QED BY <2>2, <2>3
<1>16. Notices'
  BY <1>15 DEF Notices
<1> QED BY <1>12, <1>14, <1>16 DEF Once

LEMMA OnceAfterDispatch ==
    ASSUME Typed, Once, NEW w \in Workers, NEW a \in Accounts, Dispatch(w, a)
    PROVE  Once'
<1> DEFINE i == worker[w].row
<1>1. /\ worker[w].phase = "dispatch" /\ a \in worker[w].due
      /\ told[<<i, a>>] = 1 /\ pushed[<<i, a>>] = 0 /\ outbox[i].handled
  BY DEF Dispatch, Once, Sending
<1>2. i \in DOMAIN outbox /\ i \in Ids /\ worker[w].due \in SUBSET Accounts
  BY AtWork, <1>1
<1>3. \A j \in Ids, b \in Accounts :
          pushed'[<<j, b>>] = IF j = i /\ b = a THEN pushed[<<j, b>>] + 1 ELSE pushed[<<j, b>>]
  BY <1>2 DEF Dispatch, Typed, TypeOK
<1>4. /\ \A u \in Workers : u # w => worker'[u] = worker[u]
      /\ worker'[w] = IF LeftDue(w, a) = {} THEN Idle
                      ELSE [worker[w] EXCEPT !.due = LeftDue(w, a)]
      /\ UNCHANGED <<outbox, told>>
  BY DEF Dispatch, Typed, TypeOK
<1>5. /\ worker'[w].phase # "claimed"
      /\ worker'[w].phase = "dispatch" => worker'[w].row = i /\ worker'[w].due = worker[w].due \ {a}
  BY <1>1, <1>4 DEF Idle, LeftDue, Typed, TypeOK
<1>6. \A u \in Workers : worker[u].phase # "idle" => worker[u].row \in Ids /\ worker[u].due \in SUBSET Accounts
  BY AtWork
<1> HIDE DEF i
<1>7. Claims'
  BY <1>4, <1>5 DEF Once, Claims
<1>8. ASSUME NEW u \in Workers, worker'[u].phase = "dispatch"
      PROVE  /\ outbox'[worker'[u].row].handled
             /\ \A b \in worker'[u].due : told'[<<worker'[u].row, b>>] = 1
                                          /\ pushed'[<<worker'[u].row, b>>] = 0
             /\ \A t \in Workers : worker'[t].phase = "dispatch" /\ worker'[t].row = worker'[u].row => t = u
  <2>1. /\ worker[u].phase = "dispatch" /\ worker'[u].row = worker[u].row
        /\ worker'[u].due \subseteq worker[u].due /\ (u = w => a \notin worker'[u].due)
    BY <1>1, <1>4, <1>5, <1>8 DEF i
  <2>2. /\ outbox[worker[u].row].handled
        /\ \A b \in worker[u].due : told[<<worker[u].row, b>>] = 1 /\ pushed[<<worker[u].row, b>>] = 0
        /\ \A t \in Workers : worker[t].phase = "dispatch" /\ worker[t].row = worker[u].row => t = u
    BY <2>1 DEF Once, Sending
  <2>3. u # w => worker[u].row # i
    BY <1>1, <2>2 DEF i
  <2>4. \A b \in worker'[u].due : ~(worker[u].row = i /\ b = a)
    BY <2>1, <2>3
  <2>5. worker[u].row \in Ids /\ worker[u].due \in SUBSET Accounts
    BY <1>6, <2>1
  <2>6. \A b \in worker'[u].due : told'[<<worker'[u].row, b>>] = 1 /\ pushed'[<<worker'[u].row, b>>] = 0
    BY <1>3, <1>4, <2>1, <2>2, <2>4, <2>5
  <2>7. \A t \in Workers : worker'[t].phase = "dispatch" /\ worker'[t].row = worker'[u].row => t = u
    <3>1. ASSUME NEW t \in Workers, worker'[t].phase = "dispatch"
          PROVE  worker[t].phase = "dispatch" /\ worker'[t].row = worker[t].row
      BY <1>1, <1>4, <1>5, <3>1 DEF i
    <3> QED BY <2>1, <2>2, <3>1
  <2> QED BY <1>4, <2>1, <2>2, <2>6, <2>7
<1>9. Sending'
  BY <1>8 DEF Sending
<1>10. ASSUME NEW j \in Ids, NEW b \in Accounts
       PROVE  /\ told'[<<j, b>>] > 0 => told'[<<j, b>>] = 1 /\ j \in DOMAIN outbox' /\ outbox'[j].handled
              /\ pushed'[<<j, b>>] <= told'[<<j, b>>]
  <2>1. /\ told[<<j, b>>] > 0 => told[<<j, b>>] = 1 /\ j \in DOMAIN outbox /\ outbox[j].handled
        /\ pushed[<<j, b>>] <= told[<<j, b>>]
    BY DEF Once, Notices
  <2> QED BY <1>1, <1>3, <1>4, <2>1
<1>11. Notices'
  BY <1>10 DEF Notices
<1> QED BY <1>7, <1>9, <1>11 DEF Once

LEMMA OnceAfterCount ==
    ASSUME Typed, Once, NEW w \in Workers, CountFailure(w)
    PROVE  Once'
<1> DEFINE i == worker[w].row
           row == [outbox[i] EXCEPT !.attempts = CountedAttempts(i)]
<1>1. i \in DOMAIN outbox /\ outbox[i] \in OutboxRow
  BY AtWork DEF CountFailure
<1>2. row \in OutboxRow /\ row.handled = outbox[i].handled
  BY <1>1 DEF OutboxRow, CountedAttempts
<1>3. outbox' = [outbox EXCEPT ![i] = row] /\ UNCHANGED <<told, pushed>>
  BY DEF CountFailure
<1>4. /\ DOMAIN outbox' = DOMAIN outbox
      /\ \A j \in DOMAIN outbox : outbox'[j].handled = outbox[j].handled
  <2> HIDE DEF row
  <2> QED BY <1>1, <1>2, <1>3, RowWritten DEF Typed
<1>5. worker'[w].phase = "idle" /\ \A u \in Workers : u # w => worker'[u] = worker[u]
  BY DEF CountFailure, Typed, TypeOK, Idle
<1> QED BY <1>3, <1>4, <1>5, OnceWhenGivenUp

LEMMA OnceAfterFailOrFault ==
    ASSUME Typed, Once, NEW w \in Workers, Fail(w) \/ Fault(w)
    PROVE  Once'
<1>1. worker'[w].phase \in {"idle", "failed"} /\ \A u \in Workers : u # w => worker'[u] = worker[u]
  BY DEF Fail, Fault, Typed, TypeOK, Idle
<1>2. UNCHANGED <<outbox, told, pushed>>
  BY DEF Fail, Fault
<1> QED BY <1>1, <1>2, OnceWhenGivenUp

LEMMA OnceInit == Init => Once
BY DEF Init, Once, Claims, Sending, Notices, Idle

LEMMA OnceNext == Typed /\ Once /\ [Next]_vars => Once'
<1> SUFFICES ASSUME Typed, Once, [Next]_vars PROVE Once'
  OBVIOUS
<1>1. CASE Write
  <2>1. ASSUME NEW v \in Visits, NEW to \in VisitStatuses, Sets(v, to) PROVE Once'
    <3>1. SetStatus(v, to) /\ UNCHANGED <<told, pushed, worker>>
      BY <2>1 DEF Sets, SetStatus
    <3> QED BY <3>1, StatusWritten, OnceWhenRowsAreAdded
  <2>2. ASSUME Reads PROVE Once'
    BY <2>2, OnceWhenRowsAreAdded DEF Reads
  <2> QED BY <1>1, <2>1, <2>2, WriteSetsOrReads
<1>2. ASSUME NEW w \in Workers, Drain(w) PROVE Once'
  BY <1>2, OnceAfterClaim, OnceAfterHandle, OnceAfterFailOrFault, OnceAfterCount,
     OnceAfterDispatch DEF Drain
<1>3. ASSUME NEW w \in Workers, Fault(w) PROVE Once'
  BY <1>3, OnceAfterFailOrFault
<1>4. CASE UNCHANGED vars
  BY <1>4, OnceWhenRowsAreAdded DEF vars
<1>5. ASSUME NEW w \in Workers, NothingToDrain(w) PROVE Once'
  BY <1>4, <1>5 DEF NothingToDrain
<1> QED BY <1>1, <1>2, <1>3, <1>4, <1>5 DEF Next

\* However attempts fail, crash and run side by side, an account gets one
\* notification of a change, from a row that is handled, and one push of it.
THEOREM ToldOnce == Spec => []NotifiedOnce
<1>1. Spec => [](Typed /\ Once)
  BY TypedInit, TypedNext, OnceInit, OnceNext, PTL DEF Spec
<1>2. Typed /\ Once => NotifiedOnce
  BY DEF Once, Notices, NotifiedOnce
<1> QED BY <1>1, <1>2, PTL

-----------------------------------------------------------------------------
(* Failures.                                                               *)

\* The attempts at a row that may still be counted as failures.
Failing(i) == {w \in Workers : worker[w].phase \in {"claimed", "failed"} /\ worker[w].row = i}

\* An attempt starts below the limit, and every process makes one at a time.
Tries ==
    \A i \in DOMAIN outbox :
        outbox[i].attempts + Cardinality(Failing(i)) < MaxAttempts + Cardinality(Workers)

LEMMA Failings ==
    ASSUME NEW i
    PROVE  /\ IsFiniteSet(Failing(i)) /\ Cardinality(Failing(i)) \in Nat
           /\ Cardinality(Workers) \in Nat /\ Cardinality(Failing(i)) <= Cardinality(Workers)
BY OutboxAssumption, FS_Subset, FS_CardinalityType DEF Failing

\* A row whose count stays, and that no further process works on.
LEMMA TriesKept ==
    ASSUME Typed, Tries, NEW i \in DOMAIN outbox,
           outbox'[i].attempts = outbox[i].attempts, Failing(i)' \subseteq Failing(i)
    PROVE  outbox'[i].attempts + Cardinality(Failing(i)') < MaxAttempts + Cardinality(Workers)
<1> DEFINE F == Failing(i)
           G == Failing(i)'
<1>1. IsFiniteSet(F) /\ Cardinality(F) \in Nat /\ Cardinality(Workers) \in Nat
  BY Failings
<1>2. Cardinality(G) \in Nat /\ Cardinality(G) <= Cardinality(F)
  <2>1. G \subseteq F
    OBVIOUS
  <2> HIDE DEF F, G
  <2> QED BY <1>1, <2>1, FS_Subset, FS_CardinalityType
<1>3. outbox[i].attempts \in Nat
  BY DomainOfOutbox DEF Typed, OutboxRow
<1>4. outbox[i].attempts + Cardinality(F) < MaxAttempts + Cardinality(Workers)
  BY DEF Tries
<1> HIDE DEF F, G
<1>5. outbox'[i].attempts + Cardinality(G) < MaxAttempts + Cardinality(Workers)
  BY <1>1, <1>2, <1>3, <1>4, OutboxAssumption
<1> QED BY <1>5 DEF G

\* A process gives up, or goes on with the row it has.
LEMMA TriesWhenNoneStarts ==
    ASSUME Typed, Tries, NEW w \in Workers, DOMAIN outbox' = DOMAIN outbox,
           \A i \in DOMAIN outbox : outbox'[i].attempts = outbox[i].attempts,
           \A u \in Workers : u # w => worker'[u] = worker[u],
           \/ worker'[w].phase \in {"idle", "dispatch"}
           \/ worker'[w].row = worker[w].row /\ worker[w].phase = "claimed"
    PROVE  Tries'
<1>1. ASSUME NEW i \in DOMAIN outbox PROVE Failing(i)' \subseteq Failing(i)
  BY DEF Failing
<1> QED BY <1>1, TriesKept DEF Tries

LEMMA TriesWhenRowsAreAdded ==
    ASSUME Typed, Tries, NEW v \in Visits, NEW to \in VisitStatuses, SetStatus(v, to)
    PROVE  Tries'
<1>1. UNCHANGED worker
  BY DEF SetStatus
<1>2. ASSUME NEW i \in DOMAIN outbox'
      PROVE  outbox'[i].attempts + Cardinality(Failing(i)') < MaxAttempts + Cardinality(Workers)
  <2>1. CASE i \in DOMAIN outbox
    <3>1. outbox'[i] = outbox[i] /\ Failing(i)' \subseteq Failing(i)
      BY <1>1, <2>1, StatusWritten DEF Failing
    <3> QED BY <2>1, <3>1, TriesKept
  <2>2. CASE i \notin DOMAIN outbox
    <3>1. Failing(i)' = {}
      BY <1>1, <2>2, AtWork DEF Failing
    <3>2. outbox'[i].attempts = 0
      BY <1>2, <2>2 DEF SetStatus, Typed, TypeOK
    <3>3. Cardinality(Failing(i)') = 0
      BY <3>1, FS_EmptySet
    <3> QED BY <3>2, <3>3, Failings, OutboxAssumption
  <2> QED BY <2>1, <2>2
<1> QED BY <1>2 DEF Tries

LEMMA TriesAfterClaim ==
    ASSUME Typed, Tries, NEW w \in Workers, Claim(w)
    PROVE  Tries'
<1> DEFINE i == Oldest(Claimable)
<1>1. i \in DOMAIN outbox /\ outbox[i].attempts < MaxAttempts
  BY OldestIsClaimable DEF Claim, Typed, Claimable, Pending
<1>2. worker' = [worker EXCEPT ![w] = [phase |-> "claimed", row |-> i, due |-> {}]]
      /\ UNCHANGED outbox
  BY DEF Claim
<1> HIDE DEF i
<1>3. worker'[w].row = i /\ \A u \in Workers : u # w => worker'[u] = worker[u]
  BY <1>2 DEF Typed, TypeOK
<1>4. ASSUME NEW j \in DOMAIN outbox
      PROVE  outbox'[j].attempts + Cardinality(Failing(j)') < MaxAttempts + Cardinality(Workers)
  <2>1. CASE j # i
    <3>1. Failing(j)' \subseteq Failing(j)
      BY <1>3, <2>1 DEF Failing
    <3> QED BY <1>2, <3>1, TriesKept
  <2>2. CASE j = i
    <3> DEFINE G == Failing(j)'
    <3>1. Cardinality(G) \in Nat /\ Cardinality(G) <= Cardinality(Workers)
          /\ Cardinality(Workers) \in Nat
      BY OutboxAssumption, FS_Subset, FS_CardinalityType DEF Failing
    <3>2. outbox[i].attempts \in Nat
      BY <1>1, DomainOfOutbox DEF Typed, OutboxRow
    <3>3. outbox'[j].attempts = outbox[i].attempts
      BY <1>2, <2>2
    <3> HIDE DEF G
    <3>4. outbox'[j].attempts + Cardinality(G) < MaxAttempts + Cardinality(Workers)
      BY <1>1, <3>1, <3>2, <3>3, OutboxAssumption
    <3> QED BY <3>4 DEF G
  <2> QED BY <2>1, <2>2
<1> QED BY <1>2, <1>4 DEF Tries

LEMMA TriesAfterCount ==
    ASSUME Typed, Tries, NEW w \in Workers, CountFailure(w)
    PROVE  Tries'
<1> DEFINE i == worker[w].row
           row == [outbox[i] EXCEPT !.attempts = CountedAttempts(i)]
<1>1. i \in DOMAIN outbox /\ outbox[i] \in OutboxRow /\ worker[w].phase = "failed"
  BY AtWork DEF CountFailure
<1>2. row \in OutboxRow /\ row.attempts = outbox[i].attempts + 1 /\ outbox[i].attempts \in Nat
  BY <1>1 DEF OutboxRow, CountedAttempts
<1>3. outbox' = [outbox EXCEPT ![i] = row]
  BY DEF CountFailure
<1>4. DOMAIN outbox' = DOMAIN outbox /\ outbox'[i] = row
      /\ \A j \in DOMAIN outbox : j # i => outbox'[j] = outbox[j]
  <2> HIDE DEF row
  <2> QED BY <1>1, <1>2, <1>3, RowWritten DEF Typed
<1>5. worker'[w].phase = "idle" /\ \A u \in Workers : u # w => worker'[u] = worker[u]
  BY DEF CountFailure, Typed, TypeOK, Idle
<1> HIDE DEF row
<1>6. ASSUME NEW j \in DOMAIN outbox
      PROVE  outbox'[j].attempts + Cardinality(Failing(j)') < MaxAttempts + Cardinality(Workers)
  <2>1. CASE j # i
    <3>1. Failing(j)' \subseteq Failing(j)
      BY <1>5 DEF Failing
    <3> QED BY <1>4, <2>1, <3>1, TriesKept
  <2>2. CASE j = i
    <3> DEFINE F == Failing(i)
               G == Failing(j)'
    <3>1. w \in F /\ IsFiniteSet(F) /\ Cardinality(F) \in Nat
      BY <1>1, Failings DEF Failing
    <3>2. G = F \ {w}
      BY <1>1, <1>5, <2>2 DEF Failing
    <3>3. outbox[i].attempts + Cardinality(F) < MaxAttempts + Cardinality(Workers)
      BY <1>1 DEF Tries
    <3> HIDE DEF F, G
    <3>4. Cardinality(G) = Cardinality(F) - 1
      BY <3>1, <3>2, FS_RemoveElement
    <3>5. outbox'[j].attempts = outbox[i].attempts + 1
      BY <1>2, <1>4, <2>2
    <3>6. outbox'[j].attempts + Cardinality(G) = outbox[i].attempts + Cardinality(F)
      BY <1>2, <3>1, <3>4, <3>5
    <3> QED BY <3>3, <3>6 DEF G
  <2> QED BY <2>1, <2>2
<1> QED BY <1>4, <1>6 DEF Tries

LEMMA TriesAfterHandle ==
    ASSUME Typed, Tries, NEW w \in Workers, NEW recipients \in SUBSET Accounts,
           Handle(w, recipients)
    PROVE  Tries'
<1> DEFINE i == worker[w].row
           row == [outbox[i] EXCEPT !.handled = TRUE]
<1>1. i \in DOMAIN outbox /\ outbox[i] \in OutboxRow
  BY AtWork DEF Handle
<1>2. row \in OutboxRow /\ row.attempts = outbox[i].attempts
  BY <1>1 DEF OutboxRow
<1>3. outbox' = [outbox EXCEPT ![i] = row]
  BY DEF Handle
<1>4. /\ DOMAIN outbox' = DOMAIN outbox
      /\ \A j \in DOMAIN outbox : outbox'[j].attempts = outbox[j].attempts
  <2> HIDE DEF row
  <2> QED BY <1>1, <1>2, <1>3, RowWritten DEF Typed
<1>5. worker'[w].phase \in {"idle", "dispatch"} /\ \A u \in Workers : u # w => worker'[u] = worker[u]
  BY DEF Handle, Typed, TypeOK, Idle
<1> QED BY <1>4, <1>5, TriesWhenNoneStarts

LEMMA TriesAfterTheRest ==
    ASSUME Typed, Tries, NEW w \in Workers,
           Fail(w) \/ Fault(w) \/ (\E a \in Accounts : Dispatch(w, a))
    PROVE  Tries'
<1>1. /\ \A u \in Workers : u # w => worker'[u] = worker[u]
      /\ UNCHANGED outbox
  BY DEF Fail, Fault, Dispatch, Typed, TypeOK
<1>2. \/ worker'[w].phase \in {"idle", "dispatch"}
      \/ worker'[w].row = worker[w].row /\ worker[w].phase = "claimed"
  <2>1. CASE Fail(w)
    BY <2>1 DEF Fail, Typed, TypeOK
  <2>2. CASE Fault(w)
    BY <2>2 DEF Fault, Typed, TypeOK, Idle
  <2>3. ASSUME NEW a \in Accounts, Dispatch(w, a)
        PROVE  worker'[w].phase \in {"idle", "dispatch"}
    <3>1. worker'[w] = IF LeftDue(w, a) = {} THEN Idle
                       ELSE [worker[w] EXCEPT !.due = LeftDue(w, a)]
      BY <2>3 DEF Dispatch, Typed, TypeOK
    <3>2. worker[w].phase = "dispatch"
      BY <2>3 DEF Dispatch
    <3> QED BY <3>1, <3>2 DEF Idle, Typed, TypeOK
  <2> QED BY <2>1, <2>2, <2>3
<1> QED BY <1>1, <1>2, TriesWhenNoneStarts

LEMMA TriesNext == Typed /\ Tries /\ [Next]_vars => Tries'
<1> SUFFICES ASSUME Typed, Tries, [Next]_vars PROVE Tries'
  OBVIOUS
<1>1. ASSUME UNCHANGED <<outbox, worker>> PROVE Tries'
  BY <1>1 DEF Tries, Failing
<1>2. CASE Write
  <2>1. ASSUME NEW v \in Visits, NEW to \in VisitStatuses, Sets(v, to) PROVE Tries'
    BY <2>1, TriesWhenRowsAreAdded DEF Sets
  <2>2. ASSUME Reads PROVE Tries'
    BY <1>1, <2>2 DEF Reads
  <2> QED BY <1>2, <2>1, <2>2, WriteSetsOrReads
<1>3. ASSUME NEW w \in Workers, Drain(w) PROVE Tries'
  BY <1>3, TriesAfterClaim, TriesAfterHandle, TriesAfterCount, TriesAfterTheRest DEF Drain
<1>4. ASSUME NEW w \in Workers, Fault(w) PROVE Tries'
  BY <1>4, TriesAfterTheRest
<1>5. ASSUME NEW w \in Workers, NothingToDrain(w) PROVE Tries'
  BY <1>1, <1>5 DEF NothingToDrain, vars
<1>6. CASE UNCHANGED vars
  BY <1>1, <1>6 DEF vars
<1> QED BY <1>2, <1>3, <1>4, <1>5, <1>6 DEF Next

\* However many processes try a row at once, its failures stay below the limit
\* plus one attempt of each.
THEOREM FailuresStayBounded == Spec => []FailuresBounded
<1>1. Init => Tries
  BY DEF Init, Tries
<1>2. Spec => [](Typed /\ Tries)
  BY <1>1, TypedInit, TypedNext, TriesNext, PTL DEF Spec
<1>3. Typed /\ Tries => FailuresBounded
  <2> SUFFICES ASSUME Typed, Tries, NEW i \in DOMAIN outbox
               PROVE  outbox[i].attempts < MaxAttempts + Cardinality(Workers)
    BY DEF FailuresBounded
  <2>1. outbox[i].attempts \in Nat
    BY DomainOfOutbox DEF Typed, OutboxRow
  <2> QED BY <2>1, Failings, OutboxAssumption DEF Tries
<1> QED BY <1>2, <1>3, PTL

-----------------------------------------------------------------------------
(* Thanks.                                                                 *)

\* The changes that finished visit v.
Completions(v) ==
    {i \in DOMAIN outbox : outbox[i].visit = v /\ outbox[i].from \notin Done
                             /\ outbox[i].to \in Done}

\* A visit was finished as often as it was reopened, and once more while it is
\* finished: every change of its status was captured.
Balanced(v) ==
    Cardinality(Completions(v)) = Cardinality(Reopenings(v)) + (IF visit[v] \in Done THEN 1 ELSE 0)

LEMMA ChangesAreFinite ==
    ASSUME TypeOK, NEW v
    PROVE  /\ IsFiniteSet(Completions(v)) /\ Cardinality(Completions(v)) \in Nat
           /\ IsFiniteSet(Reopenings(v)) /\ Cardinality(Reopenings(v)) \in Nat
<1>1. IsFiniteSet(DOMAIN outbox)
  BY DomainOfOutbox, FS_Interval
<1> QED BY <1>1, FS_Subset, FS_CardinalityType DEF Completions, Reopenings

\* A change of status is appended; it finishes, reopens, or does neither.
LEMMA BalancedWhenSet ==
    ASSUME Typed, NEW u \in Visits, Balanced(u), NEW v \in Visits, NEW to \in VisitStatuses,
           SetStatus(v, to)
    PROVE  Balanced(u)'
<1> DEFINE C == Completions(u)
           R == Reopenings(u)
           D == Completions(u)'
           S == Reopenings(u)'
           n == Len(outbox) + 1
<1>1. /\ IsFiniteSet(C) /\ Cardinality(C) \in Nat /\ IsFiniteSet(R) /\ Cardinality(R) \in Nat
      /\ Cardinality(C) = Cardinality(R) + (IF visit[u] \in Done THEN 1 ELSE 0)
  BY ChangesAreFinite DEF Typed, Balanced
<1>2. visit'[v] = to /\ (u # v => visit'[u] = visit[u])
  BY DEF SetStatus, Typed, TypeOK
<1>3. CASE visit[v] = to
  <2>1. UNCHANGED outbox /\ visit'[u] = visit[u]
    BY <1>2, <1>3 DEF SetStatus
  <2> QED BY <2>1 DEF Balanced, Completions, Reopenings
<1>4. CASE visit[v] # to
  <2>1. /\ DOMAIN outbox' = DOMAIN outbox \cup {n} /\ n \notin DOMAIN outbox
        /\ outbox'[n] = [visit |-> v, from |-> visit[v], to |-> to, handled |-> FALSE, attempts |-> 0]
        /\ \A i \in DOMAIN outbox : outbox'[i] = outbox[i]
    BY <1>4 DEF SetStatus, Typed, TypeOK
  <2>2. outbox'[n].visit = v /\ outbox'[n].from = visit[v] /\ outbox'[n].to = to
    BY <2>1
  <2> HIDE DEF n
  <2>3. n \notin C /\ n \notin R
    BY <2>1 DEF Completions, Reopenings
  <2>4. CASE u = v /\ visit[v] \notin Done /\ to \in Done
    <3>1. D = C \cup {n} /\ S = R
      BY <2>1, <2>2, <2>4 DEF Completions, Reopenings
    <3> HIDE DEF C, D, R, S
    <3>2. Cardinality(D) = Cardinality(C) + 1 /\ Cardinality(S) = Cardinality(R)
      BY <1>1, <2>3, <3>1, FS_AddElement
    <3>3. Cardinality(D) = Cardinality(S) + (IF visit'[u] \in Done THEN 1 ELSE 0)
      BY <1>1, <1>2, <2>4, <3>2
    <3> QED BY <3>3 DEF Balanced, D, S
  <2>5. CASE u = v /\ visit[v] \in Done /\ to \notin Done
    <3>1. D = C /\ S = R \cup {n}
      BY <2>1, <2>2, <2>5 DEF Completions, Reopenings
    <3> HIDE DEF C, D, R, S
    <3>2. Cardinality(D) = Cardinality(C) /\ Cardinality(S) = Cardinality(R) + 1
      BY <1>1, <2>3, <3>1, FS_AddElement
    <3>3. Cardinality(D) = Cardinality(S) + (IF visit'[u] \in Done THEN 1 ELSE 0)
      BY <1>1, <1>2, <2>5, <3>2
    <3> QED BY <3>3 DEF Balanced, D, S
  <2>6. CASE u # v \/ (visit[v] \in Done <=> to \in Done)
    <3>1. D = C /\ S = R
      BY <2>1, <2>2, <2>6 DEF Completions, Reopenings
    <3>2. visit'[u] \in Done <=> visit[u] \in Done
      BY <1>2, <2>6
    <3> QED BY <1>1, <3>1, <3>2 DEF Balanced
  <2> QED BY <2>4, <2>5, <2>6
<1> QED BY <1>3, <1>4

\* What a row says happened is never rewritten.
LEMMA BalancedWhenDrained ==
    ASSUME Typed, NEW v \in Visits, Balanced(v), UNCHANGED visit,
           DOMAIN outbox' = DOMAIN outbox,
           \A i \in DOMAIN outbox : /\ outbox'[i].visit = outbox[i].visit
                                    /\ outbox'[i].from = outbox[i].from
                                    /\ outbox'[i].to = outbox[i].to
    PROVE  Balanced(v)'
<1>1. Completions(v)' = Completions(v) /\ Reopenings(v)' = Reopenings(v)
  BY DEF Completions, Reopenings
<1> QED BY <1>1 DEF Balanced

\* What a process does to a row leaves the change it records alone.
LEMMA DrainKeepsChanges ==
    ASSUME Typed, NEW w \in Workers, Drain(w) \/ Fault(w)
    PROVE  /\ UNCHANGED visit /\ DOMAIN outbox' = DOMAIN outbox
           /\ \A i \in DOMAIN outbox : /\ outbox'[i].visit = outbox[i].visit
                                       /\ outbox'[i].from = outbox[i].from
                                       /\ outbox'[i].to = outbox[i].to
<1> DEFINE i == worker[w].row
           Same == \A j \in DOMAIN outbox : /\ outbox'[j].visit = outbox[j].visit
                                            /\ outbox'[j].from = outbox[j].from
                                            /\ outbox'[j].to = outbox[j].to
<1>1. ASSUME NEW row \in OutboxRow, i \in DOMAIN outbox, outbox' = [outbox EXCEPT ![i] = row],
             row.visit = outbox[i].visit, row.from = outbox[i].from, row.to = outbox[i].to
      PROVE  DOMAIN outbox' = DOMAIN outbox /\ Same
  BY <1>1, RowWritten DEF Typed
<1>2. ASSUME NEW recipients \in SUBSET Accounts, Handle(w, recipients)
      PROVE  UNCHANGED visit /\ DOMAIN outbox' = DOMAIN outbox /\ Same
  <2> DEFINE row == [outbox[i] EXCEPT !.handled = TRUE]
  <2>1. i \in DOMAIN outbox /\ outbox[i] \in OutboxRow
    BY <1>2, AtWork DEF Handle
  <2>2. row \in OutboxRow /\ row.visit = outbox[i].visit /\ row.from = outbox[i].from
        /\ row.to = outbox[i].to
    BY <2>1 DEF OutboxRow
  <2>3. outbox' = [outbox EXCEPT ![i] = row] /\ UNCHANGED visit
    BY <1>2 DEF Handle
  <2> HIDE DEF row, i, Same
  <2> QED BY <1>1, <2>1, <2>2, <2>3
<1>3. ASSUME CountFailure(w)
      PROVE  UNCHANGED visit /\ DOMAIN outbox' = DOMAIN outbox /\ Same
  <2> DEFINE row == [outbox[i] EXCEPT !.attempts = CountedAttempts(i)]
  <2>1. i \in DOMAIN outbox /\ outbox[i] \in OutboxRow
    BY <1>3, AtWork DEF CountFailure
  <2>2. row \in OutboxRow /\ row.visit = outbox[i].visit /\ row.from = outbox[i].from
        /\ row.to = outbox[i].to
    BY <2>1 DEF OutboxRow, CountedAttempts
  <2>3. outbox' = [outbox EXCEPT ![i] = row] /\ UNCHANGED visit
    BY <1>3 DEF CountFailure
  <2> HIDE DEF row, i, Same
  <2> QED BY <1>1, <2>1, <2>2, <2>3
<1>4. ASSUME Claim(w) \/ Fail(w) \/ Fault(w) \/ \E a \in Accounts : Dispatch(w, a)
      PROVE  UNCHANGED visit /\ DOMAIN outbox' = DOMAIN outbox /\ Same
  BY <1>4 DEF Claim, Fail, Fault, Dispatch
<1> HIDE DEF Same, i
<1>5. UNCHANGED visit /\ DOMAIN outbox' = DOMAIN outbox /\ Same
  BY <1>2, <1>3, <1>4 DEF Drain
<1> QED BY <1>5 DEF Same

AllBalanced == \A v \in Visits : Balanced(v)

LEMMA BalancedInit == Init => AllBalanced
<1> SUFFICES ASSUME Init, NEW v \in Visits PROVE Balanced(v)
  BY DEF AllBalanced
<1>1. Completions(v) = {} /\ Reopenings(v) = {} /\ visit[v] = "none"
  BY DEF Init, Completions, Reopenings
<1> QED BY <1>1, FS_EmptySet DEF Balanced, Done

LEMMA BalancedNext == Typed /\ AllBalanced /\ [Next]_vars => AllBalanced'
<1> SUFFICES ASSUME Typed, AllBalanced, [Next]_vars, NEW v \in Visits PROVE Balanced(v)'
  BY DEF AllBalanced
<1>1. Balanced(v)
  BY DEF AllBalanced
<1>2. ASSUME UNCHANGED <<visit, outbox>> PROVE Balanced(v)'
  BY <1>1, <1>2 DEF Balanced, Completions, Reopenings
<1>3. CASE Write
  <2>1. ASSUME NEW u \in Visits, NEW to \in VisitStatuses, Sets(u, to) PROVE Balanced(v)'
    BY <1>1, <2>1, BalancedWhenSet DEF Sets
  <2>2. ASSUME Reads PROVE Balanced(v)'
    BY <1>2, <2>2 DEF Reads
  <2> QED BY <1>3, <2>1, <2>2, WriteSetsOrReads
<1>4. ASSUME NEW w \in Workers, Drain(w) \/ Fault(w) PROVE Balanced(v)'
  BY <1>1, <1>4, DrainKeepsChanges, BalancedWhenDrained
<1>5. ASSUME NEW w \in Workers, NothingToDrain(w) PROVE Balanced(v)'
  BY <1>2, <1>5 DEF NothingToDrain, vars
<1>6. CASE UNCHANGED vars
  BY <1>2, <1>6 DEF vars
<1> QED BY <1>3, <1>4, <1>5, <1>6 DEF Next

\* A customer is thanked for a visit at most once more than it was reopened,
\* however a late completion and the closing of the visit fall together.
THEOREM ThankedAtMostOnce == Spec => []ThankedOncePerOpening
<1>1. Spec => [](Typed /\ AllBalanced)
  BY TypedInit, TypedNext, BalancedInit, BalancedNext, PTL DEF Spec
<1>2. Typed /\ AllBalanced => ThankedOncePerOpening
  <2> SUFFICES ASSUME Typed, AllBalanced, NEW v \in Visits, NEW a \in Accounts
               PROVE  Cardinality(Thanks(v, a)) <= 1 + Cardinality(Reopenings(v))
    BY DEF ThankedOncePerOpening
  <2>1. Thanks(v, a) \subseteq Completions(v)
    BY DEF Thanks, Completions, Event, decideVisitEvent
  <2>2. /\ IsFiniteSet(Completions(v)) /\ Cardinality(Completions(v)) \in Nat
        /\ Cardinality(Reopenings(v)) \in Nat
    BY ChangesAreFinite DEF Typed
  <2>3. /\ Cardinality(Thanks(v, a)) <= Cardinality(Completions(v))
        /\ Cardinality(Thanks(v, a)) \in Nat
    BY <2>1, <2>2, FS_Subset, FS_CardinalityType
  <2>4. Cardinality(Completions(v)) <= 1 + Cardinality(Reopenings(v))
    BY <2>2 DEF AllBalanced, Balanced
  <2> QED BY <2>2, <2>3, <2>4
<1> QED BY <1>1, <1>2, PTL

-----------------------------------------------------------------------------
(* Order, for one process.                                                 *)

\* Nothing older of its visit is pending while a row is claimed.
ClaimsInOrder ==
    \A w \in Workers : worker[w].phase = "claimed" =>
        \A j \in DOMAIN outbox :
            j < worker[w].row /\ outbox[j].visit = outbox[worker[w].row].visit => ~Pending(j)

InOrder == ToldInOrder /\ ClaimsInOrder

\* Rows stay, none becomes pending again, and those handled now were before.
LEMMA InOrderKept ==
    ASSUME Typed, InOrder, DOMAIN outbox' = DOMAIN outbox,
           \A i \in DOMAIN outbox : /\ outbox'[i].visit = outbox[i].visit
                                    /\ outbox'[i].handled = outbox[i].handled
                                    /\ Pending(i)' => Pending(i),
           \A w \in Workers : worker'[w].phase = "claimed" => worker'[w] = worker[w]
    PROVE  InOrder'
<1>1. ToldInOrder'
  BY DEF InOrder, ToldInOrder
<1>2. \A w \in Workers : worker[w].phase # "idle" => worker[w].row \in DOMAIN outbox
  BY AtWork
<1>3. ClaimsInOrder'
  BY <1>2 DEF InOrder, ClaimsInOrder
<1> QED BY <1>1, <1>3 DEF InOrder

LEMMA InOrderWhenSet ==
    ASSUME Typed, InOrder, NEW v \in Visits, NEW to \in VisitStatuses, SetStatus(v, to)
    PROVE  InOrder'
<1>1. UNCHANGED worker /\ \A i \in DOMAIN outbox : outbox'[i] = outbox[i]
  BY StatusWritten DEF SetStatus
<1>2. /\ DOMAIN outbox = 1 .. Len(outbox) /\ DOMAIN outbox' = 1 .. Len(outbox')
      /\ Len(outbox) \in Nat /\ Len(outbox') \in Nat
  BY StatusWritten, DomainOfOutbox DEF Typed
<1>3. \A i \in DOMAIN outbox' : i \notin DOMAIN outbox => ~outbox'[i].handled
  BY DEF SetStatus, Typed, TypeOK
<1>4. \A i \in DOMAIN outbox : i \in DOMAIN outbox' /\ (Pending(i)' <=> Pending(i))
  BY <1>1, StatusWritten DEF Pending
<1>5. \A j \in DOMAIN outbox, i \in DOMAIN outbox' : i < j => i \in DOMAIN outbox
  BY <1>2
<1>6. ToldInOrder'
  BY <1>1, <1>3, <1>4, <1>5 DEF InOrder, ToldInOrder
<1>7. \A w \in Workers : worker[w].phase # "idle" => worker[w].row \in DOMAIN outbox
  BY AtWork
<1>8. ClaimsInOrder'
  BY <1>1, <1>4, <1>5, <1>7 DEF InOrder, ClaimsInOrder
<1> QED BY <1>6, <1>8 DEF InOrder

\* A lone process claims the oldest row of all that are pending.
LEMMA InOrderAfterClaim ==
    ASSUME \A s, t \in Workers : s = t,
           Typed, InOrder, NEW w \in Workers, Claim(w)
    PROVE  InOrder'
<1> DEFINE i == Oldest(Claimable)
<1>1. \A u \in Workers : worker[u].phase = "idle"
  BY DEF Claim
<1>2. Claimable = {j \in DOMAIN outbox : Pending(j)}
  BY <1>1 DEF Claimable, Unlocked
<1>3. i \in DOMAIN outbox /\ \A j \in DOMAIN outbox : Pending(j) => i <= j
  BY <1>2, OldestIsClaimable DEF Claim, Typed
<1>4. worker' = [worker EXCEPT ![w] = [phase |-> "claimed", row |-> i, due |-> {}]]
      /\ UNCHANGED outbox
  BY DEF Claim
<1> HIDE DEF i
<1>5. \A u \in Workers : worker'[u].row = i
  BY <1>4 DEF Typed, TypeOK
<1>6. \A j \in DOMAIN outbox : j < i => ~Pending(j)
  BY <1>3, DomainOfOutbox DEF Typed
<1>7. \A j : Pending(j)' <=> Pending(j)
  BY <1>4 DEF Pending
<1>8. ClaimsInOrder'
  BY <1>4, <1>5, <1>6, <1>7 DEF ClaimsInOrder
<1>9. ToldInOrder'
  BY <1>4, <1>7 DEF InOrder, ToldInOrder
<1> QED BY <1>8, <1>9 DEF InOrder

LEMMA InOrderAfterHandle ==
    ASSUME \A s, t \in Workers : s = t,
           Typed, InOrder, NEW w \in Workers, NEW recipients \in SUBSET Accounts,
           Handle(w, recipients)
    PROVE  InOrder'
<1> DEFINE i == worker[w].row
           row == [outbox[i] EXCEPT !.handled = TRUE]
<1>1. i \in DOMAIN outbox /\ outbox[i] \in OutboxRow /\ worker[w].phase = "claimed"
  BY AtWork DEF Handle
<1>2. row \in OutboxRow /\ row.visit = outbox[i].visit /\ row.handled
  BY <1>1 DEF OutboxRow
<1>3. outbox' = [outbox EXCEPT ![i] = row]
  BY DEF Handle
<1>4. /\ DOMAIN outbox' = DOMAIN outbox /\ outbox'[i] = row
      /\ \A j \in DOMAIN outbox : j # i => outbox'[j] = outbox[j]
  <2> HIDE DEF row
  <2> QED BY <1>1, <1>2, <1>3, RowWritten DEF Typed
<1>5. \A u \in Workers : worker'[u].phase # "claimed"
  BY DEF Handle, Typed, TypeOK, Idle
<1> HIDE DEF row
<1>6. \A j \in DOMAIN outbox : /\ outbox'[j].visit = outbox[j].visit
                               /\ Pending(j)' => Pending(j)
                               /\ j # i => outbox'[j].handled = outbox[j].handled
  BY <1>2, <1>4 DEF Pending
<1>7. \A j \in DOMAIN outbox : j < i /\ outbox[j].visit = outbox[i].visit => ~Pending(j)
  BY <1>1 DEF InOrder, ClaimsInOrder
<1> HIDE DEF i
<1>8. ToldInOrder'
  BY <1>1, <1>4, <1>6, <1>7 DEF InOrder, ToldInOrder
<1>9. ClaimsInOrder'
  BY <1>5 DEF ClaimsInOrder
<1> QED BY <1>8, <1>9 DEF InOrder

LEMMA InOrderAfterCount ==
    ASSUME Typed, InOrder, NEW w \in Workers, CountFailure(w)
    PROVE  InOrder'
<1> DEFINE i == worker[w].row
           row == [outbox[i] EXCEPT !.attempts = CountedAttempts(i)]
<1>1. i \in DOMAIN outbox /\ outbox[i] \in OutboxRow
  BY AtWork DEF CountFailure
<1>2. /\ row \in OutboxRow /\ row.visit = outbox[i].visit /\ row.handled = outbox[i].handled
      /\ row.attempts = outbox[i].attempts + 1 /\ outbox[i].attempts \in Nat
  BY <1>1 DEF OutboxRow, CountedAttempts
<1>3. outbox' = [outbox EXCEPT ![i] = row]
  BY DEF CountFailure
<1> HIDE DEF row
<1>4. /\ DOMAIN outbox' = DOMAIN outbox /\ outbox'[i] = row
      /\ \A j \in DOMAIN outbox : j # i => outbox'[j] = outbox[j]
  BY <1>1, <1>2, <1>3, RowWritten DEF Typed
<1>5. \A u \in Workers : worker'[u].phase = "claimed" => worker'[u] = worker[u]
  BY DEF CountFailure, Typed, TypeOK, Idle
<1>6. \A j \in DOMAIN outbox : /\ outbox'[j].visit = outbox[j].visit
                               /\ outbox'[j].handled = outbox[j].handled
                               /\ Pending(j)' => Pending(j)
  BY <1>2, <1>4, OutboxAssumption DEF Pending
<1> QED BY <1>4, <1>5, <1>6, InOrderKept

LEMMA InOrderAfterTheRest ==
    ASSUME Typed, InOrder, NEW w \in Workers,
           Fail(w) \/ Fault(w) \/ (\E a \in Accounts : Dispatch(w, a))
    PROVE  InOrder'
<1>1. UNCHANGED outbox
  BY DEF Fail, Fault, Dispatch
<1>2. \A u \in Workers : worker'[u].phase = "claimed" => worker'[u] = worker[u]
  <2>1. CASE Fail(w)
    BY <2>1 DEF Fail, Typed, TypeOK
  <2>2. CASE Fault(w)
    BY <2>2 DEF Fault, Typed, TypeOK, Idle
  <2>3. ASSUME NEW a \in Accounts, Dispatch(w, a), NEW u \in Workers, worker'[u].phase = "claimed"
        PROVE  worker'[u] = worker[u]
    <3>1. worker'[w] = IF LeftDue(w, a) = {} THEN Idle
                       ELSE [worker[w] EXCEPT !.due = LeftDue(w, a)]
      BY <2>3 DEF Dispatch, Typed, TypeOK
    <3>2. worker[w].phase = "dispatch"
      BY <2>3 DEF Dispatch
    <3>3. worker'[w].phase # "claimed"
      BY <3>1, <3>2 DEF Idle, Typed, TypeOK
    <3> QED BY <2>3, <3>3 DEF Dispatch, Typed, TypeOK
  <2> QED BY <2>1, <2>2, <2>3
<1>3. \A j : Pending(j)' <=> Pending(j)
  BY <1>1 DEF Pending
<1> QED BY <1>1, <1>2, <1>3, InOrderKept

LEMMA InOrderNext ==
    ASSUME \A s, t \in Workers : s = t
    PROVE  Typed /\ InOrder /\ [Next]_vars => InOrder'
<1> SUFFICES ASSUME Typed, InOrder, [Next]_vars PROVE InOrder'
  OBVIOUS
<1>1. ASSUME UNCHANGED <<outbox, worker>> PROVE InOrder'
  BY <1>1 DEF InOrder, ToldInOrder, ClaimsInOrder, Pending
<1>2. CASE Write
  <2>1. ASSUME NEW v \in Visits, NEW to \in VisitStatuses, Sets(v, to) PROVE InOrder'
    BY <2>1, InOrderWhenSet DEF Sets
  <2>2. ASSUME Reads PROVE InOrder'
    BY <1>1, <2>2 DEF Reads
  <2> QED BY <1>2, <2>1, <2>2, WriteSetsOrReads
<1>3. ASSUME NEW w \in Workers, Drain(w) PROVE InOrder'
  BY <1>3, InOrderAfterClaim, InOrderAfterHandle, InOrderAfterCount, InOrderAfterTheRest DEF Drain
<1>4. ASSUME NEW w \in Workers, Fault(w) PROVE InOrder'
  BY <1>4, InOrderAfterTheRest
<1>5. ASSUME NEW w \in Workers, NothingToDrain(w) PROVE InOrder'
  BY <1>1, <1>5 DEF NothingToDrain, vars
<1>6. CASE UNCHANGED vars
  BY <1>1, <1>6 DEF vars
<1> QED BY <1>2, <1>3, <1>4, <1>5, <1>6 DEF Next

\* A process that drains alone tells the changes of a visit in their order.
THEOREM OneProcessTellsInOrder ==
    ASSUME \A s, t \in Workers : s = t
    PROVE  Spec => []ToldInOrder
<1>1. Init => InOrder
  BY DEF Init, InOrder, ToldInOrder, ClaimsInOrder, Idle
<1>2. Typed /\ InOrder /\ [Next]_vars => InOrder'
  BY InOrderNext
<1>3. Spec => [](Typed /\ InOrder)
  BY <1>1, <1>2, TypedInit, TypedNext, PTL DEF Spec
<1>4. Typed /\ InOrder => ToldInOrder
  BY DEF InOrder
<1> QED BY <1>3, <1>4, PTL

-----------------------------------------------------------------------------
(* The news.                                                               *)

\* A call that is about to write finds the visit worked on, if not as it read it.
WorkedOn == {"ended"} \cup Done
CallsFindWorked ==
    \A c \in Calls : checked[c] # NoCall => visit[checked[c].visit] \in WorkedOn

\* One status is written after another, as visits go.
Advances(v, to) == SetStatus(v, to) /\ News!Follows(visit[v], to)

LEMMA CallsStayWhenSet ==
    ASSUME Typed, CallsFindWorked, NEW v \in Visits, NEW to \in VisitStatuses, Advances(v, to),
           \A c \in Calls : checked'[c] \in {checked[c], NoCall}
    PROVE  CallsFindWorked'
<1>1. \A u \in Visits : visit'[u] = IF u = v THEN to ELSE visit[u]
  BY DEF Advances, SetStatus, Typed, TypeOK
<1>2. visit[v] \in WorkedOn => to \in WorkedOn
  BY DEF Advances, News!Follows, News!Worked, News!Finished, WorkedOn, Done
<1>3. \A c \in Calls : checked[c] # NoCall => checked[c].visit \in Visits
  BY DEF Typed, CallsKnown
<1> QED BY <1>1, <1>2, <1>3 DEF CallsFindWorked

LEMMA WriteAdvancesOrReads ==
    ASSUME Typed, CallsFindWorked, Write
    PROVE  /\ \/ \E v \in Visits, to \in VisitStatuses : Advances(v, to)
              \/ UNCHANGED <<visit, outbox, told, pushed>>
           /\ CallsFindWorked'
<1> USE DEF News!Follows, News!Worked, News!Finished, VisitStatuses, Done, Advances
<1>1. ASSUME NEW v \in Visits, NEW to \in VisitStatuses, Advances(v, to), UNCHANGED checked
      PROVE  CallsFindWorked'
  <2>1. \A c \in Calls : checked'[c] \in {checked[c], NoCall}
    BY <1>1
  <2> HIDE DEF Advances
  <2> QED BY <1>1, <2>1, CallsStayWhenSet
<1>2. ASSUME NEW v \in Visits, Book(v)
      PROVE  \E to \in VisitStatuses : Advances(v, to) /\ UNCHANGED checked
  BY <1>2 DEF Book
<1>3. ASSUME NEW v \in Visits, StartVisit(v) \/ EndVisit(v) \/ CancelVisit(v) \/ CloseVisit(v)
      PROVE  \E to \in VisitStatuses : Advances(v, to) /\ UNCHANGED checked
  BY <1>3 DEF StartVisit, EndVisit, CancelVisit, CloseVisit
<1>4. ASSUME NEW c \in Calls, NEW v \in Visits, CheckCompletion(c, v) \/ CheckReopening(c, v)
      PROVE  UNCHANGED <<visit, outbox, told, pushed>> /\ CallsFindWorked'
  <2>1. PICK to : checked' = [checked EXCEPT ![c] = [visit |-> v, to |-> to]]
                  /\ visit[v] \in WorkedOn /\ UNCHANGED <<visit, outbox, told, pushed>>
    BY <1>4 DEF CheckCompletion, CheckReopening, Check, WorkedOn
  <2>2. \A d \in Calls : checked'[d] = checked[d] \/ checked'[d].visit = v
    BY <2>1 DEF Typed, TypeOK
  <2> QED BY <2>1, <2>2 DEF CallsFindWorked
<1>5. ASSUME NEW c \in Calls, WriteChecked(c)
      PROVE  (\E v \in Visits, to \in VisitStatuses : Advances(v, to)) /\ CallsFindWorked'
  <2> DEFINE v == checked[c].visit
             to == checked[c].to
  <2>1. v \in Visits /\ to \in {"completed", "ended"} /\ visit[v] \in WorkedOn /\ SetStatus(v, to)
    BY <1>5 DEF WriteChecked, CallsFindWorked, Typed, CallsKnown
  <2>2. \A d \in Calls : checked'[d] \in {checked[d], NoCall}
    BY <1>5 DEF WriteChecked, Typed, TypeOK
  <2> HIDE DEF v, to
  <2>3. to \in VisitStatuses /\ Advances(v, to)
    BY <2>1 DEF WorkedOn
  <2> HIDE DEF Advances
  <2> QED BY <2>1, <2>2, <2>3, CallsStayWhenSet
<1>6. ASSUME NEW c \in Calls, Abandon(c)
      PROVE  UNCHANGED <<visit, outbox, told, pushed>> /\ CallsFindWorked'
  BY <1>6 DEF Abandon, CallsFindWorked, Typed, TypeOK
<1> HIDE DEF Advances
<1> QED BY <1>1, <1>2, <1>3, <1>4, <1>5, <1>6 DEF Write

LEMMA CallsFindWorkedNext == Typed /\ CallsFindWorked /\ [Next]_vars => CallsFindWorked'
<1> SUFFICES ASSUME Typed, CallsFindWorked, [Next]_vars PROVE CallsFindWorked'
  OBVIOUS
<1>1. ASSUME UNCHANGED <<visit, checked>> PROVE CallsFindWorked'
  BY <1>1 DEF CallsFindWorked
<1>2. ASSUME NEW w \in Workers, Drain(w) PROVE UNCHANGED <<visit, checked>>
  BY <1>2 DEF Drain, Claim, Handle, Fail, CountFailure, Dispatch
<1>3. ASSUME NEW w \in Workers, NothingToDrain(w) \/ Fault(w) PROVE UNCHANGED <<visit, checked>>
  BY <1>3 DEF NothingToDrain, Fault, vars
<1>4. CASE UNCHANGED vars
  BY <1>1, <1>4 DEF vars
<1> QED BY <1>1, <1>2, <1>3, <1>4, WriteAdvancesOrReads DEF Next

\* The news as the outbox shows it.
NewsOf == [i \in DOMAIN outbox |-> Piece(outbox[i])]
NewsStep == [News!NewsNext]_(News!newsVars)

LEMMA SequenceIsFunction ==
    ASSUME NEW S, NEW s \in Seq(S)
    PROVE  s = [i \in 1 .. Len(s) |-> s[i]]
BY SeqDef

LEMMA PieceSettled ==
    ASSUME NEW row, NEW after
    PROVE  [Piece(row) EXCEPT !.settled = after]
             = [visit |-> row.visit, from |-> row.from, to |-> row.to, settled |-> after]
BY DEF Piece

LEMMA NewsAdded ==
    ASSUME TypeOK, NEW row \in OutboxRow, outbox' = Append(outbox, row)
    PROVE  NewsOf' = Append(NewsOf, Piece(row))
<1>1. /\ DOMAIN outbox = 1 .. Len(outbox) /\ Len(outbox) \in Nat
      /\ DOMAIN outbox' = 1 .. (Len(outbox) + 1)
      /\ \A i \in DOMAIN outbox : outbox'[i] = outbox[i]
      /\ outbox'[Len(outbox) + 1] = row
  BY DEF TypeOK
<1>2. NewsOf \in Seq({Piece(outbox[i]) : i \in DOMAIN outbox}) /\ Len(NewsOf) = Len(outbox)
  BY <1>1 DEF NewsOf
<1>3. NewsOf' = [i \in 1 .. (Len(outbox) + 1) |-> Piece(outbox'[i])]
  BY <1>1 DEF NewsOf
<1>4. ASSUME NEW i \in 1 .. (Len(outbox) + 1)
      PROVE  Piece(outbox'[i]) = IF i \in 1 .. Len(outbox) THEN NewsOf[i] ELSE Piece(row)
  BY <1>1 DEF NewsOf
<1>5. Append(NewsOf, Piece(row)) =
          [i \in 1 .. (Len(outbox) + 1) |-> IF i \in 1 .. Len(outbox) THEN NewsOf[i] ELSE Piece(row)]
  <2> DEFINE S == {Piece(outbox[i]) : i \in DOMAIN outbox} \cup {Piece(row)}
             new == Piece(row)
             old == NewsOf
  <2>1. old \in Seq(S) /\ new \in S /\ Len(old) = Len(outbox) /\ DOMAIN old = 1 .. Len(outbox)
    BY <1>1, <1>2 DEF NewsOf
  <2> HIDE DEF S, new, old
  <2>2. /\ Append(old, new) \in Seq(S) /\ Len(Append(old, new)) = Len(outbox) + 1
        /\ \A i \in 1 .. Len(outbox) : Append(old, new)[i] = old[i]
        /\ Append(old, new)[Len(outbox) + 1] = new
    BY <1>1, <2>1
  <2>3. \A i \in 1 .. (Len(outbox) + 1) :
            Append(old, new)[i] = IF i \in 1 .. Len(outbox) THEN old[i] ELSE new
    BY <1>1, <2>2
  <2>4. Append(old, new) = [i \in 1 .. (Len(outbox) + 1) |-> Append(old, new)[i]]
    BY <2>2, SequenceIsFunction
  <2>5. Append(old, new) =
            [i \in 1 .. (Len(outbox) + 1) |-> IF i \in 1 .. Len(outbox) THEN old[i] ELSE new]
    BY <2>3, <2>4
  <2> QED BY <2>5 DEF new, old
<1>6. NewsOf' = [i \in 1 .. (Len(outbox) + 1) |-> IF i \in 1 .. Len(outbox) THEN NewsOf[i] ELSE Piece(row)]
  BY <1>3, <1>4
<1> HIDE DEF NewsOf
<1> QED BY <1>5, <1>6

LEMMA NewsRewritten ==
    ASSUME TypeOK, NEW i \in DOMAIN outbox, NEW row, outbox' = [outbox EXCEPT ![i] = row]
    PROVE  NewsOf' = [NewsOf EXCEPT ![i] = Piece(row)]
<1>1. DOMAIN outbox' = DOMAIN outbox
  OBVIOUS
<1> QED BY <1>1 DEF NewsOf

\* A status that is written is news, unless it is the one there was.
LEMMA NewsOfChange ==
    ASSUME Typed, NEW v \in Visits, NEW to \in VisitStatuses, Advances(v, to)
    PROVE  NewsStep
<1>1. SetStatus(v, to) /\ News!Follows(visit[v], to) /\ UNCHANGED <<told, pushed>>
  BY DEF Advances, SetStatus
<1>2. CASE visit[v] = to
  BY <1>1, <1>2 DEF SetStatus, NewsStep, News!newsVars, Typed, TypeOK
<1>3. CASE visit[v] # to
  <2> DEFINE row == [visit |-> v, from |-> visit[v], to |-> to, handled |-> FALSE, attempts |-> 0]
  <2>1. row \in OutboxRow
    BY DEF Typed, TypeOK, OutboxRow
  <2>2. outbox' = Append(outbox, row) /\ visit' = [visit EXCEPT ![v] = to]
    BY <1>1, <1>3 DEF SetStatus
  <2>3. Piece(row) = [visit |-> v, from |-> visit[v], to |-> to, settled |-> FALSE]
    BY DEF Piece
  <2> HIDE DEF row
  <2>4. NewsOf' = Append(NewsOf, [visit |-> v, from |-> visit[v], to |-> to, settled |-> FALSE])
    BY <2>1, <2>2, <2>3, NewsAdded DEF Typed
  <2>5. News!Change(v, to)
    BY <1>1, <1>3, <2>2, <2>4 DEF News!Change, NewsOf
  <2>6. to \in News!Worked \cup {"scheduled", "in_progress", "cancelled"}
    BY DEF News!Worked, News!Finished, VisitStatuses, Done
  <2> QED BY <2>5, <2>6 DEF NewsStep, News!NewsNext
<1> QED BY <1>2, <1>3

LEMMA NewsOfHandle ==
    ASSUME Typed, Once, NEW w \in Workers, NEW recipients \in SUBSET Accounts,
           Handle(w, recipients)
    PROVE  NewsStep
<1> DEFINE i == worker[w].row
           row == [outbox[i] EXCEPT !.handled = TRUE]
<1>1. i \in DOMAIN outbox /\ i \in Ids /\ outbox[i] \in OutboxRow /\ ~outbox[i].handled
  BY AtWork DEF Handle, Once, Claims
<1>2. /\ outbox' = [outbox EXCEPT ![i] = row] /\ UNCHANGED <<visit, pushed>>
      /\ decideVisitEvent(outbox[i].from, outbox[i].to) = "silent" => recipients = {}
      /\ told' = [n \in Ids \X Accounts |->
                    IF n[1] = i /\ n[2] \in recipients THEN told[n] + 1 ELSE told[n]]
  BY DEF Handle
<1>3. Piece(row) = [Piece(outbox[i]) EXCEPT !.settled = TRUE] /\ ~NewsOf[i].settled
      /\ NewsOf[i] = Piece(outbox[i])
      /\ NewsOf[i].from = outbox[i].from /\ NewsOf[i].to = outbox[i].to
  <2>1. NewsOf[i] = Piece(outbox[i])
    BY <1>1 DEF NewsOf
  <2>2. /\ row.visit = outbox[i].visit /\ row.from = outbox[i].from /\ row.to = outbox[i].to
        /\ row.handled = TRUE
    BY <1>1 DEF OutboxRow
  <2> HIDE DEF row
  <2>3. Piece(row) = [visit |-> outbox[i].visit, from |-> outbox[i].from,
                      to |-> outbox[i].to, settled |-> TRUE]
    BY <2>2, Zenon DEF Piece
  <2>4. [Piece(outbox[i]) EXCEPT !.settled = TRUE] =
            [visit |-> outbox[i].visit, from |-> outbox[i].from,
             to |-> outbox[i].to, settled |-> TRUE]
    BY PieceSettled, Zenon
  <2> QED BY <1>1, <2>1, <2>3, <2>4 DEF Piece
<1>4. NewsOf' = [NewsOf EXCEPT ![i] = Piece(row)]
  <2> HIDE DEF row
  <2> QED BY <1>1, <1>2, NewsRewritten DEF Typed
<1>5. NewsOf' = [NewsOf EXCEPT ![i].settled = TRUE]
  BY <1>3, <1>4
<1>6. recipients # {} => News!WorthTelling(NewsOf[i].from, NewsOf[i].to)
  BY <1>1, <1>2, <1>3 DEF News!WorthTelling, News!Finished, decideVisitEvent, Done, OutboxRow
<1>7. \A a \in Accounts : told[<<i, a>>] = 0
  BY <1>1 DEF Once, Notices, Typed, TypeOK
<1>8. told' = [n \in Ids \X Accounts |->
                 IF n[1] = i /\ n[2] \in recipients THEN 1 ELSE told[n]]
  BY <1>2, <1>7
<1> HIDE DEF i, row
<1>9. News!Tell(i, recipients)
  BY <1>1, <1>2, <1>3, <1>5, <1>6, <1>8 DEF News!Tell, NewsOf
<1> QED BY <1>1, <1>9 DEF NewsStep, News!NewsNext

LEMMA NewsOfDispatch ==
    ASSUME Typed, Once, NEW w \in Workers, NEW a \in Accounts, Dispatch(w, a)
    PROVE  NewsStep
<1> DEFINE i == worker[w].row
<1>1. i \in Ids /\ told[<<i, a>>] = 1 /\ pushed[<<i, a>>] = 0
  BY AtWork DEF Dispatch, Once, Sending
<1>2. pushed' = [pushed EXCEPT ![<<i, a>>] = @ + 1] /\ UNCHANGED <<visit, outbox, told>>
  BY DEF Dispatch
<1> HIDE DEF i
<1>3. News!Ring(i, a)
  BY <1>1, <1>2 DEF News!Ring
<1> QED BY <1>1, <1>3 DEF NewsStep, News!NewsNext

\* How often a row was tried is nobody's news.
LEMMA NewsOfCount ==
    ASSUME Typed, NEW w \in Workers, CountFailure(w)
    PROVE  NewsStep
<1> DEFINE i == worker[w].row
           row == [outbox[i] EXCEPT !.attempts = CountedAttempts(i)]
<1>1. i \in DOMAIN outbox /\ outbox[i] \in OutboxRow
  BY AtWork DEF CountFailure
<1>2. outbox' = [outbox EXCEPT ![i] = row] /\ UNCHANGED <<visit, told, pushed>>
  BY DEF CountFailure
<1>3. Piece(row) = Piece(outbox[i])
  BY <1>1 DEF Piece, OutboxRow
<1> HIDE DEF row, i
<1>4. NewsOf' = [NewsOf EXCEPT ![i] = Piece(outbox[i])]
  BY <1>1, <1>2, <1>3, NewsRewritten DEF Typed
<1>5. NewsOf' = NewsOf
  BY <1>1, <1>4 DEF NewsOf
<1> QED BY <1>2, <1>5 DEF NewsStep, News!newsVars, NewsOf

LEMMA NewsNextStep ==
    ASSUME Typed, Once, CallsFindWorked, [Next]_vars
    PROVE  NewsStep
<1>1. ASSUME UNCHANGED <<visit, outbox, told, pushed>> PROVE NewsStep
  BY <1>1 DEF NewsStep, News!newsVars
<1>2. CASE Write
  BY <1>1, <1>2, WriteAdvancesOrReads, NewsOfChange
<1>3. ASSUME NEW w \in Workers, Drain(w) PROVE NewsStep
  <2>1. ASSUME Claim(w) \/ Fail(w) PROVE UNCHANGED <<visit, outbox, told, pushed>>
    BY <2>1 DEF Claim, Fail
  <2> QED BY <1>1, <1>3, <2>1, NewsOfHandle, NewsOfCount, NewsOfDispatch DEF Drain
<1>4. ASSUME NEW w \in Workers, NothingToDrain(w) \/ Fault(w)
      PROVE  UNCHANGED <<visit, outbox, told, pushed>>
  BY <1>4 DEF NothingToDrain, Fault, vars
<1>5. CASE UNCHANGED vars
  BY <1>1, <1>5 DEF vars
<1> QED BY <1>1, <1>2, <1>3, <1>4, <1>5 DEF Next

LEMMA NewsStarts == Init => News!NewsInit
<1> SUFFICES ASSUME Init PROVE News!NewsInit
  OBVIOUS
<1>1. NewsOf = <<>>
  BY DEF Init, NewsOf
<1> QED BY <1>1 DEF Init, News!NewsInit, NewsOf

\* Whatever processes crash, retry and overtake each other, and whatever calls
\* overwrite, the outbox keeps the promises of VisitNews: what is told and rung is
\* what a customer would see if every change were settled in one step.
THEOREM NewsImplemented == Spec => ImplementsNews
<1>1. Init => CallsFindWorked
  BY DEF Init, CallsFindWorked
<1>2. Spec => [](Typed /\ Once /\ CallsFindWorked)
  BY <1>1, TypedInit, TypedNext, OnceInit, OnceNext, CallsFindWorkedNext, PTL DEF Spec
<1>3. Typed /\ Once /\ CallsFindWorked /\ [Next]_vars => [News!NewsNext]_(News!newsVars)
  BY NewsNextStep DEF NewsStep
<1> QED BY <1>2, <1>3, NewsStarts, PTL DEF Spec, ImplementsNews, News!NewsSpec
=============================================================================
