------------------------ MODULE ServiceRequestsProofs ------------------------
(***************************************************************************)
(* Theorems about ServiceRequests, for every set of requests, devices,     *)
(* tasks and problems and every bound.                                     *)
(***************************************************************************)
EXTENDS ServiceRequests, TLAPS

-----------------------------------------------------------------------------
(* Types *)

LEMMA TypeInit == Init => TypeOK
  BY SentinelAssumption, TypesAssumption
     DEF Init, TypeOK, RequestRow, ProblemRow, TaskRow, NoRow, NoProblem, NoTaskRow,
         Parties, Statuses, Terminal

\* transitionStatus keeps the table's shape; only a reopening moves the counter,
\* and Reopen keeps it below its bound.
LEMMA TransitionTypes ==
    ASSUME TypeOK, NEW r \in Requests, NEW to \in Statuses, TransitionStatus(r, to),
           to = "in_review" => sr[r].reopens < MaxReopens
    PROVE  TypeOK'
  <1>1. sr[r] \in RequestRow
    BY DEF TypeOK
  <1>2. TransitionRow(r, to) \in RequestRow
    <2> DEFINE step == IF IsReopen(r, to) THEN 1 ELSE 0
               frozen == sr[r].escalated /\ to \notin Terminal
               flag == sr[r].review \/ (IsReopen(r, to) /\ sr[r].reopens + step > 2)
    <2>1. sr[r].reopens + step \in 0 .. MaxReopens
      BY <1>1, TypesAssumption DEF IsReopen, RequestRow
    <2>2. frozen \in BOOLEAN /\ flag \in BOOLEAN
      OBVIOUS
    <2>3. TransitionRow(r, to) =
            [sr[r] EXCEPT !.status = to, !.escalated = frozen,
                          !.reopens = sr[r].reopens + step, !.review = flag]
      BY Zenon DEF TransitionRow
    <2> HIDE DEF step, frozen, flag
    <2>4. QED
      BY <1>1, <2>1, <2>2, <2>3 DEF RequestRow
  <1>3. QED
    BY <1>2 DEF TransitionStatus, TypeOK

LEMMA TriageTypes ==
    ASSUME TypeOK, NEW r \in Requests, Triage(r)
    PROVE  TypeOK'
  <1>0. sr[r] \in RequestRow
    BY DEF TypeOK
  <1>1. ASSUME NEW op \in Operators, ClaimOrTakeOver(r, op) PROVE TypeOK'
    <2>1. [sr[r] EXCEPT !.reviewer = op, !.status = "in_review"] \in RequestRow
      BY <1>0 DEF RequestRow, Statuses
    <2>2. QED
      BY <1>1, <2>1 DEF ClaimOrTakeOver, TypeOK
  <1>2. CASE ResolveAtIntake(r)
    BY <1>2, TransitionTypes DEF ResolveAtIntake, Statuses, Terminal
  <1>3. CASE ApproveAgentLicense(r)
    BY <1>3, TransitionTypes DEF ApproveAgentLicense, Statuses, Terminal
  <1>4. CASE Reject(r)
    BY <1>4, TransitionTypes DEF Reject, Statuses, Terminal
  <1>5. CASE Cancel(r)
    BY <1>5, TransitionTypes DEF Cancel, Statuses, Terminal
  <1>6. CASE Reopen(r)
    BY <1>6, TransitionTypes DEF Reopen, Statuses, Terminal
  <1>7. CASE Escalate(r)
    BY <1>0, <1>7 DEF Escalate, TypeOK, RequestRow
  <1>8. CASE ResolveEscalation(r)
    BY <1>0, <1>8 DEF ResolveEscalation, TypeOK, RequestRow
  <1>9. CASE Archive(r)
    BY <1>0, <1>9 DEF Archive, TypeOK, RequestRow
  <1>10. CASE Unarchive(r)
    BY <1>0, <1>10 DEF Unarchive, TypeOK, RequestRow
  <1>11. QED
    BY <1>1, <1>2, <1>3, <1>4, <1>5, <1>6, <1>7, <1>8, <1>9, <1>10 DEF Triage

LEMMA IntakeTypes ==
    ASSUME TypeOK, NEW r \in Requests, Intake(r)
    PROVE  TypeOK'
  <1>1. PICK type \in RequestTypes, source \in DeviceSources,
             op \in Operators \cup {NoUser}, party \in Parties \cup {NoParty},
             d \in Devices \cup {NoDevice}, duplicate \in BOOLEAN :
               CreateServiceRequest(r, type, source, op, party, d, duplicate)
    BY DEF Intake
  <1> DEFINE row == [NoRow EXCEPT
                       !.status = IF op = NoUser THEN "received" ELSE "in_review",
                       !.type = type, !.source = source, !.reviewer = op,
                       !.review = duplicate, !.party = party, !.device = d]
  <1>2. row \in RequestRow
    <2> DEFINE status == IF op = NoUser THEN "received" ELSE "in_review"
    <2>1. NoRow \in RequestRow
      BY TypesAssumption DEF NoRow, RequestRow
    <2>2. status \in Statuses
      BY DEF Statuses
    <2> HIDE DEF status
    <2>3. ASSUME NEW row0 \in RequestRow
          PROVE  [row0 EXCEPT !.status = status, !.type = type, !.source = source,
                              !.reviewer = op, !.review = duplicate, !.party = party,
                              !.device = d] \in RequestRow
      BY <2>2, ZenonT(60) DEF RequestRow
    <2>4. QED
      BY <2>1, <2>3 DEF status
  <1>3. sr' = [sr EXCEPT ![r] = row] /\ UNCHANGED <<problem, task, owner, transfer, admitted>>
    BY <1>1 DEF CreateServiceRequest
  <1> HIDE DEF row
  <1>4. QED
    BY <1>2, <1>3 DEF TypeOK

LEMMA GatewayTypes ==
    ASSUME TypeOK, NEW r \in Requests, Gateway(r)
    PROVE  TypeOK'
  <1>1. ASSUME NEW call \in GatedCalls, Admit(r, call) PROVE TypeOK'
    BY <1>1 DEF Admit, TypeOK
  <1>2. ASSUME NEW call \in GatedCalls \cup {ServerError}, Answer(r, call) PROVE TypeOK'
    BY <1>2 DEF Answer, TypeOK
  <1>3. QED
    BY <1>1, <1>2 DEF Gateway

LEMMA LinkTypes ==
    ASSUME TypeOK, NEW r \in Requests, Link(r)
    PROVE  TypeOK'
  <1>1. PICK p \in Parties \cup {NoParty}, d \in Devices \cup {NoDevice}, change \in BOOLEAN :
          LinkBeneficiary(r, p, d, change)
    BY DEF Link
  <1>2. PICK party \in Parties \cup {NoParty}, device \in Devices \cup {NoDevice} :
          sr' = [sr EXCEPT ![r] = [@ EXCEPT !.party = party, !.device = device]]
    BY <1>1 DEF LinkBeneficiary, TypeOK, RequestRow
  <1>3. [sr[r] EXCEPT !.party = party, !.device = device] \in RequestRow
    <2>1. sr[r] \in RequestRow
      BY DEF TypeOK
    <2>2. QED
      BY <2>1 DEF RequestRow
  <1>4. UNCHANGED <<problem, task, owner, transfer>> /\ admitted' \subseteq admitted
    BY <1>1 DEF LinkBeneficiary, Handles
  <1>5. QED
    BY <1>2, <1>3, <1>4 DEF TypeOK

\* The problems that move keep their shape.
LEMMA MovedProblemsTypes ==
    ASSUME TypeOK, NEW r \in Requests, NEW t \in Tasks
    PROVE  MovedProblems(r, t) \in [Problems -> ProblemRow]
  <1>1. ASSUME NEW p \in Problems
        PROVE  [problem[p] EXCEPT !.task = t] \in ProblemRow /\ problem[p] \in ProblemRow
    BY DEF TypeOK, ProblemRow
  <1>2. QED
    BY <1>1 DEF MovedProblems

\* So does the request that is handed over.
LEMMA HandedOverTypes ==
    ASSUME TypeOK, NEW r \in Requests, NEW d \in Devices, NEW t \in Tasks
    PROVE  HandedOver(r, d, t) \in [Requests -> RequestRow]
  <1>1. sr[r] \in RequestRow
    BY DEF TypeOK
  <1>2. [sr[r] EXCEPT !.status = "promoted", !.device = d, !.task = t] \in RequestRow
    BY <1>1 DEF RequestRow, Statuses, Terminal
  <1>3. QED
    BY <1>2 DEF HandedOver, TypeOK

LEMMA HandOverTypes ==
    ASSUME TypeOK, NEW r \in Requests, HandOver(r)
    PROVE  TypeOK'
  <1>1. ASSUME NEW d \in Devices, NEW t \in Tasks, NEW split \in BOOLEAN, Promote(r, d, t, split)
        PROVE  TypeOK'
    <2>1. sr[r].party \in Clients
      BY <1>1 DEF Promote, PromoteChecks, HasClient
    <2>2. sr' \in [Requests -> RequestRow]
      BY <1>1, HandedOverTypes DEF Promote
    <2>3. problem' \in [Problems -> ProblemRow]
      BY <1>1, MovedProblemsTypes DEF Promote
    <2>4. task' \in [Tasks -> TaskRow]
      BY <1>1, <2>1 DEF Promote, TypeOK, TaskRow
    <2>5. owner' \in [Devices -> Clients \cup {NoParty}]
      BY <1>1, <2>1 DEF Promote, TypeOK
    <2>6. QED
      BY <1>1, <2>2, <2>3, <2>4, <2>5 DEF Promote, Handles, TypeOK
  <1>2. ASSUME NEW d \in Devices, NEW split \in BOOLEAN, PromoteAborts(r, d, split)
        PROVE  TypeOK'
    BY <1>2 DEF PromoteAborts, TypeOK
  <1>3. ASSUME NEW t \in Tasks, MergeIntoExistingTask(r, t)
        PROVE  TypeOK'
    <2>1. sr[r].device \in Devices
      BY <1>3 DEF MergeIntoExistingTask, TypeOK, RequestRow
    <2>2. sr' \in [Requests -> RequestRow]
      BY <1>3, <2>1, HandedOverTypes DEF MergeIntoExistingTask
    <2>3. problem' \in [Problems -> ProblemRow]
      BY <1>3, MovedProblemsTypes DEF MergeIntoExistingTask
    <2>4. QED
      BY <1>3, <2>2, <2>3 DEF MergeIntoExistingTask, Handles, TypeOK
  <1>4. QED
    BY <1>1, <1>2, <1>3 DEF HandOver

LEMMA ProblemListTypes ==
    ASSUME TypeOK, NEW r \in Requests, ProblemList(r)
    PROVE  TypeOK'
  <1>1. PICK p \in Problems :
          \/ \E d \in Devices, stamp \in Tasks \cup {NoTask} : AddProblem(r, p, d, stamp)
          \/ SoftDeleteProblem(r, p)
          \/ RestoreProblem(r, p)
    BY DEF ProblemList
  <1>2. problem[p] \in ProblemRow
    BY DEF TypeOK
  <1>3. PICK row \in ProblemRow : problem' = [problem EXCEPT ![p] = row]
    <2>1. ASSUME NEW d \in Devices, NEW stamp \in Tasks \cup {NoTask}, AddProblem(r, p, d, stamp)
          PROVE  \E row \in ProblemRow : problem' = [problem EXCEPT ![p] = row]
      <3>1. [NoProblem EXCEPT !.sr = r, !.device = d, !.stamp = stamp] \in ProblemRow
        BY DEF NoProblem, ProblemRow
      <3>2. QED
        BY <2>1, <3>1 DEF AddProblem
    <2>2. ASSUME NEW b \in BOOLEAN, problem' = [problem EXCEPT ![p].deleted = b]
          PROVE  \E row \in ProblemRow : problem' = [problem EXCEPT ![p] = row]
      <3>1. [problem[p] EXCEPT !.deleted = b] \in ProblemRow
        BY <1>2 DEF ProblemRow
      <3>2. QED
        BY <2>2, <3>1 DEF TypeOK
    <2>3. QED
      BY <1>1, <2>1, <2>2 DEF SoftDeleteProblem, RestoreProblem
  <1>4. UNCHANGED <<sr, task, owner, transfer>> /\ admitted' \subseteq admitted
    BY <1>1 DEF AddProblem, SoftDeleteProblem, RestoreProblem, Handles
  <1>5. QED
    BY <1>3, <1>4 DEF TypeOK

LEMMA FieldTypes ==
    ASSUME TypeOK, Field
    PROVE  TypeOK'
  <1>1. ASSUME NEW t \in Tasks, FinishTask(t) PROVE TypeOK'
    BY <1>1 DEF FinishTask, TypeOK, TaskRow
  <1>2. ASSUME NEW p \in Problems, StampProblem(p) PROVE TypeOK'
    <2>1. problem[p] \in ProblemRow
      BY DEF TypeOK
    <2>2. Stamped(p) \in Tasks \cup {NoTask}
      BY <2>1 DEF Stamped, ProblemRow
    <2>3. [problem[p] EXCEPT !.task = Stamped(p), !.stamp = NoTask] \in ProblemRow
      BY <2>1, <2>2 DEF ProblemRow
    <2>4. QED
      BY <1>2, <2>3 DEF StampProblem, TypeOK
  <1>3. ASSUME NEW p \in Problems, StampLost(p) PROVE TypeOK'
    BY <1>3 DEF StampLost, TypeOK, ProblemRow
  <1>4. ASSUME NEW d \in Devices, OpenTransferTask(d) PROVE TypeOK'
    BY <1>4 DEF OpenTransferTask, TypeOK
  <1>5. ASSUME NEW d \in Devices, NEW c \in Clients, CloseTransferTask(d, c) PROVE TypeOK'
    BY <1>5 DEF CloseTransferTask, TypeOK
  <1>6. QED
    BY <1>1, <1>2, <1>3, <1>4, <1>5 DEF Field

\* Every table keeps its shape in every step, whatever the number of requests,
\* devices and tasks: no handler leaves a NULL where another expects an id.
THEOREM TypeCorrect == Spec => []TypeOK
  <1>1. Init => TypeOK
    BY TypeInit
  <1>2. TypeOK /\ [Next]_vars => TypeOK'
    <2> SUFFICES ASSUME TypeOK, [Next]_vars PROVE TypeOK'
      OBVIOUS
    <2>1. CASE UNCHANGED vars
      BY <2>1 DEF vars, TypeOK
    <2>2. CASE Field
      BY <2>2, FieldTypes
    <2>3. ASSUME NEW r \in Requests,
                 \/ Intake(r) \/ Triage(r) \/ Gateway(r)
                 \/ Link(r) \/ HandOver(r) \/ ProblemList(r)
          PROVE  TypeOK'
      BY <2>3, IntakeTypes, TriageTypes, GatewayTypes, LinkTypes, HandOverTypes,
         ProblemListTypes
    <2>4. QED
      BY <2>1, <2>2, <2>3 DEF Next
  <1>3. QED
    BY <1>1, <1>2, PTL DEF Spec

-----------------------------------------------------------------------------
(* The life of one request *)

\* What the four invariants on a request's life say of one row.
SoundRow(row) ==
    /\ Decided(row.status) => row.reviewer # NoUser
    /\ row.archived => row.status \in Terminal
    /\ row.reopens > 2 => row.review
    /\ row.status \in {"resolved_at_intake", "rejected", "cancelled"} => ~row.escalated

LifecycleInv == \A r \in Requests : SoundRow(sr[r])

\* The fields of the row transitionStatus writes.
LEMMA TransitionFields ==
    ASSUME TypeOK, NEW r \in Requests, NEW to \in Statuses
    PROVE  LET row == TransitionRow(r, to)
           IN  /\ row.status = to
               /\ row.escalated = (sr[r].escalated /\ to \notin Terminal)
               /\ row.reopens = sr[r].reopens + (IF IsReopen(r, to) THEN 1 ELSE 0)
               /\ row.review = (sr[r].review \/ (IsReopen(r, to) /\ row.reopens > 2))
               /\ row.reviewer = sr[r].reviewer
               /\ row.archived = sr[r].archived
               /\ row.party = sr[r].party
               /\ row.device = sr[r].device
               /\ row.task = sr[r].task
  BY DEF TransitionRow, TypeOK, RequestRow

\* A terminal leads to a review or nowhere.
LEMMA TerminalExits ==
    ASSUME NEW from \in Terminal, NEW to \in Allowed[from]
    PROVE  to = "in_review" /\ from \notin {"promoted", "completed"}
  <1>1. CASE from = "promoted" \/ from = "completed"
    BY <1>1 DEF Allowed
  <1>2. CASE from \in {"resolved_at_intake", "rejected", "cancelled"}
    BY <1>2 DEF Allowed
  <1>3. QED
    BY <1>1, <1>2 DEF Terminal

\* A transition is from a status the state machine lists, and reopening is the
\* only way out of a terminal.
LEMMA TransitionKeepsRowSound ==
    ASSUME TypeOK, NEW r \in Requests, NEW to \in Statuses, TransitionStatus(r, to),
           SoundRow(sr[r])
    PROVE  SoundRow(TransitionRow(r, to))
  <1> DEFINE row == TransitionRow(r, to)
  <1>1. /\ row.status = to
        /\ row.escalated = (sr[r].escalated /\ to \notin Terminal)
        /\ row.reopens = sr[r].reopens + (IF IsReopen(r, to) THEN 1 ELSE 0)
        /\ row.review = (sr[r].review \/ (IsReopen(r, to) /\ row.reopens > 2))
        /\ row.reviewer = sr[r].reviewer
        /\ row.archived = sr[r].archived
    BY TransitionFields
  <1>2. sr[r].status \in Statuses /\ to \in Allowed[sr[r].status]
    BY DEF TransitionStatus, TransitionAllowed, TypeOK, RequestRow
  <1>3. Decided(to) => sr[r].reviewer # NoUser
    BY DEF TransitionStatus, TransitionAllowed, ClaimedForDecision
  <1>4. sr[r].archived => to \in Terminal
    <2>1. sr[r].archived => ~IsReopen(r, to)
      BY DEF TransitionStatus, TransitionAllowed, NotArchivedForReopen
    <2>2. sr[r].archived => sr[r].status \in Terminal
      BY DEF SoundRow
    <2>3. QED
      BY <1>2, <2>1, <2>2, TerminalExits DEF IsReopen, SoundRow
  <1>5. row.reopens > 2 => row.review
    <2>1. sr[r].reopens \in Nat /\ (sr[r].reopens > 2 => sr[r].review)
      BY TypesAssumption DEF TypeOK, RequestRow, SoundRow
    <2>2. CASE IsReopen(r, to)
      BY <1>1, <2>2
    <2>3. CASE ~IsReopen(r, to)
      <3>1. row.reopens = sr[r].reopens
        BY <1>1, <2>1, <2>3
      <3>2. sr[r].review => row.review
        BY <1>1, Zenon
      <3>3. QED
        BY <2>1, <3>1, <3>2
    <2>4. QED
      BY <2>2, <2>3
  <1>6. to \in {"resolved_at_intake", "rejected", "cancelled"} => ~row.escalated
    BY <1>1 DEF Terminal
  <1> HIDE DEF row
  <1>7. QED
    BY <1>1, <1>3, <1>4, <1>5, <1>6 DEF SoundRow, row

LEMMA OneRowChanges ==
    ASSUME TypeOK, LifecycleInv, NEW r \in Requests, NEW row,
           sr' = [sr EXCEPT ![r] = row], SoundRow(row)
    PROVE  LifecycleInv'
  BY DEF LifecycleInv, TypeOK

LEMMA LifecycleTransition ==
    ASSUME TypeOK, LifecycleInv, NEW r \in Requests, NEW to \in Statuses,
           TransitionStatus(r, to)
    PROVE  LifecycleInv'
  <1>1. SoundRow(TransitionRow(r, to))
    BY TransitionKeepsRowSound DEF LifecycleInv
  <1>2. sr' = [sr EXCEPT ![r] = TransitionRow(r, to)]
    BY DEF TransitionStatus
  <1>3. QED
    BY <1>1, <1>2, OneRowChanges

LEMMA LifecycleTriage ==
    ASSUME TypeOK, LifecycleInv, NEW r \in Requests, Triage(r)
    PROVE  LifecycleInv'
  <1>0. sr[r] \in RequestRow /\ SoundRow(sr[r])
    BY DEF TypeOK, LifecycleInv
  <1>1. ASSUME NEW op \in Operators, ClaimOrTakeOver(r, op) PROVE LifecycleInv'
    <2> DEFINE row == [sr[r] EXCEPT !.reviewer = op, !.status = "in_review"]
    <2>1. ~sr[r].archived
      BY <1>0, <1>1 DEF ClaimOrTakeOver, Claimable, SoundRow, Terminal
    <2>2. SoundRow(row)
      BY <1>0, <2>1 DEF SoundRow, RequestRow, Decided
    <2>3. sr' = [sr EXCEPT ![r] = row]
      BY <1>1 DEF ClaimOrTakeOver
    <2>4. QED
      BY <2>2, <2>3, OneRowChanges
  <1>2. CASE ResolveAtIntake(r)
    BY <1>2, LifecycleTransition DEF ResolveAtIntake, Statuses, Terminal
  <1>3. CASE ApproveAgentLicense(r)
    BY <1>3, LifecycleTransition DEF ApproveAgentLicense, Statuses, Terminal
  <1>4. CASE Reject(r)
    BY <1>4, LifecycleTransition DEF Reject, Statuses, Terminal
  <1>5. CASE Cancel(r)
    BY <1>5, LifecycleTransition DEF Cancel, Statuses, Terminal
  <1>6. CASE Reopen(r)
    BY <1>6, LifecycleTransition DEF Reopen, Statuses, Terminal
  <1>7. CASE Escalate(r)
    <2> DEFINE row == [sr[r] EXCEPT !.escalated = TRUE]
    <2>1. SoundRow(row)
      BY <1>0, <1>7 DEF Escalate, SoundRow, RequestRow, RouteTerminal, Terminal
    <2>2. sr' = [sr EXCEPT ![r] = row]
      BY <1>7 DEF Escalate, TypeOK
    <2>3. QED
      BY <2>1, <2>2, OneRowChanges
  <1>8. CASE ResolveEscalation(r)
    <2> DEFINE row == [sr[r] EXCEPT !.escalated = FALSE]
    <2>1. SoundRow(row)
      BY <1>0 DEF SoundRow, RequestRow
    <2>2. sr' = [sr EXCEPT ![r] = row]
      BY <1>8 DEF ResolveEscalation, TypeOK
    <2>3. QED
      BY <2>1, <2>2, OneRowChanges
  <1>9. CASE Archive(r)
    <2> DEFINE row == [sr[r] EXCEPT !.archived = TRUE]
    <2>1. SoundRow(row)
      BY <1>0, <1>9 DEF Archive, SoundRow, RequestRow, RouteTerminal
    <2>2. sr' = [sr EXCEPT ![r] = row]
      BY <1>9 DEF Archive, TypeOK
    <2>3. QED
      BY <2>1, <2>2, OneRowChanges
  <1>10. CASE Unarchive(r)
    <2> DEFINE row == [sr[r] EXCEPT !.archived = FALSE]
    <2>1. SoundRow(row)
      BY <1>0 DEF SoundRow, RequestRow
    <2>2. sr' = [sr EXCEPT ![r] = row]
      BY <1>10 DEF Unarchive, TypeOK
    <2>3. QED
      BY <2>1, <2>2, OneRowChanges
  <1>11. QED
    BY <1>1, <1>2, <1>3, <1>4, <1>5, <1>6, <1>7, <1>8, <1>9, <1>10 DEF Triage

\* Handing over closes the request without one of the decisions that need a
\* reviewer or an end of the freeze.
LEMMA LifecycleHandedOver ==
    ASSUME TypeOK, LifecycleInv, NEW r \in Requests, NEW d, NEW t, sr' = HandedOver(r, d, t)
    PROVE  LifecycleInv'
  <1> DEFINE row == [sr[r] EXCEPT !.status = "promoted", !.device = d, !.task = t]
  <1>1. SoundRow(row)
    BY DEF LifecycleInv, SoundRow, TypeOK, RequestRow, Decided, Terminal
  <1>2. sr' = [sr EXCEPT ![r] = row]
    BY DEF HandedOver
  <1>3. QED
    BY <1>1, <1>2, OneRowChanges

LEMMA LifecycleNext ==
    ASSUME TypeOK, LifecycleInv, [Next]_vars
    PROVE  LifecycleInv'
  <1>1. CASE UNCHANGED sr
    BY <1>1 DEF LifecycleInv
  <1>2. ASSUME NEW r \in Requests, Intake(r) PROVE LifecycleInv'
    <2>1. PICK type \in RequestTypes, source \in DeviceSources,
               op \in Operators \cup {NoUser}, party \in Parties \cup {NoParty},
               d \in Devices \cup {NoDevice}, duplicate \in BOOLEAN :
                 CreateServiceRequest(r, type, source, op, party, d, duplicate)
      BY <1>2 DEF Intake
    <2> DEFINE status == IF op = NoUser THEN "received" ELSE "in_review"
               row == [NoRow EXCEPT
                         !.status = status, !.type = type, !.source = source,
                         !.reviewer = op, !.review = duplicate, !.party = party,
                         !.device = d]
    <2>2. row.status \in {"received", "in_review"} /\ row.archived = FALSE /\ row.reopens = 0
      BY DEF NoRow
    <2>3. SoundRow(row)
      BY <2>2 DEF SoundRow, Decided
    <2>4. sr' = [sr EXCEPT ![r] = row]
      BY <2>1 DEF CreateServiceRequest
    <2> HIDE DEF row
    <2>5. QED
      BY <2>3, <2>4, OneRowChanges
  <1>3. ASSUME NEW r \in Requests, Triage(r) PROVE LifecycleInv'
    BY <1>3, LifecycleTriage
  <1>4. ASSUME NEW r \in Requests, Link(r) PROVE LifecycleInv'
    <2>1. PICK party, device :
            sr' = [sr EXCEPT ![r] = [@ EXCEPT !.party = party, !.device = device]]
      BY <1>4 DEF Link, LinkBeneficiary
    <2>2. SoundRow([sr[r] EXCEPT !.party = party, !.device = device])
      BY DEF LifecycleInv, SoundRow, TypeOK, RequestRow
    <2>3. QED
      BY <2>1, <2>2, OneRowChanges
  <1>5. ASSUME NEW r \in Requests, HandOver(r) PROVE LifecycleInv'
    <2>1. ASSUME NEW d \in Devices, NEW t \in Tasks, NEW split \in BOOLEAN,
                 Promote(r, d, t, split)
          PROVE  LifecycleInv'
      BY <2>1, LifecycleHandedOver DEF Promote
    <2>2. ASSUME NEW t \in Tasks, MergeIntoExistingTask(r, t) PROVE LifecycleInv'
      BY <2>2, LifecycleHandedOver DEF MergeIntoExistingTask
    <2>3. ASSUME NEW d \in Devices, NEW split \in BOOLEAN, PromoteAborts(r, d, split)
          PROVE  LifecycleInv'
      BY <1>1, <2>3 DEF PromoteAborts
    <2>4. QED
      BY <1>5, <2>1, <2>2, <2>3 DEF HandOver
  <1>6. ASSUME NEW r \in Requests, Gateway(r) \/ ProblemList(r) PROVE UNCHANGED sr
    BY <1>6 DEF Gateway, Admit, Answer, ProblemList, AddProblem, SoftDeleteProblem,
                RestoreProblem
  <1>7. ASSUME Field PROVE UNCHANGED sr
    BY <1>7 DEF Field, FinishTask, StampProblem, StampLost, OpenTransferTask,
                CloseTransferTask
  <1>8. ASSUME UNCHANGED vars PROVE UNCHANGED sr
    BY <1>8 DEF vars
  <1>9. QED
    BY <1>1, <1>2, <1>3, <1>4, <1>5, <1>6, <1>7, <1>8 DEF Next

\* The life of every request: deciding takes a reviewer, an archived request is
\* closed, one that was reopened more than twice is flagged, and a decision ends
\* the freeze.
THEOREM Lifecycle == Spec => []LifecycleInv
  <1>1. Init => LifecycleInv
    BY DEF Init, LifecycleInv, SoundRow, NoRow, Decided
  <1>2. TypeOK /\ LifecycleInv /\ [Next]_vars => LifecycleInv'
    BY LifecycleNext
  <1>3. QED
    BY <1>1, <1>2, TypeCorrect, PTL DEF Spec

\* A decided request has a reviewer and is not frozen, only closed requests are
\* archived, and the third reopening flags the request for good, whatever claims,
\* freezes, decisions and reopenings came before.
THEOREM LifecycleHolds == Spec => []LifecycleIsSound
  <1>1. LifecycleInv => LifecycleIsSound
    BY DEF LifecycleInv, SoundRow, LifecycleIsSound, DecidedIsClaimed, ArchivedIsClosed,
           ReopenedOftenIsFlagged, DecidedIsNotFrozen
  <1>2. QED
    BY <1>1, Lifecycle, PTL

=============================================================================
