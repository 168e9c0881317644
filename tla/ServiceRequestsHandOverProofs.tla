-------------------- MODULE ServiceRequestsHandOverProofs --------------------
(***************************************************************************)
(* The hand-over of requests to field tasks: at most one active emergency  *)
(* task per device, requests and tasks that point at each other, problems  *)
(* that travel with their request, no way back; what a freeze stops; and   *)
(* that the triage code implements EmergencyDesk.                          *)
(***************************************************************************)
EXTENDS ServiceRequestsProofs, ServiceRequestsRefinement

-----------------------------------------------------------------------------
(* One active emergency task per device *)

LEMMA UniqueNext ==
    ASSUME TypeOK, OneActiveEmergencyPerDevice, [Next]_vars
    PROVE  OneActiveEmergencyPerDevice'
  <1>1. CASE UNCHANGED task
    BY <1>1 DEF OneActiveEmergencyPerDevice
  <1>2. ASSUME NEW r \in Requests, NEW d \in Devices, NEW t \in Tasks, NEW split \in BOOLEAN,
               Promote(r, d, t, split)
        PROVE  OneActiveEmergencyPerDevice'
    BY <1>2 DEF Promote, UniqueIndexAdmits, HasActiveEmergency, OneActiveEmergencyPerDevice,
                TypeOK
  <1>3. ASSUME NEW t \in Tasks, FinishTask(t) PROVE OneActiveEmergencyPerDevice'
    BY <1>3 DEF FinishTask, OneActiveEmergencyPerDevice, TypeOK, TaskRow
  <1>4. ASSUME NEW r \in Requests, Triage(r) PROVE UNCHANGED task
    BY <1>4 DEF Triage, ClaimOrTakeOver, ResolveAtIntake, ApproveAgentLicense, Reject, Cancel,
                Reopen, TransitionStatus, Escalate, ResolveEscalation, Archive, Unarchive
  <1>5. ASSUME NEW r \in Requests, Intake(r) \/ Gateway(r) \/ Link(r) \/ ProblemList(r)
        PROVE  UNCHANGED task
    BY <1>5 DEF Intake, CreateServiceRequest, Gateway, Admit, Answer, Link, LinkBeneficiary,
                ProblemList, AddProblem, SoftDeleteProblem, RestoreProblem
  <1>6. ASSUME NEW r \in Requests, HandOver(r) PROVE OneActiveEmergencyPerDevice'
    BY <1>1, <1>2, <1>6 DEF HandOver, PromoteAborts, MergeIntoExistingTask
  <1>7. CASE Field
    BY <1>1, <1>3, <1>7 DEF Field, StampProblem, StampLost, OpenTransferTask, CloseTransferTask
  <1>8. CASE UNCHANGED vars
    BY <1>1, <1>8 DEF vars
  <1>9. QED
    BY <1>1, <1>4, <1>5, <1>6, <1>7, <1>8 DEF Next

\* EM-UNIQ-01, for any number of requests, devices and concurrent calls: promote,
\* with or without an authorised split, and merge leave every device at most one
\* active emergency task.
THEOREM OneActiveEmergency == Spec => []OneActiveEmergencyPerDevice
  <1>1. Init => OneActiveEmergencyPerDevice
    BY DEF Init, OneActiveEmergencyPerDevice, NoTaskRow
  <1>2. TypeOK /\ OneActiveEmergencyPerDevice /\ [Next]_vars => OneActiveEmergencyPerDevice'
    BY UniqueNext
  <1>3. QED
    BY <1>1, <1>2, TypeCorrect, PTL DEF Spec

-----------------------------------------------------------------------------
(* What a step may do to a request *)

\* The fields the hand-over is about.
SameHandOver(r) ==
    /\ sr'[r].task = sr[r].task
    /\ sr[r].status = "promoted" <=> sr'[r].status = "promoted"
    /\ sr[r].status = "promoted" => /\ sr'[r].party = sr[r].party
                                    /\ sr'[r].device = sr[r].device

\* transitionStatus neither enters nor leaves `promoted' for the targets the
\* routes pass, and touches no link.
LEMMA TransitionSameHandOver ==
    ASSUME TypeOK, NEW r \in Requests,
           NEW to \in {"in_review", "resolved_at_intake", "completed", "rejected", "cancelled"},
           TransitionStatus(r, to), NEW q \in Requests
    PROVE  SameHandOver(q)
  <1>1. to \in Statuses
    BY DEF Statuses, Terminal
  <1>2. /\ TransitionRow(r, to).status = to
        /\ TransitionRow(r, to).party = sr[r].party
        /\ TransitionRow(r, to).device = sr[r].device
        /\ TransitionRow(r, to).task = sr[r].task
    BY <1>1, TransitionFields
  <1>3. sr[r].status # "promoted"
    BY TerminalExits DEF TransitionStatus, TransitionAllowed, Terminal
  <1>4. sr' = [sr EXCEPT ![r] = TransitionRow(r, to)]
    BY DEF TransitionStatus
  <1>5. QED
    BY <1>2, <1>3, <1>4 DEF SameHandOver, TypeOK

LEMMA TriageSameHandOver ==
    ASSUME TypeOK, NEW r \in Requests, Triage(r), NEW q \in Requests
    PROVE  SameHandOver(q)
  <1>0. sr[r] \in RequestRow
    BY DEF TypeOK
  <1>1. ASSUME NEW op \in Operators, ClaimOrTakeOver(r, op) PROVE SameHandOver(q)
    BY <1>0, <1>1 DEF ClaimOrTakeOver, Claimable, SameHandOver, TypeOK, RequestRow
  <1>2. CASE ResolveAtIntake(r)
    BY <1>2, TransitionSameHandOver DEF ResolveAtIntake
  <1>3. CASE ApproveAgentLicense(r)
    BY <1>3, TransitionSameHandOver DEF ApproveAgentLicense
  <1>4. CASE Reject(r)
    BY <1>4, TransitionSameHandOver DEF Reject
  <1>5. CASE Cancel(r)
    BY <1>5, TransitionSameHandOver DEF Cancel
  <1>6. CASE Reopen(r)
    BY <1>6, TransitionSameHandOver DEF Reopen
  <1>7. CASE Escalate(r) \/ ResolveEscalation(r)
    BY <1>0, <1>7 DEF Escalate, ResolveEscalation, SameHandOver, TypeOK, RequestRow
  <1>8. CASE Archive(r) \/ Unarchive(r)
    BY <1>0, <1>8 DEF Archive, Unarchive, SameHandOver, TypeOK, RequestRow
  <1>9. QED
    BY <1>1, <1>2, <1>3, <1>4, <1>5, <1>6, <1>7, <1>8 DEF Triage

LEMMA IntakeSameHandOver ==
    ASSUME TypeOK, HandedOverToMatchingTask, NEW r \in Requests, Intake(r), NEW q \in Requests
    PROVE  SameHandOver(q)
  <1>1. PICK type \in RequestTypes, source \in DeviceSources,
             op \in Operators \cup {NoUser}, party \in Parties \cup {NoParty},
             d \in Devices \cup {NoDevice}, duplicate \in BOOLEAN :
               CreateServiceRequest(r, type, source, op, party, d, duplicate)
    BY DEF Intake
  <1> DEFINE row == [NoRow EXCEPT
                       !.status = IF op = NoUser THEN "received" ELSE "in_review",
                       !.type = type, !.source = source, !.reviewer = op,
                       !.review = duplicate, !.party = party, !.device = d]
  <1>2. row.status # "promoted" /\ row.task = NoTask
    BY DEF NoRow
  <1>3. sr' = [sr EXCEPT ![r] = row] /\ sr[r].status = "absent"
    BY <1>1 DEF CreateServiceRequest
  <1>4. sr[r].task = NoTask
    BY <1>3, SentinelAssumption DEF HandedOverToMatchingTask
  <1> HIDE DEF row
  <1>5. QED
    BY <1>2, <1>3, <1>4 DEF SameHandOver, TypeOK

LEMMA LinkSameHandOver ==
    ASSUME TypeOK, NEW r \in Requests, Link(r), NEW q \in Requests
    PROVE  SameHandOver(q)
  <1>1. PICK party, device :
          /\ sr[r].status = "in_review"
          /\ sr' = [sr EXCEPT ![r] = [@ EXCEPT !.party = party, !.device = device]]
    BY DEF Link, LinkBeneficiary, Linkable
  <1>2. QED
    BY <1>1 DEF SameHandOver, TypeOK, RequestRow

\* Promote and merge move an open request onto a task; every other step keeps
\* every hand-over as it was.
LEMMA HandOverSteps ==
    ASSUME TypeOK, HandedOverToMatchingTask, [Next]_vars
    PROVE  \/ \E r \in Requests, d \in Devices, t \in Tasks, split \in BOOLEAN :
                Promote(r, d, t, split)
           \/ \E r \in Requests, t \in Tasks : MergeIntoExistingTask(r, t)
           \/ \A q \in Requests : SameHandOver(q)
  <1>1. ASSUME UNCHANGED sr PROVE \A q \in Requests : SameHandOver(q)
    BY <1>1 DEF SameHandOver
  <1>2. ASSUME NEW r \in Requests, Intake(r) \/ Triage(r) \/ Link(r)
        PROVE  \A q \in Requests : SameHandOver(q)
    BY <1>2, IntakeSameHandOver, TriageSameHandOver, LinkSameHandOver
  <1>3. ASSUME NEW r \in Requests, Gateway(r) \/ ProblemList(r) PROVE UNCHANGED sr
    BY <1>3 DEF Gateway, Admit, Answer, ProblemList, AddProblem, SoftDeleteProblem,
                RestoreProblem
  <1>4. ASSUME Field PROVE UNCHANGED sr
    BY <1>4 DEF Field, FinishTask, StampProblem, StampLost, OpenTransferTask,
                CloseTransferTask
  <1>5. ASSUME NEW r \in Requests, NEW d \in Devices, NEW split \in BOOLEAN,
               PromoteAborts(r, d, split)
        PROVE  UNCHANGED sr
    BY <1>5 DEF PromoteAborts
  <1>6. ASSUME UNCHANGED vars PROVE UNCHANGED sr
    BY <1>6 DEF vars
  <1>7. QED
    BY <1>1, <1>2, <1>3, <1>4, <1>5, <1>6 DEF Next, HandOver

\* Other steps than promote keep every task where it is; it can only end.
LEMMA TaskSteps ==
    ASSUME TypeOK, [Next]_vars,
           ~ \E r \in Requests, d \in Devices, t \in Tasks, split \in BOOLEAN :
               Promote(r, d, t, split)
    PROVE  \A t \in Tasks :
             /\ task'[t].client = task[t].client
             /\ task'[t].device = task[t].device
             /\ task'[t].source = task[t].source
             /\ task'[t].status = "absent" <=> task[t].status = "absent"
             /\ task'[t].status = "active" => task[t].status = "active"
  <1>1. ASSUME NEW t \in Tasks, FinishTask(t)
        PROVE  \A u \in Tasks :
                 /\ task'[u].client = task[u].client
                 /\ task'[u].device = task[u].device
                 /\ task'[u].source = task[u].source
                 /\ task'[u].status = "absent" <=> task[u].status = "absent"
                 /\ task'[u].status = "active" => task[u].status = "active"
    BY <1>1 DEF FinishTask, TypeOK, TaskRow
  <1>2. ASSUME NEW r \in Requests, Triage(r) PROVE UNCHANGED task
    BY <1>2 DEF Triage, ClaimOrTakeOver, ResolveAtIntake, ApproveAgentLicense, Reject, Cancel,
                Reopen, TransitionStatus, Escalate, ResolveEscalation, Archive, Unarchive
  <1>3. ASSUME NEW r \in Requests, Intake(r) \/ Gateway(r) \/ Link(r) \/ ProblemList(r)
        PROVE  UNCHANGED task
    BY <1>3 DEF Intake, CreateServiceRequest, Gateway, Admit, Answer, Link, LinkBeneficiary,
                ProblemList, AddProblem, SoftDeleteProblem, RestoreProblem
  <1>4. ASSUME NEW r \in Requests, HandOver(r) PROVE UNCHANGED task
    BY <1>4 DEF HandOver, PromoteAborts, MergeIntoExistingTask
  <1>5. ASSUME Field PROVE UNCHANGED task \/ \E t \in Tasks : FinishTask(t)
    BY <1>5 DEF Field, StampProblem, StampLost, OpenTransferTask, CloseTransferTask
  <1>6. ASSUME UNCHANGED vars PROVE UNCHANGED task
    BY <1>6 DEF vars
  <1>7. QED
    BY <1>1, <1>2, <1>3, <1>4, <1>5, <1>6 DEF Next

LEMMA MatchingAfterPromote ==
    ASSUME TypeOK, HandedOverToMatchingTask,
           NEW r \in Requests, NEW d \in Devices, NEW t \in Tasks, NEW split \in BOOLEAN,
           Promote(r, d, t, split)
    PROVE  HandedOverToMatchingTask'
  <1>0. sr[r] \in RequestRow
    BY DEF TypeOK
  <1>1. /\ sr'[r].status = "promoted" /\ sr'[r].task = t
        /\ sr'[r].device = d /\ sr'[r].party = sr[r].party
        /\ \A q \in Requests \ {r} : sr'[q] = sr[q]
    BY <1>0 DEF Promote, HandedOver, TypeOK, RequestRow
  <1>2. /\ task'[t] = [status |-> "active", device |-> d, client |-> sr[r].party, source |-> r]
        /\ \A u \in Tasks \ {t} : task'[u] = task[u]
    BY DEF Promote, TypeOK
  <1>3. task[t].status = "absent" /\ sr[r].task = NoTask
    BY SentinelAssumption DEF Promote, PromoteChecks, HandedOverToMatchingTask
  <1>4. ASSUME NEW q \in Requests
        PROVE  /\ sr'[q].task # NoTask <=> sr'[q].status = "promoted"
               /\ sr'[q].status = "promoted" =>
                   /\ task'[sr'[q].task].status # "absent"
                   /\ task'[sr'[q].task].client = sr'[q].party
                   /\ task'[sr'[q].task].device = sr'[q].device
    <2>1. CASE q = r
      BY <1>1, <1>2, <2>1, SentinelAssumption
    <2>2. CASE q # r
      <3>1. sr'[q] = sr[q]
        BY <1>1, <2>2
      <3>2. sr[q].status = "promoted" => sr[q].task \in Tasks \ {t}
        BY <1>3 DEF HandedOverToMatchingTask, TypeOK, RequestRow
      <3>3. QED
        BY <1>2, <3>1, <3>2 DEF HandedOverToMatchingTask
    <2>3. QED
      BY <2>1, <2>2
  <1>5. ASSUME NEW u \in Tasks, task'[u].status # "absent"
        PROVE  task'[u].source \in Requests /\ sr'[task'[u].source].task = u
    <2>1. CASE u = t
      BY <1>1, <1>2, <2>1
    <2>2. CASE u # t
      <3>1. task'[u] = task[u]
        BY <1>2, <2>2
      <3>2. task[u].source \in Requests /\ sr[task[u].source].task = u
        BY <1>5, <3>1 DEF HandedOverToMatchingTask
      <3>3. task[u].source # r
        BY <1>3, <3>2, SentinelAssumption
      <3>4. QED
        BY <1>1, <3>1, <3>2, <3>3
    <2>3. QED
      BY <2>1, <2>2
  <1>6. QED
    BY <1>4, <1>5 DEF HandedOverToMatchingTask

LEMMA MatchingAfterMerge ==
    ASSUME TypeOK, HandedOverToMatchingTask,
           NEW r \in Requests, NEW t \in Tasks, MergeIntoExistingTask(r, t)
    PROVE  HandedOverToMatchingTask'
  <1>0. sr[r] \in RequestRow
    BY DEF TypeOK
  <1>1. /\ sr'[r].status = "promoted" /\ sr'[r].task = t
        /\ sr'[r].device = sr[r].device /\ sr'[r].party = sr[r].party
        /\ \A q \in Requests \ {r} : sr'[q] = sr[q]
    BY <1>0 DEF MergeIntoExistingTask, HandedOver, TypeOK, RequestRow
  <1>2. /\ task' = task /\ task[t].status = "active"
        /\ task[t].client = sr[r].party /\ task[t].device = sr[r].device
    BY DEF MergeIntoExistingTask
  <1>3. sr[r].task = NoTask
    BY SentinelAssumption DEF MergeIntoExistingTask, HandedOverToMatchingTask
  <1>4. ASSUME NEW q \in Requests
        PROVE  /\ sr'[q].task # NoTask <=> sr'[q].status = "promoted"
               /\ sr'[q].status = "promoted" =>
                   /\ task'[sr'[q].task].status # "absent"
                   /\ task'[sr'[q].task].client = sr'[q].party
                   /\ task'[sr'[q].task].device = sr'[q].device
    <2>1. CASE q = r
      BY <1>1, <1>2, <2>1, SentinelAssumption
    <2>2. CASE q # r
      BY <1>1, <1>2, <2>2 DEF HandedOverToMatchingTask
    <2>3. QED
      BY <2>1, <2>2
  <1>5. ASSUME NEW u \in Tasks, task'[u].status # "absent"
        PROVE  task'[u].source \in Requests /\ sr'[task'[u].source].task = u
    <2>1. task[u].source \in Requests /\ sr[task[u].source].task = u
      BY <1>2, <1>5 DEF HandedOverToMatchingTask
    <2>2. task[u].source # r
      BY <1>3, <2>1, SentinelAssumption
    <2>3. QED
      BY <1>1, <1>2, <2>1, <2>2
  <1>6. QED
    BY <1>4, <1>5 DEF HandedOverToMatchingTask

LEMMA MatchingNext ==
    ASSUME TypeOK, HandedOverToMatchingTask, [Next]_vars
    PROVE  HandedOverToMatchingTask'
  <1>1. CASE \E r \in Requests, d \in Devices, t \in Tasks, split \in BOOLEAN :
               Promote(r, d, t, split)
    BY <1>1, MatchingAfterPromote
  <1>2. CASE \E r \in Requests, t \in Tasks : MergeIntoExistingTask(r, t)
    BY <1>2, MatchingAfterMerge
  <1>3. CASE /\ ~ \E r \in Requests, d \in Devices, t \in Tasks, split \in BOOLEAN :
                   Promote(r, d, t, split)
             /\ \A q \in Requests : SameHandOver(q)
    <2>1. \A t \in Tasks :
            /\ task'[t].client = task[t].client
            /\ task'[t].device = task[t].device
            /\ task'[t].source = task[t].source
            /\ task'[t].status = "absent" <=> task[t].status = "absent"
      BY <1>3, TaskSteps
    <2>2. ASSUME NEW q \in Requests
          PROVE  /\ sr'[q].task # NoTask <=> sr'[q].status = "promoted"
                 /\ sr'[q].status = "promoted" =>
                     /\ task'[sr'[q].task].status # "absent"
                     /\ task'[sr'[q].task].client = sr'[q].party
                     /\ task'[sr'[q].task].device = sr'[q].device
      <3>1. sr[q].status = "promoted" => sr[q].task \in Tasks
        BY DEF HandedOverToMatchingTask, TypeOK, RequestRow
      <3>2. QED
        BY <1>3, <2>1, <3>1 DEF SameHandOver, HandedOverToMatchingTask
    <2>3. ASSUME NEW u \in Tasks, task'[u].status # "absent"
          PROVE  task'[u].source \in Requests /\ sr'[task'[u].source].task = u
      BY <1>3, <2>1, <2>3 DEF SameHandOver, HandedOverToMatchingTask
    <2>4. QED
      BY <2>2, <2>3 DEF HandedOverToMatchingTask
  <1>4. QED
    BY <1>1, <1>2, <1>3, HandOverSteps

\* SR-R004, EM-UNIQ-03: a promoted request and its task agree on client and
\* device, each task has a request that opened it, and nobody else is on a task.
THEOREM HandOversMatch == Spec => []HandedOverToMatchingTask
  <1>1. Init => HandedOverToMatchingTask
    BY DEF Init, HandedOverToMatchingTask, NoRow, NoTaskRow
  <1>2. TypeOK /\ HandedOverToMatchingTask /\ [Next]_vars => HandedOverToMatchingTask'
    BY MatchingNext
  <1>3. QED
    BY <1>1, <1>2, TypeCorrect, PTL DEF Spec

-----------------------------------------------------------------------------
(* Problems travel with their request *)

\* The stamp a call still has to write names its request's task too.
ProblemInv ==
    /\ ProblemFollowsItsRequest
    /\ \A p \in Problems :
        problem[p].stamp # NoTask => /\ problem[p].sr # NoRequest
                                     /\ sr[problem[p].sr].task = problem[p].stamp

\* One problem row: its task and its stamp are its request's task.
Follows(row, tasks) ==
    /\ row.task # NoTask => row.sr # NoRequest /\ tasks[row.sr].task = row.task
    /\ row.stamp # NoTask => row.sr # NoRequest /\ tasks[row.sr].task = row.stamp

\* A request that is on a task stays on it.
LEMMA TaskIsKept ==
    ASSUME TypeOK, HandedOverToMatchingTask, [Next]_vars,
           NEW q \in Requests, sr[q].task # NoTask
    PROVE  sr'[q].task = sr[q].task
  <1>1. sr[q].status = "promoted"
    BY DEF HandedOverToMatchingTask
  <1>2. ASSUME NEW r \in Requests, NEW d, NEW t, sr[r].status = "in_review",
               sr' = HandedOver(r, d, t)
        PROVE  sr'[q].task = sr[q].task
    BY <1>1, <1>2 DEF HandedOver, TypeOK
  <1>3. QED
    BY <1>2, HandOverSteps DEF Promote, PromoteChecks, MergeIntoExistingTask, SameHandOver

\* The problems that move go where their request goes.
LEMMA MovedProblemsFollow ==
    ASSUME TypeOK, HandedOverToMatchingTask, ProblemInv, [Next]_vars,
           NEW r \in Requests, NEW t \in Tasks, NEW d,
           sr' = HandedOver(r, d, t), problem' = MovedProblems(r, t)
    PROVE  ProblemInv'
  <1>1. sr'[r].task = t
    BY DEF HandedOver, TypeOK, RequestRow
  <1>2. ASSUME NEW p \in Problems
        PROVE  Follows(problem'[p], sr')
    <2>0. problem[p] \in ProblemRow /\ Follows(problem[p], sr)
      BY DEF ProblemInv, ProblemFollowsItsRequest, Follows, TypeOK
    <2>1. Follows(problem[p], sr')
      BY <2>0, TaskIsKept DEF Follows, ProblemRow
    <2>2. CASE p \in LiveProblems(r) /\ problem[p].task = NoTask
      <3>1. problem'[p] = [problem[p] EXCEPT !.task = t] /\ problem[p].sr = r
        BY <2>2 DEF MovedProblems, LiveProblems
      <3>2. QED
        BY <1>1, <2>0, <2>1, <3>1, SentinelAssumption DEF Follows, ProblemRow
    <2>3. CASE ~(p \in LiveProblems(r) /\ problem[p].task = NoTask)
      BY <2>1, <2>3 DEF MovedProblems
    <2>4. QED
      BY <2>2, <2>3
  <1>3. QED
    BY <1>2 DEF ProblemInv, ProblemFollowsItsRequest, Follows

\* Without a hand-over one problem row is written at a time.
LEMMA ProblemSteps ==
    ASSUME TypeOK, ProblemInv, [Next]_vars,
           ~ \E r \in Requests, d \in Devices, t \in Tasks, split \in BOOLEAN :
               Promote(r, d, t, split),
           ~ \E r \in Requests, t \in Tasks : MergeIntoExistingTask(r, t)
    PROVE  \/ UNCHANGED problem
           \/ \E p \in Problems : \E row \in ProblemRow :
                /\ problem' = [problem EXCEPT ![p] = row]
                /\ Follows(row, sr)
  <1> DEFINE OneRow == \E p \in Problems : \E row \in ProblemRow :
                         /\ problem' = [problem EXCEPT ![p] = row]
                         /\ Follows(row, sr)
  <1>0. ASSUME NEW p \in Problems
        PROVE  problem[p] \in ProblemRow /\ Follows(problem[p], sr)
    BY DEF ProblemInv, ProblemFollowsItsRequest, Follows, TypeOK
  <1>1. ASSUME NEW r \in Requests, NEW p \in Problems, NEW d \in Devices,
               NEW stamp \in Tasks \cup {NoTask}, AddProblem(r, p, d, stamp)
        PROVE  OneRow
    <2> DEFINE row == [NoProblem EXCEPT !.sr = r, !.device = d, !.stamp = stamp]
    <2>1. row \in ProblemRow /\ row.task = NoTask /\ row.sr = r /\ row.stamp = stamp
      BY DEF NoProblem, ProblemRow
    <2>2. stamp = NoTask \/ stamp = sr[r].task
      BY <1>1 DEF AddProblem
    <2>3. problem' = [problem EXCEPT ![p] = row]
      BY <1>1 DEF AddProblem
    <2> HIDE DEF row
    <2>4. QED
      BY <2>1, <2>2, <2>3, SentinelAssumption DEF Follows
  <1>2. ASSUME NEW p \in Problems, NEW b \in BOOLEAN, problem' = [problem EXCEPT ![p].deleted = b]
        PROVE  OneRow
    <2> DEFINE row == [problem[p] EXCEPT !.deleted = b]
    <2>1. row \in ProblemRow /\ Follows(row, sr)
      BY <1>0 DEF ProblemRow, Follows
    <2>2. problem' = [problem EXCEPT ![p] = row]
      BY <1>2 DEF TypeOK
    <2> HIDE DEF row
    <2>3. QED
      BY <2>1, <2>2
  <1>3. ASSUME NEW p \in Problems, StampProblem(p) PROVE OneRow
    <2> DEFINE row == [problem[p] EXCEPT !.task = Stamped(p), !.stamp = NoTask]
    <2>1. row \in ProblemRow
      BY <1>0 DEF ProblemRow, Stamped
    <2>2. Follows(row, sr)
      BY <1>0, <1>3 DEF ProblemRow, Stamped, StampProblem, Follows
    <2>3. problem' = [problem EXCEPT ![p] = row]
      BY <1>3 DEF StampProblem
    <2> HIDE DEF row
    <2>4. QED
      BY <2>1, <2>2, <2>3
  <1>4. ASSUME NEW p \in Problems, StampLost(p) PROVE OneRow
    <2> DEFINE row == [problem[p] EXCEPT !.stamp = NoTask]
    <2>1. row \in ProblemRow /\ Follows(row, sr)
      BY <1>0 DEF ProblemRow, Follows
    <2>2. problem' = [problem EXCEPT ![p] = row]
      BY <1>4 DEF StampLost, TypeOK
    <2> HIDE DEF row
    <2>3. QED
      BY <2>1, <2>2
  <1> HIDE DEF OneRow
  <1>5. ASSUME NEW r \in Requests, ProblemList(r) PROVE OneRow
    BY <1>1, <1>2, <1>5 DEF ProblemList, SoftDeleteProblem, RestoreProblem
  <1>6. ASSUME Field PROVE OneRow \/ UNCHANGED problem
    BY <1>3, <1>4, <1>6 DEF Field, FinishTask, OpenTransferTask, CloseTransferTask
  <1>7. ASSUME NEW r \in Requests, Triage(r) PROVE UNCHANGED problem
    BY <1>7 DEF Triage, ClaimOrTakeOver, ResolveAtIntake, ApproveAgentLicense, Reject, Cancel,
                Reopen, TransitionStatus, Escalate, ResolveEscalation, Archive, Unarchive
  <1>8. ASSUME NEW r \in Requests, Intake(r) \/ Gateway(r) \/ Link(r) PROVE UNCHANGED problem
    BY <1>8 DEF Intake, CreateServiceRequest, Gateway, Admit, Answer, Link, LinkBeneficiary
  <1>9. ASSUME NEW r \in Requests, HandOver(r) PROVE UNCHANGED problem
    BY <1>9 DEF HandOver, PromoteAborts
  <1>10. ASSUME UNCHANGED vars PROVE UNCHANGED problem
    BY <1>10 DEF vars
  <1>11. QED
    BY <1>5, <1>6, <1>7, <1>8, <1>9, <1>10 DEF Next, OneRow

LEMMA ProblemNext ==
    ASSUME TypeOK, HandedOverToMatchingTask, ProblemInv, [Next]_vars
    PROVE  ProblemInv'
  <1>1. ASSUME NEW r \in Requests, NEW d \in Devices, NEW t \in Tasks, NEW split \in BOOLEAN,
               Promote(r, d, t, split)
        PROVE  ProblemInv'
    BY <1>1, MovedProblemsFollow DEF Promote
  <1>2. ASSUME NEW r \in Requests, NEW t \in Tasks, MergeIntoExistingTask(r, t)
        PROVE  ProblemInv'
    BY <1>2, MovedProblemsFollow DEF MergeIntoExistingTask
  <1>3. ASSUME NEW row \in ProblemRow, Follows(row, sr) PROVE Follows(row, sr')
    BY <1>3, TaskIsKept DEF Follows, ProblemRow
  <1>4. ASSUME NEW p \in Problems
        PROVE  problem[p] \in ProblemRow /\ Follows(problem[p], sr)
    BY DEF ProblemInv, ProblemFollowsItsRequest, Follows, TypeOK
  <1>5. CASE UNCHANGED problem
    BY <1>3, <1>4, <1>5 DEF ProblemInv, ProblemFollowsItsRequest, Follows
  <1>6. ASSUME NEW p \in Problems, NEW row \in ProblemRow,
               problem' = [problem EXCEPT ![p] = row], Follows(row, sr)
        PROVE  ProblemInv'
    <2>1. ASSUME NEW q \in Problems PROVE Follows(problem'[q], sr')
      BY <1>3, <1>4, <1>6 DEF TypeOK
    <2>2. QED
      BY <2>1 DEF ProblemInv, ProblemFollowsItsRequest, Follows
  <1>7. QED
    BY <1>1, <1>2, <1>5, <1>6, ProblemSteps

\* A problem is on its own request's task or on none, also when the wizard's
\* second statement runs late or never.
THEOREM ProblemsFollowRequests == Spec => []ProblemFollowsItsRequest
  <1>1. Init => ProblemInv
    BY DEF Init, ProblemInv, ProblemFollowsItsRequest, NoProblem
  <1>2. TypeOK /\ HandedOverToMatchingTask /\ ProblemInv /\ [Next]_vars => ProblemInv'
    BY ProblemNext
  <1>3. ProblemInv => ProblemFollowsItsRequest
    BY DEF ProblemInv
  <1>4. QED
    BY <1>1, <1>2, <1>3, TypeCorrect, HandOversMatch, PTL DEF Spec

-----------------------------------------------------------------------------
(* No way back *)

\* A row that is rewritten was open, or keeps what HandedOverIsFinal is about.
Closed(row) == row.status \in {"promoted", "completed"}
SameOutcome(old, new) ==
    /\ new.status = old.status
    /\ new.party = old.party
    /\ new.device = old.device
    /\ new.task = old.task
    /\ new.reviewer = old.reviewer

LEMMA RewrittenRow ==
    ASSUME TypeOK, NEW r \in Requests, NEW row, sr' = [sr EXCEPT ![r] = row],
           Closed(sr[r]) => SameOutcome(sr[r], row),
           NEW q \in Requests, Closed(sr[q])
    PROVE  SameOutcome(sr[q], sr'[q])
  BY DEF TypeOK, SameOutcome

LEMMA TriageKeepsOutcome ==
    ASSUME TypeOK, NEW r \in Requests, Triage(r), NEW q \in Requests, Closed(sr[q])
    PROVE  SameOutcome(sr[q], sr'[q])
  <1>0. sr[r] \in RequestRow
    BY DEF TypeOK
  <1>1. ASSUME NEW to \in Statuses, TransitionStatus(r, to), to # "promoted"
        PROVE  SameOutcome(sr[q], sr'[q])
    <2>1. ~Closed(sr[r])
      BY <1>1, TerminalExits DEF TransitionStatus, TransitionAllowed, Closed, Terminal
    <2>2. QED
      BY <1>1, <2>1, RewrittenRow DEF TransitionStatus
  <1>2. ASSUME NEW op \in Operators, ClaimOrTakeOver(r, op) PROVE SameOutcome(sr[q], sr'[q])
    <2>1. ~Closed(sr[r])
      BY <1>2 DEF ClaimOrTakeOver, Claimable, Closed
    <2>2. QED
      BY <1>2, <2>1, RewrittenRow DEF ClaimOrTakeOver
  <1>3. CASE \/ ResolveAtIntake(r) \/ ApproveAgentLicense(r) \/ Reject(r)
             \/ Cancel(r) \/ Reopen(r)
    BY <1>1, <1>3 DEF ResolveAtIntake, ApproveAgentLicense, Reject, Cancel, Reopen, Statuses,
                      Terminal
  <1>4. CASE Escalate(r) \/ ResolveEscalation(r)
    BY <1>0, <1>4 DEF Escalate, ResolveEscalation, SameOutcome, TypeOK, RequestRow
  <1>5. CASE Archive(r) \/ Unarchive(r)
    BY <1>0, <1>5 DEF Archive, Unarchive, SameOutcome, TypeOK, RequestRow
  <1>6. QED
    BY <1>2, <1>3, <1>4, <1>5 DEF Triage

LEMMA OutcomeIsKept ==
    ASSUME TypeOK, [Next]_vars, NEW q \in Requests, Closed(sr[q])
    PROVE  SameOutcome(sr[q], sr'[q])
  <1>1. CASE UNCHANGED sr
    BY <1>1 DEF SameOutcome
  <1>2. ASSUME NEW r \in Requests, Triage(r) PROVE SameOutcome(sr[q], sr'[q])
    BY <1>2, TriageKeepsOutcome
  <1>3. ASSUME NEW r \in Requests, NEW row, sr' = [sr EXCEPT ![r] = row], ~Closed(sr[r])
        PROVE  SameOutcome(sr[q], sr'[q])
    BY <1>3, RewrittenRow
  <1>4. ASSUME NEW r \in Requests, Intake(r) PROVE SameOutcome(sr[q], sr'[q])
    BY <1>3, <1>4 DEF Intake, CreateServiceRequest, Closed
  <1>5. ASSUME NEW r \in Requests, Link(r) PROVE SameOutcome(sr[q], sr'[q])
    <2>1. PICK p \in Parties \cup {NoParty}, d \in Devices \cup {NoDevice}, change \in BOOLEAN :
               LinkBeneficiary(r, p, d, change)
      BY <1>5 DEF Link
    <2>2. sr[r].status = "in_review"
      BY <2>1 DEF LinkBeneficiary, Linkable
    <2>3. PICK party, device : sr' = [sr EXCEPT ![r] = [sr[r] EXCEPT !.party = party,
                                                                     !.device = device]]
      BY <2>1 DEF LinkBeneficiary
    <2>4. QED
      BY <1>3, <2>2, <2>3 DEF Closed
  <1>6. ASSUME NEW r \in Requests, HandOver(r) PROVE SameOutcome(sr[q], sr'[q])
    BY <1>1, <1>3, <1>6 DEF HandOver, Promote, PromoteChecks, PromoteAborts,
                            MergeIntoExistingTask, HandedOver, Closed
  <1>7. ASSUME NEW r \in Requests, Gateway(r) \/ ProblemList(r) PROVE UNCHANGED sr
    BY <1>7 DEF Gateway, Admit, Answer, ProblemList, AddProblem, SoftDeleteProblem,
                RestoreProblem
  <1>8. ASSUME Field PROVE UNCHANGED sr
    BY <1>8 DEF Field, FinishTask, StampProblem, StampLost, OpenTransferTask,
                CloseTransferTask
  <1>9. ASSUME UNCHANGED vars PROVE UNCHANGED sr
    BY <1>9 DEF vars
  <1>10. QED
    BY <1>1, <1>2, <1>4, <1>5, <1>6, <1>7, <1>8, <1>9 DEF Next

\* SR-R011: a hand-over and an approval are final.  No later claim, relink,
\* reopening or second hand-over, however the calls interleave, rewrites them.
THEOREM HandOversAreFinal == Spec => HandedOverIsFinal
  <1>1. TypeOK /\ [Next]_vars =>
          [\A r \in Requests :
              sr[r].status \in {"promoted", "completed"} =>
                  /\ sr'[r].status = sr[r].status
                  /\ sr'[r].party = sr[r].party
                  /\ sr'[r].device = sr[r].device
                  /\ sr'[r].task = sr[r].task
                  /\ sr'[r].reviewer = sr[r].reviewer]_vars
    BY OutcomeIsKept DEF Closed, SameOutcome
  <1>2. QED
    BY <1>1, TypeCorrect, PTL DEF Spec, HandedOverIsFinal

-----------------------------------------------------------------------------
(* The freeze *)

Frozen(q) == sr[q].escalated /\ \A call \in GatedCalls : <<q, call>> \notin admitted

\* What a step may do to the row and to the problems of a frozen request.
RowLeftAlone(q) ==
    \/ [sr'[q] EXCEPT !.escalated = TRUE, !.archived = sr[q].archived] = sr[q]
    \/ sr'[q] = [sr[q] EXCEPT !.status = "rejected", !.escalated = FALSE]
SameProblems(q) == LiveProblems(q)' = LiveProblems(q)

\* Only a filed request is frozen.
FrozenIsFiled == \A q \in Requests : sr[q].status = "absent" => ~sr[q].escalated

\* A frozen row with its two marks put back is the row it was.
LEMMA MarksPutBack ==
    ASSUME NEW old \in RequestRow, old.escalated, NEW b \in BOOLEAN, NEW new,
           \/ new = [old EXCEPT !.escalated = b]
           \/ new = [old EXCEPT !.archived = b]
           \/ new = old
    PROVE  [new EXCEPT !.escalated = TRUE, !.archived = old.archived] = old
  <1>1. /\ [[old EXCEPT !.escalated = b] EXCEPT !.escalated = TRUE,
                                                !.archived = old.archived] = old
        /\ [[old EXCEPT !.archived = b] EXCEPT !.escalated = TRUE,
                                               !.archived = old.archived] = old
        /\ [old EXCEPT !.escalated = TRUE, !.archived = old.archived] = old
    BY DEF RequestRow
  <1>2. QED
    BY <1>1, Zenon

LEMMA SameRowIsLeftAlone ==
    ASSUME TypeOK, NEW q \in Requests, Frozen(q), sr'[q] = sr[q]
    PROVE  RowLeftAlone(q)
  <1>1. sr[q] \in RequestRow /\ sr[q].escalated
    BY DEF TypeOK, Frozen
  <1>2. [sr[q] EXCEPT !.escalated = TRUE, !.archived = sr[q].archived] = sr[q]
    BY <1>1, MarksPutBack
  <1>3. QED
    BY <1>2 DEF RowLeftAlone

\* An action on another request's row does not touch the frozen one's.
LEMMA OtherRowIsLeftAlone ==
    ASSUME TypeOK, NEW q \in Requests, Frozen(q), NEW r \in Requests, r # q,
           NEW row, sr' = [sr EXCEPT ![r] = row]
    PROVE  RowLeftAlone(q)
  <1>1. sr'[q] = sr[q]
    BY DEF TypeOK
  <1>2. QED
    BY <1>1, SameRowIsLeftAlone

\* Of the status transitions a freeze lets only the rejection pass.
LEMMA FrozenTransition ==
    ASSUME TypeOK, NEW q \in Requests, Frozen(q), NEW to \in Statuses,
           TransitionStatus(q, to)
    PROVE  RowLeftAlone(q)
  <1>1. to = "rejected" /\ ~IsReopen(q, to) /\ to \in Terminal
    BY DEF Frozen, TransitionStatus, TransitionAllowed, IsReopen, Terminal
  <1>2. sr[q] \in RequestRow /\ sr[q].reopens \in Nat /\ sr[q].review \in BOOLEAN
    BY TypesAssumption DEF TypeOK, RequestRow
  <1>3. sr'[q] = TransitionRow(q, to)
    BY DEF TransitionStatus, TypeOK
  <1>4. TransitionRow(q, to) = [sr[q] EXCEPT !.status = "rejected", !.escalated = FALSE]
    <2>1. sr[q].reopens + 0 = sr[q].reopens
      BY <1>2
    <2>2. (sr[q].review \/ FALSE) = sr[q].review
      BY <1>2
    <2>3. QED
      BY <1>1, <1>2, <2>1, <2>2 DEF TransitionRow, RequestRow
  <1>5. QED
    BY <1>3, <1>4 DEF RowLeftAlone

LEMMA FrozenTriage ==
    ASSUME TypeOK, NEW q \in Requests, Frozen(q), NEW r \in Requests, Triage(r)
    PROVE  RowLeftAlone(q)
  <1>0. sr[q] \in RequestRow
    BY DEF TypeOK
  <1>1. ASSUME NEW to \in Statuses, TransitionStatus(r, to) PROVE RowLeftAlone(q)
    <2>1. CASE r = q
      BY <1>1, <2>1, FrozenTransition
    <2>2. CASE r # q
      BY <1>1, <2>2, OtherRowIsLeftAlone DEF TransitionStatus
    <2>3. QED
      BY <2>1, <2>2
  <1>2. ASSUME NEW op \in Operators, ClaimOrTakeOver(r, op) PROVE RowLeftAlone(q)
    BY <1>2, OtherRowIsLeftAlone DEF ClaimOrTakeOver, Claimable, Frozen
  <1>3. CASE \/ ResolveAtIntake(r) \/ ApproveAgentLicense(r) \/ Reject(r)
             \/ Cancel(r) \/ Reopen(r)
    BY <1>1, <1>3 DEF ResolveAtIntake, ApproveAgentLicense, Reject, Cancel, Reopen, Statuses,
                      Terminal
  <1>4. ASSUME NEW b \in BOOLEAN, \/ sr' = [sr EXCEPT ![r].escalated = b]
                                  \/ sr' = [sr EXCEPT ![r].archived = b]
        PROVE  RowLeftAlone(q)
    <2>1. CASE r = q
      <3>1. \/ sr'[q] = [sr[q] EXCEPT !.escalated = b]
            \/ sr'[q] = [sr[q] EXCEPT !.archived = b]
        BY <1>4, <2>1 DEF TypeOK
      <3>2. [sr'[q] EXCEPT !.escalated = TRUE, !.archived = sr[q].archived] = sr[q]
        <4>1. sr[q].escalated
          BY DEF Frozen
        <4>2. b \in BOOLEAN
          BY <1>4
        <4>3. QED
          BY <1>0, <3>1, <4>1, <4>2, MarksPutBack
      <3>3. QED
        BY <3>2 DEF RowLeftAlone
    <2>2. CASE r # q
      <3>1. sr'[q] = sr[q]
        BY <1>4, <2>2 DEF TypeOK
      <3>2. QED
        BY <3>1, SameRowIsLeftAlone
    <2>3. QED
      BY <2>1, <2>2
  <1>5. CASE Escalate(r) \/ ResolveEscalation(r) \/ Archive(r) \/ Unarchive(r)
    BY <1>4, <1>5 DEF Escalate, ResolveEscalation, Archive, Unarchive
  <1>6. QED
    BY <1>2, <1>3, <1>5 DEF Triage

LEMMA FrozenRow ==
    ASSUME TypeOK, FrozenIsFiled, [Next]_vars, NEW q \in Requests, Frozen(q)
    PROVE  RowLeftAlone(q)
  <1>1. CASE UNCHANGED sr
    BY <1>1, SameRowIsLeftAlone
  <1>2. ASSUME NEW r \in Requests, Triage(r) PROVE RowLeftAlone(q)
    BY <1>2, FrozenTriage
  <1>3. ASSUME NEW r \in Requests, Intake(r) PROVE RowLeftAlone(q)
    <2>1. r # q
      BY <1>3 DEF Intake, CreateServiceRequest, FrozenIsFiled, Frozen
    <2>2. QED
      BY <1>3, <2>1, OtherRowIsLeftAlone DEF Intake, CreateServiceRequest
  <1>4. ASSUME NEW r \in Requests, Link(r) PROVE RowLeftAlone(q)
    <2>1. r # q
      BY <1>4 DEF Link, LinkBeneficiary, Handles, Frozen, GatedCalls
    <2>2. QED
      BY <1>4, <2>1, OtherRowIsLeftAlone DEF Link, LinkBeneficiary
  <1>5. ASSUME NEW r \in Requests, HandOver(r) PROVE RowLeftAlone(q)
    <2>1. CASE \E d \in Devices, split \in BOOLEAN : PromoteAborts(r, d, split)
      BY <1>1, <2>1 DEF PromoteAborts
    <2>2. ASSUME NEW d, NEW t, sr' = HandedOver(r, d, t),
                 Handles(r, "promote") \/ Handles(r, "merge")
          PROVE  RowLeftAlone(q)
      <3>1. r # q
        BY <2>2 DEF Handles, Frozen, GatedCalls
      <3>2. QED
        BY <2>2, <3>1, OtherRowIsLeftAlone DEF HandedOver
    <2>3. QED
      BY <1>5, <2>1, <2>2 DEF HandOver, Promote, MergeIntoExistingTask
  <1>6. ASSUME NEW r \in Requests, Gateway(r) \/ ProblemList(r) PROVE UNCHANGED sr
    BY <1>6 DEF Gateway, Admit, Answer, ProblemList, AddProblem, SoftDeleteProblem,
                RestoreProblem
  <1>7. ASSUME Field PROVE UNCHANGED sr
    BY <1>7 DEF Field, FinishTask, StampProblem, StampLost, OpenTransferTask,
                CloseTransferTask
  <1>8. ASSUME UNCHANGED vars PROVE UNCHANGED sr
    BY <1>8 DEF vars
  <1>9. QED
    BY <1>1, <1>2, <1>3, <1>4, <1>5, <1>6, <1>7, <1>8 DEF Next

\* Two versions of one problem row count alike for request q.
SameFor(q, old, new) ==
    (old.sr = q /\ ~old.deleted) <=> (new.sr = q /\ ~new.deleted)

LEMMA SameForAll ==
    ASSUME NEW q \in Requests, \A p \in Problems : SameFor(q, problem[p], problem'[p])
    PROVE  SameProblems(q)
  BY DEF SameProblems, LiveProblems, SameFor

LEMMA OneProblemSameFor ==
    ASSUME TypeOK, NEW q \in Requests, NEW p \in Problems, NEW row,
           problem' = [problem EXCEPT ![p] = row], SameFor(q, problem[p], row)
    PROVE  SameProblems(q)
  <1>1. ASSUME NEW u \in Problems PROVE SameFor(q, problem[u], problem'[u])
    BY DEF TypeOK, SameFor
  <1>2. QED
    BY <1>1, SameForAll

\* The problem list is written by calls of its own request only; a hand-over and
\* a stamp write the task of a problem, not whose it is.
LEMMA FrozenProblems ==
    ASSUME TypeOK, [Next]_vars, NEW q \in Requests, Frozen(q)
    PROVE  SameProblems(q)
  <1>1. CASE UNCHANGED problem
    BY <1>1 DEF SameProblems, LiveProblems
  <1>2. ASSUME NEW r \in Requests, ProblemList(r) PROVE SameProblems(q)
    <2>0. r # q
      BY <1>2 DEF ProblemList, AddProblem, SoftDeleteProblem, RestoreProblem, Handles, Frozen,
                  GatedCalls
    <2>1. ASSUME NEW p \in Problems, NEW d \in Devices, NEW stamp \in Tasks \cup {NoTask},
                 AddProblem(r, p, d, stamp)
          PROVE  SameProblems(q)
      <3> DEFINE row == [NoProblem EXCEPT !.sr = r, !.device = d, !.stamp = stamp]
      <3>1. row.sr = r
        BY DEF NoProblem
      <3>2. problem[p].sr = NoRequest /\ problem' = [problem EXCEPT ![p] = row]
        BY <2>1 DEF AddProblem
      <3> HIDE DEF row
      <3>3. SameFor(q, problem[p], row)
        BY <2>0, <3>1, <3>2, SentinelAssumption DEF SameFor
      <3>4. QED
        BY <3>2, <3>3, OneProblemSameFor
    <2>2. ASSUME NEW p \in Problems, NEW b \in BOOLEAN, problem[p].sr = r,
                 problem' = [problem EXCEPT ![p].deleted = b]
          PROVE  SameProblems(q)
      <3> DEFINE row == [problem[p] EXCEPT !.deleted = b]
      <3>1. row.sr = r
        BY <2>2 DEF TypeOK, ProblemRow
      <3>2. problem' = [problem EXCEPT ![p] = row]
        BY <2>2 DEF TypeOK
      <3> HIDE DEF row
      <3>3. SameFor(q, problem[p], row)
        BY <2>0, <2>2, <3>1 DEF SameFor
      <3>4. QED
        BY <3>2, <3>3, OneProblemSameFor
    <2>3. QED
      BY <1>2, <2>1, <2>2 DEF ProblemList, SoftDeleteProblem, RestoreProblem, LiveProblems
  <1>3. ASSUME NEW r \in Requests, HandOver(r) PROVE SameProblems(q)
    <2>1. ASSUME NEW t, problem' = MovedProblems(r, t) PROVE SameProblems(q)
      <3>1. ASSUME NEW u \in Problems PROVE SameFor(q, problem[u], problem'[u])
        BY <2>1 DEF MovedProblems, SameFor, TypeOK, ProblemRow
      <3>2. QED
        BY <3>1, SameForAll
    <2>2. QED
      BY <1>1, <1>3, <2>1 DEF HandOver, Promote, PromoteAborts, MergeIntoExistingTask
  <1>4. ASSUME NEW p \in Problems, StampProblem(p) \/ StampLost(p) PROVE SameProblems(q)
    <2>1. PICK row : /\ row.sr = problem[p].sr /\ row.deleted = problem[p].deleted
                     /\ problem' = [problem EXCEPT ![p] = row]
      <3>1. CASE StampProblem(p)
        <4> DEFINE row == [problem[p] EXCEPT !.task = Stamped(p), !.stamp = NoTask]
        <4>1. row.sr = problem[p].sr /\ row.deleted = problem[p].deleted
          BY DEF TypeOK, ProblemRow
        <4>2. QED
          BY <3>1, <4>1 DEF StampProblem
      <3>2. CASE StampLost(p)
        <4> DEFINE row == [problem[p] EXCEPT !.stamp = NoTask]
        <4>1. row.sr = problem[p].sr /\ row.deleted = problem[p].deleted
          BY DEF TypeOK, ProblemRow
        <4>2. QED
          BY <3>2, <4>1 DEF StampLost
      <3>3. QED
        BY <1>4, <3>1, <3>2
    <2>2. SameFor(q, problem[p], row)
      BY <2>1 DEF SameFor
    <2>3. QED
      BY <2>1, <2>2, OneProblemSameFor
  <1>5. CASE Field
    BY <1>1, <1>4, <1>5 DEF Field, FinishTask, OpenTransferTask, CloseTransferTask
  <1>6. ASSUME NEW r \in Requests, Triage(r) PROVE UNCHANGED problem
    BY <1>6 DEF Triage, ClaimOrTakeOver, ResolveAtIntake, ApproveAgentLicense, Reject, Cancel,
                Reopen, TransitionStatus, Escalate, ResolveEscalation, Archive, Unarchive
  <1>7. ASSUME NEW r \in Requests, Intake(r) \/ Gateway(r) \/ Link(r) PROVE UNCHANGED problem
    BY <1>7 DEF Intake, CreateServiceRequest, Gateway, Admit, Answer, Link, LinkBeneficiary
  <1>8. ASSUME UNCHANGED vars PROVE UNCHANGED problem
    BY <1>8 DEF vars
  <1>9. QED
    BY <1>1, <1>2, <1>3, <1>5, <1>6, <1>7, <1>8 DEF Next

\* A filed request stays filed, and escalating needs one.
LEMMA FiledNext ==
    ASSUME TypeOK, FrozenIsFiled, [Next]_vars
    PROVE  FrozenIsFiled'
  <1>1. CASE UNCHANGED sr
    BY <1>1 DEF FrozenIsFiled
  <1>2. ASSUME NEW r \in Requests, NEW row, sr' = [sr EXCEPT ![r] = row],
               row.status = "absent" => ~row.escalated
        PROVE  FrozenIsFiled'
    BY <1>2 DEF FrozenIsFiled, TypeOK
  <1>3. ASSUME NEW r \in Requests, NEW to \in Statuses, TransitionStatus(r, to)
        PROVE  FrozenIsFiled'
    <2>1. TransitionRow(r, to).status # "absent"
      BY TransitionFields DEF Statuses, Terminal
    <2>2. QED
      BY <1>2, <1>3, <2>1 DEF TransitionStatus
  <1>4. ASSUME NEW r \in Requests, Triage(r) PROVE FrozenIsFiled'
    <2>0. sr[r] \in RequestRow
      BY DEF TypeOK
    <2>1. CASE \/ ResolveAtIntake(r) \/ ApproveAgentLicense(r) \/ Reject(r)
               \/ Cancel(r) \/ Reopen(r)
      BY <1>3, <2>1 DEF ResolveAtIntake, ApproveAgentLicense, Reject, Cancel, Reopen, Statuses,
                        Terminal
    <2>2. ASSUME NEW op \in Operators, ClaimOrTakeOver(r, op) PROVE FrozenIsFiled'
      <3>1. [sr[r] EXCEPT !.reviewer = op, !.status = "in_review"].status = "in_review"
        BY <2>0 DEF RequestRow
      <3>2. QED
        BY <1>2, <2>2, <3>1 DEF ClaimOrTakeOver
    <2>3. CASE Escalate(r) \/ ResolveEscalation(r) \/ Archive(r) \/ Unarchive(r)
      BY <2>0, <2>3 DEF Escalate, ResolveEscalation, Archive, Unarchive, FrozenIsFiled, TypeOK,
                        RequestRow
    <2>4. QED
      BY <1>4, <2>1, <2>2, <2>3 DEF Triage
  <1>5. ASSUME NEW r \in Requests, Intake(r) PROVE FrozenIsFiled'
    <2>1. PICK row : row.escalated = FALSE /\ sr' = [sr EXCEPT ![r] = row]
      BY <1>5 DEF Intake, CreateServiceRequest, NoRow
    <2>2. QED
      BY <1>2, <2>1
  <1>6. ASSUME NEW r \in Requests, Link(r) PROVE FrozenIsFiled'
    BY <1>6 DEF Link, LinkBeneficiary, Linkable, FrozenIsFiled, TypeOK, RequestRow
  <1>7. ASSUME NEW r \in Requests, HandOver(r) PROVE FrozenIsFiled'
    <2>1. ASSUME NEW d, NEW t, sr' = HandedOver(r, d, t) PROVE FrozenIsFiled'
      BY <2>1 DEF HandedOver, FrozenIsFiled, TypeOK, RequestRow
    <2>2. QED
      BY <1>1, <1>7, <2>1 DEF HandOver, Promote, PromoteAborts, MergeIntoExistingTask
  <1>8. ASSUME NEW r \in Requests, Gateway(r) \/ ProblemList(r) PROVE UNCHANGED sr
    BY <1>8 DEF Gateway, Admit, Answer, ProblemList, AddProblem, SoftDeleteProblem,
                RestoreProblem
  <1>9. ASSUME Field PROVE UNCHANGED sr
    BY <1>9 DEF Field, FinishTask, StampProblem, StampLost, OpenTransferTask,
                CloseTransferTask
  <1>10. ASSUME UNCHANGED vars PROVE UNCHANGED sr
    BY <1>10 DEF vars
  <1>11. QED
    BY <1>1, <1>4, <1>5, <1>6, <1>7, <1>8, <1>9, <1>10 DEF Next

\* SR-ESC-01, for any number of operators and calls in flight: once its admitted
\* calls are answered, a frozen request is written by resolve-escalation, a
\* rejection and the archive mark only, and its problem list by nobody.
THEOREM FreezeHolds == Spec => FrozenIsLeftAlone
  <1>1. Init => FrozenIsFiled
    BY DEF Init, FrozenIsFiled, NoRow
  <1>2. TypeOK /\ FrozenIsFiled /\ [Next]_vars => FrozenIsFiled'
    BY FiledNext
  <1>3. TypeOK /\ FrozenIsFiled /\ [Next]_vars =>
          [\A r \in Requests :
              (sr[r].escalated /\ \A call \in GatedCalls : <<r, call>> \notin admitted) =>
                  /\ \/ [sr'[r] EXCEPT !.escalated = TRUE, !.archived = sr[r].archived] = sr[r]
                     \/ sr'[r] = [sr[r] EXCEPT !.status = "rejected", !.escalated = FALSE]
                  /\ LiveProblems(r)' = LiveProblems(r)]_vars
    BY FrozenRow, FrozenProblems DEF Frozen, RowLeftAlone, SameProblems
  <1>4. QED
    BY <1>1, <1>2, <1>3, TypeCorrect, PTL DEF Spec, FrozenIsLeftAlone

-----------------------------------------------------------------------------
(* The desk is implemented *)

\* The three things the desk shows.
ReportOf == [r \in Requests |-> Stage(sr[r].status)]
VisitOf == [d \in Devices |-> ActiveTask(d)]
HandedToOf == [r \in Requests |-> sr[r].task]

LEMMA StageValues ==
    /\ Stage("absent") = "none"
    /\ Stage("received") = "open" /\ Stage("in_review") = "open"
    /\ Stage("resolved_at_intake") = "shut" /\ Stage("rejected") = "shut"
    /\ Stage("cancelled") = "shut"
    /\ Stage("completed") = "approved"
    /\ Stage("promoted") = "handed"
  BY DEF Stage

\* The visit of a device is its one active task, before and after a step.
LEMMA VisitIsTask ==
    ASSUME OneActiveEmergencyPerDevice, NEW d \in Devices, NEW t \in Tasks,
           task[t].status = "active", task[t].device = d
    PROVE  ActiveTask(d) = t
  <1>1. HasActiveEmergency(d)
    BY DEF HasActiveEmergency
  <1>2. \A u \in Tasks : task[u].status = "active" /\ task[u].device = d <=> u = t
    BY DEF OneActiveEmergencyPerDevice
  <1>3. (CHOOSE u \in Tasks : task[u].status = "active" /\ task[u].device = d) = t
    BY <1>2
  <1>4. QED
    BY <1>1, <1>3 DEF ActiveTask

LEMMA NextVisitIsTask ==
    ASSUME OneActiveEmergencyPerDevice', NEW d \in Devices, NEW t \in Tasks,
           task'[t].status = "active", task'[t].device = d
    PROVE  ActiveTask(d)' = t
  <1>1. HasActiveEmergency(d)'
    BY DEF HasActiveEmergency
  <1>2. \A u \in Tasks : task'[u].status = "active" /\ task'[u].device = d <=> u = t
    BY DEF OneActiveEmergencyPerDevice
  <1>3. (CHOOSE u \in Tasks : task'[u].status = "active" /\ task'[u].device = d) = t
    BY <1>2
  <1>4. QED
    BY <1>1, <1>3 DEF ActiveTask

\* A device whose active tasks a step leaves alone keeps its visit.
LEMMA VisitKept ==
    ASSUME OneActiveEmergencyPerDevice, OneActiveEmergencyPerDevice', NEW d \in Devices,
           \A u \in Tasks : (task'[u].status = "active" /\ task'[u].device = d)
                              <=> (task[u].status = "active" /\ task[u].device = d)
    PROVE  ActiveTask(d)' = ActiveTask(d)
  <1>1. CASE \E t \in Tasks : task[t].status = "active" /\ task[t].device = d
    BY <1>1, VisitIsTask, NextVisitIsTask
  <1>2. CASE ~ \E t \in Tasks : task[t].status = "active" /\ task[t].device = d
    <2>1. ActiveTask(d) = NoTask
      BY <1>2 DEF ActiveTask, HasActiveEmergency
    <2>2. ActiveTask(d)' = NoTask
      BY <1>2 DEF ActiveTask, HasActiveEmergency
    <2>3. QED
      BY <2>1, <2>2
  <1>3. QED
    BY <1>1, <1>2

LEMMA DeskInitial ==
    ASSUME Init
    PROVE  Desk!DeskInit
  <1>1. ReportOf = [r \in Requests |-> "none"]
    BY StageValues DEF ReportOf, Init, NoRow
  <1>2. VisitOf = [d \in Devices |-> NoTask]
    BY DEF VisitOf, Init, NoTaskRow, ActiveTask, HasActiveEmergency
  <1>3. HandedToOf = [r \in Requests |-> NoTask]
    BY DEF HandedToOf, Init, NoRow
  <1>4. QED
    BY <1>1, <1>2, <1>3 DEF Desk!DeskInit, ReportOf, VisitOf, HandedToOf

\* A step of the desk or a stutter.
DeskStep == [Desk!DeskNext]_(Desk!deskVars)

\* What the triage may do to where a report stands.
StageMove(from, to) ==
    \/ from = to
    \/ from = "none" /\ to = "open"
    \/ from = "open" /\ to \in {"shut", "approved"}
    \/ from = "shut" /\ to = "open"

LEMMA DeskStutters ==
    ASSUME UNCHANGED <<sr, task>>
    PROVE  DeskStep
  <1>1. ReportOf' = ReportOf /\ HandedToOf' = HandedToOf
    BY DEF ReportOf, HandedToOf
  <1>2. VisitOf' = VisitOf
    BY DEF VisitOf, ActiveTask, HasActiveEmergency
  <1>3. QED
    BY <1>1, <1>2 DEF DeskStep, Desk!deskVars, ReportOf, HandedToOf, VisitOf

LEMMA DeskMoves ==
    ASSUME TypeOK, NEW r \in Requests, NEW row, UNCHANGED task,
           sr' = [sr EXCEPT ![r] = row], row.task = sr[r].task,
           StageMove(Stage(sr[r].status), Stage(row.status))
    PROVE  DeskStep
  <1>1. VisitOf' = VisitOf
    BY DEF VisitOf, ActiveTask, HasActiveEmergency
  <1>2. HandedToOf' = HandedToOf
    BY DEF HandedToOf, TypeOK
  <1>3. ReportOf' = [ReportOf EXCEPT ![r] = Stage(row.status)]
    BY DEF ReportOf, TypeOK
  <1>4. ReportOf[r] = Stage(sr[r].status)
    BY DEF ReportOf
  <1>5. CASE Stage(sr[r].status) = Stage(row.status)
    <2>1. ReportOf' = ReportOf
      BY <1>3, <1>4, <1>5 DEF ReportOf
    <2>2. QED
      BY <1>1, <1>2, <2>1 DEF DeskStep, Desk!deskVars, ReportOf, HandedToOf, VisitOf
  <1>6. CASE Stage(sr[r].status) # Stage(row.status)
    <2>1. \/ Desk!Move(r, "none", "open")
          \/ Desk!Move(r, "open", "shut")
          \/ Desk!Move(r, "open", "approved")
          \/ Desk!Move(r, "shut", "open")
      BY <1>1, <1>2, <1>3, <1>4, <1>6
         DEF StageMove, Desk!Move, ReportOf, HandedToOf, VisitOf
    <2>2. QED
      BY <2>1 DEF DeskStep, Desk!DeskNext
  <1>7. QED
    BY <1>5, <1>6

LEMMA DeskTransition ==
    ASSUME TypeOK, NEW r \in Requests,
           NEW to \in {"resolved_at_intake", "completed", "rejected", "cancelled"},
           TransitionStatus(r, to)
    PROVE  DeskStep
  <1>1. to \in Statuses
    BY DEF Statuses, Terminal
  <1>2. TransitionRow(r, to).status = to /\ TransitionRow(r, to).task = sr[r].task
    BY <1>1, TransitionFields
  <1>3. sr[r].status \in {"received", "in_review"}
    <2>1. sr[r].status \in Statuses /\ to \in Allowed[sr[r].status]
      BY DEF TransitionStatus, TransitionAllowed, TypeOK, RequestRow
    <2>2. QED
      BY <2>1, TerminalExits DEF Statuses
  <1>4. StageMove(Stage(sr[r].status), Stage(to))
    BY <1>3, StageValues DEF StageMove
  <1>5. QED
    BY <1>2, <1>4, DeskMoves DEF TransitionStatus

LEMMA DeskTriage ==
    ASSUME TypeOK, NEW r \in Requests, Triage(r)
    PROVE  DeskStep
  <1>0. sr[r] \in RequestRow
    BY DEF TypeOK
  <1>1. ASSUME NEW op \in Operators, ClaimOrTakeOver(r, op) PROVE DeskStep
    <2> DEFINE row == [sr[r] EXCEPT !.reviewer = op, !.status = "in_review"]
    <2>1. row.status = "in_review" /\ row.task = sr[r].task
      BY <1>0 DEF RequestRow
    <2>2. sr' = [sr EXCEPT ![r] = row] /\ UNCHANGED task
      BY <1>1 DEF ClaimOrTakeOver
    <2>3. sr[r].status \in {"received", "in_review"}
      BY <1>1 DEF ClaimOrTakeOver, Claimable
    <2> HIDE DEF row
    <2>4. StageMove(Stage(sr[r].status), Stage(row.status))
      BY <2>1, <2>3, StageValues DEF StageMove
    <2>5. QED
      BY <2>1, <2>2, <2>4, DeskMoves
  <1>2. CASE ResolveAtIntake(r) \/ ApproveAgentLicense(r) \/ Reject(r) \/ Cancel(r)
    BY <1>2, DeskTransition DEF ResolveAtIntake, ApproveAgentLicense, Reject, Cancel
  <1>3. CASE Reopen(r)
    <2>1. "in_review" \in Statuses
      BY DEF Statuses
    <2>2. /\ TransitionRow(r, "in_review").status = "in_review"
          /\ TransitionRow(r, "in_review").task = sr[r].task
      BY <2>1, TransitionFields
    <2>3. StageMove(Stage(sr[r].status), Stage("in_review"))
      BY <1>3, StageValues DEF Reopen, StageMove
    <2>4. QED
      BY <1>3, <2>2, <2>3, DeskMoves DEF Reopen, TransitionStatus
  <1>4. ASSUME NEW b \in BOOLEAN, UNCHANGED task,
               \/ sr' = [sr EXCEPT ![r].escalated = b]
               \/ sr' = [sr EXCEPT ![r].archived = b]
        PROVE  DeskStep
    <2>1. PICK row : /\ sr' = [sr EXCEPT ![r] = row]
                     /\ row.status = sr[r].status /\ row.task = sr[r].task
      <3>1. /\ [sr[r] EXCEPT !.escalated = b].status = sr[r].status
            /\ [sr[r] EXCEPT !.escalated = b].task = sr[r].task
            /\ [sr[r] EXCEPT !.archived = b].status = sr[r].status
            /\ [sr[r] EXCEPT !.archived = b].task = sr[r].task
        BY <1>0 DEF RequestRow
      <3>2. \/ sr' = [sr EXCEPT ![r] = [sr[r] EXCEPT !.escalated = b]]
            \/ sr' = [sr EXCEPT ![r] = [sr[r] EXCEPT !.archived = b]]
        BY <1>4
      <3>3. QED
        BY <3>1, <3>2
    <2>2. QED
      BY <1>4, <2>1, DeskMoves DEF StageMove
  <1>5. CASE Escalate(r) \/ ResolveEscalation(r) \/ Archive(r) \/ Unarchive(r)
    BY <1>4, <1>5 DEF Escalate, ResolveEscalation, Archive, Unarchive
  <1>6. QED
    BY <1>1, <1>2, <1>3, <1>5 DEF Triage

LEMMA DeskIntake ==
    ASSUME TypeOK, HandedOverToMatchingTask, NEW r \in Requests, Intake(r)
    PROVE  DeskStep
  <1>0. PICK type \in RequestTypes, source \in DeviceSources,
             op \in Operators \cup {NoUser}, party \in Parties \cup {NoParty},
             d \in Devices \cup {NoDevice}, duplicate \in BOOLEAN :
               CreateServiceRequest(r, type, source, op, party, d, duplicate)
    BY DEF Intake
  <1> DEFINE row == [NoRow EXCEPT
                       !.status = IF op = NoUser THEN "received" ELSE "in_review",
                       !.type = type, !.source = source, !.reviewer = op,
                       !.review = duplicate, !.party = party, !.device = d]
  <1>1. /\ sr[r].status = "absent" /\ sr' = [sr EXCEPT ![r] = row]
        /\ row.status \in {"received", "in_review"} /\ row.task = NoTask
        /\ UNCHANGED task
    BY <1>0 DEF CreateServiceRequest, NoRow
  <1> HIDE DEF row
  <1>2. row.task = sr[r].task
    BY <1>1 DEF HandedOverToMatchingTask
  <1>3. StageMove(Stage(sr[r].status), Stage(row.status))
    BY <1>1, StageValues DEF StageMove
  <1>4. QED
    BY <1>1, <1>2, <1>3, DeskMoves

LEMMA DeskLink ==
    ASSUME TypeOK, NEW r \in Requests, Link(r)
    PROVE  DeskStep
  <1>1. PICK party, device :
               /\ sr' = [sr EXCEPT ![r] = [sr[r] EXCEPT !.party = party, !.device = device]]
               /\ UNCHANGED task
    BY DEF Link, LinkBeneficiary
  <1> DEFINE row == [sr[r] EXCEPT !.party = party, !.device = device]
  <1>2. row.status = sr[r].status /\ row.task = sr[r].task
    BY DEF TypeOK, RequestRow
  <1> HIDE DEF row
  <1>3. QED
    BY <1>1, <1>2, DeskMoves DEF StageMove, row

LEMMA DeskPromote ==
    ASSUME TypeOK, OneActiveEmergencyPerDevice, OneActiveEmergencyPerDevice',
           HandedOverToMatchingTask,
           NEW r \in Requests, NEW d \in Devices, NEW t \in Tasks, NEW split \in BOOLEAN,
           Promote(r, d, t, split)
    PROVE  Desk!OpenVisit(r, d, t)
  <1>1. /\ sr' = [sr EXCEPT ![r] = [sr[r] EXCEPT !.status = "promoted", !.device = d,
                                                 !.task = t]]
        /\ sr[r].status = "in_review" /\ task[t].status = "absent"
        /\ ~HasActiveEmergency(d)
        /\ task'[t].status = "active" /\ task'[t].device = d
        /\ \A u \in Tasks \ {t} : task'[u] = task[u]
    BY DEF Promote, PromoteChecks, HandedOver, UniqueIndexAdmits, TypeOK
  <1>2. HandedToOf' = [HandedToOf EXCEPT ![r] = t]
    BY <1>1 DEF HandedToOf, TypeOK, RequestRow
  <1>3. ReportOf' = [ReportOf EXCEPT ![r] = "handed"] /\ ReportOf[r] = "open"
    BY <1>1, StageValues DEF ReportOf, TypeOK, RequestRow
  <1>4. VisitOf[d] = NoTask
    BY <1>1 DEF VisitOf, ActiveTask
  <1>5. VisitOf' = [VisitOf EXCEPT ![d] = t]
    <2>1. ActiveTask(d)' = t
      BY <1>1, NextVisitIsTask
    <2>2. ASSUME NEW e \in Devices, e # d PROVE ActiveTask(e)' = ActiveTask(e)
      BY <1>1, <2>2, VisitKept
    <2>3. QED
      BY <2>1, <2>2 DEF VisitOf
  <1>6. \A q \in Requests : HandedToOf[q] # t
    <2>1. ASSUME NEW q \in Requests, sr[q].task = t PROVE FALSE
      BY <1>1, <2>1, SentinelAssumption DEF HandedOverToMatchingTask
    <2>2. QED
      BY <2>1 DEF HandedToOf
  <1>7. QED
    BY <1>2, <1>3, <1>4, <1>5, <1>6
       DEF Desk!OpenVisit, Desk!Fresh, Desk!HandTo, ReportOf, VisitOf, HandedToOf

LEMMA DeskMerge ==
    ASSUME TypeOK, OneActiveEmergencyPerDevice,
           NEW r \in Requests, NEW t \in Tasks, MergeIntoExistingTask(r, t)
    PROVE  sr[r].device \in Devices /\ Desk!JoinVisit(r, sr[r].device)
  <1> DEFINE d == sr[r].device
  <1>1. /\ sr' = [sr EXCEPT ![r] = [sr[r] EXCEPT !.status = "promoted", !.device = d,
                                                 !.task = t]]
        /\ sr[r].status = "in_review" /\ d # NoDevice
        /\ task[t].status = "active" /\ task[t].device = d
        /\ UNCHANGED task
    BY DEF MergeIntoExistingTask, HandedOver
  <1>2. d \in Devices
    BY <1>1 DEF TypeOK, RequestRow
  <1>3. HandedToOf' = [HandedToOf EXCEPT ![r] = t]
    BY <1>1 DEF HandedToOf, TypeOK, RequestRow
  <1>4. ReportOf' = [ReportOf EXCEPT ![r] = "handed"] /\ ReportOf[r] = "open"
    BY <1>1, StageValues DEF ReportOf, TypeOK, RequestRow
  <1>5. VisitOf' = VisitOf
    BY <1>1 DEF VisitOf, ActiveTask, HasActiveEmergency
  <1>6. VisitOf[d] = t /\ t # NoTask
    BY <1>1, <1>2, VisitIsTask, SentinelAssumption DEF VisitOf
  <1> HIDE DEF d
  <1>7. Desk!JoinVisit(r, d)
    BY <1>2, <1>3, <1>4, <1>5, <1>6
       DEF Desk!JoinVisit, Desk!HandTo, ReportOf, VisitOf, HandedToOf
  <1>8. QED
    BY <1>2, <1>7 DEF d

LEMMA DeskFinish ==
    ASSUME TypeOK, OneActiveEmergencyPerDevice, OneActiveEmergencyPerDevice',
           NEW t \in Tasks, FinishTask(t), NEW d, d = task[t].device
    PROVE  DeskStep
  <1>1. /\ task[t].status = "active" /\ task'[t].status = "done"
        /\ \A u \in Tasks \ {t} : task'[u] = task[u]
        /\ UNCHANGED sr
    BY DEF FinishTask, TypeOK, TaskRow
  <1>2. ReportOf' = ReportOf /\ HandedToOf' = HandedToOf
    BY <1>1 DEF ReportOf, HandedToOf
  <1>3. ASSUME NEW e \in Devices, e # d PROVE ActiveTask(e)' = ActiveTask(e)
    BY <1>1, <1>3, VisitKept
  <1>4. CASE d \in Devices
    <2>1. VisitOf[d] = t /\ t # NoTask
      BY <1>1, <1>4, VisitIsTask, SentinelAssumption DEF VisitOf
    <2>2. ActiveTask(d)' = NoTask
      BY <1>1 DEF ActiveTask, HasActiveEmergency, OneActiveEmergencyPerDevice
    <2>3. VisitOf' = [VisitOf EXCEPT ![d] = NoTask]
      BY <1>3, <2>2 DEF VisitOf
    <2>4. Desk!EndVisit(d)
      BY <1>2, <2>1, <2>3 DEF Desk!EndVisit, ReportOf, HandedToOf, VisitOf
    <2>5. QED
      BY <1>4, <2>4 DEF DeskStep, Desk!DeskNext
  <1>5. CASE d \notin Devices
    <2>1. VisitOf' = VisitOf
      BY <1>3, <1>5 DEF VisitOf
    <2>2. QED
      BY <1>2, <2>1 DEF DeskStep, Desk!deskVars, ReportOf, HandedToOf, VisitOf
  <1>6. QED
    BY <1>4, <1>5

LEMMA DeskNextStep ==
    ASSUME TypeOK, OneActiveEmergencyPerDevice, OneActiveEmergencyPerDevice',
           HandedOverToMatchingTask, [Next]_vars
    PROVE  DeskStep
  <1>1. ASSUME NEW r \in Requests, Intake(r) \/ Triage(r) \/ Link(r) PROVE DeskStep
    BY <1>1, DeskIntake, DeskTriage, DeskLink
  <1>2. ASSUME NEW r \in Requests, HandOver(r) PROVE DeskStep
    <2>1. ASSUME NEW d \in Devices, NEW t \in Tasks, NEW split \in BOOLEAN,
                 Promote(r, d, t, split)
          PROVE  DeskStep
      BY <2>1, DeskPromote DEF DeskStep, Desk!DeskNext
    <2>2. ASSUME NEW d \in Devices, NEW split \in BOOLEAN, PromoteAborts(r, d, split)
          PROVE  DeskStep
      BY <2>2, DeskStutters DEF PromoteAborts
    <2>3. ASSUME NEW t \in Tasks, MergeIntoExistingTask(r, t) PROVE DeskStep
      BY <2>3, DeskMerge DEF DeskStep, Desk!DeskNext
    <2>4. QED
      BY <1>2, <2>1, <2>2, <2>3 DEF HandOver
  <1>3. ASSUME NEW r \in Requests, Gateway(r) \/ ProblemList(r) PROVE DeskStep
    BY <1>3, DeskStutters DEF Gateway, Admit, Answer, ProblemList, AddProblem,
                              SoftDeleteProblem, RestoreProblem
  <1>4. CASE Field
    BY <1>4, DeskStutters, DeskFinish DEF Field, StampProblem, StampLost, OpenTransferTask,
                                          CloseTransferTask
  <1>5. CASE UNCHANGED vars
    BY <1>5, DeskStutters DEF vars
  <1>6. QED
    BY <1>1, <1>2, <1>3, <1>4, <1>5 DEF Next

\* EM-UNIQ-01..03 as the desk promises them: every execution of the triage code,
\* whatever its calls do in between, is an execution of EmergencyDesk.
THEOREM DeskImplemented == Spec => ImplementsDesk
  <1>1. Init => Desk!DeskInit
    BY DeskInitial
  <1>2. (/\ TypeOK /\ HandedOverToMatchingTask /\ [Next]_vars
         /\ OneActiveEmergencyPerDevice /\ OneActiveEmergencyPerDevice')
          => [Desk!DeskNext]_(Desk!deskVars)
    BY DeskNextStep DEF DeskStep
  <1>3. QED
    BY <1>1, <1>2, TypeCorrect, OneActiveEmergency, HandOversMatch, PTL
       DEF Spec, ImplementsDesk, Desk!DeskSpec

=============================================================================
