--------------------------- MODULE ServiceRequests ---------------------------
(***************************************************************************)
(* The triage desk for service requests: intake, claim, beneficiary link,  *)
(* escalation ("restricted mode"), the terminal decisions, reopening,      *)
(* archiving, and the hand-over to a field task by promote or merge.       *)
(*                                                                         *)
(* Every handler runs one PostgreSQL transaction that takes the request's  *)
(* row FOR UPDATE first, so a handler is one atomic step.  What is NOT     *)
(* atomic is the HTTP middleware blockIfEscalated: it reads escalated_at   *)
(* in a query of its own before the handler's transaction starts.  A call  *)
(* that passed it sits in `admitted' until its handler runs, and anything  *)
(* may happen in between.  Claiming and the status transitions read        *)
(* escalated_at again under the row lock, so their middleware read adds    *)
(* nothing and they are single steps.                                      *)
(*                                                                         *)
(* Request types: the two whose whole life is in this code, the emergency  *)
(* visit (promotable) and the agent licence (completed on approval).       *)
(***************************************************************************)
EXTENDS Naturals, FiniteSets

CONSTANTS
    Requests,       \* ids of service_requests rows
    Operators,      \* hr_users who triage
    Clients,        \* clients rows, possible beneficiaries and device owners
    Candidates,     \* candidates rows: beneficiaries that are not clients yet
    Devices,        \* ids of installed_devices rows
    Tasks,          \* ids of open_tasks rows of type emergency_maintenance
    Problems,       \* ids of service_request_problems rows
    RequestTypes,   \* the request types this instance files
    DeviceSources,  \* the device_source values this instance files
    NoUser, NoParty, NoDevice, NoTask, NoRequest,   \* SQL NULL, per column
    MaxReopens,     \* bound on reopen_count (the code has none)
    MaxInFlight     \* bound on calls between middleware and handler

ASSUME SentinelAssumption ==
    /\ NoUser \notin Operators
    /\ NoParty \notin Clients \cup Candidates
    /\ NoDevice \notin Devices
    /\ NoTask \notin Tasks
    /\ NoRequest \notin Requests
    /\ Clients \cap Candidates = {}

ASSUME TypesAssumption ==
    /\ RequestTypes \subseteq {"emergency_maintenance", "agent_license"}
    /\ DeviceSources \subseteq {"company_device", "external_device"}
    /\ MaxReopens \in Nat
    /\ MaxInFlight \in Nat

VARIABLES
    sr,         \* service_requests rows
    problem,    \* service_request_problems rows
    task,       \* emergency open_tasks rows
    owner,      \* installed_devices.customer_id; NoParty: no such row yet
    transfer,   \* devices that have an active device_transfer task
    admitted    \* <<request, call>>: past the middleware, handler not run yet

vars == <<sr, problem, task, owner, transfer, admitted>>

-----------------------------------------------------------------------------
(* Rows *)

Terminal == {"resolved_at_intake", "rejected", "promoted", "completed", "cancelled"}
Statuses == {"received", "in_review"} \cup Terminal

\* The terminal list the escalate and archive routes carry: not `completed'.
RouteTerminal == Terminal \ {"completed"}

\* Forward and reopen transitions of the state machine.
Allowed ==
    [received           |-> {"in_review", "cancelled"},
     in_review          |-> Terminal,
     resolved_at_intake |-> {"in_review"},
     rejected           |-> {"in_review"},
     cancelled          |-> {"in_review"},
     promoted           |-> {},
     completed          |-> {}]

\* The calls guarded by the middleware whose handlers do not read escalated_at
\* again, and the reply a call is left with when its transaction aborts.
GatedCalls == {"promote", "merge", "link", "problem"}
ServerError == "server_error"

Parties == Clients \cup Candidates

RequestRow ==
    [status    : Statuses \cup {"absent"},
     type      : RequestTypes \cup {"none"},
     source    : DeviceSources \cup {"none"},
     reviewer  : Operators \cup {NoUser},
     escalated : BOOLEAN,
     archived  : BOOLEAN,
     review    : BOOLEAN,
     reopens   : 0 .. MaxReopens,
     party     : Parties \cup {NoParty},
     device    : Devices \cup {NoDevice},
     task      : Tasks \cup {NoTask}]

ProblemRow ==
    [sr      : Requests \cup {NoRequest},
     device  : Devices \cup {NoDevice},
     task    : Tasks \cup {NoTask},
     stamp   : Tasks \cup {NoTask},
     deleted : BOOLEAN]

TaskRow ==
    [status : {"absent", "active", "done"},
     device : Devices \cup {NoDevice},
     client : Clients \cup {NoParty},
     source : Requests \cup {NoRequest}]

NoRow == [status |-> "absent", type |-> "none", source |-> "none",
          reviewer |-> NoUser, escalated |-> FALSE, archived |-> FALSE,
          review |-> FALSE, reopens |-> 0, party |-> NoParty,
          device |-> NoDevice, task |-> NoTask]
NoProblem == [sr |-> NoRequest, device |-> NoDevice, task |-> NoTask,
              stamp |-> NoTask, deleted |-> FALSE]
NoTaskRow == [status |-> "absent", device |-> NoDevice, client |-> NoParty,
              source |-> NoRequest]

\* The shape of every table.
TypeOK ==
    /\ sr \in [Requests -> RequestRow]
    /\ problem \in [Problems -> ProblemRow]
    /\ task \in [Tasks -> TaskRow]
    /\ owner \in [Devices -> Clients \cup {NoParty}]
    /\ transfer \subseteq Devices
    /\ admitted \subseteq Requests \X (GatedCalls \cup {ServerError})

\* No request yet; some devices are installed and owned, others do not exist.
Init ==
    /\ sr = [r \in Requests |-> NoRow]
    /\ problem = [p \in Problems |-> NoProblem]
    /\ task = [t \in Tasks |-> NoTaskRow]
    /\ owner \in [Devices -> Clients \cup {NoParty}]
    /\ transfer = {}
    /\ admitted = {}

-----------------------------------------------------------------------------
(* Queries the handlers make *)

LiveProblems(r) == {p \in Problems : problem[p].sr = r /\ ~problem[p].deleted}

HasClient(r) == sr[r].party \in Clients

\* promote's collision check and the partial unique index on open_tasks.
HasActiveEmergency(d) ==
    \E t \in Tasks : task[t].status = "active" /\ task[t].device = d

\* Variant: the partial unique index is missing.
WithoutUniqueIndex(d) == d \in Devices

UniqueIndexAdmits(d) == ~HasActiveEmergency(d)

Decided(to) == to \in {"resolved_at_intake", "completed", "rejected"}

IsReopen(r, to) == sr[r].status \in Terminal /\ to = "in_review"

-----------------------------------------------------------------------------
(* Intake *)

\* createServiceRequest.  A channel with a triager present starts in_review,
\* owned by its creator; the others wait in `received'.  The duplicate search
\* (fuzzy match on phone, device and text) may flag the request for review.
\* Nothing checks here that the device belongs to the beneficiary.
CreateServiceRequest(r, type, source, op, party, d, duplicate) ==
    /\ sr[r].status = "absent"
    /\ d # NoDevice => owner[d] # NoParty
    /\ sr' = [sr EXCEPT ![r] =
                [NoRow EXCEPT !.status = IF op = NoUser THEN "received" ELSE "in_review",
                              !.type = type,
                              !.source = source,
                              !.reviewer = op,
                              !.review = duplicate,
                              !.party = party,
                              !.device = d]]
    /\ UNCHANGED <<problem, task, owner, transfer, admitted>>

-----------------------------------------------------------------------------
(* Claim and take-over *)

\* Variants: the claim trusts the middleware for the freeze; it forgets the
\* terminal states.
ClaimableTrustingMiddleware(r) == sr[r].status \in {"received", "in_review"}
ClaimableAnyStatus(r) == ~sr[r].escalated /\ sr[r].status # "absent"

Claimable(r) ==
    /\ ~sr[r].escalated
    /\ sr[r].status \in {"received", "in_review"}

\* claimOrTakeOver: the first claim moves `received' to `in_review'; a later one
\* swaps the owner.  Claiming one's own request changes nothing.
ClaimOrTakeOver(r, op) ==
    /\ Claimable(r)
    /\ sr[r].reviewer # op
    /\ sr' = [sr EXCEPT ![r] = [@ EXCEPT !.reviewer = op, !.status = "in_review"]]
    /\ UNCHANGED <<problem, task, owner, transfer, admitted>>

-----------------------------------------------------------------------------
(* transitionStatus *)

ClaimedForDecision(r, to) == Decided(to) => sr[r].reviewer # NoUser

NotArchivedForReopen(r, to) == IsReopen(r, to) => ~sr[r].archived

\* Its guards, in the code's order.
TransitionAllowed(r, to) ==
    /\ sr[r].status # "absent"
    /\ sr[r].escalated => to = "rejected"
    /\ to \in Allowed[sr[r].status]
    /\ NotArchivedForReopen(r, to)
    /\ ClaimedForDecision(r, to)
    /\ (to \in {"resolved_at_intake", "rejected"} /\ sr[r].type # "agent_license")
          => HasClient(r)
    /\ (to = "resolved_at_intake" /\ sr[r].type = "emergency_maintenance")
          => sr[r].device # NoDevice /\ LiveProblems(r) # {}
    /\ to = "rejected" => sr[r].review \/ sr[r].escalated

\* Variant: the freeze survives the decision, and the review flag is decided on the
\* count before the increment.
TransitionRowStaysFrozen(r, to) ==
    [sr[r] EXCEPT !.status = to,
                  !.reopens = @ + (IF IsReopen(r, to) THEN 1 ELSE 0),
                  !.review = @ \/ (IsReopen(r, to) /\ sr[r].reopens > 2)]

\* Its UPDATE: a terminal clears the escalation; a reopening counts, and the
\* third one flags the request for review.
TransitionRow(r, to) ==
    LET reopens == sr[r].reopens + (IF IsReopen(r, to) THEN 1 ELSE 0)
    IN  [sr[r] EXCEPT !.status = to,
                      !.escalated = @ /\ to \notin Terminal,
                      !.reopens = reopens,
                      !.review = @ \/ (IsReopen(r, to) /\ reopens > 2)]

TransitionStatus(r, to) ==
    /\ TransitionAllowed(r, to)
    /\ sr' = [sr EXCEPT ![r] = TransitionRow(r, to)]
    /\ UNCHANGED <<problem, task, owner, transfer, admitted>>

ResolveAtIntake(r) ==
    /\ sr[r].type # "agent_license"
    /\ TransitionStatus(r, "resolved_at_intake")

ApproveAgentLicense(r) ==
    /\ sr[r].type = "agent_license"
    /\ TransitionStatus(r, "completed")

\* The one exit, with resolve-escalation, from restricted mode.
Reject(r) == TransitionStatus(r, "rejected")

Cancel(r) == TransitionStatus(r, "cancelled")

\* reopenService: the route always passes the audit-admin role, so the per
\* terminal role table refuses nobody; the type and status checks remain.
Reopen(r) ==
    /\ sr[r].type # "agent_license"
    /\ sr[r].status \in {"rejected", "resolved_at_intake", "cancelled"}
    /\ sr[r].reopens < MaxReopens
    /\ TransitionStatus(r, "in_review")

-----------------------------------------------------------------------------
(* Restricted mode and archiving *)

Escalate(r) ==
    /\ sr[r].status \notin RouteTerminal \cup {"absent"}
    /\ ~sr[r].escalated
    /\ sr' = [sr EXCEPT ![r].escalated = TRUE]
    /\ UNCHANGED <<problem, task, owner, transfer, admitted>>

ResolveEscalation(r) ==
    /\ sr[r].escalated
    /\ sr' = [sr EXCEPT ![r].escalated = FALSE]
    /\ UNCHANGED <<problem, task, owner, transfer, admitted>>

Archive(r) ==
    /\ ~sr[r].archived
    /\ sr[r].status \in RouteTerminal
    /\ sr' = [sr EXCEPT ![r].archived = TRUE]
    /\ UNCHANGED <<problem, task, owner, transfer, admitted>>

Unarchive(r) ==
    /\ sr[r].archived
    /\ sr' = [sr EXCEPT ![r].archived = FALSE]
    /\ UNCHANGED <<problem, task, owner, transfer, admitted>>

-----------------------------------------------------------------------------
(* Gated calls: middleware first, handler later *)

\* blockIfEscalated lets the call through.
Admit(r, call) ==
    /\ sr[r].status # "absent"
    /\ ~sr[r].escalated
    /\ <<r, call>> \notin admitted
    /\ Cardinality(admitted) < MaxInFlight
    /\ admitted' = admitted \cup {<<r, call>>}
    /\ UNCHANGED <<sr, problem, task, owner, transfer>>

\* The handler refuses the call (any of its checks, or an invalid body), or the
\* reply to an aborted one is delivered: nothing is written.
Answer(r, call) ==
    /\ <<r, call>> \in admitted
    /\ admitted' = admitted \ {<<r, call>>}
    /\ UNCHANGED <<sr, problem, task, owner, transfer>>

Handles(r, call) ==
    /\ <<r, call>> \in admitted
    /\ admitted' = admitted \ {<<r, call>>}

\* Variant: a closed request may be relinked.
LinkableAnyStatus(r) == sr[r].status # "absent"

Linkable(r) == sr[r].status = "in_review"

\* linkBeneficiary for /link (change = FALSE) and /change-linkage (TRUE).  p is
\* the selected party, d the selected device, NoParty and NoDevice when the body
\* leaves them out.  A device kept from before is validated only when a party is
\* selected; an explicit change drops it when its owner is somebody else.
LinkBeneficiary(r, p, d, change) ==
    LET party   == IF p # NoParty THEN p ELSE sr[r].party
        checked == IF d # NoDevice THEN d ELSE IF p # NoParty THEN sr[r].device ELSE NoDevice
        matches == checked # NoDevice /\ party \in Clients /\ owner[checked] = party
    IN
    /\ Handles(r, "link")
    /\ p # NoParty \/ d # NoDevice
    /\ change => p # NoParty
    /\ Linkable(r)
    /\ change => sr[r].party # NoParty
    /\ ~change /\ p # NoParty /\ sr[r].party # NoParty => p = sr[r].party
    /\ p # sr[r].party \/ d # NoDevice
    /\ checked # NoDevice /\ ~matches => change /\ d = NoDevice
    /\ sr' = [sr EXCEPT ![r] = [@ EXCEPT !.party = party,
                                         !.device = IF matches THEN checked ELSE NoDevice]]
    /\ UNCHANGED <<problem, task, owner, transfer>>

-----------------------------------------------------------------------------
(* Hand-over to the field *)

\* Variant: every problem not yet on a task moves, whoever reported it.
MovedAllProblems(r, t) ==
    [p \in Problems |-> IF problem[p].sr # NoRequest /\ problem[p].task = NoTask
                        THEN [problem[p] EXCEPT !.task = t]
                        ELSE problem[p]]

\* The problem rows that follow their request onto task t.
MovedProblems(r, t) ==
    [p \in Problems |-> IF p \in LiveProblems(r) /\ problem[p].task = NoTask
                        THEN [problem[p] EXCEPT !.task = t]
                        ELSE problem[p]]

\* The device promote works on: the linked one, or a lightweight row created in
\* the same transaction for an external device (whatever was linked before).
PromoteDevice(r, d) ==
    IF sr[r].source = "external_device"
    THEN owner[d] = NoParty
    ELSE sr[r].device = d /\ owner[d] = sr[r].party

\* Every check promote makes before its INSERT.
PromoteChecks(r, d, split) ==
    /\ sr[r].type = "emergency_maintenance"
    /\ sr[r].status = "in_review"
    /\ HasClient(r)
    /\ PromoteDevice(r, d)
    /\ LiveProblems(r) # {}
    /\ d \notin transfer
    /\ split \/ ~HasActiveEmergency(d)

HandedOver(r, d, t) ==
    [sr EXCEPT ![r] = [@ EXCEPT !.status = "promoted", !.device = d, !.task = t]]

\* promote: a new emergency task, the problems moved to it, the request closed.
Promote(r, d, t, split) ==
    /\ Handles(r, "promote")
    /\ PromoteChecks(r, d, split)
    /\ UniqueIndexAdmits(d)
    /\ task[t].status = "absent"
    /\ task' = [task EXCEPT ![t] = [status |-> "active", device |-> d,
                                    client |-> sr[r].party, source |-> r]]
    /\ owner' = [owner EXCEPT ![d] = sr[r].party]
    /\ problem' = MovedProblems(r, t)
    /\ sr' = HandedOver(r, d, t)
    /\ UNCHANGED transfer

\* The INSERT meets the unique index: the transaction aborts, the call throws.
PromoteAborts(r, d, split) ==
    /\ <<r, "promote">> \in admitted
    /\ PromoteChecks(r, d, split)
    /\ ~UniqueIndexAdmits(d)
    /\ admitted' = (admitted \ {<<r, "promote">>}) \cup {<<r, ServerError>>}
    /\ UNCHANGED <<sr, problem, task, owner, transfer>>

\* mergeIntoExistingTask: the report joins the active task of the same client
\* and device.  Neither the route nor the service looks at the request's type,
\* and the device's owner is not read again.
MergeIntoExistingTask(r, t) ==
    /\ Handles(r, "merge")
    /\ sr[r].status = "in_review"
    /\ HasClient(r)
    /\ sr[r].device # NoDevice
    /\ task[t].status = "active"
    /\ task[t].client = sr[r].party
    /\ task[t].device = sr[r].device
    /\ problem' = MovedProblems(r, t)
    /\ sr' = HandedOver(r, sr[r].device, t)
    /\ UNCHANGED <<task, owner, transfer>>

\* The task ends: cancelled before scheduling, or closed by a visit result.
FinishTask(t) ==
    /\ task[t].status = "active"
    /\ task' = [task EXCEPT ![t].status = "done"]
    /\ UNCHANGED <<sr, problem, owner, transfer, admitted>>

-----------------------------------------------------------------------------
(* The structured problem list *)

\* addProblem.  The device must be the beneficiary's once a client is linked;
\* before that any installed device will do.  The request's status is not read.
\* A call from the visit wizard names the task, which the route writes in a
\* second statement after the transaction: `stamp' holds it until then.
AddProblem(r, p, d, stamp) ==
    /\ Handles(r, "problem")
    /\ problem[p].sr = NoRequest
    /\ owner[d] # NoParty
    /\ HasClient(r) => owner[d] = sr[r].party
    /\ stamp \in {NoTask, sr[r].task}
    /\ problem' = [problem EXCEPT ![p] = [NoProblem EXCEPT !.sr = r, !.device = d,
                                                           !.stamp = stamp]]
    /\ UNCHANGED <<sr, task, owner, transfer>>

Stamped(p) == IF problem[p].task = NoTask THEN problem[p].stamp ELSE problem[p].task

StampProblem(p) ==
    /\ problem[p].stamp # NoTask
    /\ problem' = [problem EXCEPT ![p] = [@ EXCEPT !.task = Stamped(p), !.stamp = NoTask]]
    /\ UNCHANGED <<sr, task, owner, transfer, admitted>>

\* The process dies between the two statements.
StampLost(p) ==
    /\ problem[p].stamp # NoTask
    /\ problem' = [problem EXCEPT ![p].stamp = NoTask]
    /\ UNCHANGED <<sr, task, owner, transfer, admitted>>

SoftDeleteProblem(r, p) ==
    /\ Handles(r, "problem")
    /\ p \in LiveProblems(r)
    /\ problem' = [problem EXCEPT ![p].deleted = TRUE]
    /\ UNCHANGED <<sr, task, owner, transfer>>

RestoreProblem(r, p) ==
    /\ Handles(r, "problem")
    /\ problem[p].sr = r
    /\ problem[p].deleted
    /\ problem' = [problem EXCEPT ![p].deleted = FALSE]
    /\ UNCHANGED <<sr, task, owner, transfer>>

-----------------------------------------------------------------------------
(* Device transfers, as far as the desk sees them *)

\* A device_transfer task is opened for an owned device that has none.
OpenTransferTask(d) ==
    /\ owner[d] # NoParty
    /\ d \notin transfer
    /\ transfer' = transfer \cup {d}
    /\ UNCHANGED <<sr, problem, task, owner, admitted>>

\* It ends: with the device at client c, or (c its owner) without a change.
CloseTransferTask(d, c) ==
    /\ d \in transfer
    /\ transfer' = transfer \ {d}
    /\ owner' = [owner EXCEPT ![d] = c]
    /\ UNCHANGED <<sr, problem, task, admitted>>

-----------------------------------------------------------------------------

Triage(r) ==
    \/ \E op \in Operators : ClaimOrTakeOver(r, op)
    \/ ResolveAtIntake(r)
    \/ ApproveAgentLicense(r)
    \/ Reject(r)
    \/ Cancel(r)
    \/ Reopen(r)
    \/ Escalate(r)
    \/ ResolveEscalation(r)
    \/ Archive(r)
    \/ Unarchive(r)

Intake(r) ==
    \E type \in RequestTypes, source \in DeviceSources,
       op \in Operators \cup {NoUser}, party \in Parties \cup {NoParty},
       d \in Devices \cup {NoDevice}, duplicate \in BOOLEAN :
        CreateServiceRequest(r, type, source, op, party, d, duplicate)

Gateway(r) ==
    \/ \E call \in GatedCalls : Admit(r, call)
    \/ \E call \in GatedCalls \cup {ServerError} : Answer(r, call)

Link(r) ==
    \E p \in Parties \cup {NoParty}, d \in Devices \cup {NoDevice}, change \in BOOLEAN :
        LinkBeneficiary(r, p, d, change)

HandOver(r) ==
    \/ \E d \in Devices, t \in Tasks, split \in BOOLEAN : Promote(r, d, t, split)
    \/ \E d \in Devices, split \in BOOLEAN : PromoteAborts(r, d, split)
    \/ \E t \in Tasks : MergeIntoExistingTask(r, t)

ProblemList(r) ==
    \E p \in Problems :
        \/ \E d \in Devices, stamp \in Tasks \cup {NoTask} : AddProblem(r, p, d, stamp)
        \/ SoftDeleteProblem(r, p)
        \/ RestoreProblem(r, p)

Field ==
    \/ \E t \in Tasks : FinishTask(t)
    \/ \E p \in Problems : StampProblem(p) \/ StampLost(p)
    \/ \E d \in Devices : OpenTransferTask(d)
    \/ \E d \in Devices, c \in Clients : CloseTransferTask(d, c)

Next ==
    \/ \E r \in Requests : \/ Intake(r)
                           \/ Triage(r)
                           \/ Gateway(r)
                           \/ Link(r)
                           \/ HandOver(r)
                           \/ ProblemList(r)
    \/ Field

Spec == Init /\ [][Next]_vars

-----------------------------------------------------------------------------
(* Safety *)

\* EM-UNIQ-01: a device never has two active emergency tasks, whatever mix of
\* promotes, splits and merges ran, and whoever owns the device by now.
OneActiveEmergencyPerDevice ==
    \A t, u \in Tasks :
        (/\ task[t].status = "active"
         /\ task[u].status = "active"
         /\ task[t].device = task[u].device) => t = u

\* SR-R004, EM-UNIQ-03: a promoted request points at a task of its own client
\* and device, created by it or by an earlier report; every task was created by
\* a request that is promoted and points at it; nobody else points at a task.
HandedOverToMatchingTask ==
    /\ \A r \in Requests :
        /\ sr[r].task # NoTask <=> sr[r].status = "promoted"
        /\ sr[r].status = "promoted" =>
            /\ task[sr[r].task].status # "absent"
            /\ task[sr[r].task].client = sr[r].party
            /\ task[sr[r].task].device = sr[r].device
    /\ \A t \in Tasks :
        task[t].status # "absent" =>
            /\ task[t].source \in Requests
            /\ sr[task[t].source].task = t

\* A problem that is on a task got there with its own request: the same task the
\* request was handed to.
ProblemFollowsItsRequest ==
    \A p \in Problems :
        problem[p].task # NoTask => /\ problem[p].sr # NoRequest
                                    /\ sr[problem[p].sr].task = problem[p].task

\* SR-R005, SR-R007, SR-CLAIM-07: resolving, rejecting and completing name a
\* reviewer, and the name stays through takeovers, closings and reopenings.
DecidedIsClaimed(r) == Decided(sr[r].status) => sr[r].reviewer # NoUser

\* SR-REOPEN-05, SR-R010: only closed requests are archived, so none can be
\* worked on while it is out of sight.
ArchivedIsClosed(r) == sr[r].archived => sr[r].status \in Terminal

\* SR-REOPEN-04: a request reopened more than twice carries the review flag, and
\* no later step takes it away.
ReopenedOftenIsFlagged(r) == sr[r].reopens > 2 => sr[r].review

\* SR-ESC-02, for the decisions of transitionStatus: none leaves the freeze on.
DecidedIsNotFrozen(r) ==
    sr[r].status \in {"resolved_at_intake", "rejected", "cancelled"} => ~sr[r].escalated

\* However often a request is claimed, taken over, frozen, decided, archived and
\* reopened, the marks each of these leaves on its row agree with its status.
LifecycleIsSound ==
    \A r \in Requests : /\ DecidedIsClaimed(r)
                        /\ ArchivedIsClosed(r)
                        /\ ReopenedOftenIsFlagged(r)
                        /\ DecidedIsNotFrozen(r)

\* SR-R011: what is promoted or completed stays so, with the same beneficiary,
\* device, task and reviewer.
HandedOverIsFinal ==
    [][\A r \in Requests :
        sr[r].status \in {"promoted", "completed"} =>
            /\ sr'[r].status = sr[r].status
            /\ sr'[r].party = sr[r].party
            /\ sr'[r].device = sr[r].device
            /\ sr'[r].task = sr[r].task
            /\ sr'[r].reviewer = sr[r].reviewer]_vars

\* SR-ESC-01 as far as it holds: with no call of that request already past the
\* middleware, a frozen request leaves `frozen' only by resolve-escalation or by
\* a rejection, and until then neither its status, owner, beneficiary or device
\* nor its problems' rows are written, except the stamp of an earlier call.
FrozenIsLeftAlone ==
    [][\A r \in Requests :
        (sr[r].escalated /\ \A call \in GatedCalls : <<r, call>> \notin admitted) =>
            /\ \/ [sr'[r] EXCEPT !.escalated = TRUE, !.archived = sr[r].archived] = sr[r]
               \/ sr'[r] = [sr[r] EXCEPT !.status = "rejected", !.escalated = FALSE]
            /\ LiveProblems(r)' = LiveProblems(r)]_vars

=============================================================================
