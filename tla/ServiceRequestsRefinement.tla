---------------------- MODULE ServiceRequestsRefinement ----------------------
(* ServiceRequests implements EmergencyDesk.                               *)
EXTENDS ServiceRequests

Stage(status) ==
    CASE status = "absent" -> "none"
      [] status \in {"received", "in_review"} -> "open"
      [] status \in {"resolved_at_intake", "rejected", "cancelled"} -> "shut"
      [] status = "completed" -> "approved"
      [] status = "promoted" -> "handed"

\* The active emergency task of device d; OneActiveEmergencyPerDevice makes the
\* choice unique.
ActiveTask(d) ==
    IF HasActiveEmergency(d)
    THEN CHOOSE t \in Tasks : task[t].status = "active" /\ task[t].device = d
    ELSE NoTask

Desk == INSTANCE EmergencyDesk WITH
    report   <- [r \in Requests |-> Stage(sr[r].status)],
    visit    <- [d \in Devices |-> ActiveTask(d)],
    handedTo <- [r \in Requests |-> sr[r].task]

\* Every step of the triage code is a step of the desk or changes nothing the
\* desk shows: one visit per device, one hand-over per report, to a visit that is
\* new or going on for that very device, never to one that ended.
ImplementsDesk == Desk!DeskSpec
=============================================================================
