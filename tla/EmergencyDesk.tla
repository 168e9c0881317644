---------------------------- MODULE EmergencyDesk ----------------------------
(***************************************************************************)
(* What the triage desk promises about emergency reports, without claims,  *)
(* escalations, links or middleware (EM-UNIQ-01..03): each device has at   *)
(* most one visit going on, a report is handed over once, either to a      *)
(* visit opened for it or to the one already going on for its device, and  *)
(* a visit that ended is never opened again.                               *)
(***************************************************************************)
CONSTANTS Requests, Devices, Tasks, NoTask

VARIABLES
    report,     \* where each report stands
    visit,      \* the visit going on for a device: a function, hence one
    handedTo    \* the visit a report was handed to

deskVars == <<report, visit, handedTo>>

Stages == {"none", "open", "shut", "approved", "handed"}

DeskTypeOK ==
    /\ report \in [Requests -> Stages]
    /\ visit \in [Devices -> Tasks \cup {NoTask}]
    /\ handedTo \in [Requests -> Tasks \cup {NoTask}]

DeskInit ==
    /\ report = [r \in Requests |-> "none"]
    /\ visit = [d \in Devices |-> NoTask]
    /\ handedTo = [r \in Requests |-> NoTask]

Fresh(t) == \A r \in Requests : handedTo[r] # t

Move(r, from, to) ==
    /\ report[r] = from
    /\ report' = [report EXCEPT ![r] = to]
    /\ UNCHANGED <<visit, handedTo>>

HandTo(r, t) ==
    /\ report[r] = "open"
    /\ report' = [report EXCEPT ![r] = "handed"]
    /\ handedTo' = [handedTo EXCEPT ![r] = t]

OpenVisit(r, d, t) ==
    /\ visit[d] = NoTask
    /\ Fresh(t)
    /\ HandTo(r, t)
    /\ visit' = [visit EXCEPT ![d] = t]

JoinVisit(r, d) ==
    /\ visit[d] # NoTask
    /\ HandTo(r, visit[d])
    /\ UNCHANGED visit

EndVisit(d) ==
    /\ visit[d] # NoTask
    /\ visit' = [visit EXCEPT ![d] = NoTask]
    /\ UNCHANGED <<report, handedTo>>

DeskNext ==
    \/ \E r \in Requests :
        \/ Move(r, "none", "open")
        \/ Move(r, "open", "shut")
        \/ Move(r, "open", "approved")
        \/ Move(r, "shut", "open")
        \/ \E d \in Devices : JoinVisit(r, d)
        \/ \E d \in Devices, t \in Tasks : OpenVisit(r, d, t)
    \/ \E d \in Devices : EndVisit(d)

DeskSpec == DeskInit /\ [][DeskNext]_deskVars
=============================================================================
