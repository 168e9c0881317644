----------------------------- MODULE MCPlanningDay -----------------------------
(* Finite instances of PlanningDay for TLC: all tasks are of one client. *)
EXTENDS PlanningDay

OnlyClient == CHOOSE k \in Clients : TRUE
TaskClients == [t \in Tasks |-> OnlyClient]
=============================================================================
