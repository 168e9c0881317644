------------------------- MODULE MCServiceRequests -------------------------
(* Finite instances of ServiceRequests for TLC. *)
EXTENDS ServiceRequestsRefinement, TLC

\* Operators, tasks and problems are interchangeable, and so are requests: no
\* property names one of them.
Symmetry ==
    Permutations(Requests) \cup Permutations(Operators) \cup Permutations(Tasks)
      \cup Permutations(Problems) \cup Permutations(Clients) \cup Permutations(Devices)
=============================================================================
