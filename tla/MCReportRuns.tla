---------------------------- MODULE MCReportRuns ----------------------------
(* Finite instances of ReportRuns for TLC. *)
EXTENDS ReportRunsRefinement, TLC

\* Processes are interchangeable; only for runs without liveness.
Symmetry == Permutations(Processes)
=============================================================================
