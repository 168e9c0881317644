------------------------ MODULE MCNotificationOutbox ------------------------
(* Finite instances of NotificationOutbox for TLC. *)
EXTENDS NotificationOutboxRefinement, TLC

\* Processes, requests, accounts and visits are interchangeable; only for runs
\* without liveness.
Symmetry ==
    Permutations(Workers) \cup Permutations(Calls) \cup Permutations(Accounts)
      \cup Permutations(Visits)
=============================================================================
