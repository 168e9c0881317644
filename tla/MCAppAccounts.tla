----------------------------- MODULE MCAppAccounts -----------------------------
(* Finite instances of AppAccounts for TLC. *)
EXTENDS AppAccounts, TLC

\* Calls are interchangeable, and so are phones.
Symmetry == Permutations(Calls) \cup Permutations(Phones)
=============================================================================
