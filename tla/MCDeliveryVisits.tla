---------------------------- MODULE MCDeliveryVisits ----------------------------
(* Finite instances of DeliveryVisits for TLC. *)
EXTENDS DeliveryVisits, TLC

\* Calls are interchangeable.
Symmetry == Permutations(Calls)

\* One task with two rows, or two tasks with one.
FewRecords == Len(tasks) + Len(rows) <= 3
=============================================================================
