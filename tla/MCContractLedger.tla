---------------------------- MODULE MCContractLedger ----------------------------
(* Small instances of ContractForm. *)
EXTENDS ContractForm, TLC

Interchangeable == Permutations(Calls) \cup Permutations(Lines)
=============================================================================
