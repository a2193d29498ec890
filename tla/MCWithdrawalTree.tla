-------------------------- MODULE MCWithdrawalTree --------------------------
(* Small instances of WithdrawalTree: two tasks of one vault. *)
EXTENDS WithdrawalTree

Symmetry == Permutations(Caller)
=============================================================================
