--------------------------- MODULE MCProfileStore ---------------------------
(* Instances of ProfileStore for TLC. *)
EXTENDS ProfileStore, TLC

Symmetric == Permutations(Proc) \cup Permutations(Phrase)
=============================================================================
