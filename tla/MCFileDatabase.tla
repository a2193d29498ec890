--------------------------- MODULE MCFileDatabase ---------------------------
(* Small instances of FileDatabase: two processes and one record. *)
EXTENDS FileDatabase, TLC

Symmetry == Permutations(Proc) \cup Permutations(Value) \cup Permutations(Inode)
=============================================================================
