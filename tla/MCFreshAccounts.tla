--------------------------- MODULE MCFreshAccounts --------------------------
(* Instances of FreshAccounts for TLC. *)
EXTENDS FreshAccounts
=============================================================================
