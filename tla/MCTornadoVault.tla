--------------------------- MODULE MCTornadoVault ---------------------------
(* Small instances of TornadoVault. *)
EXTENDS TornadoVault, TLC

CONSTANTS p1, p2

(* The lists callers pass: one pool, both, or one pool twice. *)
First == [p \in Pool |-> IF p = p1 THEN 1 ELSE 0]
Each == [p \in Pool |-> 1]
Twice == [p \in Pool |-> IF p = p1 THEN 2 ELSE 0]

OneOrBoth == {First, Each}
Several == {First, Each, Twice}

(* A fresh seed, and one whose earlier installation left a gap. *)
NoHistory == <<>>
OldHistory == <<[kind |-> "deposit", pool |-> p2, nonce |-> 1],
                [kind |-> "withdrawal", pool |-> p2, nonce |-> 1]>>
=============================================================================
