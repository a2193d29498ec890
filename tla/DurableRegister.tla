--------------------------- MODULE DurableRegister ---------------------------
(***************************************************************************)
(* What a record of the database is to its readers: a register that holds  *)
(* a whole value or none, and that the machine may lose power at any time. *)
(* A write shows at once; until it is flushed, a power loss may bring back *)
(* what it replaced.  After a flush nothing older can come back.           *)
(***************************************************************************)
CONSTANTS Value, None

VARIABLES
    value,      \* what a reader sees
    kept        \* what a power loss may leave

Init == value = None /\ kept = {None}

Write(v) ==
    /\ value' = v
    /\ kept' = kept \cup {v}

Flush ==
    /\ kept' = {value}
    /\ UNCHANGED value

LosePower(v) ==
    /\ v \in kept
    /\ value' = v
    /\ kept' = {v}

Next ==
    \/ \E v \in Value \cup {None} : Write(v) \/ LosePower(v)
    \/ Flush

Spec == Init /\ [][Next]_<<value, kept>>
=============================================================================
