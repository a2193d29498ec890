---------------------------- MODULE NonceLedger ----------------------------
(***************************************************************************)
(* What the Tornado vault promises about nonces, with no process, lock or  *)
(* database in sight: a counter that only goes up, and deposits that are   *)
(* handed out each with a nonce below the counter that no other deposit    *)
(* has, whatever its pool.  Nonces may be skipped and never come back.     *)
(***************************************************************************)
EXTENDS Integers

CONSTANTS Pool, MaxNonce

VARIABLES
    next,       \* the first nonce that was never reserved
    exposed     \* the deposits that were handed out

Init == next = 0 /\ exposed = {}

Advance(n) ==
    /\ next < n
    /\ next' = n
    /\ UNCHANGED exposed

HandOut(ds) ==
    /\ \A d \in ds : d.nonce < next /\ \A e \in exposed : d.nonce # e.nonce
    /\ \A d, e \in ds : d.nonce = e.nonce => d = e
    /\ exposed' = exposed \cup ds
    /\ UNCHANGED next

Next ==
    \/ \E n \in 1..MaxNonce : Advance(n)
    \/ \E ds \in SUBSET [pool : Pool, nonce : 0..(MaxNonce - 1)] : HandOut(ds)

Spec == Init /\ [][Next]_<<next, exposed>>
=============================================================================
