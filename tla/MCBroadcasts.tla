---------------------------- MODULE MCBroadcasts ----------------------------
(* Instances of Broadcasts for TLC. *)
EXTENDS Broadcasts

CONSTANTS alice, bob

Request(kind, context, payer) ==
    [kind |-> kind, context |-> context, payer |-> payer, from |-> "given", eth |-> TRUE,
     amount |-> 0, named |-> <<>>, classic |-> TRUE, offered |-> FALSE]

Batches == {Request("batch", alice, alice), Request("batch", alice, bob)}
Executors == {[Request("executor", alice, alice) EXCEPT !.from = f] : f \in {"random", "context"}}
                 \cup {Request("executor", bob, bob)}
Vaults == {Request("vault", alice, bob)}
Transfers == {[Request("transfer", alice, alice) EXCEPT !.amount = 1],
              [Request("transfer", bob, bob) EXCEPT !.amount = 10, !.eth = FALSE]}

Shield(payer, amount, eth, named, offered) ==
    [Request("shield", payer, payer) EXCEPT !.amount = amount, !.eth = eth, !.named = named,
                                            !.classic = FALSE, !.offered = offered]
Shields == {Shield(alice, 7, TRUE, <<>>, FALSE), Shield(alice, 1, TRUE, <<>>, TRUE),
            Shield(bob, 0, FALSE, <<10>>, TRUE), Shield(alice, 8, TRUE, <<>>, TRUE)}
Plans == {[Shield(alice, n, TRUE, <<>>, FALSE) EXCEPT !.classic = c] :
            n \in {4, 9, 11, 20, 25}, c \in BOOLEAN}

SomeCommands == Batches \cup Executors \cup Vaults \cup Transfers \cup Shields \cup Plans

Pool(value, eth, canonical) == [value |-> value, eth |-> eth, canonical |-> canonical]
(* As 1, 0.3 and 0.1 ETH: the extended pool of 0.3 does not divide that of 1. *)
SomePools == <<Pool(1, TRUE, TRUE), Pool(10, FALSE, TRUE), Pool(3, TRUE, FALSE),
               Pool(10, TRUE, TRUE)>>

(* New accounts, and one whose delegate has run a batch and may have been replaced. *)
Start(code, n) ==
    [held |-> alice :> [eth |-> 8, token |-> 0] @@ bob :> [eth |-> 1, token |-> 10],
     delegate |-> alice :> code @@ bob :> None, nonce |-> alice :> n @@ bob :> 0]
SomeStarts == {Start(None, 0), Start(Simple, 1), Start(Other, 1), Start(Other, 0)}
=============================================================================
