--------------------------- MODULE MCWithdrawals ----------------------------
(* Instances of Withdrawals for TLC. *)
EXTENDS Withdrawals

Note(i, v, eth, paymaster) == [id |-> i, value |-> v, eth |-> eth, paymaster |-> paymaster]

(* Notes in any order, those of value 3 without a paymaster, and two token notes. *)
Eth(vs) == [i \in DOMAIN vs |-> Note(i, vs[i], TRUE, vs[i] # 3)]
Tokens(vs) == [i \in DOMAIN vs |-> Note(10 + i, vs[i], FALSE, FALSE)]

(* Pools that are tracked twice list their notes twice. *)
Twice(ns) == ns \o ns

(* Wallets whose requests are carried out, and many that only quote. *)
Spenders == {Eth(<<5, 9, 5, 3>>) \o Tokens(<<4, 2>>), Eth(<<9, 3, 20>>) \o Tokens(<<2, 2>>),
             Twice(Eth(<<7>>)) \o Twice(Tokens(<<2>>))}
Quoters == {Eth(vs) \o Tokens(<<2, 1>>) : vs \in [1 .. 4 -> {2, 3, 4, 9}]}
           \cup {Twice(Eth(vs)) \o Twice(Tokens(<<2>>)) : vs \in [1 .. 2 -> {2, 3, 4, 9}]}
SomeWallets == Spenders \cup Quoters

Transfer(a) == [kind |-> "transfer", eth |-> TRUE, amount |-> a, tail |-> a,
                forward |-> FALSE, least |-> 0, quote |-> FALSE]
Unshield(a, eth, tail, forward) ==
    [kind |-> "unshield", eth |-> eth, amount |-> a, tail |-> tail,
     forward |-> forward, least |-> 0, quote |-> FALSE]

Spends == {Transfer(1), Transfer(8), Unshield(14, TRUE, 2, TRUE), Unshield(9, TRUE, 0, FALSE),
           Unshield(4, FALSE, 0, TRUE), Unshield(4, FALSE, 2, FALSE)}
Quotes == {[r EXCEPT !.quote = TRUE] :
             r \in {Transfer(a) : a \in {1, 2, 5, 6}}
                    \cup {Unshield(a, TRUE, 0, FALSE) : a \in {4, 7, 8, 11}}
                    \cup {Unshield(3, FALSE, 0, FALSE)}}
SomeRequests == [w \in SomeWallets |-> IF w \in Spenders THEN Spends ELSE Quotes]

Limits == {[calls |-> 1, other |-> 1], [calls |-> 2, other |-> 1], [calls |-> 1, other |-> 3]}
=============================================================================
