------------------------------- MODULE MCHome -------------------------------
(* An instance of Home for TLC: one data directory with a network that has  *)
(* defaults and one that has none, and another directory.                   *)
EXTENDS Home, TLC

Main  == [dir |-> "here", network |-> "mainnet"]
Local == [dir |-> "here", network |-> "local"]
There == [dir |-> "there", network |-> "local"]
SomePlaces  == {Main, Local, There}
SomePresets == {Main}
SomeAssets  == {"USDC"}

Of(held) == [a \in Assets |-> IF a \in DOMAIN held THEN held[a] ELSE 0]
SomeHoldings ==
    [address |-> Of([eth |-> 1, USDC |-> 2]), simple |-> Of([eth |-> 3, TOK |-> 1]),
     private |-> Of([eth |-> 2, USDC |-> 1])]
EthNote   == [asset |-> "eth", amount |-> 1, pending |-> TRUE]
TokenNote == [asset |-> "USDC", amount |-> 2, pending |-> FALSE]
SomeNotes == {EthNote, TokenNote}
SomeListings == {<<TokenNote, EthNote>>, <<TokenNote, EthNote, TokenNote>>}

Ask(kind, arg) ==
    [kind |-> kind, arg |-> arg, place |-> Main, typed |-> None, env |-> None]
Unlocks ==
    {[Ask("unlock", None) EXCEPT !.place = p, !.typed = "good"] : p \in {Main, Local}}
        \cup {[Ask("unlock", None) EXCEPT !.typed = "bad"]}
        \cup {[Ask("unlock", None) EXCEPT !.env = "good", !.place = Main]}
Configs ==
    {Ask("rpc_add", "publicnode"), Ask("rpc_add", "mine"), Ask("rpc_add_use", "mine"),
     Ask("rpc_use", "publicnode"), Ask("bundler_add", "mine"), Ask("bundler_remove", "pimlico"),
     Ask("bundler_list", None), Ask("indexer_url", "mine"), Ask("indexer_on", None),
     Ask("indexer_off", None), Ask("view", None), Ask("opt_in", "USDC"), Ask("opt_in", "TOK"),
     Ask("opt_out", "USDC"), Ask("opt_out", "TOK"), Ask("balance", None),
     Ask("change_password", "bad")}
SomeCommands ==
    Unlocks \cup Configs \cup {Ask("lock", None)}
      \cup {[Ask("view", None) EXCEPT !.typed = "good"],
            [Ask("view", None) EXCEPT !.env = "good"],
            [Ask("view", None) EXCEPT !.place = There]}
      \cup {[Ask("reveal", None) EXCEPT !.typed = p] : p \in {"good", "bad"}}

Empty ==
    [files |-> {}, header |-> [p \in Places |-> None],
     data |-> [p \in Places |-> [k \in Keys |-> NoRecords]], session |-> None]
Known(place) ==
    [NoRecords EXCEPT !.network = place, !.bundlers = DefaultBundlers(place),
       !.indexer = DefaultIndexer(place),
       !.rpcs = IF place \in Presets THEN <<"publicnode">> ELSE <<>>,
       !.active = IF place \in Presets THEN "publicnode" ELSE None]
Unlocked(place) ==
    [files   |-> {place},
     header  |-> [Empty.header EXCEPT ![place] = [password |-> "good", key |-> 1]],
     data    |-> [Empty.data EXCEPT ![place][1] = Known(place)],
     session |-> [place |-> place, password |-> "good", left |-> TTL]]
SomeStarts == {Empty, Unlocked(Main), Unlocked(Local)}
Symmetry == Permutations(Procs)
=============================================================================
