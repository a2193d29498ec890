------------------------------ MODULE Settings ------------------------------
(***************************************************************************)
(* What the commands that configure a wallet do to its records: the        *)
(* network, its RPC configs, bundlers and indexer (instance/networks.rs,   *)
(* instance/services.rs), the ERC-20s a profile tracks (asset/), and what  *)
(* `balance` makes of a profile's holdings (balance.rs).                   *)
(*                                                                         *)
(* A command is a list of steps, each of which reads one record and may    *)
(* refuse, leave it or write it: Update says which.  Home interleaves them.*)
(***************************************************************************)
EXTENDS Integers, SequencesExt

CONSTANTS
    None,           \* no value
    Refused,        \* what a step makes of a record when its command fails
    Places,         \* wallet instances: a data directory and a network each
    Presets,        \* those on mainnet or Sepolia, which have defaults
    DefaultAssets,  \* the ERC-20s every profile of these reads
    Holdings,       \* what a vault of the profile holds, by vault and asset
    Public,         \* the vaults whose holdings anyone can see
    Notes,          \* the profile's unspent Tornado notes
    Listings,       \* the lists its vault may make of them: with a pool tracked
                    \* twice, its notes are in them twice
    MaxAmount       \* the largest amount, 2^256 - 1 in the code

ASSUME SettingsAssumption ==
    /\ Presets \subseteq Places /\ Public \subseteq DOMAIN Holdings /\ MaxAmount \in Nat

NoRecords ==
    [network |-> None, rpcs |-> <<>>, active |-> None, bundlers |-> None, indexer |-> None,
     erc20s |-> {}, in |-> {}, out |-> {}]

HasDefaults(place) == place \in Presets
DefaultBundlers(place) == IF HasDefaults(place) THEN <<"pimlico">> ELSE <<>>
DefaultIndexer(place) ==
    IF HasDefaults(place) THEN [url |-> "saga", enabled |-> TRUE]
    ELSE [url |-> None, enabled |-> FALSE]
IsDefault(place, asset) == HasDefaults(place) /\ asset \in DefaultAssets

-----------------------------------------------------------------------------
(* The steps of a command after the wallet is open.  The active RPC is       *)
(* written before the list: a list is never without an active one.           *)

AddRpcListFirst == <<"rpc_check", "rpc_put", "rpc_active">>
AddRpc == <<"rpc_check", "rpc_active", "rpc_put">>
UseRpc == <<"rpc_listed", "rpc_use">>

DefaultRpc(place) == IF HasDefaults(place) THEN AddRpc ELSE <<>>
Defaults(place) == DefaultRpc(place) \o <<"bundlers", "indexer">>

(* An asset is registered for the wallet before a profile opts into it. *)
OptInFirst(place, asset) ==
    IF IsDefault(place, asset) THEN <<"clear">> ELSE <<"opt_in", "register", "clear">>
OptIn(place, asset) ==
    IF IsDefault(place, asset) THEN <<"clear">> ELSE <<"register", "opt_in", "clear">>
OptOut(place, asset) ==
    IF IsDefault(place, asset) THEN <<"drop", "remember">> ELSE <<"registered", "opt_out">>

Tracked == <<"out", "erc20s", "tracked">>

RpcWork == [rpc_add |-> AddRpc, rpc_add_use |-> AddRpc \o UseRpc, rpc_use |-> UseRpc]
BundlerWork ==
    [bundler_list   |-> <<"bundlers">>,
     bundler_add    |-> <<"bundlers", "bundler_add">>,
     bundler_remove |-> <<"bundlers", "bundler_remove">>]
IndexerWork ==
    [indexer_url |-> <<"indexer", "indexer_url">>,
     indexer_on  |-> <<"indexer", "indexer", "indexer_on">>,
     indexer_off |-> <<"indexer", "indexer", "indexer_off">>]
AssetWork(place, asset) ==
    [opt_in  |-> <<"rpcs", "active">> \o OptIn(place, asset),
     opt_out |-> OptOut(place, asset)]
ViewWork == <<"bundlers", "indexer">>
BalanceWork == Tracked \o <<"rpcs", "active", "balance">>
PasswordWork == <<"rewrap", "temp", "header">>

Work(kind, place, arg) ==
    CASE kind \in DOMAIN RpcWork     -> RpcWork[kind]
      [] kind \in DOMAIN BundlerWork -> BundlerWork[kind]
      [] kind \in DOMAIN IndexerWork -> IndexerWork[kind]
      [] kind \in {"opt_in", "opt_out"} -> AssetWork(place, arg)[kind]
      [] kind = "view"               -> ViewWork
      [] kind = "balance"            -> BalanceWork
      [] kind = "change_password"    -> PasswordWork

RecordOf(step) ==
    CASE step \in {"rpcs", "rpc_check", "rpc_put", "rpc_listed"} -> "rpcs"
      [] step \in {"active", "rpc_active", "rpc_use"} -> "active"
      [] step \in {"bundlers", "bundler_add", "bundler_remove"} -> "bundlers"
      [] step \in {"indexer", "indexer_url", "indexer_on", "indexer_off"} -> "indexer"
      [] step \in {"erc20s", "register", "registered"} -> "erc20s"
      [] step \in {"tracked", "opt_in", "drop", "opt_out"} -> "in"
      [] step \in {"out", "clear", "remember"} -> "out"
      [] step \in {"network", "opened"} -> "network"
      [] OTHER -> None

(* These write what they made of a record read before, without reading it again. *)
Blind == {"rpc_put", "rpc_use", "bundler_add", "bundler_remove",
          "indexer_url", "indexer_on", "indexer_off"}

-----------------------------------------------------------------------------
(* What a step makes of the value it reads; seen is what the command has read. *)

Unless(refuse, value) == IF refuse THEN Refused ELSE value
Seeded(value, default) == IF value = None THEN default ELSE value

RemoveAnyBundler(seen, url) == RemoveFirst(seen.bundlers, url)
RemoveBundler(seen, url) ==
    Unless(~Contains(seen.bundlers, url) \/ Len(seen.bundlers) = 1,
           RemoveFirst(seen.bundlers, url))

Unregistered(place, seen, in) ==
    {a \in in \ seen.out : ~IsDefault(place, a) /\ a \notin seen.erc20s}

NetworkUpdate(step, place, v) ==
    IF step = "network" THEN place ELSE Unless(v = None, v)

RpcUpdate(step, name, seen, v) ==
    CASE step = "rpcs"       -> Unless(v = <<>>, v)
      [] step = "rpc_check"  -> Unless(Contains(v, name), v)
      [] step = "rpc_active" -> Seeded(v, name)
      [] step = "rpc_put"    -> Append(seen.rpcs, name)
      [] step = "rpc_listed" -> Unless(~Contains(v, name), v)
      [] step = "rpc_use"    -> name
      [] OTHER               -> v

BundlersUpdate(step, place, url, seen, v) ==
    CASE step = "bundlers"       -> Seeded(v, DefaultBundlers(place))
      [] step = "bundler_add"    -> Unless(Contains(seen.bundlers, url), Append(seen.bundlers, url))
      [] step = "bundler_remove" -> RemoveBundler(seen, url)

IndexerUpdate(step, place, url, seen, v) ==
    CASE step = "indexer"     -> Seeded(v, DefaultIndexer(place))
      [] step = "indexer_url" -> [seen.indexer EXCEPT !.url = url]
      [] step = "indexer_on"  ->
           Unless(seen.indexer.url = None, [seen.indexer EXCEPT !.enabled = TRUE])
      [] step = "indexer_off" -> [seen.indexer EXCEPT !.enabled = FALSE]

ListUpdate(step, place, asset, seen, v) ==
    CASE step \in {"register", "opt_in", "remember"} -> v \cup {asset}
      [] step = "registered" -> Unless(asset \notin v, v)
      [] step = "opt_out"    -> Unless(asset \notin v, v \ {asset})
      [] step \in {"drop", "clear"} -> v \ {asset}
      [] step = "tracked" -> Unless(Unregistered(place, seen, v) # {}, v)
      [] OTHER            -> v

Update(step, place, arg, seen, v) ==
    LET record == RecordOf(step)
    IN  CASE record = "network"            -> NetworkUpdate(step, place, v)
          [] record \in {"rpcs", "active"} -> RpcUpdate(step, arg, seen, v)
          [] record = "bundlers"           -> BundlersUpdate(step, place, arg, seen, v)
          [] record = "indexer"            -> IndexerUpdate(step, place, arg, seen, v)
          [] OTHER                         -> ListUpdate(step, place, arg, seen, v)

(* The endpoint is the active config, or the first one when that is not listed. *)
Endpoint(seen) ==
    IF Contains(seen.rpcs, seen.active) THEN seen.active ELSE seen.rpcs[1]

-----------------------------------------------------------------------------
(* Balances. *)

TrackedAssets(place, seen) ==
    {"eth"} \cup (((IF HasDefaults(place) THEN DefaultAssets ELSE {}) \cup seen.in) \ seen.out)

SaturatingAdd(x, y) == IF x + y > MaxAmount THEN MaxAmount ELSE x + y
SumOver(amount, S) == FoldSet(LAMBDA e, sum : SaturatingAdd(amount[e], sum), 0, S)

(* One vault that fails for one asset is left out of the totals of all. *)
Totals(read, asset) ==
    LET held == [v \in DOMAIN Holdings |-> Holdings[v][asset]]
    IN  [public  |-> SumOver(held, read \cap Public),
         private |-> SumOver(held, read \ Public)]
(* The list is folded as it is: a note that is in it twice counts twice. *)
FoldTornado(list, asset, pending) ==
    SumOver([i \in DOMAIN list |-> list[i].amount],
            {i \in DOMAIN list : list[i].asset = asset /\ list[i].pending = pending})

Report(read, tornado, asset, listed) ==
    LET totals == Totals(read, asset)
        notes  == IF tornado THEN listed ELSE <<>>
    IN  [public    |-> totals.public,
         spendable |-> SaturatingAdd(totals.private, FoldTornado(notes, asset, FALSE)),
         pending   |-> FoldTornado(notes, asset, TRUE)]

CompleteIfAny(read, tornado) == tornado \/ read = DOMAIN Holdings
Complete(read, tornado) == tornado /\ read = DOMAIN Holdings
=============================================================================
