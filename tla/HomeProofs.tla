----------------------------- MODULE HomeProofs -----------------------------
(***************************************************************************)
(* What holds of a wallet's home for any number of processes, commands,    *)
(* instances and lifetime of a session.  A command is the plan of the      *)
(* steps it has left, and what makes it safe is the order of that plan:    *)
(* a store is opened before it is worked on, a key is drawn before the     *)
(* header that wraps it is written, the active RPC comes before the list,  *)
(* an asset is registered before a profile opts into it, and a list is     *)
(* read before it is replaced.  So the plan is part of the invariant, each *)
(* step is shown to leave one, and the session, the keys and the records   *)
(* follow, each from its own invariant.                                    *)
(*                                                                         *)
(* A balance adds up what was read, in an order CHOOSE picks: that the sum *)
(* is the same in any, and a set's is that of its parts, is induction on   *)
(* the size of a set, through the least number for which it would fail.    *)
(***************************************************************************)
EXTENDS Home, SequenceTheorems, FiniteSetTheorems, WellFoundedInduction, TLAPS

-----------------------------------------------------------------------------
(* What a command may have left to do, and what it knows.                   *)

Prelude == {"load", "renew", "present", "forget"}
Ends == {"password", "same", "typed", "exists", "held", "choose", "reveal",
         "open", "unlock", "create"}
Opening == {"load", "renew", "present"} \cup Ends
Final == {"password", "same", "typed", "exists", "held", "choose", "reveal", "work"}
RecordSteps == {"opened", "network", "rpcs", "active", "bundlers", "bundler_add", "bundler_remove",
                "indexer", "indexer_on", "indexer_off", "erc20s", "register",
                "registered", "tracked", "opt_in", "drop", "opt_out", "out", "clear", "remember"}

(* Those that need the name, or the URL, that the command was given.        *)
NamedSteps == {"rpc_check", "rpc_active", "rpc_put", "rpc_listed", "rpc_use", "indexer_url"}
NamedKinds == DOMAIN RpcWork \cup {"indexer_url"}

Steps == Opening \cup NamedSteps \cup RecordSteps
           \cup {"forget", "work", "balance", "hold", "temp", "header", "rewrap"}

(* What the steps that a command has left may be: one that opens the store  *)
(* comes last but for what it opens the store for, and a header, or an      *)
(* active RPC, is followed by what it is written for.                       *)
Precedes(s, x, y) ==
    \A i \in DOMAIN s : s[i] = x => i + 1 \in DOMAIN s /\ s[i + 1] = y

(* A step that rests on others comes after them, and is not repeated.       *)
Spoils(x, y) ==
    \/ x = "rpc_put" /\ y \in {"rpc_check", "rpc_active", "rpc_put"}
    \/ x = "rpc_use" /\ y \in {"rpc_listed", "rpc_use"}
    \/ x \in {"opt_in", "clear"} /\ y = "register"
    \/ x \in {"bundler_add", "bundler_remove"} /\ y = "bundlers"
    \/ x \in {"indexer_url", "indexer_on", "indexer_off"} /\ y = "indexer"
    \/ x = "balance" /\ y = "tracked"

Plan(s) ==
    /\ \A i \in DOMAIN s : i > 1 => s[i] \notin {"load", "renew"}
    /\ \A i, j \in DOMAIN s : i < j /\ s[j] \in Opening => s[i] \in Prelude
    /\ \A i \in DOMAIN s : s[i] \in Final => i = Len(s)
    /\ Precedes(s, "create", "temp") /\ Precedes(s, "rewrap", "temp")
    /\ Precedes(s, "temp", "header") /\ Precedes(s, "rpc_active", "rpc_put")
    /\ \A i, j \in DOMAIN s : i < j => ~ Spoils(s[i], s[j])

(* Which steps the commands that do not work on the records have.           *)
Reaches(kind, left) ==
    /\ kind = "lock" => left \subseteq {"forget"}
    /\ kind = "unlock" => left \cap {"held", "choose", "open", "reveal", "work"} = {}
    /\ kind = "reveal" => left \subseteq {"load", "renew", "present", "forget", "reveal",
                                           "open", "opened"}

(* Steps that rest on what the command did before.                          *)
PutsListed(left) == "rpc_put" \in left /\ "rpc_check" \notin left
PutsActive(left) == "rpc_put" \in left /\ "rpc_active" \notin left
UsesListed(left) == "rpc_use" \in left /\ "rpc_listed" \notin left
OptsIn(left) == left \cap {"opt_in", "clear"} # {} /\ "register" \notin left
UsesBundlers(left) ==
    left \cap {"bundler_add", "bundler_remove"} # {} /\ "bundlers" \notin left
UsesIndexer(left) ==
    left \cap {"indexer_url", "indexer_on", "indexer_off"} # {} /\ "indexer" \notin left
Counts(left) == "balance" \in left /\ "tracked" \notin left
Rests(left) ==
    \/ PutsListed(left) \/ PutsActive(left) \/ UsesListed(left) \/ OptsIn(left)
    \/ UsesBundlers(left) \/ UsesIndexer(left) \/ Counts(left)

(* Steps that only read their record.                                       *)
Reads == {"rpcs", "rpc_check", "rpc_listed", "active", "erc20s", "registered", "out",
          "tracked"}

(* What a command knows, of itself.                                         *)
Formed(c) ==
    LET left == Range(c.todo) IN
    /\ Plan(c.todo) /\ Reaches(c.kind, left)
    /\ c.key # None => left \cap Opening = {}
    /\ c.key = None /\ c.kind # "lock" /\ c.todo # <<>> => left \cap Ends # {}
    /\ c.by = "session" => left \cap {"load", "password"} = {}
    /\ c.kind = "reveal" /\ (c.key # None \/ "open" \in left) => c.by = "user"
    /\ c.todo # <<>> /\ c.todo[1] = "renew" => c.session # None
    /\ c.kind \in NamedKinds \/ left \cap NamedSteps # {} => c.arg # None
    /\ Rests(left) => c.key # None
    /\ c.read /\ c.todo # <<>> =>
         /\ RecordOf(c.todo[1]) # None /\ c.todo[1] \notin Blind \cup Reads
         /\ c.todo[1] = "rpc_active" => c.seen.active = c.arg

Fields == {"todo", "kind", "arg", "place", "typed", "env", "session", "password", "key",
           "seen", "read", "by", "live", "had"}
Records == {"network", "rpcs", "active", "bundlers", "indexer", "erc20s", "in", "out"}
Command(c) ==
    /\ DOMAIN c = Fields
    /\ c.todo \in Seq(Steps) /\ c.kind \in Kinds
    /\ c.place \in Places /\ c.arg \in Words /\ c.typed \in Words /\ c.env \in Words
    /\ c.password \in Words
    /\ c.session \in {None} \cup Sessions /\ c.key \in {None} \cup Keys
    /\ DOMAIN c.seen = Records /\ c.seen.rpcs \in Seq(Words)
    /\ Formed(c)

CmdType ==
    /\ DOMAIN cmd = Procs
    /\ \A q \in Procs : cmd[q] = NoCommand \/ Command(cmd[q])
StoreType ==
    /\ files \subseteq Places /\ session \in {None} \cup Sessions /\ key \in Nat
    /\ header \in [Places -> {None} \cup Headers]
    /\ DOMAIN data = Places
    /\ \A p \in Places :
         /\ DOMAIN data[p] = Keys
         /\ \A k \in Keys : DOMAIN data[p][k] = Records /\ data[p][k].rpcs \in Seq(Words)
TypeInv == CmdType /\ StoreType

(* While no two commands overlapped, a session that has time left is one    *)
(* that was unlocked and used since in time, and so is one a command loaded. *)
SessionInv ==
    /\ alone => \A p, q \in Procs : p # q => cmd[p] = NoCommand \/ cmd[q] = NoCommand
    /\ alone /\ session # None /\ session.left # 0 => granted /\ session.left + idle = TTL
    /\ idle \in Nat
    /\ alone => \A q \in Procs : cmd[q] # NoCommand =>
         /\ cmd[q].session # None \/ cmd[q].by = "session" => cmd[q].live
         /\ cmd[q].todo # <<>> /\ cmd[q].todo[1] = "renew" => session # None

(* A command's key is the one its store's header wraps, or will once the    *)
(* command that creates the store has written it.                           *)
Wraps(p, k) == header[p] # None /\ header[p].key = k
Keeper(q) ==
    cmd[q] # NoCommand /\ cmd[q].key # None /\ cmd[q].place \notin contested =>
         \/ Wraps(cmd[q].place, cmd[q].key)
         \/ header[cmd[q].place] = None /\ Writing(q, cmd[q].place)
Rivals(p, q, r) == q # r /\ Writing(q, p) /\ Writing(r, p) => header[p] # None
KeyInv ==
    /\ OneKey
    /\ \A q \in Procs : Keeper(q)
    /\ \A p \in Places \ contested, q, r \in Procs : Rivals(p, q, r)

(* The records a command works on.                                          *)
Under(c) == data[c.place][c.key]
AtWork(c) == c # NoCommand /\ c.key \in Keys

(* A list of RPCs has an active one, and so it has before it has its first. *)
ActiveAt(c) == AtWork(c) /\ PutsActive(Range(c.todo)) => Under(c).active # None
ActiveInv ==
    /\ \A p \in Places, k \in Keys : data[p][k].rpcs # <<>> => data[p][k].active # None
    /\ \A q \in Procs : ActiveAt(cmd[q])

(* What a command read is so until it writes, if no other command is there; *)
(* the active RPC is listed, or about to be.                                *)
RpcAt(c) ==
    LET left == Range(c.todo) IN
    AtWork(c) =>
      /\ PutsListed(left) => c.seen.rpcs = Under(c).rpcs
      /\ UsesListed(left) => Contains(Under(c).rpcs, c.arg)
      /\ c.read /\ c.todo # <<>> /\ c.todo[1] = "rpc_active" => Under(c).active = None
Adds(c, p, k) ==
    /\ c # NoCommand /\ c.place = p /\ c.key = k /\ c.todo # <<>> /\ c.todo[1] = "rpc_put"
    /\ data[p][k].active = c.arg
InUse(p, k) ==
    LET r == data[p][k]
    IN  IF r.rpcs # <<>> THEN Contains(r.rpcs, r.active)
        ELSE r.active = None \/ \E q \in Procs : Adds(cmd[q], p, k)
RpcInv ==
    alone =>
      /\ \A q \in Procs : RpcAt(cmd[q])
      /\ ~ crashed => \A p \in Places, k \in Keys : InUse(p, k)

(* An asset is registered before a profile opts into it.                    *)
ListAt(c) ==
    AtWork(c) =>
      /\ OptsIn(Range(c.todo)) => IsDefault(c.place, c.arg) \/ c.arg \in Under(c).erc20s
      /\ c.read /\ c.todo # <<>> /\ RecordOf(c.todo[1]) \in {"erc20s", "in", "out"} =>
           LET record == RecordOf(c.todo[1])
           IN  c.seen[record] = ListUpdate(c.todo[1], c.place, c.arg, c.seen, Under(c)[record])
ListInv == alone => OptedIsRegistered /\ \A q \in Procs : ListAt(cmd[q])

(* What a list of bundlers, an indexer and what was opted into may be.      *)
Good(place, record, v) ==
    /\ record = "bundlers" =>
         /\ v \in {None} \cup Seq(Urls)
         /\ v # None => IsInjective(v) /\ (place \in Presets => v # <<>>)
    /\ record = "indexer" =>
         /\ v \in {None} \cup Indexers
         /\ v # None /\ v.enabled => v.url # None
    /\ record = "in" => v \subseteq Words

(* So is what a command has read of them, that what it has left rests on.   *)
ServiceAt(c) ==
    LET left == Range(c.todo) IN
    AtWork(c) =>
      /\ UsesBundlers(left) => c.seen.bundlers # None /\ Good(c.place, "bundlers", c.seen.bundlers)
      /\ UsesIndexer(left) => c.seen.indexer # None /\ Good(c.place, "indexer", c.seen.indexer)
      /\ Counts(left) => Good(c.place, "in", c.seen.in)
      /\ c.read /\ c.todo # <<>> =>
           LET record == RecordOf(c.todo[1])
           IN  /\ Good(c.place, record, c.seen[record])
               /\ c.todo[1] \in {"bundlers", "indexer"} => c.seen[record] # None
ServiceInv ==
    /\ \A p \in Places, k \in Keys, record \in Records : Good(p, record, data[p][k][record])
    /\ \A q \in Procs : ServiceAt(cmd[q])
-----------------------------------------------------------------------------
(* Sequences of steps.                                                     *)

(* What a concatenation is, element by element.                              *)
LEMMA ConcatIs ==
    ASSUME NEW s \in Seq(Steps), NEW t \in Seq(Steps), NEW u \in Seq(Steps),
           Len(u) = Len(s) + Len(t),
           \A i \in 1 .. Len(s) : u[i] = s[i],
           \A i \in 1 .. Len(t) : u[Len(s) + i] = t[i]
    PROVE  s \o t = u
<1>1. s \o t \in Seq(Steps) /\ Len(s \o t) = Len(u)
  OBVIOUS
<1>2. ASSUME NEW i \in 1 .. Len(u) PROVE (s \o t)[i] = u[i]
  <2>1. CASE i \in 1 .. Len(s)
    BY <2>1
  <2>2. CASE i \notin 1 .. Len(s)
    <3>1. i - Len(s) \in 1 .. Len(t) /\ i = Len(s) + (i - Len(s))
      BY <2>2
    <3>2. (s \o t)[i] = t[i - Len(s)]
      BY <2>2
    <3>3. u[Len(s) + (i - Len(s))] = t[i - Len(s)]
      BY <3>1
    <3>. QED BY <3>1, <3>2, <3>3
  <2>. QED BY <2>1, <2>2
<1>. QED BY <1>1, <1>2, SeqEqual
-----------------------------------------------------------------------------
(* The steps of each command.                                              *)

(* A plan of work on the records: none of its steps opens a store.          *)
WorkPlan(s, kind, place, arg) ==
    /\ s \in Seq(Steps) /\ s # <<>> /\ Plan(s) /\ Range(s) \cap Opening = {}
    /\ Range(s) \cap NamedSteps # {} => kind \in NamedKinds
    /\ ~ PutsListed(Range(s)) /\ ~ PutsActive(Range(s)) /\ ~ UsesListed(Range(s))
    /\ ~ UsesBundlers(Range(s)) /\ ~ UsesIndexer(Range(s)) /\ ~ Counts(Range(s))
    /\ OptsIn(Range(s)) => IsDefault(place, arg)

(* The plans that are put together from shorter ones.                        *)
LEMMA LongPlans ==
    /\ AddRpc \o UseRpc = <<"rpc_check", "rpc_active", "rpc_put", "rpc_listed", "rpc_use">>
    /\ <<"rpcs", "active">> \o <<"clear">> = <<"rpcs", "active", "clear">>
    /\ <<"rpcs", "active">> \o <<"register", "opt_in", "clear">>
         = <<"rpcs", "active", "register", "opt_in", "clear">>
    /\ Tracked \o <<"rpcs", "active", "balance">>
         = <<"out", "erc20s", "tracked", "rpcs", "active", "balance">>
<1>1. /\ <<"rpc_check", "rpc_active", "rpc_put">> \in Seq(Steps)
      /\ <<"rpc_listed", "rpc_use">> \in Seq(Steps) /\ <<"rpcs", "active">> \in Seq(Steps)
      /\ <<"clear">> \in Seq(Steps) /\ <<"register", "opt_in", "clear">> \in Seq(Steps)
      /\ <<"out", "erc20s", "tracked">> \in Seq(Steps)
      /\ <<"rpcs", "active", "balance">> \in Seq(Steps)
  BY DEF Steps, NamedSteps, RecordSteps
<1>2. /\ <<"rpc_check", "rpc_active", "rpc_put", "rpc_listed", "rpc_use">> \in Seq(Steps)
      /\ <<"rpcs", "active", "clear">> \in Seq(Steps)
      /\ <<"rpcs", "active", "register", "opt_in", "clear">> \in Seq(Steps)
      /\ <<"out", "erc20s", "tracked", "rpcs", "active", "balance">> \in Seq(Steps)
  BY DEF Steps, NamedSteps, RecordSteps
<1>3. AddRpc \o UseRpc = <<"rpc_check", "rpc_active", "rpc_put", "rpc_listed", "rpc_use">>
  <2> DEFINE s == <<"rpc_check", "rpc_active", "rpc_put">>
             t == <<"rpc_listed", "rpc_use">>
             u == <<"rpc_check", "rpc_active", "rpc_put", "rpc_listed", "rpc_use">>
  <2>1. /\ Len(u) = Len(s) + Len(t) /\ \A i \in 1 .. Len(s) : u[i] = s[i]
        /\ \A i \in 1 .. Len(t) : u[Len(s) + i] = t[i]
    OBVIOUS
  <2>2. s \o t = u
    <3> HIDE DEF s, t, u
    <3>1. s \in Seq(Steps) /\ t \in Seq(Steps) /\ u \in Seq(Steps)
      BY <1>1, <1>2 DEF s, t, u
    <3>. QED BY <2>1, <3>1, ConcatIs
  <2>. QED BY <2>2, Zenon DEF AddRpc, UseRpc
<1>4. <<"rpcs", "active">> \o <<"clear">> = <<"rpcs", "active", "clear">>
  <2> DEFINE s == <<"rpcs", "active">>
             t == <<"clear">>
             u == <<"rpcs", "active", "clear">>
  <2>1. /\ Len(u) = Len(s) + Len(t) /\ \A i \in 1 .. Len(s) : u[i] = s[i]
        /\ \A i \in 1 .. Len(t) : u[Len(s) + i] = t[i]
    OBVIOUS
  <2>2. s \o t = u
    <3> HIDE DEF s, t, u
    <3>1. s \in Seq(Steps) /\ t \in Seq(Steps) /\ u \in Seq(Steps)
      BY <1>1, <1>2 DEF s, t, u
    <3>. QED BY <2>1, <3>1, ConcatIs
  <2>. QED BY <2>2
<1>5. <<"rpcs", "active">> \o <<"register", "opt_in", "clear">>
        = <<"rpcs", "active", "register", "opt_in", "clear">>
  <2> DEFINE s == <<"rpcs", "active">>
             t == <<"register", "opt_in", "clear">>
             u == <<"rpcs", "active", "register", "opt_in", "clear">>
  <2>1. /\ Len(u) = Len(s) + Len(t) /\ \A i \in 1 .. Len(s) : u[i] = s[i]
        /\ \A i \in 1 .. Len(t) : u[Len(s) + i] = t[i]
    OBVIOUS
  <2>2. s \o t = u
    <3> HIDE DEF s, t, u
    <3>1. s \in Seq(Steps) /\ t \in Seq(Steps) /\ u \in Seq(Steps)
      BY <1>1, <1>2 DEF s, t, u
    <3>. QED BY <2>1, <3>1, ConcatIs
  <2>. QED BY <2>2
<1>6. Tracked \o <<"rpcs", "active", "balance">>
        = <<"out", "erc20s", "tracked", "rpcs", "active", "balance">>
  <2> DEFINE s == <<"out", "erc20s", "tracked">>
             t == <<"rpcs", "active", "balance">>
             u == <<"out", "erc20s", "tracked", "rpcs", "active", "balance">>
  <2>1. /\ Len(u) = Len(s) + Len(t) /\ \A i \in 1 .. Len(s) : u[i] = s[i]
        /\ \A i \in 1 .. Len(t) : u[Len(s) + i] = t[i]
    OBVIOUS
  <2>2. s \o t = u
    <3> HIDE DEF s, t, u
    <3>1. s \in Seq(Steps) /\ t \in Seq(Steps) /\ u \in Seq(Steps)
      BY <1>1, <1>2 DEF s, t, u
    <3>. QED BY <2>1, <3>1, ConcatIs
  <2>. QED BY <2>2, Zenon DEF Tracked
<1>. QED BY <1>3, <1>4, <1>5, <1>6

(* What `network rpc` does is a plan of work.                                *)
LEMMA RpcPlans ==
    ASSUME NEW kind \in DOMAIN RpcWork, NEW place, NEW arg
    PROVE  WorkPlan(RpcWork[kind], kind, place, arg)
<1> USE DEF Steps, RecordSteps, NamedSteps, Opening, Ends, Final, Plan, Precedes, Spoils, Range,
        PutsListed, PutsActive, UsesListed, OptsIn, UsesBundlers, UsesIndexer, Counts
<1>1. AddRpc \o UseRpc = <<"rpc_check", "rpc_active", "rpc_put", "rpc_listed", "rpc_use">>
  BY LongPlans
<1>2. WorkPlan(<<"rpc_check", "rpc_active", "rpc_put">>, "rpc_add", place, arg)
  BY DEF WorkPlan, RpcWork, NamedKinds
<1>3. WorkPlan(<<"rpc_check", "rpc_active", "rpc_put", "rpc_listed", "rpc_use">>, "rpc_add_use",
               place, arg)
  BY DEF WorkPlan, RpcWork, NamedKinds
<1>4. WorkPlan(<<"rpc_listed", "rpc_use">>, "rpc_use", place, arg)
  BY DEF WorkPlan, RpcWork, NamedKinds
<1>. QED BY <1>1, <1>2, <1>3, <1>4 DEF RpcWork, AddRpc, UseRpc

(* What the commands on bundlers and the indexer do is a plan of work.       *)
LEMMA ServicePlans ==
    ASSUME NEW kind, NEW place, NEW arg
    PROVE  /\ kind \in DOMAIN BundlerWork => WorkPlan(BundlerWork[kind], kind, place, arg)
           /\ kind \in DOMAIN IndexerWork => WorkPlan(IndexerWork[kind], kind, place, arg)
           /\ WorkPlan(ViewWork, kind, place, arg)
           /\ WorkPlan(PasswordWork, kind, place, arg)
<1> USE DEF Steps, RecordSteps, NamedSteps, Opening, Ends, Final, Plan, Precedes, Spoils, Range,
        PutsListed, PutsActive, UsesListed, OptsIn, UsesBundlers, UsesIndexer, Counts
<1>1. kind \in DOMAIN BundlerWork => WorkPlan(BundlerWork[kind], kind, place, arg)
  <2>1. WorkPlan(<<"bundlers">>, kind, place, arg)
    BY DEF WorkPlan
  <2>2. WorkPlan(<<"bundlers", "bundler_add">>, kind, place, arg)
    BY DEF WorkPlan
  <2>3. WorkPlan(<<"bundlers", "bundler_remove">>, kind, place, arg)
    BY DEF WorkPlan
  <2>. QED BY <2>1, <2>2, <2>3 DEF BundlerWork
<1>2. kind \in DOMAIN IndexerWork => WorkPlan(IndexerWork[kind], kind, place, arg)
  <2>1. kind = "indexer_url" => WorkPlan(<<"indexer", "indexer_url">>, kind, place, arg)
    BY DEF WorkPlan, NamedKinds
  <2>2. WorkPlan(<<"indexer", "indexer", "indexer_on">>, kind, place, arg)
    BY DEF WorkPlan
  <2>3. WorkPlan(<<"indexer", "indexer", "indexer_off">>, kind, place, arg)
    BY DEF WorkPlan
  <2>. QED BY <2>1, <2>2, <2>3 DEF IndexerWork
<1>3. WorkPlan(ViewWork, kind, place, arg)
  BY DEF ViewWork, WorkPlan
<1>4. WorkPlan(PasswordWork, kind, place, arg)
  BY DEF PasswordWork, WorkPlan
<1>. QED BY <1>1, <1>2, <1>3, <1>4

(* What opting in and out does is a plan of work.                            *)
LEMMA AssetPlans ==
    ASSUME NEW kind, NEW place, NEW arg
    PROVE  /\ WorkPlan(AssetWork(place, arg)["opt_in"], kind, place, arg)
           /\ WorkPlan(AssetWork(place, arg)["opt_out"], kind, place, arg)
           /\ WorkPlan(BalanceWork, kind, place, arg)
<1> USE DEF Steps, RecordSteps, NamedSteps, Opening, Ends, Final, Plan, Precedes, Spoils, Range,
        PutsListed, PutsActive, UsesListed, OptsIn, UsesBundlers, UsesIndexer, Counts
<1>1. WorkPlan(AssetWork(place, arg)["opt_in"], kind, place, arg)
  <2>1. CASE IsDefault(place, arg)
    <3>1. <<"rpcs", "active">> \o <<"clear">> = <<"rpcs", "active", "clear">>
      BY LongPlans
    <3>2. WorkPlan(<<"rpcs", "active", "clear">>, kind, place, arg)
      BY <2>1 DEF WorkPlan
    <3>. QED BY <2>1, <3>1, <3>2 DEF AssetWork, OptIn
  <2>2. CASE ~ IsDefault(place, arg)
    <3>1. <<"rpcs", "active">> \o <<"register", "opt_in", "clear">>
            = <<"rpcs", "active", "register", "opt_in", "clear">>
      BY LongPlans
    <3>2. WorkPlan(<<"rpcs", "active", "register", "opt_in", "clear">>, kind, place, arg)
      BY DEF WorkPlan
    <3>. QED BY <2>2, <3>1, <3>2 DEF AssetWork, OptIn
  <2>. QED BY <2>1, <2>2
<1>2. WorkPlan(AssetWork(place, arg)["opt_out"], kind, place, arg)
  <2>1. WorkPlan(<<"drop", "remember">>, kind, place, arg)
    BY DEF WorkPlan
  <2>2. WorkPlan(<<"registered", "opt_out">>, kind, place, arg)
    BY DEF WorkPlan
  <2>. QED BY <2>1, <2>2 DEF AssetWork, OptOut
<1>3. WorkPlan(BalanceWork, kind, place, arg)
  <2>1. Tracked \o <<"rpcs", "active", "balance">>
          = <<"out", "erc20s", "tracked", "rpcs", "active", "balance">>
    BY LongPlans
  <2>2. WorkPlan(<<"out", "erc20s", "tracked", "rpcs", "active", "balance">>, kind, place, arg)
    BY DEF WorkPlan
  <2>. QED BY <2>1, <2>2 DEF BalanceWork
<1>. QED BY <1>1, <1>2, <1>3

(* Whatever a command does once the store is open is a plan of work.         *)
LEMMA WorkPlans ==
    ASSUME NEW kind \in Kinds \ {"unlock", "lock", "reveal"}, NEW place, NEW arg
    PROVE  WorkPlan(Work(kind, place, arg), kind, place, arg)
<1>1. /\ DOMAIN RpcWork = {"rpc_add", "rpc_add_use", "rpc_use"}
      /\ DOMAIN BundlerWork = {"bundler_list", "bundler_add", "bundler_remove"}
      /\ DOMAIN IndexerWork = {"indexer_url", "indexer_on", "indexer_off"}
  BY DEF RpcWork, BundlerWork, IndexerWork
<1>2. CASE kind \in DOMAIN RpcWork
  BY <1>1, <1>2, RpcPlans DEF Work
<1>3. CASE kind \in DOMAIN BundlerWork
  BY <1>1, <1>3, ServicePlans DEF Work
<1>4. CASE kind \in DOMAIN IndexerWork
  BY <1>1, <1>4, ServicePlans DEF Work
<1>5. CASE kind \in {"opt_in", "opt_out"}
  BY <1>1, <1>5, AssetPlans DEF Work
<1>6. CASE kind \in {"view", "balance", "change_password"}
  BY <1>1, <1>6, ServicePlans, AssetPlans DEF Work
<1>. QED BY <1>1, <1>2, <1>3, <1>4, <1>5, <1>6 DEF Kinds
-----------------------------------------------------------------------------
(* Taking a step, and putting steps before those that are left.            *)

(* What is left of a plan after its first step is a plan.                    *)
LEMMA Popped ==
    ASSUME NEW s \in Seq(Steps), s # <<>>, Plan(s)
    PROVE  LET t == Tail(s) IN
           /\ t \in Seq(Steps) /\ s[1] \in Steps /\ Range(s) = {s[1]} \cup Range(t) /\ Plan(t)
           /\ Range(t) \cap {"load", "renew"} = {}
           /\ s[1] \notin Prelude => Range(t) \cap Opening = {}
           /\ s[1] \in Final => t = <<>>
           /\ s[1] \in {"create", "rewrap"} => t # <<>> /\ t[1] = "temp"
           /\ s[1] = "temp" => t # <<>> /\ t[1] = "header"
           /\ s[1] = "rpc_active" => t # <<>> /\ t[1] = "rpc_put"
           /\ \A y \in Range(t) : ~ Spoils(s[1], y)
<1> DEFINE t == Tail(s)
           n == Len(s)
<1>1. n \in Nat \ {0} /\ DOMAIN s = 1 .. n /\ s[1] \in Steps
  OBVIOUS
<1>2. t \in Seq(Steps) /\ Len(t) = n - 1 /\ DOMAIN t = 1 .. n - 1
  OBVIOUS
<1>3. \A i \in 1 .. n - 1 : t[i] = s[i + 1]
  OBVIOUS
<1> HIDE DEF t, n
<1>4. Range(s) = {s[1]} \cup Range(t)
  <2>1. ASSUME NEW x \in Range(s) PROVE x \in {s[1]} \cup Range(t)
    <3>1. PICK i \in 1 .. n : x = s[i]
      BY <1>1 DEF Range
    <3>2. CASE i = 1
      BY <3>1, <3>2
    <3>3. CASE i # 1
      <4>1. i - 1 \in 1 .. n - 1 /\ t[i - 1] = s[i]
        BY <1>1, <1>3, <3>3
      <4>. QED BY <3>1, <4>1, <1>2 DEF Range
    <3>. QED BY <3>2, <3>3
  <2>2. ASSUME NEW x \in Range(t) PROVE x \in Range(s)
    <3>1. PICK i \in 1 .. n - 1 : x = t[i]
      BY <1>2 DEF Range
    <3>. QED BY <1>1, <1>3, <3>1 DEF Range
  <2>3. s[1] \in Range(s)
    BY <1>1 DEF Range
  <2>. QED BY <2>1, <2>2, <2>3
<1>5. \A i \in 1 .. n : i > 1 => s[i] \notin {"load", "renew"}
  BY <1>1 DEF Plan
<1>6. \A i, j \in 1 .. n : i < j /\ s[j] \in Opening => s[i] \in Prelude
  BY <1>1 DEF Plan
<1>7. \A i \in 1 .. n : s[i] \in Final => i = n
  BY <1>1 DEF Plan, n
<1>8. \A i, j \in 1 .. n : i < j => ~ Spoils(s[i], s[j])
  BY <1>1 DEF Plan
<1>9. ASSUME NEW x, NEW y, Precedes(s, x, y)
      PROVE  Precedes(t, x, y) /\ (s[1] = x => 1 \in 1 .. n - 1 /\ t[1] = y)
  <2>1. \A i \in 1 .. n : s[i] = x => i + 1 \in 1 .. n /\ s[i + 1] = y
    BY <1>1, <1>9 DEF Precedes
  <2>2. ASSUME NEW i \in 1 .. n - 1, t[i] = x PROVE i + 1 \in 1 .. n - 1 /\ t[i + 1] = y
    <3>1. s[i + 1] = x /\ i + 1 \in 1 .. n
      BY <1>1, <1>3, <2>2
    <3>2. i + 2 \in 1 .. n /\ s[i + 2] = y
      BY <1>1, <2>1, <3>1
    <3>. QED BY <1>1, <1>3, <3>2
  <2>3. s[1] = x => 1 \in 1 .. n - 1 /\ t[1] = y
    BY <1>1, <1>3, <2>1
  <2>. QED BY <1>2, <2>2, <2>3 DEF Precedes
<1>10. Plan(t)
  <2>1. \A i \in 1 .. n - 1 : i > 1 => t[i] \notin {"load", "renew"}
    BY <1>1, <1>3, <1>5
  <2>2. \A i, j \in 1 .. n - 1 : i < j /\ t[j] \in Opening => t[i] \in Prelude
    BY <1>1, <1>3, <1>6
  <2>3. \A i \in 1 .. n - 1 : t[i] \in Final => i = n - 1
    BY <1>1, <1>3, <1>7
  <2>4. \A i, j \in 1 .. n - 1 : i < j => ~ Spoils(t[i], t[j])
    BY <1>1, <1>3, <1>8
  <2>5. /\ Precedes(t, "create", "temp") /\ Precedes(t, "rewrap", "temp")
        /\ Precedes(t, "temp", "header") /\ Precedes(t, "rpc_active", "rpc_put")
    BY <1>9 DEF Plan
  <2>. QED BY <1>2, <2>1, <2>2, <2>3, <2>4, <2>5 DEF Plan
<1>11. /\ s[1] \in {"create", "rewrap"} => t # <<>> /\ t[1] = "temp"
       /\ s[1] = "temp" => t # <<>> /\ t[1] = "header"
       /\ s[1] = "rpc_active" => t # <<>> /\ t[1] = "rpc_put"
  <2>1. 1 \in 1 .. n - 1 => t # <<>>
    BY <1>1, <1>2
  <2>. QED BY <1>9, <2>1 DEF Plan
<1>12. Range(t) \cap {"load", "renew"} = {}
  BY <1>1, <1>2, <1>3, <1>5 DEF Range
<1>13. s[1] \notin Prelude => Range(t) \cap Opening = {}
  BY <1>1, <1>2, <1>3, <1>6 DEF Range
<1>14. s[1] \in Final => t = <<>>
  BY <1>1, <1>2, <1>7
<1>15. \A y \in Range(t) : ~ Spoils(s[1], y)
  BY <1>1, <1>2, <1>3, <1>8 DEF Range
<1>. QED BY <1>1, <1>2, <1>4, <1>10, <1>11, <1>12, <1>13, <1>14, <1>15 DEF t

(* Steps that open the store may be put before a plan.                       *)
LEMMA Prefixed ==
    ASSUME NEW t \in Seq(Steps), Plan(t), Range(t) \cap {"load", "renew"} = {},
           NEW s \in {<<"renew", "present">>, <<"forget">>}
    PROVE  /\ s \o t \in Seq(Steps) /\ s \o t # <<>> /\ (s \o t)[1] = s[1]
           /\ Range(s \o t) = Range(s) \cup Range(t) /\ Plan(s \o t)
<1> DEFINE u == s \o t
           m == Len(s)
           n == Len(t)
<1>1. /\ s \in Seq(Steps) /\ m \in {1, 2} /\ DOMAIN s = 1 .. m
      /\ \A i \in 1 .. m : s[i] \in Prelude /\ s[i] \notin Final
      /\ \A i \in 1 .. m : i > 1 => s[i] \notin {"load", "renew"}
      /\ \A i \in 1 .. m : s[i] \notin {"create", "rewrap", "temp", "rpc_active"}
  <2>1. CASE s = <<"forget">>
    BY <2>1 DEF Steps, Prelude, Final
  <2>2. CASE s = <<"renew", "present">>
    BY <2>2 DEF Steps, Opening, Prelude, Final
  <2>. QED BY <2>1, <2>2
<1>2. n \in Nat /\ DOMAIN t = 1 .. n
  OBVIOUS
<1>3. u \in Seq(Steps) /\ Len(u) = m + n /\ DOMAIN u = 1 .. m + n
  BY <1>1
<1>4. (\A i \in 1 .. m : u[i] = s[i]) /\ (\A i \in 1 .. n : u[m + i] = t[i])
  BY <1>1
<1>5. s[1] = u[1] /\ u # <<>>
  BY <1>1, <1>3, <1>4
<1> HIDE DEF u, m, n
<1>6. \A i \in 1 .. m + n : i \in 1 .. m \/ (i - m \in 1 .. n /\ u[i] = t[i - m])
  BY <1>1, <1>2, <1>4
<1>7. Range(u) = Range(s) \cup Range(t)
  <2>1. ASSUME NEW x \in Range(u) PROVE x \in Range(s) \cup Range(t)
    <3>1. PICK i \in 1 .. m + n : x = u[i]
      BY <1>3 DEF Range
    <3>2. CASE i \in 1 .. m
      BY <1>1, <1>4, <3>1, <3>2 DEF Range
    <3>3. CASE i \notin 1 .. m
      <4>1. i - m \in 1 .. n /\ x = t[i - m]
        BY <1>6, <3>1, <3>3
      <4>. QED BY <1>2, <4>1 DEF Range
    <3>. QED BY <3>2, <3>3
  <2>2. ASSUME NEW x \in Range(s) PROVE x \in Range(u)
    <3>1. PICK i \in 1 .. m : x = s[i]
      BY <1>1 DEF Range
    <3>2. i \in 1 .. m + n
      BY <1>1, <1>2
    <3>. QED BY <3>1, <3>2, <1>3, <1>4 DEF Range
  <2>3. ASSUME NEW x \in Range(t) PROVE x \in Range(u)
    <3>1. PICK i \in 1 .. n : x = t[i]
      BY <1>2 DEF Range
    <3>2. m + i \in 1 .. m + n
      BY <1>1, <1>2
    <3>. QED BY <3>1, <3>2, <1>3, <1>4 DEF Range
  <2>. QED BY <2>1, <2>2, <2>3
<1>8. ASSUME NEW x \in {"create", "rewrap", "temp", "rpc_active"}, NEW y, Precedes(t, x, y)
      PROVE  Precedes(u, x, y)
  <2>1. \A i \in 1 .. n : t[i] = x => i + 1 \in 1 .. n /\ t[i + 1] = y
    BY <1>2, <1>8 DEF Precedes
  <2>2. ASSUME NEW i \in 1 .. m + n, u[i] = x PROVE i + 1 \in 1 .. m + n /\ u[i + 1] = y
    <3>1. i - m \in 1 .. n /\ t[i - m] = x
      BY <1>1, <1>4, <1>6, <2>2
    <3>2. (i - m) + 1 \in 1 .. n /\ t[(i - m) + 1] = y
      BY <2>1, <3>1
    <3>3. u[m + ((i - m) + 1)] = y /\ m + ((i - m) + 1) = i + 1
      BY <1>1, <1>4, <3>2
    <3>. QED BY <1>1, <1>2, <3>2, <3>3
  <2>. QED BY <1>3, <2>2 DEF Precedes
<1>9. Plan(u)
  <2>1. \A i \in 1 .. m + n : i > 1 => u[i] \notin {"load", "renew"}
    <3>1. \A i \in 1 .. n : t[i] \notin {"load", "renew"}
      BY <1>2 DEF Range
    <3>. QED BY <1>1, <1>4, <1>6, <3>1
  <2>2. \A i, j \in 1 .. m + n : i < j /\ u[j] \in Opening => u[i] \in Prelude
    <3>1. \A i, j \in 1 .. n : i < j /\ t[j] \in Opening => t[i] \in Prelude
      BY <1>2 DEF Plan
    <3>2. ASSUME NEW i \in 1 .. m + n, NEW j \in 1 .. m + n, i < j, u[j] \in Opening
          PROVE  u[i] \in Prelude
      <4>1. CASE i \in 1 .. m
        BY <4>1, <1>1, <1>4
      <4>2. CASE i \notin 1 .. m
        <5>1. i - m \in 1 .. n /\ u[i] = t[i - m]
          BY <1>6, <4>2
        <5>2. j - m \in 1 .. n /\ u[j] = t[j - m] /\ i - m < j - m
          BY <1>1, <1>2, <1>6, <3>2, <4>2
        <5>. QED BY <3>1, <3>2, <5>1, <5>2
      <4>. QED BY <4>1, <4>2
    <3>. QED BY <3>2
  <2>3. \A i \in 1 .. m + n : u[i] \in Final => i = m + n
    <3>1. \A i \in 1 .. n : t[i] \in Final => i = n
      BY <1>2 DEF Plan, n
    <3>2. ASSUME NEW i \in 1 .. m + n, u[i] \in Final PROVE i - m \in 1 .. n /\ t[i - m] \in Final
      BY <1>1, <1>4, <1>6, <3>2
    <3>. QED BY <1>1, <1>2, <3>1, <3>2
  <2>4. \A i, j \in 1 .. m + n : i < j => ~ Spoils(u[i], u[j])
    <3>1. \A i, j \in 1 .. n : i < j => ~ Spoils(t[i], t[j])
      BY <1>2 DEF Plan
    <3>2. ASSUME NEW i \in 1 .. m + n, NEW j \in 1 .. m + n, i < j PROVE ~ Spoils(u[i], u[j])
      <4>1. CASE i \in 1 .. m
        BY <4>1, <1>1, <1>4 DEF Prelude, Spoils
      <4>2. CASE i \notin 1 .. m
        <5>1. i - m \in 1 .. n /\ u[i] = t[i - m]
          BY <1>6, <4>2
        <5>2. j - m \in 1 .. n /\ u[j] = t[j - m] /\ i - m < j - m
          BY <1>1, <1>2, <1>6, <3>2, <4>2
        <5>. QED BY <3>1, <5>1, <5>2
      <4>. QED BY <4>1, <4>2
    <3>. QED BY <3>2
  <2>5. /\ Precedes(u, "create", "temp") /\ Precedes(u, "rewrap", "temp")
        /\ Precedes(u, "temp", "header") /\ Precedes(u, "rpc_active", "rpc_put")
    BY <1>8 DEF Plan
  <2>. QED BY <1>3, <2>1, <2>2, <2>3, <2>4, <2>5 DEF Plan
<1>. QED BY <1>3, <1>5, <1>7, <1>9 DEF u
-----------------------------------------------------------------------------
(* What a command knows, from one step to the next.                        *)

(* Two commands that agree but for some fields.                             *)
Alike(c, d, changed) == DOMAIN d = DOMAIN c /\ \A f \in Fields \ changed : d[f] = c[f]

(* The steps that have a record are those on the records.                    *)
LEMMA StepFacts ==
    /\ \A x \in Opening \cup {"forget", "work", "balance", "hold", "temp", "header", "rewrap"} :
         RecordOf(x) = None
    /\ \A x \in NamedSteps \cup RecordSteps : RecordOf(x) \in Records
    /\ None \notin Records /\ None \notin Keys /\ Keys \subseteq Nat
    /\ "publicnode" \in Words /\ None \in Words /\ "publicnode" # None
<1>1. DOMAIN NoRecords = Records
  BY DEF NoRecords, Records
<1>2. \A x \in Opening \cup {"forget", "work", "balance", "hold", "temp", "header", "rewrap"} :
        RecordOf(x) = None
  BY DEF RecordOf, Opening, Ends
<1>3. \A x \in NamedSteps \cup RecordSteps : RecordOf(x) \in Records
  BY DEF RecordOf, NamedSteps, RecordSteps, Records
<1>4. Keys \subseteq Nat
  BY HomeAssumption, FS_CardinalityType DEF Keys
<1>. QED BY <1>1, <1>2, <1>3, <1>4, HomeAssumption DEF Words

(* The parts of what a command knows.                                       *)
LEMMA CommandFacts ==
    ASSUME NEW c, Command(c)
    PROVE  /\ DOMAIN c = Fields /\ c.todo \in Seq(Steps) /\ c.kind \in Kinds /\ c.place \in Places
           /\ c.arg \in Words /\ c.typed \in Words /\ c.env \in Words /\ c.password \in Words
           /\ c.session \in {None} \cup Sessions /\ c.key \in {None} \cup Keys
           /\ DOMAIN c.seen = Records /\ c.seen.rpcs \in Seq(Words)
           /\ Formed(c) /\ Plan(c.todo) /\ Reaches(c.kind, Range(c.todo))
<1>1. Formed(c)
  BY DEF Command
<1>2. Plan(c.todo)
  BY <1>1 DEF Formed
<1>3. Reaches(c.kind, Range(c.todo))
  BY <1>1 DEF Formed
<1>. QED BY <1>1, <1>2, <1>3, Zenon DEF Command

(* A command is well formed if its parts are.                                *)
LEMMA IsCommand ==
    ASSUME NEW c, DOMAIN c = Fields, c.todo \in Seq(Steps), c.kind \in Kinds, c.place \in Places,
           c.arg \in Words, c.typed \in Words, c.env \in Words, c.password \in Words,
           c.session \in {None} \cup Sessions, c.key \in {None} \cup Keys,
           DOMAIN c.seen = Records, c.seen.rpcs \in Seq(Words), Formed(c)
    PROVE  Command(c)
BY Zenon DEF Command

(* A command past the steps that open its store has a data key.              *)
LEMMA HeadKey ==
    ASSUME NEW c, Command(c), c.todo # <<>>
    PROVE  /\ c.key = None => c.todo[1] \in Ends \cup Prelude
           /\ c.todo[1] \in Opening => c.key = None
<1>1. c.todo \in Seq(Steps) /\ Plan(c.todo) /\ Reaches(c.kind, Range(c.todo))
  BY CommandFacts
<1>2. c.todo[1] \in Range(c.todo)
  BY <1>1, Popped
<1>3. c.key # None => Range(c.todo) \cap Opening = {}
  BY DEF Command, Formed
<1>4. c.key = None /\ c.kind # "lock" => Range(c.todo) \cap Ends # {}
  BY DEF Command, Formed
<1>5. c.key = None => c.todo[1] \in Ends \cup Prelude
  <2>1. CASE c.kind = "lock"
    BY <1>1, <1>2, <2>1 DEF Reaches, Prelude
  <2>2. CASE c.kind # "lock" /\ c.key = None
    BY <1>1, <1>4, <2>2, Popped DEF Opening
  <2>. QED BY <2>1, <2>2
<1>. QED BY <1>2, <1>3, <1>5

(* A step that is over when it is taken.                                    *)
LEMMA TakeStep ==
    ASSUME NEW c, NEW d, Command(c), c.todo # <<>>, c.todo[1] \notin Ends,
           Alike(c, d, {"todo", "live", "had", "session", "seen", "read", "password"}),
           d.todo = Tail(c.todo), ~ d.read,
           d.session \in {None} \cup Sessions, d.password \in Words,
           DOMAIN d.seen = Records, d.seen.rpcs \in Seq(Words)
    PROVE  Command(d)
<1>1. c.todo \in Seq(Steps) /\ Plan(c.todo)
  BY CommandFacts
<1> DEFINE left == Range(c.todo)
           rest == Range(d.todo)
<1>2. /\ d.todo \in Seq(Steps) /\ Plan(d.todo) /\ left = {c.todo[1]} \cup rest
      /\ rest \cap {"load", "renew"} = {}
  BY <1>1, Popped
<1>3. /\ d.kind = c.kind /\ d.arg = c.arg /\ d.place = c.place /\ d.typed = c.typed
      /\ d.env = c.env /\ d.key = c.key /\ d.by = c.by /\ DOMAIN d = DOMAIN c
  BY DEF Alike, Fields
<1>4. d.todo # <<>> => d.todo[1] # "renew"
  <2>1. d.todo # <<>> => d.todo[1] \in rest
    BY <1>2, Popped
  <2>. QED BY <1>2, <2>1
<1> HIDE DEF left, rest
<1>5. Reaches(d.kind, rest)
  BY <1>2, <1>3 DEF Command, Formed, Reaches, left
<1>6. d.key # None => rest \cap Opening = {}
  BY <1>2, <1>3 DEF Command, Formed, left
<1>7. d.key = None /\ d.kind # "lock" /\ d.todo # <<>> => rest \cap Ends # {}
  BY <1>2, <1>3 DEF Command, Formed, left
<1>8. /\ d.by = "session" => rest \cap {"load", "password"} = {}
      /\ d.kind = "reveal" /\ (d.key # None \/ "open" \in rest) => d.by = "user"
      /\ d.kind \in NamedKinds \/ rest \cap NamedSteps # {} => d.arg # None
  BY <1>2, <1>3 DEF Command, Formed, left
<1>9. Rests(rest) => d.key # None
  <2>1. CASE c.key = None /\ Rests(rest)
    <3>1. c.todo[1] \in Prelude
      BY <2>1, HeadKey
    <3>2. Rests(left)
      BY <2>1, <3>1, <1>2 DEF Rests, PutsListed, PutsActive, UsesListed, OptsIn,
           UsesBundlers, UsesIndexer, Counts, Prelude
    <3>. QED BY <2>1, <3>2 DEF Command, Formed, left
  <2>. QED BY <2>1, <1>3
<1>10. Formed(d)
  BY <1>2, <1>4, <1>5, <1>6, <1>7, <1>8, <1>9 DEF Formed, rest
<1>. QED BY <1>2, <1>3, <1>10, CommandFacts, IsCommand

(* A step that gives the command the data key of its store.                 *)
LEMMA TakeKey ==
    ASSUME NEW c, NEW d, Command(c), c.todo # <<>>, c.todo[1] \in {"open", "unlock", "create"},
           Alike(c, d, {"todo", "key"}), d.todo = Tail(c.todo), d.key \in Keys
    PROVE  Command(d) /\ ~ Rests(Range(d.todo)) /\ ~ d.read
<1>1. c.todo \in Seq(Steps) /\ Plan(c.todo) /\ c.key = None
  BY HeadKey, CommandFacts DEF Opening, Ends
<1> DEFINE left == Range(c.todo)
           rest == Range(d.todo)
<1>2. /\ d.todo \in Seq(Steps) /\ Plan(d.todo) /\ left = {c.todo[1]} \cup rest
      /\ rest \cap Opening = {}
  BY <1>1, Popped DEF Prelude
<1>3. /\ d.kind = c.kind /\ d.arg = c.arg /\ d.place = c.place /\ d.typed = c.typed
      /\ d.env = c.env /\ d.by = c.by /\ DOMAIN d = DOMAIN c /\ d.session = c.session
      /\ d.password = c.password /\ d.seen = c.seen /\ d.read = c.read
  BY DEF Alike, Fields
<1>4. d.todo # <<>> => d.todo[1] # "renew"
  <2>1. d.todo # <<>> => d.todo[1] \in rest
    BY <1>2, Popped
  <2>. QED BY <1>2, <2>1 DEF Opening
<1>5. ~ d.read
  BY <1>3, StepFacts DEF Command, Formed, Opening, Ends
<1>6. d.key # None
  BY StepFacts
<1> HIDE DEF left, rest
<1>7. Reaches(d.kind, rest)
  BY <1>2, <1>3 DEF Command, Formed, Reaches, left
<1>8. /\ d.by = "session" => rest \cap {"load", "password"} = {}
      /\ d.kind \in NamedKinds \/ rest \cap NamedSteps # {} => d.arg # None
  BY <1>2, <1>3 DEF Command, Formed, left
<1>9. d.kind = "reveal" => d.by = "user"
  <2>1. c.kind = "reveal" => c.todo[1] = "open"
    BY <1>2 DEF Command, Formed, Reaches, left
  <2>. QED BY <1>2, <1>3, <2>1 DEF Command, Formed, left
<1>10. ~ Rests(rest)
  <2>1. ~ Rests(left)
    BY <1>1 DEF Command, Formed, left
  <2>. QED BY <2>1, <1>2 DEF Rests, PutsListed, PutsActive, UsesListed, OptsIn,
       UsesBundlers, UsesIndexer, Counts
<1>11. Formed(d)
  BY <1>2, <1>4, <1>5, <1>6, <1>7, <1>8, <1>9, <1>10 DEF Formed, rest
<1>12. Command(d)
  BY <1>2, <1>3, <1>11, CommandFacts, IsCommand
<1>. QED BY <1>5, <1>10, <1>12 DEF rest

(* What a step that leaves the records alone keeps of what rests on them.   *)
Rested(c, d) ==
    LET left == Range(c.todo)
        rest == Range(d.todo)
    IN  /\ d.read => d.todo = <<>>
        /\ Rests(rest) =>
             /\ d.place = c.place /\ d.key = c.key /\ d.arg = c.arg /\ d.seen = c.seen
             /\ PutsListed(rest) => PutsListed(left)
             /\ PutsActive(rest) => PutsActive(left)
             /\ UsesListed(rest) => UsesListed(left)
             /\ OptsIn(rest) => OptsIn(left) \/ IsDefault(d.place, d.arg)
             /\ UsesBundlers(rest) => UsesBundlers(left)
             /\ UsesIndexer(rest) => UsesIndexer(left)
             /\ Counts(rest) => Counts(left)

(* A step that is over leaves its command well formed.                       *)
LEMMA PassStep ==
    ASSUME NEW c, NEW d, Command(c), c.todo # <<>>, c.todo[1] \notin Ends,
           RecordOf(c.todo[1]) = None,
           Alike(c, d, {"todo", "live", "had", "session", "password"}), d.todo = Tail(c.todo),
           d.session \in {None} \cup Sessions, d.password \in Words
    PROVE  Command(d) /\ Rested(c, d) /\ (d.todo # <<>> => d.todo[1] # "renew")
<1>1. d.read = c.read /\ d.seen = c.seen /\ d.place = c.place /\ d.key = c.key /\ d.arg = c.arg
  BY DEF Alike, Fields
<1>2. ~ c.read
  BY CommandFacts DEF Formed
<1>3. Alike(c, d, {"todo", "live", "had", "session", "seen", "read", "password"})
  BY DEF Alike
<1>4. Command(d)
  BY <1>1, <1>2, <1>3, CommandFacts, TakeStep
<1>5. Range(c.todo) = {c.todo[1]} \cup Range(d.todo)
  BY CommandFacts, Popped
<1>6. c.todo[1] \notin {"rpc_check", "rpc_active", "rpc_listed", "register",
                         "bundlers", "indexer", "tracked"}
  BY StepFacts DEF NamedSteps, RecordSteps
<1>7. Rested(c, d)
  BY <1>1, <1>2, <1>5, <1>6 DEF Rested, Rests, PutsListed, PutsActive, UsesListed, OptsIn,
       UsesBundlers, UsesIndexer, Counts
<1>8. d.todo # <<>> => d.todo[1] # "renew"
  <2>1. d.todo \in Seq(Steps) /\ Plan(d.todo) /\ "renew" \notin Range(d.todo)
    BY CommandFacts, Popped
  <2>. QED BY <2>1, Popped
<1>. QED BY <1>4, <1>7, <1>8

(* So does a step that puts others, on the session, before those left.       *)
LEMMA PrefixFormed ==
    ASSUME NEW c, NEW d, Command(c), c.todo # <<>>, c.todo[1] \in {"load", "present", "hold"},
           NEW r \in SUBSET {"renew", "present", "forget"}, c.todo[1] = "hold" => r = {"forget"},
           Alike(c, d, {"todo", "live", "session"}),
           d.todo \in Seq(Steps), d.todo # <<>>, Plan(d.todo),
           Range(d.todo) = r \cup Range(Tail(c.todo)),
           d.session \in {None} \cup Sessions, d.todo[1] = "renew" => d.session # None
    PROVE  Command(d) /\ Rested(c, d)
<1> DEFINE left == Range(c.todo)
           rest == Range(Tail(c.todo))
           new == Range(d.todo)
<1>1. /\ d.kind = c.kind /\ d.arg = c.arg /\ d.place = c.place /\ d.typed = c.typed
      /\ d.env = c.env /\ d.key = c.key /\ d.by = c.by /\ DOMAIN d = DOMAIN c
      /\ d.password = c.password /\ d.seen = c.seen /\ d.read = c.read
  BY DEF Alike, Fields
<1>2. /\ Tail(c.todo) \in Seq(Steps) /\ Plan(Tail(c.todo)) /\ left = {c.todo[1]} \cup rest
      /\ rest \cap {"load", "renew"} = {}
  BY CommandFacts, Popped
<1>3. new = r \cup rest
  OBVIOUS
<1>5. ~ c.read
  BY CommandFacts, StepFacts DEF Formed, Opening
<1> HIDE DEF left, rest, new
<1>14. \A x : x \notin {"renew", "present", "forget", "load", "hold"} => (x \in new <=> x \in left)
  BY <1>2, <1>3
<1>15. \A x \in new : x \in {"renew", "present", "forget"} \/ x \in left
  BY <1>2, <1>3
<1>16. c.kind # "lock" /\ (c.kind = "reveal" => c.todo[1] # "hold") /\ "load" \notin new
  BY <1>2, <1>3, CommandFacts DEF Reaches, left
<1>6. Reaches(d.kind, new)
  <2>1. Reaches(c.kind, left)
    BY CommandFacts DEF left
  <2>2. c.kind = "unlock" => new \cap {"held", "choose", "open", "reveal", "work"} = {}
    BY <1>14, <2>1 DEF Reaches
  <2>3. c.kind = "reveal" => new \subseteq {"load", "renew", "present", "forget", "reveal",
                                           "open", "opened"}
    BY <1>15, <2>1 DEF Reaches
  <2>. QED BY <1>1, <1>16, <2>2, <2>3 DEF Reaches
<1>7. d.key # None => new \cap Opening = {}
  <2>1. CASE c.todo[1] = "hold"
    BY <1>1, <1>2, <1>3, <2>1, CommandFacts DEF Formed, left, Opening, Ends
  <2>2. CASE c.todo[1] # "hold"
    BY <1>1, <2>2, HeadKey DEF Opening
  <2>. QED BY <2>1, <2>2
<1>8. d.key = None /\ d.kind # "lock" => new \cap Ends # {}
  <2>1. c.key = None /\ c.kind # "lock" => left \cap Ends # {}
    BY CommandFacts DEF Formed, left
  <2>2. left \cap Ends # {} => new \cap Ends # {}
    BY <1>14 DEF Ends
  <2>. QED BY <1>1, <2>1, <2>2
<1>9. /\ d.by = "session" => new \cap {"load", "password"} = {}
      /\ d.kind = "reveal" /\ (d.key # None \/ "open" \in new) => d.by = "user"
      /\ d.kind \in NamedKinds \/ new \cap NamedSteps # {} => d.arg # None
  <2>1. /\ c.by = "session" => "password" \notin left
        /\ c.kind = "reveal" /\ (c.key # None \/ "open" \in left) => c.by = "user"
        /\ c.kind \in NamedKinds \/ left \cap NamedSteps # {} => c.arg # None
    BY CommandFacts DEF Formed, left
  <2>2. new \cap NamedSteps # {} => left \cap NamedSteps # {}
    BY <1>14 DEF NamedSteps
  <2>. QED BY <1>1, <1>14, <1>16, <2>1, <2>2
<1>10. /\ PutsListed(new) => PutsListed(left)
       /\ PutsActive(new) => PutsActive(left)
       /\ UsesListed(new) => UsesListed(left)
       /\ OptsIn(new) => OptsIn(left)
       /\ UsesBundlers(new) => UsesBundlers(left)
       /\ UsesIndexer(new) => UsesIndexer(left)
       /\ Counts(new) => Counts(left)
  BY <1>14 DEF PutsListed, PutsActive, UsesListed, OptsIn, UsesBundlers, UsesIndexer, Counts
<1>11. Rests(new) => d.key # None
  BY <1>1, <1>10, CommandFacts DEF Rests, Formed, left
<1>12. Formed(d)
  BY <1>1, <1>3, <1>5, <1>6, <1>7, <1>8, <1>9, <1>11 DEF Formed, new
<1>13. Rested(c, d)
  BY <1>1, <1>5, <1>10 DEF Rested, left, new
<1>. QED BY <1>1, <1>3, <1>12, <1>13, CommandFacts, IsCommand

LEMMA PrefixStep ==
    ASSUME NEW c, NEW d, Command(c), c.todo # <<>>, c.todo[1] \in {"load", "present", "hold"},
           NEW s \in {<<"renew", "present">>, <<"forget">>}, c.todo[1] = "hold" => s = <<"forget">>,
           Alike(c, d, {"todo", "live", "session"}), d.todo = s \o Tail(c.todo),
           d.session \in {None} \cup Sessions, s = <<"renew", "present">> => d.session # None
    PROVE  Command(d) /\ Rested(c, d) /\ (d.todo[1] = "renew" => s = <<"renew", "present">>)
<1>1. /\ Tail(c.todo) \in Seq(Steps) /\ Plan(Tail(c.todo))
      /\ Range(Tail(c.todo)) \cap {"load", "renew"} = {}
  BY CommandFacts, Popped
<1>2. /\ d.todo \in Seq(Steps) /\ d.todo # <<>> /\ d.todo[1] = s[1] /\ Plan(d.todo)
      /\ Range(d.todo) = Range(s) \cup Range(Tail(c.todo))
  BY <1>1, Prefixed
<1>3. CASE s = <<"forget">>
  <2>1. s[1] = "forget" /\ Range(s) = {"forget"}
    BY <1>3 DEF Range
  <2>. QED BY <1>2, <2>1, PrefixFormed
<1>4. CASE s = <<"renew", "present">> /\ c.todo[1] # "hold"
  <2>1. s[1] = "renew" /\ Range(s) = {"renew", "present"}
    BY <1>4 DEF Range
  <2>. QED BY <1>2, <1>4, <2>1, PrefixFormed
<1>5. <<"renew", "present">> # <<"forget">>
  <2>1. Len(<<"renew", "present">>) = 2 /\ Len(<<"forget">>) = 1
    OBVIOUS
  <2>. QED BY <2>1
<1>. QED BY <1>3, <1>4, <1>5

(* The steps that a question of the session, or of the user, leads to.      *)
AnswerPlan(s) ==
    /\ s \in Seq(Steps) /\ s # <<>> /\ Plan(s) /\ Range(s) \cap Ends # {} /\ ~ Rests(Range(s))
    /\ s[1] # "renew"

(* So does the answer to a question of the session or of the user.           *)
LEMMA AnswerStep ==
    ASSUME NEW c, NEW d, Command(c), c.todo # <<>>, c.todo[1] \in Ends,
           AnswerPlan(d.todo),
           Alike(c, d, {"todo", "session", "place", "password", "by", "arg", "had"}),
           d.session \in {None} \cup Sessions, d.place \in Places, d.password \in Words,
           d.arg \in Words, Reaches(d.kind, Range(d.todo)),
           d.by = "session" => Range(d.todo) \cap {"load", "password"} = {},
           d.kind = "reveal" /\ "open" \in Range(d.todo) => d.by = "user",
           d.kind \in NamedKinds \/ Range(d.todo) \cap NamedSteps # {} => d.arg # None
    PROVE  Command(d) /\ Rested(c, d) /\ d.key = None
<1>1. /\ d.kind = c.kind /\ d.typed = c.typed /\ d.env = c.env /\ d.key = c.key
      /\ DOMAIN d = DOMAIN c /\ d.seen = c.seen /\ d.read = c.read
  BY DEF Alike, Fields
<1>2. c.key = None
  BY HeadKey DEF Opening
<1>3. ~ c.read
  BY CommandFacts, StepFacts DEF Formed, Opening
<1>4. Formed(d)
  BY <1>1, <1>2, <1>3 DEF Formed, AnswerPlan
<1>5. Rested(c, d)
  BY <1>1, <1>3 DEF Rested, AnswerPlan
<1>. QED BY <1>1, <1>2, <1>4, <1>5, CommandFacts, IsCommand DEF AnswerPlan

(* The plans that the short answers lead to.                                 *)
LEMMA AnswerPlans ==
    /\ AnswerPlan(<<"exists">>) /\ AnswerPlan(<<"load", "same">>) /\ AnswerPlan(<<"typed">>)
    /\ AnswerPlan(<<"forget", "typed">>) /\ AnswerPlan(<<"forget", "choose">>)
    /\ AnswerPlan(<<"choose">>) /\ AnswerPlan(<<"open", "opened">>)
    /\ AnswerPlan(<<"open", "opened", "work">>) /\ AnswerPlan(<<"open", "opened", "hold", "work">>)
    /\ AnswerPlan(<<"unlock", "network", "hold">>)
    /\ AnswerPlan(<<"create", "temp", "header", "network", "bundlers", "indexer", "hold">>)
    /\ AnswerPlan(<<"create", "temp", "header", "network", "rpc_check", "rpc_active", "rpc_put",
                     "bundlers", "indexer", "hold">>)
<1> USE DEF AnswerPlan, Plan, Precedes, Spoils, Range, Steps, Opening, Ends, Final, Prelude,
            NamedSteps, RecordSteps, Rests, PutsListed, PutsActive, UsesListed, OptsIn,
                 UsesBundlers, UsesIndexer, Counts
<1>1. AnswerPlan(<<"exists">>) /\ AnswerPlan(<<"typed">>) /\ AnswerPlan(<<"choose">>)
  OBVIOUS
<1>2. AnswerPlan(<<"load", "same">>)
  OBVIOUS
<1>3. AnswerPlan(<<"forget", "typed">>)
  OBVIOUS
<1>4. AnswerPlan(<<"forget", "choose">>)
  OBVIOUS
<1>5. AnswerPlan(<<"open", "opened">>)
  OBVIOUS
<1>6. AnswerPlan(<<"open", "opened", "work">>)
  OBVIOUS
<1>7. AnswerPlan(<<"open", "opened", "hold", "work">>)
  OBVIOUS
<1>8. AnswerPlan(<<"unlock", "network", "hold">>)
  OBVIOUS
<1>9. AnswerPlan(<<"create", "temp", "header", "network", "bundlers", "indexer", "hold">>)
  OBVIOUS
<1>10. AnswerPlan(<<"create", "temp", "header", "network", "rpc_check", "rpc_active", "rpc_put",
                    "bundlers", "indexer", "hold">>)
  OBVIOUS
<1>. QED BY <1>1, <1>2, <1>3, <1>4, <1>5, <1>6, <1>7, <1>8, <1>9, <1>10, ZenonT(30)
-----------------------------------------------------------------------------
(* What each step makes of its command.                                    *)

Goes(q, d) == cmd' = [cmd EXCEPT ![q] = d] /\ Command(d) /\ Rested(cmd[q], d)

(* A command keeps its place and its key, or has the key of its store.      *)
Keyed(c, d) ==
    \/ d.key = None
    \/ d.key = c.key /\ d.place = c.place /\ c.todo[1] \notin {"temp", "header"}
    \/ Wraps(d.place, d.key)

(* What it has of a session, it had before.                                 *)
Lively(c, d) ==
    /\ d.session # None \/ d.by = "session" =>
         d.live = c.live /\ (c.session # None \/ c.by = "session")
    /\ d.todo # <<>> => d.todo[1] # "renew"

(* A process with a step to take has a well-formed command.                  *)
LEMMA AtStep ==
    ASSUME TypeInv, NEW q \in Procs, cmd[q].todo # <<>>
    PROVE  cmd[q] # NoCommand /\ Command(cmd[q])
BY DEF TypeInv, CmdType, StoreType, NoCommand

(* A command that does its next step and has the rest left.                 *)
LEMMA PassGoes ==
    ASSUME TypeInv, NEW q \in Procs, NEW e,
           cmd[q].todo # <<>>, cmd[q].todo[1] \notin Ends, RecordOf(cmd[q].todo[1]) = None,
           Alike(cmd[q], e, {"live", "had", "session", "password"}),
           e.session \in {None} \cup Sessions, e.password \in Words,
           Advance(q, e)
    PROVE  \E d : Goes(q, d) /\ Alike(e, d, {"todo"}) /\ d.todo = Tail(cmd[q].todo)
                  /\ (d.todo # <<>> => d.todo[1] # "renew")
<1>1. PICK c : c = cmd[q]
  OBVIOUS
<1>2. Command(c) /\ DOMAIN c = Fields
  BY <1>1, AtStep, CommandFacts
<1>3. PICK d : d = [e EXCEPT !.todo = Tail(e.todo)]
  OBVIOUS
<1>4. cmd' = [cmd EXCEPT ![q] = d]
  BY <1>3, Zenon DEF Advance, GoOn
<1>5. DOMAIN e = Fields /\ e.todo = c.todo
  BY <1>1, <1>2 DEF Alike, Fields
<1>6. Alike(e, d, {"todo"}) /\ d.todo = Tail(c.todo)
  BY <1>3, <1>5 DEF Alike, Fields
<1>7. d.session = e.session /\ d.password = e.password
  BY <1>5, <1>6 DEF Alike, Fields
<1>8. Alike(c, d, {"todo", "live", "had", "session", "password"})
  BY <1>1, <1>6 DEF Alike
<1>9. Command(d) /\ Rested(c, d) /\ (d.todo # <<>> => d.todo[1] # "renew")
  BY <1>1, <1>2, <1>6, <1>7, <1>8, PassStep
<1>. QED BY <1>1, <1>4, <1>6, <1>9 DEF Goes

Passing == {"renew", "present", "forget", "hold", "balance", "temp", "header"}

LEMMA PassesGo ==
    ASSUME TypeInv, NEW q \in Procs, NEW x \in Passing, At(q, x), Advance(q, cmd[q])
    PROVE  \E d : /\ Goes(q, d) /\ Lively(cmd[q], d) /\ d.todo = Tail(cmd[q].todo)
                  /\ d.key = cmd[q].key /\ d.place = cmd[q].place
                  /\ x \notin {"temp", "header"} => Keyed(cmd[q], d)
<1>1. PICK c : c = cmd[q]
  OBVIOUS
<1>2. Command(c) /\ c.todo # <<>> /\ c.todo[1] = x
  BY <1>1, AtStep DEF At
<1>3. c.session \in {None} \cup Sessions /\ c.password \in Words /\ DOMAIN c = Fields
  BY <1>2, CommandFacts
<1>4. x \notin Ends /\ RecordOf(x) = None
  BY StepFacts DEF Passing, Ends, Opening
<1>5. PICK d : Goes(q, d) /\ Alike(c, d, {"todo"}) /\ d.todo = Tail(c.todo)
               /\ (d.todo # <<>> => d.todo[1] # "renew")
  BY <1>1, <1>2, <1>3, <1>4, PassGoes DEF Alike
<1>6. /\ d.key = c.key /\ d.place = c.place /\ d.session = c.session /\ d.by = c.by
      /\ d.live = c.live
  BY <1>3, <1>5 DEF Alike, Fields
<1>. QED BY <1>1, <1>2, <1>5, <1>6 DEF Keyed, Lively

LEMMA EmptyTail == \A s \in Seq(Steps) : s \o <<>> = s
BY ConcatEmptySeq

(* A question that a step has answered.                                     *)
LEMMA AnswerGoes ==
    ASSUME TypeInv, NEW q \in Procs, NEW e, NEW s,
           cmd[q].todo # <<>>, cmd[q].todo[1] \in Ends, AnswerPlan(s),
           Alike(cmd[q], e, {"session", "place", "password", "by", "arg", "had"}),
           e.session \in {None} \cup Sessions, e.place \in Places, e.password \in Words,
           e.arg \in Words,
           GoOn(q, e, s) \/ (Insert(q, e, s) /\ cmd[q].todo[1] \in Final),
           Reaches(e.kind, Range(s)),
           e.by = "session" => Range(s) \cap {"load", "password"} = {},
           e.kind = "reveal" /\ "open" \in Range(s) => e.by = "user",
           e.kind \in NamedKinds \/ Range(s) \cap NamedSteps # {} => e.arg # None
    PROVE  \E d : Goes(q, d) /\ Alike(e, d, {"todo"}) /\ d.todo = s /\ Keyed(cmd[q], d)
                  /\ d.todo[1] # "renew"
<1>1. PICK c : c = cmd[q]
  OBVIOUS
<1>2. Command(c) /\ DOMAIN c = Fields
  BY <1>1, AtStep, CommandFacts
<1>3. PICK d : d = [e EXCEPT !.todo = s]
  OBVIOUS
<1>5. DOMAIN e = Fields /\ e.todo = c.todo
  BY <1>1, <1>2 DEF Alike, Fields
<1>4. cmd' = [cmd EXCEPT ![q] = d]
  <2>1. CASE GoOn(q, e, s)
    BY <1>3, <2>1, Zenon DEF GoOn
  <2>2. CASE Insert(q, e, s) /\ c.todo[1] \in Final
    <3>1. Tail(c.todo) = <<>>
      BY <1>1, <1>2, <2>2, CommandFacts, Popped
    <3>2. s \o Tail(e.todo) = s
      BY <1>5, <3>1, EmptyTail DEF AnswerPlan
    <3>. QED BY <1>3, <2>2, <3>2, Zenon DEF Insert, GoOn
  <2>. QED BY <1>1, <2>1, <2>2
<1>6. Alike(e, d, {"todo"}) /\ d.todo = s
  BY <1>3, <1>5 DEF Alike, Fields
<1>7. /\ d.session = e.session /\ d.password = e.password /\ d.place = e.place /\ d.arg = e.arg
      /\ d.kind = e.kind /\ d.by = e.by
  BY <1>5, <1>6 DEF Alike, Fields
<1>8. Alike(c, d, {"todo", "session", "place", "password", "by", "arg", "had"})
  BY <1>1, <1>6 DEF Alike
<1>9. Command(d) /\ Rested(c, d) /\ d.key = None
  BY <1>1, <1>2, <1>6, <1>7, <1>8, AnswerStep
<1>. QED BY <1>1, <1>4, <1>6, <1>9 DEF Goes, Keyed, AnswerPlan


(* A session that is loaded is one that has time left.                       *)
LEMMA LoadGoes ==
    ASSUME TypeInv, NEW q \in Procs, Load(q)
    PROVE  \E d : /\ Goes(q, d) /\ Keyed(cmd[q], d) /\ d.by # "session"
                  /\ d.session # None => session # None /\ session.left # 0 /\ d.live = granted
                  /\ d.todo # <<>> /\ d.todo[1] = "renew" => session # None
<1>1. PICK c : c = cmd[q]
  OBVIOUS
<1>2. Command(c) /\ c.todo # <<>> /\ c.todo[1] = "load" /\ DOMAIN c = Fields
  BY <1>1, AtStep, CommandFacts DEF Load, At
<1>3. PICK e : e = [c EXCEPT !.session = session, !.live = granted]
  OBVIOUS
<1>4. /\ Alike(c, e, {"session", "live"}) /\ e.todo = c.todo /\ e.password = c.password
      /\ e.session = session /\ e.live = granted
  BY <1>2, <1>3 DEF Alike, Fields
<1>5. c.key = None /\ c.by # "session"
  <2>1. "load" \in Range(c.todo)
    BY <1>2, CommandFacts, Popped
  <2>. QED BY <1>2, <2>1, HeadKey, CommandFacts DEF Formed, Opening
<1>6. session \in {None} \cup Sessions
  BY DEF TypeInv, CmdType, StoreType
<1>7. CASE session = None
  <2>1. Advance(q, e)
    <3>1. Advance(q, [cmd[q] EXCEPT !.session = session, !.live = granted])
      BY <1>7 DEF Load
    <3>. QED BY <1>1, <1>3, <3>1
  <2>2. RecordOf("load") = None /\ "load" \notin Ends
    BY StepFacts DEF Opening, Ends
  <2>3. Alike(c, e, {"live", "had", "session", "password"})
    BY <1>4 DEF Alike
  <2>4. e.password \in Words
    BY <1>2, <1>4, CommandFacts
  <2>5. PICK d : Goes(q, d) /\ Alike(e, d, {"todo"}) /\ (d.todo # <<>> => d.todo[1] # "renew")
    BY <1>1, <1>2, <1>4, <1>6, <2>1, <2>2, <2>3, <2>4, PassGoes
  <2>6. d.session = None /\ d.by = c.by /\ d.key = c.key
    BY <1>2, <1>4, <1>7, <2>5 DEF Alike, Fields
  <2>. QED BY <1>1, <1>5, <2>5, <2>6 DEF Keyed
<1>8. ASSUME NEW f, NEW s \in {<<"renew", "present">>, <<"forget">>},
             Alike(c, f, {"session", "live"}), Insert(q, f, s), f.session \in {None} \cup Sessions,
             s = <<"renew", "present">> => f.session # None
      PROVE  \E d : /\ Goes(q, d) /\ d.key = None /\ d.by = c.by /\ d.session = f.session
                    /\ d.live = f.live /\ (d.todo[1] = "renew" => s = <<"renew", "present">>)
  <2>1. PICK d : d = [f EXCEPT !.todo = s \o Tail(f.todo)]
    OBVIOUS
  <2>2. DOMAIN f = Fields /\ f.todo = c.todo
    BY <1>2, <1>8 DEF Alike, Fields
  <2>3. Alike(f, d, {"todo"}) /\ d.todo = s \o Tail(c.todo)
    BY <2>1, <2>2 DEF Alike, Fields
  <2>4. /\ d.key = c.key /\ d.by = c.by /\ d.session = f.session /\ d.live = f.live
    BY <1>2, <1>8, <2>2, <2>3 DEF Alike, Fields
  <2>5. Alike(c, d, {"todo", "live", "session"})
    BY <1>8, <2>3 DEF Alike
  <2>6. Command(d) /\ Rested(c, d) /\ (d.todo[1] = "renew" => s = <<"renew", "present">>)
    BY <1>2, <1>8, <2>3, <2>4, <2>5, PrefixStep
  <2>7. cmd' = [cmd EXCEPT ![q] = d]
    BY <1>8, <2>1, Zenon DEF Insert, GoOn
  <2>. QED BY <1>1, <1>5, <2>4, <2>6, <2>7 DEF Goes
<1>9. CASE session # None /\ session.left = 0
  <2>1. PICK f : f = [e EXCEPT !.session = None]
    OBVIOUS
  <2>2. Insert(q, f, <<"forget">>)
    BY <1>1, <1>3, <1>9, <2>1 DEF Load
  <2>3. Alike(c, f, {"session", "live"}) /\ f.session = None
    BY <1>2, <1>4, <2>1 DEF Alike, Fields
  <2>4. <<"renew", "present">> # <<"forget">>
    <3>1. Len(<<"renew", "present">>) = 2 /\ Len(<<"forget">>) = 1
      OBVIOUS
    <3>. QED BY <3>1
  <2>. QED BY <1>1, <1>5, <1>8, <2>2, <2>3, <2>4 DEF Keyed
<1>10. CASE session # None /\ session.left # 0
  <2>1. Insert(q, e, <<"renew", "present">>)
    BY <1>1, <1>3, <1>10 DEF Load
  <2>. QED BY <1>1, <1>4, <1>5, <1>6, <1>8, <1>10, <2>1 DEF Keyed
<1>. QED BY <1>7, <1>9, <1>10

LEMMA PresentGoes ==
    ASSUME TypeInv, NEW q \in Procs, Present(q)
    PROVE  \E d : Goes(q, d) /\ Keyed(cmd[q], d) /\ Lively(cmd[q], d)
<1>1. PICK c : c = cmd[q]
  OBVIOUS
<1>2. Command(c) /\ c.todo # <<>> /\ c.todo[1] = "present" /\ DOMAIN c = Fields /\ At(q, "present")
  BY <1>1, AtStep, CommandFacts DEF Present, At
<1>3. CASE Advance(q, c)
  BY <1>1, <1>2, <1>3, PassesGo DEF Passing
<1>4. CASE ~ Advance(q, c)
  <2>1. PICK e : e = [c EXCEPT !.session = None]
    OBVIOUS
  <2>2. PICK d : d = [e EXCEPT !.todo = <<"forget">> \o Tail(e.todo)]
    OBVIOUS
  <2>3. cmd' = [cmd EXCEPT ![q] = d]
    BY <1>1, <1>4, <2>1, <2>2 DEF Present, Insert, GoOn
  <2>4. /\ Alike(c, d, {"todo", "live", "session"}) /\ d.todo = <<"forget">> \o Tail(c.todo)
        /\ d.session = None /\ d.by = c.by /\ d.live = c.live /\ d.key = c.key /\ d.place = c.place
    BY <1>2, <2>1, <2>2 DEF Alike, Fields
  <2>5. <<"renew", "present">> # <<"forget">>
    <3>1. Len(<<"renew", "present">>) = 2 /\ Len(<<"forget">>) = 1
      OBVIOUS
    <3>. QED BY <3>1
  <2>6. Command(d) /\ Rested(c, d) /\ d.todo[1] # "renew"
    BY <1>2, <2>4, <2>5, PrefixStep
  <2>. QED BY <1>1, <1>2, <2>3, <2>4, <2>6 DEF Goes, Keyed, Lively
<1>. QED BY <1>3, <1>4

LEMMA HoldFailsGoes ==
    ASSUME TypeInv, NEW q \in Procs, HoldFails(q)
    PROVE  \E d : Goes(q, d) /\ Keyed(cmd[q], d) /\ Lively(cmd[q], d)
<1>1. PICK c : c = cmd[q]
  OBVIOUS
<1>2. Command(c) /\ c.todo # <<>> /\ c.todo[1] = "hold" /\ DOMAIN c = Fields /\ At(q, "hold")
  BY <1>1, AtStep, CommandFacts DEF HoldFails, At
<1>3. CASE Advance(q, c)
  BY <1>1, <1>2, <1>3, PassesGo DEF Passing
<1>4. CASE ~ Advance(q, c)
  <2>2. PICK d : d = [c EXCEPT !.todo = <<"forget">> \o Tail(c.todo)]
    OBVIOUS
  <2>3. cmd' = [cmd EXCEPT ![q] = d]
    BY <1>1, <1>4, <2>2 DEF HoldFails, Insert, GoOn
  <2>4. /\ Alike(c, d, {"todo", "live", "session"}) /\ d.todo = <<"forget">> \o Tail(c.todo)
        /\ d.session = c.session /\ d.by = c.by /\ d.live = c.live /\ d.key = c.key
        /\ d.place = c.place /\ d.session \in {None} \cup Sessions
    BY <1>2, <2>2, CommandFacts DEF Alike, Fields
  <2>5. <<"renew", "present">> # <<"forget">>
    <3>1. Len(<<"renew", "present">>) = 2 /\ Len(<<"forget">>) = 1
      OBVIOUS
    <3>. QED BY <3>1
  <2>6. Command(d) /\ Rested(c, d) /\ d.todo[1] # "renew"
    BY <1>2, <2>4, <2>5, PrefixStep
  <2>. QED BY <1>1, <1>2, <2>3, <2>4, <2>6 DEF Goes, Keyed, Lively
<1>. QED BY <1>3, <1>4

Moves(q) == \E d : Goes(q, d) /\ Keyed(cmd[q], d) /\ Lively(cmd[q], d)

(* Which kinds of command come to a step.                                    *)
LEMMA KindAt ==
    ASSUME NEW c, Command(c), c.todo # <<>>
    PROVE  /\ c.todo[1] # "forget" => c.kind # "lock"
           /\ c.todo[1] \in {"held", "choose", "work"} => c.kind \notin {"unlock", "reveal"}
           /\ c.todo[1] \in {"open", "reveal"} => c.kind # "unlock"
           /\ c.todo[1] \in {"password", "same", "typed", "exists", "unlock", "create"}
                => c.kind # "reveal"
<1>1. c.todo[1] \in Range(c.todo) /\ Reaches(c.kind, Range(c.todo))
  BY CommandFacts, Popped
<1>. QED BY <1>1 DEF Reaches

(* What an answer leads to never opens the store by itself.                 *)
LEMMA AnswerMoves ==
    ASSUME TypeInv, NEW q \in Procs, NEW e, NEW s,
           cmd[q].todo # <<>>, cmd[q].todo[1] \in Ends, AnswerPlan(s),
           Alike(cmd[q], e, {"session", "place", "password", "by", "arg", "had"}),
           e.session \in {None} \cup Sessions, e.place \in Places, e.password \in Words,
           e.arg \in Words,
           GoOn(q, e, s) \/ (Insert(q, e, s) /\ cmd[q].todo[1] \in Final),
           Reaches(cmd[q].kind, Range(s)),
           e.by = "session" => Range(s) \cap {"load", "password"} = {},
           cmd[q].kind = "reveal" /\ "open" \in Range(s) => e.by = "user",
           cmd[q].arg # None => e.arg # None,
           Range(s) \cap NamedSteps # {} => e.arg # None,
           e.session # None \/ e.by = "session" => cmd[q].session # None \/ cmd[q].by = "session"
    PROVE  Moves(q)
<1>1. PICK c : c = cmd[q]
  OBVIOUS
<1>2. Command(c) /\ DOMAIN c = Fields
  BY <1>1, AtStep, CommandFacts
<1>3. e.kind = c.kind /\ e.live = c.live
  BY <1>1, <1>2 DEF Alike, Fields
<1>4. c.kind \in NamedKinds => c.arg # None
  BY <1>2, CommandFacts DEF Formed
<1>5. PICK d : Goes(q, d) /\ Alike(e, d, {"todo"}) /\ d.todo = s /\ Keyed(c, d)
               /\ d.todo[1] # "renew"
  BY <1>1, <1>3, <1>4, AnswerGoes
<1>6. d.session = e.session /\ d.by = e.by /\ d.live = e.live
  BY <1>2, <1>5 DEF Alike, Fields
<1>. QED BY <1>1, <1>3, <1>5, <1>6 DEF Moves, Lively

LEMMA HeldMoves == ASSUME TypeInv, NEW q \in Procs, Held(q) PROVE Moves(q)
<1>1. PICK c : c = cmd[q]
  OBVIOUS
<1>2. /\ Command(c) /\ c.todo # <<>> /\ c.todo[1] = "held" /\ DOMAIN c = Fields
      /\ c.kind \notin {"unlock", "reveal", "lock"}
  BY <1>1, AtStep, CommandFacts, KindAt DEF Held, At
<1>3. /\ c.place \in Places /\ c.password \in Words /\ c.arg \in Words
      /\ c.session \in {None} \cup Sessions
  BY <1>2, CommandFacts
<1>4. "held" \in Ends /\ "held" \in Final
  BY DEF Ends, Final
<1>5. CASE c.session # None /\ c.session.place.dir = c.place.dir
  <2>1. PICK e : e = [c EXCEPT !.place = c.session.place, !.password = c.session.password,
                               !.by = "session"]
    OBVIOUS
  <2>2. Insert(q, e, <<"open", "opened", "work">>)
    BY <1>1, <1>5, <2>1 DEF Held
  <2>3. /\ Alike(c, e, {"session", "place", "password", "by", "arg", "had"})
        /\ e.session = c.session /\ e.place = c.session.place /\ e.arg = c.arg
        /\ e.password = c.session.password /\ e.by = "session"
    BY <1>2, <2>1 DEF Alike, Fields
  <2>4. e.place \in Places /\ e.password \in Words
    BY <1>3, <1>5, <2>3 DEF Sessions
  <2>5. Range(<<"open", "opened", "work">>) = {"open", "opened", "work"}
    BY DEF Range
  <2>6. Range(<<"open", "opened", "work">>) \cap NamedSteps = {}
    BY <2>5 DEF NamedSteps
  <2>7. Reaches(c.kind, Range(<<"open", "opened", "work">>))
    BY <1>2 DEF Reaches
  <2>. QED
    BY <1>1, <1>2, <1>3, <1>4, <1>5, <2>2, <2>3, <2>4, <2>5, <2>6, <2>7, AnswerPlans, AnswerMoves
<1>6. CASE ~ (c.session # None /\ c.session.place.dir = c.place.dir)
  <2>1. Insert(q, c, <<"choose">>)
    BY <1>1, <1>6 DEF Held
  <2>2. Alike(c, c, {"session", "place", "password", "by", "arg", "had"})
    BY DEF Alike
  <2>3. Range(<<"choose">>) = {"choose"}
    BY DEF Range
  <2>4. Range(<<"choose">>) \cap NamedSteps = {}
    BY <2>3 DEF NamedSteps
  <2>5. Reaches(c.kind, Range(<<"choose">>))
    BY <1>2 DEF Reaches
  <2>. QED
    BY <1>1, <1>2, <1>3, <1>4, <2>1, <2>2, <2>3, <2>4, <2>5, AnswerPlans, AnswerMoves
<1>. QED BY <1>5, <1>6

(* The plans of the steps that open a store, put together.                  *)
LEMMA OpenPlans ==
    /\ <<"open", "opened">> \o <<"hold">>
         = <<"open", "opened", "hold">>
    /\ <<"open", "opened">> \o <<"work">>
         = <<"open", "opened", "work">>
    /\ <<"open", "opened", "hold">> \o <<"work">>
         = <<"open", "opened", "hold", "work">>
    /\ <<"rpc_check", "rpc_active", "rpc_put">> \o <<"bundlers", "indexer">>
         = <<"rpc_check", "rpc_active", "rpc_put", "bundlers", "indexer">>
    /\ <<"create", "temp", "header", "network">>
         \o <<"rpc_check", "rpc_active", "rpc_put", "bundlers", "indexer">>
         = <<"create", "temp", "header", "network", "rpc_check", "rpc_active", "rpc_put",
             "bundlers", "indexer">>
    /\ <<"create", "temp", "header", "network", "rpc_check", "rpc_active", "rpc_put",
         "bundlers", "indexer">> \o <<"hold">>
         = <<"create", "temp", "header", "network", "rpc_check", "rpc_active", "rpc_put",
             "bundlers", "indexer", "hold">>
    /\ <<"create", "temp", "header", "network">> \o <<"bundlers", "indexer">>
         = <<"create", "temp", "header", "network", "bundlers", "indexer">>
    /\ <<"create", "temp", "header", "network", "bundlers", "indexer">> \o <<"hold">>
         = <<"create", "temp", "header", "network", "bundlers", "indexer", "hold">>
<1>1. /\ <<"open", "opened">> \in Seq(Steps)
      /\ <<"hold">> \in Seq(Steps)
      /\ <<"open", "opened", "hold">> \in Seq(Steps)
      /\ <<"work">> \in Seq(Steps)
      /\ <<"open", "opened", "work">> \in Seq(Steps)
      /\ <<"open", "opened", "hold", "work">> \in Seq(Steps)
      /\ <<"rpc_check", "rpc_active", "rpc_put">> \in Seq(Steps)
      /\ <<"bundlers", "indexer">> \in Seq(Steps)
      /\ <<"rpc_check", "rpc_active", "rpc_put", "bundlers", "indexer">> \in Seq(Steps)
      /\ <<"create", "temp", "header", "network">> \in Seq(Steps)
      /\ <<"create", "temp", "header", "network", "rpc_check", "rpc_active", "rpc_put",
           "bundlers", "indexer">> \in Seq(Steps)
      /\ <<"create", "temp", "header", "network", "rpc_check", "rpc_active", "rpc_put",
           "bundlers", "indexer", "hold">> \in Seq(Steps)
      /\ <<"create", "temp", "header", "network", "bundlers", "indexer">> \in Seq(Steps)
      /\ <<"create", "temp", "header", "network", "bundlers", "indexer", "hold">> \in Seq(Steps)
  BY DEF Steps, NamedSteps, RecordSteps, Opening, Ends
<1>2. <<"open", "opened">> \o <<"hold">>
        = <<"open", "opened", "hold">>
  <2> DEFINE s == <<"open", "opened">>
             t == <<"hold">>
             u == <<"open", "opened", "hold">>
  <2>1. /\ Len(u) = Len(s) + Len(t) /\ \A i \in 1 .. Len(s) : u[i] = s[i]
        /\ \A i \in 1 .. Len(t) : u[Len(s) + i] = t[i]
    OBVIOUS
  <2>2. s \o t = u
    <3> HIDE DEF s, t, u
    <3>1. s \in Seq(Steps) /\ t \in Seq(Steps) /\ u \in Seq(Steps)
      BY <1>1 DEF s, t, u
    <3>. QED BY <2>1, <3>1, ConcatIs
  <2>. QED BY <2>2
<1>3. <<"open", "opened">> \o <<"work">>
        = <<"open", "opened", "work">>
  <2> DEFINE s == <<"open", "opened">>
             t == <<"work">>
             u == <<"open", "opened", "work">>
  <2>1. /\ Len(u) = Len(s) + Len(t) /\ \A i \in 1 .. Len(s) : u[i] = s[i]
        /\ \A i \in 1 .. Len(t) : u[Len(s) + i] = t[i]
    OBVIOUS
  <2>2. s \o t = u
    <3> HIDE DEF s, t, u
    <3>1. s \in Seq(Steps) /\ t \in Seq(Steps) /\ u \in Seq(Steps)
      BY <1>1 DEF s, t, u
    <3>. QED BY <2>1, <3>1, ConcatIs
  <2>. QED BY <2>2
<1>4. <<"open", "opened", "hold">> \o <<"work">>
        = <<"open", "opened", "hold", "work">>
  <2> DEFINE s == <<"open", "opened", "hold">>
             t == <<"work">>
             u == <<"open", "opened", "hold", "work">>
  <2>1. /\ Len(u) = Len(s) + Len(t) /\ \A i \in 1 .. Len(s) : u[i] = s[i]
        /\ \A i \in 1 .. Len(t) : u[Len(s) + i] = t[i]
    OBVIOUS
  <2>2. s \o t = u
    <3> HIDE DEF s, t, u
    <3>1. s \in Seq(Steps) /\ t \in Seq(Steps) /\ u \in Seq(Steps)
      BY <1>1 DEF s, t, u
    <3>. QED BY <2>1, <3>1, ConcatIs
  <2>. QED BY <2>2
<1>5. <<"rpc_check", "rpc_active", "rpc_put">> \o <<"bundlers", "indexer">>
        = <<"rpc_check", "rpc_active", "rpc_put", "bundlers", "indexer">>
  <2> DEFINE s == <<"rpc_check", "rpc_active", "rpc_put">>
             t == <<"bundlers", "indexer">>
             u == <<"rpc_check", "rpc_active", "rpc_put", "bundlers", "indexer">>
  <2>1. /\ Len(u) = Len(s) + Len(t) /\ \A i \in 1 .. Len(s) : u[i] = s[i]
        /\ \A i \in 1 .. Len(t) : u[Len(s) + i] = t[i]
    OBVIOUS
  <2>2. s \o t = u
    <3> HIDE DEF s, t, u
    <3>1. s \in Seq(Steps) /\ t \in Seq(Steps) /\ u \in Seq(Steps)
      BY <1>1 DEF s, t, u
    <3>. QED BY <2>1, <3>1, ConcatIs
  <2>. QED BY <2>2
<1>6. <<"create", "temp", "header", "network">>
         \o <<"rpc_check", "rpc_active", "rpc_put", "bundlers", "indexer">>
        = <<"create", "temp", "header", "network", "rpc_check", "rpc_active", "rpc_put",
            "bundlers", "indexer">>
  <2> DEFINE s == <<"create", "temp", "header", "network">>
             t == <<"rpc_check", "rpc_active", "rpc_put", "bundlers", "indexer">>
             u == <<"create", "temp", "header", "network", "rpc_check", "rpc_active",
                    "rpc_put", "bundlers", "indexer">>
  <2>1. /\ Len(u) = Len(s) + Len(t) /\ \A i \in 1 .. Len(s) : u[i] = s[i]
        /\ \A i \in 1 .. Len(t) : u[Len(s) + i] = t[i]
    OBVIOUS
  <2>2. s \o t = u
    <3> HIDE DEF s, t, u
    <3>1. s \in Seq(Steps) /\ t \in Seq(Steps) /\ u \in Seq(Steps)
      BY <1>1 DEF s, t, u
    <3>. QED BY <2>1, <3>1, ConcatIs
  <2>. QED BY <2>2
<1>7. <<"create", "temp", "header", "network", "rpc_check", "rpc_active", "rpc_put",
        "bundlers", "indexer">> \o <<"hold">>
        = <<"create", "temp", "header", "network", "rpc_check", "rpc_active", "rpc_put",
            "bundlers", "indexer", "hold">>
  <2> DEFINE s == <<"create", "temp", "header", "network", "rpc_check", "rpc_active",
                    "rpc_put", "bundlers", "indexer">>
             t == <<"hold">>
             u == <<"create", "temp", "header", "network", "rpc_check", "rpc_active",
                    "rpc_put", "bundlers", "indexer", "hold">>
  <2>1. /\ Len(u) = Len(s) + Len(t) /\ \A i \in 1 .. Len(s) : u[i] = s[i]
        /\ \A i \in 1 .. Len(t) : u[Len(s) + i] = t[i]
    OBVIOUS
  <2>2. s \o t = u
    <3> HIDE DEF s, t, u
    <3>1. s \in Seq(Steps) /\ t \in Seq(Steps) /\ u \in Seq(Steps)
      BY <1>1 DEF s, t, u
    <3>. QED BY <2>1, <3>1, ConcatIs
  <2>. QED BY <2>2
<1>8. <<"create", "temp", "header", "network">> \o <<"bundlers", "indexer">>
        = <<"create", "temp", "header", "network", "bundlers", "indexer">>
  <2> DEFINE s == <<"create", "temp", "header", "network">>
             t == <<"bundlers", "indexer">>
             u == <<"create", "temp", "header", "network", "bundlers", "indexer">>
  <2>1. /\ Len(u) = Len(s) + Len(t) /\ \A i \in 1 .. Len(s) : u[i] = s[i]
        /\ \A i \in 1 .. Len(t) : u[Len(s) + i] = t[i]
    OBVIOUS
  <2>2. s \o t = u
    <3> HIDE DEF s, t, u
    <3>1. s \in Seq(Steps) /\ t \in Seq(Steps) /\ u \in Seq(Steps)
      BY <1>1 DEF s, t, u
    <3>. QED BY <2>1, <3>1, ConcatIs
  <2>. QED BY <2>2
<1>9. <<"create", "temp", "header", "network", "bundlers", "indexer">> \o <<"hold">>
        = <<"create", "temp", "header", "network", "bundlers", "indexer", "hold">>
  <2> DEFINE s == <<"create", "temp", "header", "network", "bundlers", "indexer">>
             t == <<"hold">>
             u == <<"create", "temp", "header", "network", "bundlers", "indexer", "hold">>
  <2>1. /\ Len(u) = Len(s) + Len(t) /\ \A i \in 1 .. Len(s) : u[i] = s[i]
        /\ \A i \in 1 .. Len(t) : u[Len(s) + i] = t[i]
    OBVIOUS
  <2>2. s \o t = u
    <3> HIDE DEF s, t, u
    <3>1. s \in Seq(Steps) /\ t \in Seq(Steps) /\ u \in Seq(Steps)
      BY <1>1 DEF s, t, u
    <3>. QED BY <2>1, <3>1, ConcatIs
  <2>. QED BY <2>2
<1>. QED BY <1>2, <1>3, <1>4, <1>5, <1>6, <1>7, <1>8, <1>9

(* The plan of a store that is created, with and without defaults.           *)
LEMMA CreatePlans ==
    ASSUME NEW place
    PROVE  <<"create", "temp", "header", "network">> \o Defaults(place) \o <<"hold">>
             = IF HasDefaults(place)
               THEN <<"create", "temp", "header", "network", "rpc_check", "rpc_active", "rpc_put",
                      "bundlers", "indexer", "hold">>
               ELSE <<"create", "temp", "header", "network", "bundlers", "indexer", "hold">>
<1>1. CASE HasDefaults(place)
  <2>1. Defaults(place) = <<"rpc_check", "rpc_active", "rpc_put", "bundlers", "indexer">>
    BY <1>1, OpenPlans, Zenon DEF Defaults, DefaultRpc, AddRpc
  <2>. QED BY <1>1, <2>1, OpenPlans, Zenon
<1>2. CASE ~ HasDefaults(place)
  <2>1. <<"bundlers", "indexer">> \in Seq(Steps)
    BY DEF Steps, RecordSteps
  <2>2. <<>> \o <<"bundlers", "indexer">> = <<"bundlers", "indexer">>
    BY <2>1, ConcatEmptySeq
  <2>3. Defaults(place) = <<"bundlers", "indexer">>
    BY <1>2, <2>2, Zenon DEF Defaults, DefaultRpc
  <2>. QED BY <1>2, <2>3, OpenPlans, Zenon
<1>. QED BY <1>1, <1>2

(* What is in the plans that an answer leads to.                            *)
LEMMA AnswerSets ==
    /\ Range(<<"exists">>) = {"exists"} /\ Range(<<"load", "same">>) = {"load", "same"}
    /\ Range(<<"typed">>) = {"typed"} /\ Range(<<"forget", "typed">>) = {"forget", "typed"}
    /\ Range(<<"forget", "choose">>) = {"forget", "choose"} /\ Range(<<"choose">>) = {"choose"}
    /\ Range(<<"open", "opened">>) = {"open", "opened"}
    /\ Range(<<"open", "opened", "work">>) = {"open", "opened", "work"}
    /\ Range(<<"open", "opened", "hold", "work">>) = {"open", "opened", "hold", "work"}
    /\ Range(<<"unlock", "network", "hold">>) = {"unlock", "network", "hold"}
    /\ Range(<<"create", "temp", "header", "network", "bundlers", "indexer", "hold">>)
         = {"create", "temp", "header", "network", "bundlers", "indexer", "hold"}
    /\ Range(<<"create", "temp", "header", "network", "rpc_check", "rpc_active", "rpc_put",
               "bundlers", "indexer", "hold">>)
         = {"create", "temp", "header", "network", "rpc_check", "rpc_active", "rpc_put",
            "bundlers", "indexer", "hold"}
BY DEF Range

LEMMA ChooseMoves == ASSUME TypeInv, NEW q \in Procs, Choose(q) PROVE Moves(q)
<1>1. PICK c : c = cmd[q]
  OBVIOUS
<1>2. /\ Command(c) /\ c.todo # <<>> /\ c.todo[1] = "choose" /\ DOMAIN c = Fields
      /\ c.kind \notin {"unlock", "reveal", "lock"}
  BY <1>1, AtStep, CommandFacts, KindAt DEF Choose, At
<1>3. /\ c.place \in Places /\ c.arg \in Words /\ c.session \in {None} \cup Sessions
      /\ c.env \in Words /\ c.typed \in Words
  BY <1>2, CommandFacts
<1>4. "choose" \in Ends /\ "choose" \in Final
  BY DEF Ends, Final
<1>5. PICK w : w = IF c.env # None THEN c.env ELSE c.typed
  OBVIOUS
<1>6. PICK p \in Instances(c.place.dir) :
        Insert(q, [c EXCEPT !.place = p, !.password = w, !.by = "user"],
               <<"open", "opened">> \o (IF c.env # None THEN <<>> ELSE <<"hold">>) \o <<"work">>)
  BY <1>1, <1>5 DEF Choose
<1>7. PICK s : s = IF c.env # None THEN <<"open", "opened", "work">>
                   ELSE <<"open", "opened", "hold", "work">>
  OBVIOUS
<1>8. <<"open", "opened">> \o (IF c.env # None THEN <<>> ELSE <<"hold">>) \o <<"work">> = s
  <2>1. CASE c.env # None
    <3>1. <<"open", "opened">> \in Seq(Steps)
      BY DEF Steps, RecordSteps, Opening, Ends
    <3>2. <<"open", "opened">> \o <<>> = <<"open", "opened">>
      BY <3>1, ConcatEmptySeq
    <3>. QED BY <1>7, <2>1, <3>2, OpenPlans, Zenon
  <2>2. CASE ~ (c.env # None)
    BY <1>7, <2>2, OpenPlans, Zenon
  <2>. QED BY <2>1, <2>2
<1>9. PICK e : e = [c EXCEPT !.place = p, !.password = w, !.by = "user"]
  OBVIOUS
<1>10. Insert(q, e, s)
  BY <1>6, <1>8, <1>9, Zenon
<1>11. /\ Alike(c, e, {"session", "place", "password", "by", "arg", "had"})
       /\ e.session = c.session /\ e.place = p /\ e.password = w /\ e.arg = c.arg /\ e.by = "user"
  BY <1>2, <1>9 DEF Alike, Fields
<1>12. e.place \in Places /\ e.password \in Words
  BY <1>3, <1>5, <1>11 DEF TypeInv, CmdType, StoreType, Instances
<1>13. AnswerPlan(s)
  BY <1>7, AnswerPlans
<1>14. Reaches(c.kind, Range(s))
  BY <1>2 DEF Reaches
<1>15. Range(s) \subseteq {"open", "opened", "hold", "work"}
  BY <1>7, AnswerSets
<1>16. Range(s) \cap NamedSteps = {}
  BY <1>15 DEF NamedSteps
<1>. QED
  BY <1>1, <1>2, <1>3, <1>4, <1>10, <1>11, <1>12, <1>13, <1>14, <1>16, AnswerMoves

LEMMA RevealMoves == ASSUME TypeInv, NEW q \in Procs, Reveal(q) PROVE Moves(q)
<1>1. PICK c : c = cmd[q]
  OBVIOUS
<1>2. /\ Command(c) /\ c.todo # <<>> /\ c.todo[1] = "reveal" /\ DOMAIN c = Fields
      /\ c.kind \notin {"unlock", "lock"}
  BY <1>1, AtStep, CommandFacts, KindAt DEF Reveal, At
<1>3. /\ c.place \in Places /\ c.arg \in Words /\ c.session \in {None} \cup Sessions
      /\ c.typed \in Words
  BY <1>2, CommandFacts
<1>4. "reveal" \in Ends /\ "reveal" \in Final
  BY DEF Ends, Final
<1>5. PICK f : f = [c EXCEPT !.password = c.typed, !.by = "user"]
  OBVIOUS
<1>6. PICK p : p \in Places /\ Insert(q, [f EXCEPT !.place = p], <<"open", "opened">>)
  <2>1. f.session = c.session /\ f.place = c.place
    BY <1>2, <1>5 DEF Fields
  <2>2. CASE c.session # None /\ c.session.place.dir = c.place.dir
    <3>1. Insert(q, [f EXCEPT !.place = f.session.place], <<"open", "opened">>)
      BY <1>1, <1>5, <2>1, <2>2 DEF Reveal
    <3>2. f.session.place \in Places
      BY <1>3, <2>1, <2>2 DEF Sessions
    <3>. QED BY <3>1, <3>2
  <2>3. CASE ~ (c.session # None /\ c.session.place.dir = c.place.dir)
    <3>1. \E p \in Instances(f.place.dir) : Insert(q, [f EXCEPT !.place = p], <<"open", "opened">>)
      BY <1>1, <1>5, <2>1, <2>3 DEF Reveal
    <3>. QED BY <3>1 DEF Instances, TypeInv, CmdType, StoreType
  <2>. QED BY <2>2, <2>3
<1>7. PICK e : e = [f EXCEPT !.place = p]
  OBVIOUS
<1>8. /\ Alike(c, e, {"session", "place", "password", "by", "arg", "had"})
      /\ e.session = c.session /\ e.place = p /\ e.password = c.typed /\ e.arg = c.arg
      /\ e.by = "user"
  BY <1>2, <1>5, <1>7 DEF Alike, Fields
<1>9. Range(<<"open", "opened">>) = {"open", "opened"}
  BY AnswerSets
<1>10. Range(<<"open", "opened">>) \cap NamedSteps = {}
  BY <1>9 DEF NamedSteps
<1>11. Reaches(c.kind, Range(<<"open", "opened">>))
  BY <1>2, <1>9 DEF Reaches
<1>. QED
  BY <1>1, <1>2, <1>3, <1>4, <1>6, <1>7, <1>8, <1>10, <1>11, AnswerPlans, AnswerMoves

LEMMA PasswordMoves == ASSUME TypeInv, NEW q \in Procs, Password(q) PROVE Moves(q)
<1>1. PICK c : c = cmd[q]
  OBVIOUS
<1>2. /\ Command(c) /\ c.todo # <<>> /\ c.todo[1] = "password" /\ DOMAIN c = Fields
      /\ c.kind \notin {"reveal", "lock"}
  BY <1>1, AtStep, CommandFacts, KindAt DEF Password, At
<1>3. /\ c.place \in Places /\ c.arg \in Words /\ c.session \in {None} \cup Sessions
      /\ c.env \in Words /\ c.password \in Words
  BY <1>2, CommandFacts
<1>4. "password" \in Ends /\ "password" \in Final
  BY DEF Ends, Final
<1>5. Range(<<"exists">>) = {"exists"} /\ Range(<<"load", "same">>) = {"load", "same"}
  BY AnswerSets
<1>6. Range(<<"exists">>) \cap NamedSteps = {} /\ Range(<<"load", "same">>) \cap NamedSteps = {}
  BY <1>5 DEF NamedSteps
<1>7. Reaches(c.kind, Range(<<"exists">>)) /\ Reaches(c.kind, Range(<<"load", "same">>))
  BY <1>2, <1>5 DEF Reaches
<1>8. c.by # "session"
  <2>1. "password" \in Range(c.todo)
    BY <1>2, CommandFacts, Popped
  <2>. QED BY <1>2, <2>1, CommandFacts DEF Formed
<1>9. CASE c.env # None
  <2>1. PICK e : e = [c EXCEPT !.password = c.env, !.by = "user", !.had = c.session # None]
    OBVIOUS
  <2>2. Insert(q, e, <<"exists">>)
    BY <1>1, <1>9, <2>1 DEF Password
  <2>3. /\ Alike(c, e, {"session", "place", "password", "by", "arg", "had"})
        /\ e.session = c.session /\ e.place = c.place /\ e.password = c.env /\ e.arg = c.arg
        /\ e.by = "user"
    BY <1>2, <2>1 DEF Alike, Fields
  <2>. QED
    BY <1>1, <1>2, <1>3, <1>4, <1>5, <1>6, <1>7, <2>2, <2>3, AnswerPlans, AnswerMoves
<1>10. CASE ~ (c.env # None)
  <2>1. PICK e : e = [c EXCEPT !.had = c.session # None]
    OBVIOUS
  <2>2. Insert(q, e, <<"load", "same">>)
    BY <1>1, <1>10, <2>1 DEF Password
  <2>3. /\ Alike(c, e, {"session", "place", "password", "by", "arg", "had"})
        /\ e.session = c.session /\ e.place = c.place /\ e.password = c.password /\ e.arg = c.arg
        /\ e.by = c.by
    BY <1>2, <2>1 DEF Alike, Fields
  <2>. QED
    BY <1>1, <1>2, <1>3, <1>4, <1>5, <1>6, <1>7, <1>8, <2>2, <2>3, AnswerPlans, AnswerMoves
<1>. QED BY <1>9, <1>10

LEMMA TypedMoves == ASSUME TypeInv, NEW q \in Procs, Typed(q) PROVE Moves(q)
<1>1. PICK c : c = cmd[q]
  OBVIOUS
<1>2. /\ Command(c) /\ c.todo # <<>> /\ c.todo[1] = "typed" /\ DOMAIN c = Fields
      /\ c.kind \notin {"reveal", "lock"}
  BY <1>1, AtStep, CommandFacts, KindAt DEF Typed, At
<1>3. /\ c.place \in Places /\ c.arg \in Words /\ c.session \in {None} \cup Sessions
      /\ c.typed \in Words
  BY <1>2, CommandFacts
<1>4. "typed" \in Ends /\ "typed" \in Final
  BY DEF Ends, Final
<1>5. Range(<<"exists">>) = {"exists"}
  BY AnswerSets
<1>6. Range(<<"exists">>) \cap NamedSteps = {}
  BY <1>5 DEF NamedSteps
<1>7. Reaches(c.kind, Range(<<"exists">>))
  BY <1>2, <1>5 DEF Reaches
<1>8. PICK e : e = [c EXCEPT !.password = c.typed, !.by = "user"]
  OBVIOUS
<1>9. Insert(q, e, <<"exists">>)
  BY <1>1, <1>8 DEF Typed
<1>10. /\ Alike(c, e, {"session", "place", "password", "by", "arg", "had"})
       /\ e.session = c.session /\ e.place = c.place /\ e.password = c.typed /\ e.arg = c.arg
       /\ e.by = "user"
  BY <1>2, <1>8 DEF Alike, Fields
<1>. QED
  BY <1>1, <1>2, <1>3, <1>4, <1>5, <1>6, <1>7, <1>9, <1>10, AnswerPlans, AnswerMoves

LEMMA SameMoves == ASSUME TypeInv, NEW q \in Procs, Same(q) PROVE Moves(q)
<1>1. PICK c : c = cmd[q]
  OBVIOUS
<1>2. /\ Command(c) /\ c.todo # <<>> /\ c.todo[1] = "same" /\ DOMAIN c = Fields
      /\ c.kind \notin {"reveal", "lock"}
  BY <1>1, AtStep, CommandFacts, KindAt DEF Same, At
<1>3. /\ c.place \in Places /\ c.arg \in Words /\ c.session \in {None} \cup Sessions
      /\ c.password \in Words
  BY <1>2, CommandFacts
<1>4. "same" \in Ends /\ "same" \in Final
  BY DEF Ends, Final
<1>5. /\ Range(<<"exists">>) = {"exists"} /\ Range(<<"typed">>) = {"typed"}
      /\ Range(<<"forget", "typed">>) = {"forget", "typed"}
  BY AnswerSets
<1>6. /\ Range(<<"exists">>) \cap NamedSteps = {} /\ Range(<<"typed">>) \cap NamedSteps = {}
      /\ Range(<<"forget", "typed">>) \cap NamedSteps = {}
  BY <1>5 DEF NamedSteps
<1>7. /\ Reaches(c.kind, Range(<<"exists">>)) /\ Reaches(c.kind, Range(<<"typed">>))
      /\ Reaches(c.kind, Range(<<"forget", "typed">>))
  BY <1>2, <1>5 DEF Reaches
<1>8. Alike(c, c, {"session", "place", "password", "by", "arg", "had"})
  BY DEF Alike
<1>9. ASSUME NEW s \in {<<"typed">>, <<"forget", "typed">>}, Insert(q, c, s)
      PROVE  Moves(q)
  <2>1. AnswerPlan(s) /\ Reaches(c.kind, Range(s)) /\ Range(s) \cap NamedSteps = {}
    BY <1>6, <1>7, <1>9, AnswerPlans
  <2>2. Range(s) \cap {"load", "password"} = {}
    BY <1>5, <1>9
  <2>. QED BY <1>1, <1>2, <1>3, <1>4, <1>8, <1>9, <2>1, <2>2, AnswerMoves
<1>10. ASSUME NEW d, NEW e, c.session # None, d = [c EXCEPT !.password = c.session.password],
              e = [d EXCEPT !.by = "session"], Insert(q, e, <<"exists">>)
       PROVE  Moves(q)
  <2>1. /\ Alike(c, e, {"session", "place", "password", "by", "arg", "had"})
        /\ e.session = c.session /\ e.place = c.place /\ e.password = c.session.password
        /\ e.arg = c.arg /\ e.by = "session"
    BY <1>2, <1>10 DEF Alike, Fields
  <2>2. e.password \in Words
    BY <1>3, <1>10, <2>1 DEF Sessions
  <2>. QED
    BY <1>1, <1>2, <1>3, <1>4, <1>5, <1>6, <1>7, <1>10, <2>1, <2>2, AnswerPlans, AnswerMoves
<1>. QED BY <1>1, <1>9, <1>10 DEF Same

LEMMA ExistsMoves == ASSUME TypeInv, NEW q \in Procs, Exists(q) PROVE Moves(q)
<1>1. PICK c : c = cmd[q]
  OBVIOUS
<1>2. /\ Command(c) /\ c.todo # <<>> /\ c.todo[1] = "exists" /\ DOMAIN c = Fields
      /\ c.kind \notin {"reveal", "lock"}
  BY <1>1, AtStep, CommandFacts, KindAt DEF Exists, At
<1>3. /\ c.place \in Places /\ c.arg \in Words /\ c.session \in {None} \cup Sessions
      /\ c.password \in Words
  BY <1>2, CommandFacts
<1>4. "exists" \in Ends /\ "exists" \in Final
  BY DEF Ends, Final
<1>5. CASE c.place \in files
  <2>1. Insert(q, c, <<"unlock", "network", "hold">>)
    BY <1>1, <1>5 DEF Exists
  <2>2. Alike(c, c, {"session", "place", "password", "by", "arg", "had"})
    BY DEF Alike
  <2>3. Range(<<"unlock", "network", "hold">>) = {"unlock", "network", "hold"}
    BY AnswerSets
  <2>4. Range(<<"unlock", "network", "hold">>) \cap NamedSteps = {}
    BY <2>3 DEF NamedSteps
  <2>5. Reaches(c.kind, Range(<<"unlock", "network", "hold">>))
    BY <1>2, <2>3 DEF Reaches
  <2>. QED
    BY <1>1, <1>2, <1>3, <1>4, <2>1, <2>2, <2>3, <2>4, <2>5, AnswerPlans, AnswerMoves
<1>6. CASE c.place \notin files
  <2>1. PICK e : e = [c EXCEPT !.arg = "publicnode"]
    OBVIOUS
  <2>2. PICK s : s = IF HasDefaults(c.place)
               THEN <<"create", "temp", "header", "network", "rpc_check", "rpc_active", "rpc_put",
                      "bundlers", "indexer", "hold">>
               ELSE <<"create", "temp", "header", "network", "bundlers", "indexer", "hold">>
    OBVIOUS
  <2>3. Insert(q, e, s)
    <3>1. Insert(q, e, <<"create", "temp", "header", "network">> \o Defaults(c.place) \o <<"hold">>)
      BY <1>1, <1>6, <2>1 DEF Exists
    <3>. QED BY <2>2, <3>1, CreatePlans, Zenon
  <2>4. /\ Alike(c, e, {"session", "place", "password", "by", "arg", "had"})
        /\ e.session = c.session /\ e.place = c.place /\ e.password = c.password
        /\ e.arg = "publicnode" /\ e.by = c.by
    BY <1>2, <2>1 DEF Alike, Fields
  <2>5. AnswerPlan(s)
    BY <2>2, AnswerPlans
  <2>6. Range(s) \subseteq {"create", "temp", "header", "network", "rpc_check", "rpc_active",
                            "rpc_put", "bundlers", "indexer", "hold"}
    <3>1. CASE HasDefaults(c.place)
      BY <2>2, <3>1, AnswerSets
    <3>2. CASE ~ HasDefaults(c.place)
      <4>1. Range(s) = {"create", "temp", "header", "network", "bundlers", "indexer", "hold"}
        BY <2>2, <3>2, AnswerSets
      <4>. QED BY <4>1
    <3>. QED BY <3>1, <3>2
  <2>7. Reaches(c.kind, Range(s))
    BY <1>2, <2>6 DEF Reaches
  <2>. QED
    BY <1>1, <1>2, <1>3, <1>4, <2>3, <2>4, <2>5, <2>6, <2>7, StepFacts, AnswerMoves
<1>. QED BY <1>5, <1>6

(* A step that gives the command the key of its store.                      *)
LEMMA KeyGoes ==
    ASSUME TypeInv, NEW q \in Procs, NEW k \in Keys, cmd[q].todo # <<>>,
           cmd[q].todo[1] \in {"open", "unlock", "create"},
           Advance(q, [cmd[q] EXCEPT !.key = k])
    PROVE  \E d : /\ Goes(q, d) /\ Lively(cmd[q], d) /\ ~ Rests(Range(d.todo))
                  /\ d.key = k /\ d.place = cmd[q].place /\ d.todo = Tail(cmd[q].todo)
<1>1. PICK c : c = cmd[q]
  OBVIOUS
<1>2. Command(c) /\ DOMAIN c = Fields /\ c.todo # <<>> /\ c.todo \in Seq(Steps) /\ Plan(c.todo)
  BY <1>1, AtStep, CommandFacts
<1>3. PICK e : e = [c EXCEPT !.key = k]
  OBVIOUS
<1>4. PICK d : d = [e EXCEPT !.todo = Tail(e.todo)]
  OBVIOUS
<1>5. cmd' = [cmd EXCEPT ![q] = d]
  BY <1>1, <1>3, <1>4, Zenon DEF Advance, GoOn
<1>6. /\ Alike(c, d, {"todo", "key"}) /\ d.todo = Tail(c.todo) /\ d.key = k
      /\ d.session = c.session /\ d.by = c.by /\ d.live = c.live /\ d.place = c.place
  BY <1>2, <1>3, <1>4 DEF Alike, Fields
<1>7. Command(d) /\ ~ Rests(Range(d.todo)) /\ ~ d.read
  BY <1>1, <1>2, <1>6, TakeKey
<1>8. d.todo # <<>> => d.todo[1] # "renew"
  <2>1. Range(d.todo) \cap {"load", "renew"} = {} /\ d.todo \in Seq(Steps) /\ Plan(d.todo)
    BY <1>2, <1>6, Popped
  <2>2. d.todo # <<>> => d.todo[1] \in Range(d.todo)
    BY <2>1, Popped
  <2>. QED BY <2>1, <2>2
<1>9. Rested(c, d)
  BY <1>7 DEF Rested
<1>. QED BY <1>1, <1>5, <1>6, <1>7, <1>8, <1>9 DEF Goes, Lively

LEMMA UnlockMoves == ASSUME TypeInv, NEW q \in Procs, Unlock(q) PROVE Moves(q)
<1>1. PICK c : c = cmd[q]
  OBVIOUS
<1>2. Command(c) /\ c.todo # <<>> /\ c.todo[1] = "unlock" /\ c.place \in Places
  BY <1>1, AtStep, CommandFacts DEF Unlock, At
<1>3. header[c.place] # None
  BY <1>1 DEF Unlock, Opens
<1>4. header[c.place].key \in Keys
  BY <1>2, <1>3 DEF TypeInv, CmdType, StoreType, Headers
<1>5. Advance(q, [c EXCEPT !.key = header[c.place].key])
  BY <1>1, Zenon DEF Unlock
<1>6. PICK d : Goes(q, d) /\ Lively(c, d) /\ d.key = header[c.place].key /\ d.place = c.place
  BY <1>1, <1>2, <1>4, <1>5, KeyGoes
<1>7. Keyed(c, d)
  BY <1>3, <1>6 DEF Keyed, Wraps
<1>. QED BY <1>1, <1>6, <1>7 DEF Moves

LEMMA OpenMoves == ASSUME TypeInv, NEW q \in Procs, Open(q) PROVE Moves(q)
<1>1. PICK c : c = cmd[q]
  OBVIOUS
<1>2. /\ Command(c) /\ c.todo # <<>> /\ c.todo[1] = "open" /\ c.place \in Places
      /\ DOMAIN c = Fields /\ header[c.place] # None /\ c.kind \notin {"unlock", "lock"}
  BY <1>1, AtStep, CommandFacts, KindAt DEF Open, At
<1>3. header[c.place].key \in Keys
  BY <1>2 DEF TypeInv, CmdType, StoreType, Headers
<1>4. CASE Advance(q, [c EXCEPT !.key = header[c.place].key])
  <2>1. PICK d : Goes(q, d) /\ Lively(c, d) /\ d.key = header[c.place].key /\ d.place = c.place
    BY <1>1, <1>2, <1>3, <1>4, KeyGoes
  <2>2. Keyed(c, d)
    BY <1>2, <2>1 DEF Keyed, Wraps
  <2>. QED BY <1>1, <2>1, <2>2 DEF Moves
<1>5. ASSUME c.by = "session",
             GoOn(q, [c EXCEPT !.session = None, !.by = None], <<"forget", "choose">>)
      PROVE  Moves(q)
  <2>1. PICK e : e = [c EXCEPT !.session = None, !.by = None]
    OBVIOUS
  <2>2. GoOn(q, e, <<"forget", "choose">>)
    BY <1>5, <2>1, Zenon
  <2>3. /\ Alike(c, e, {"session", "place", "password", "by", "arg", "had"})
        /\ e.session = None /\ e.place = c.place /\ e.password = c.password
        /\ e.arg = c.arg /\ e.by = None
    BY <1>2, <2>1 DEF Alike, Fields
  <2>4. Range(<<"forget", "choose">>) = {"forget", "choose"}
    BY AnswerSets
  <2>5. Range(<<"forget", "choose">>) \cap NamedSteps = {}
    BY <2>4 DEF NamedSteps
  <2>6. c.kind # "reveal"
    <3>1. "open" \in Range(c.todo)
      BY <1>2, CommandFacts, Popped
    <3>. QED BY <1>2, <1>5, <3>1, CommandFacts DEF Formed
  <2>7. Reaches(c.kind, Range(<<"forget", "choose">>))
    BY <1>2, <2>6 DEF Reaches
  <2>8. "open" \in Ends /\ "open" \notin Range(<<"forget", "choose">>)
    BY <2>4 DEF Ends
  <2>9. c.arg \in Words /\ c.password \in Words
    BY <1>2, CommandFacts
  <2>. QED
    BY <1>1, <1>2, <1>5, <2>2, <2>3, <2>4, <2>5, <2>6, <2>7, <2>8, <2>9, AnswerPlans, AnswerMoves
<1>6. Advance(q, [c EXCEPT !.key = header[c.place].key])
      \/ /\ c.by = "session"
         /\ GoOn(q, [c EXCEPT !.session = None, !.by = None], <<"forget", "choose">>)
  BY <1>1, Zenon DEF Open
<1>. QED BY <1>4, <1>5, <1>6

LEMMA RewrapMoves == ASSUME TypeInv, NEW q \in Procs, Rewrap(q) PROVE Moves(q)
<1>1. PICK c : c = cmd[q]
  OBVIOUS
<1>2. Command(c) /\ c.todo # <<>> /\ c.todo[1] = "rewrap" /\ DOMAIN c = Fields
  BY <1>1, AtStep, CommandFacts DEF Rewrap, At
<1>3. c.session \in {None} \cup Sessions /\ c.arg \in Words
  BY <1>2, CommandFacts
<1>4. PICK e : e = [c EXCEPT !.password = c.arg]
  OBVIOUS
<1>5. Advance(q, e)
  BY <1>1, <1>4 DEF Rewrap
<1>6. /\ Alike(c, e, {"live", "had", "session", "password"})
      /\ e.session = c.session /\ e.password = c.arg
  BY <1>2, <1>4 DEF Alike, Fields
<1>7. "rewrap" \notin Ends /\ RecordOf("rewrap") = None
  BY StepFacts DEF Ends
<1>8. PICK d : Goes(q, d) /\ Alike(e, d, {"todo"}) /\ (d.todo # <<>> => d.todo[1] # "renew")
  BY <1>1, <1>2, <1>3, <1>5, <1>6, <1>7, PassGoes
<1>9. /\ d.key = c.key /\ d.place = c.place /\ d.session = c.session /\ d.by = c.by
      /\ d.live = c.live
  BY <1>2, <1>4, <1>8 DEF Alike, Fields
<1>. QED BY <1>1, <1>2, <1>8, <1>9 DEF Moves, Keyed, Lively

LEMMA WorkMoves == ASSUME TypeInv, NEW q \in Procs, DoWork(q) PROVE Moves(q)
<1>1. PICK c : c = cmd[q]
  OBVIOUS
<1>2. /\ Command(c) /\ c.todo # <<>> /\ c.todo[1] = "work" /\ DOMAIN c = Fields
      /\ c.todo \in Seq(Steps) /\ c.kind \notin {"unlock", "reveal", "lock"}
  BY <1>1, AtStep, CommandFacts, KindAt DEF DoWork, At
<1>3. PICK s : s = Work(c.kind, c.place, c.arg)
  OBVIOUS
<1>4. WorkPlan(s, c.kind, c.place, c.arg)
  BY <1>2, <1>3, CommandFacts, WorkPlans
<1>5. PICK d : d = [c EXCEPT !.todo = s]
  OBVIOUS
<1>6. cmd' = [cmd EXCEPT ![q] = d]
  <2>1. Tail(c.todo) = <<>>
    BY <1>2, CommandFacts, Popped DEF Final
  <2>2. s \o Tail(c.todo) = s
    BY <1>4, <2>1, EmptyTail DEF WorkPlan
  <2>. QED BY <1>1, <1>3, <1>5, <2>2, Zenon DEF DoWork, Insert, GoOn
<1>7. /\ DOMAIN d = Fields /\ d.todo = s /\ d.kind = c.kind /\ d.place = c.place /\ d.arg = c.arg
      /\ d.typed = c.typed /\ d.env = c.env /\ d.password = c.password /\ d.session = c.session
      /\ d.key = c.key /\ d.seen = c.seen /\ d.read = c.read /\ d.by = c.by /\ d.live = c.live
  BY <1>2, <1>5 DEF Fields
<1>8. c.key # None /\ ~ c.read
  <2>1. "work" \notin Ends \cup Prelude /\ RecordOf("work") = None
    BY StepFacts DEF Ends, Prelude
  <2>. QED BY <1>2, <2>1, HeadKey DEF Command, Formed
<1>9. /\ Range(s) \cap {"load", "password", "renew", "open"} = {} /\ Range(s) \cap Ends = {}
      /\ s[1] # "renew"
  <2>1. s[1] \in Range(s)
    BY <1>4, Popped DEF WorkPlan
  <2>. QED BY <1>4, <2>1 DEF WorkPlan, Opening, Ends
<1>10. Formed(d)
  <2>1. Plan(d.todo) /\ Range(d.todo) \cap Opening = {}
    BY <1>4, <1>7 DEF WorkPlan
  <2>2. Reaches(d.kind, Range(d.todo))
    BY <1>2, <1>7 DEF Reaches
  <2>3. d.kind \in NamedKinds \/ Range(d.todo) \cap NamedSteps # {} => d.arg # None
    BY <1>2, <1>4, <1>7, CommandFacts DEF Formed, WorkPlan
  <2>. QED BY <1>2, <1>7, <1>8, <1>9, <2>1, <2>2, <2>3 DEF Formed
<1>11. Command(d)
  BY <1>2, <1>4, <1>7, <1>10, CommandFacts, IsCommand DEF WorkPlan
<1>12. Rested(c, d)
  BY <1>4, <1>7, <1>8 DEF Rested, WorkPlan
<1>13. Keyed(c, d) /\ Lively(c, d)
  BY <1>2, <1>7, <1>9 DEF Keyed, Lively
<1>. QED BY <1>1, <1>6, <1>11, <1>12, <1>13 DEF Moves, Goes
-----------------------------------------------------------------------------
(* The steps on the records.                                                *)

(* A step that only reads leaves what it read, or refuses.                   *)
LEMMA UpdateReads ==
    ASSUME NEW x \in Reads, NEW place, NEW arg, NEW seen, NEW v
    PROVE  Update(x, place, arg, seen, v) \in {Refused, v}
BY DEF Reads, Update, RecordOf, RpcUpdate, ListUpdate, Unless

(* What a command has seen when it has read its record.                     *)
Saw(c, d) ==
    LET record == RecordOf(c.todo[1])
        v == data[c.place][c.key][record]
        made == Made(c, v)
    IN  /\ record \in Records /\ c.todo[1] \notin Blind /\ ~ c.read
        /\ d.kind = c.kind /\ d.place = c.place /\ d.arg = c.arg /\ d.key = c.key
        /\ \/ d.todo = <<>> /\ ~ d.read
           \/ /\ made = v /\ made # Refused /\ d.todo = Tail(c.todo) /\ ~ d.read
              /\ d.seen = [c.seen EXCEPT ![record] = v]
           \/ /\ made # v /\ made # Refused /\ d.todo = c.todo /\ d.read
              /\ d.seen = [c.seen EXCEPT ![record] = made] /\ c.todo[1] \notin Reads

(* A command at a record has its key.                                       *)
LEMMA AtRecord ==
    ASSUME TypeInv, NEW q \in Procs, OnRecord(q)
    PROVE  LET c == cmd[q] IN
           /\ Command(c) /\ DOMAIN c = Fields /\ c.todo # <<>> /\ c.todo \in Seq(Steps)
           /\ RecordOf(c.todo[1]) \in Records /\ c.key \in Keys /\ c.place \in Places
           /\ c.todo[1] \notin Opening \cup {"temp", "header", "forget"}
<1>1. PICK c : c = cmd[q]
  OBVIOUS
<1>2. Command(c) /\ DOMAIN c = Fields /\ c.todo # <<>> /\ c.todo \in Seq(Steps) /\ Plan(c.todo)
  BY <1>1, AtStep, CommandFacts DEF OnRecord
<1>3. RecordOf(c.todo[1]) # None /\ c.todo[1] \in Steps
  BY <1>1, <1>2, Popped DEF OnRecord
<1>4. RecordOf(c.todo[1]) \in Records /\ c.todo[1] \notin Opening \cup {"temp", "header", "forget"}
  BY <1>3, StepFacts DEF Steps
<1>5. c.key # None
  BY <1>2, <1>4, HeadKey DEF Opening, Prelude
<1>. QED BY <1>1, <1>2, <1>4, <1>5, CommandFacts

(* A command that refuses has nothing left to do.                           *)
LEMMA RefusalGoes ==
    ASSUME TypeInv, NEW q \in Procs, OnRecord(q), GoOn(q, cmd[q], <<>>)
    PROVE  \E d : Goes(q, d) /\ Keyed(cmd[q], d) /\ Lively(cmd[q], d) /\ Alike(cmd[q], d, {"todo"})
                  /\ d.todo = <<>>
<1>1. PICK c : c = cmd[q]
  OBVIOUS
<1>2. /\ Command(c) /\ DOMAIN c = Fields
      /\ c.todo[1] \notin Opening \cup {"temp", "header", "forget"}
  BY <1>1, AtRecord
<1>3. PICK d : d = [c EXCEPT !.todo = <<>>]
  OBVIOUS
<1>4. cmd' = [cmd EXCEPT ![q] = d]
  BY <1>1, <1>3, Zenon DEF GoOn
<1>5. /\ DOMAIN d = Fields /\ d.todo = <<>> /\ d.kind = c.kind /\ d.place = c.place
      /\ d.arg = c.arg /\ d.typed = c.typed /\ d.env = c.env /\ d.password = c.password
      /\ d.session = c.session /\ d.key = c.key /\ d.seen = c.seen
      /\ d.by = c.by /\ d.live = c.live /\ Alike(c, d, {"todo"})
  BY <1>2, <1>3 DEF Fields, Alike
<1>6. Range(<<>>) = {} /\ Plan(<<>>) /\ <<>> \in Seq(Steps)
  BY DEF Range, Plan, Precedes
<1>7. Formed(d)
  <2>1. Plan(d.todo) /\ Range(d.todo) = {} /\ Reaches(d.kind, {}) /\ ~ Rests({})
    BY <1>5, <1>6 DEF Reaches, Rests, PutsListed, PutsActive, UsesListed, OptsIn,
         UsesBundlers, UsesIndexer, Counts
  <2>2. d.kind \in NamedKinds => d.arg # None
    BY <1>2, <1>5, CommandFacts DEF Formed
  <2>3. d.kind = "reveal" /\ d.key # None => d.by = "user"
    BY <1>2, <1>5, CommandFacts DEF Formed
  <2>. QED BY <1>5, <2>1, <2>2, <2>3 DEF Formed
<1>8. Command(d)
  BY <1>2, <1>5, <1>6, <1>7, CommandFacts, IsCommand
<1>9. Rested(c, d)
  BY <1>5, <1>6 DEF Rested, Rests, PutsListed, PutsActive, UsesListed, OptsIn,
       UsesBundlers, UsesIndexer, Counts
<1>10. Keyed(c, d) /\ Lively(c, d)
  BY <1>2, <1>5 DEF Keyed, Lively
<1>. QED BY <1>1, <1>4, <1>5, <1>8, <1>9, <1>10 DEF Goes

(* A step that looks at its record has seen it, and keeps its command well   *)
(* formed.                                                                   *)
LEMMA LookGoes ==
    ASSUME TypeInv, NEW q \in Procs, Look(q)
    PROVE  \E d : /\ cmd' = [cmd EXCEPT ![q] = d] /\ Command(d)
                  /\ Keyed(cmd[q], d) /\ Lively(cmd[q], d) /\ Saw(cmd[q], d)
<1>1. PICK c : c = cmd[q]
  OBVIOUS
<1>2. /\ Command(c) /\ DOMAIN c = Fields /\ c.todo # <<>> /\ c.todo \in Seq(Steps)
      /\ RecordOf(c.todo[1]) \in Records /\ c.key \in Keys /\ c.place \in Places
      /\ c.todo[1] \notin Opening \cup {"temp", "header", "forget"}
  BY <1>1, AtRecord DEF Look
<1>3. c.todo[1] \notin Blind /\ ~ c.read
  BY <1>1 DEF Look
<1>4. PICK record : record = RecordOf(c.todo[1])
  OBVIOUS
<1>5. PICK v : v = data[c.place][c.key][record]
  OBVIOUS
<1>6. Value(c, record) = v
  BY <1>5 DEF Value, Sealed
<1>7. PICK made : made = Made(c, v)
  OBVIOUS
<1>8. c.todo[1] \in Reads => made \in {Refused, v}
  BY <1>7, UpdateReads DEF Made
<1>9. CASE made = Refused
  <2>1. GoOn(q, c, <<>>) /\ OnRecord(q)
    BY <1>1, <1>4, <1>6, <1>7, <1>9 DEF Look
  <2>2. PICK d : Goes(q, d) /\ Keyed(c, d) /\ Lively(c, d) /\ Alike(c, d, {"todo"}) /\ d.todo = <<>>
    BY <1>1, <2>1, RefusalGoes
  <2>3. /\ d.kind = c.kind /\ d.place = c.place /\ d.arg = c.arg /\ d.key = c.key
        /\ d.read = c.read
    BY <2>2 DEF Alike, Fields
  <2>4. Saw(c, d)
    BY <1>2, <1>3, <2>2, <2>3 DEF Saw
  <2>. QED BY <1>1, <2>2, <2>4 DEF Goes
<1>10. ASSUME NEW e, Alike(c, e, {"seen"}), e.seen = [c.seen EXCEPT ![record] = v],
              Advance(q, e), made = v, made # Refused
       PROVE  \E d : /\ cmd' = [cmd EXCEPT ![q] = d] /\ Command(d)
                     /\ Keyed(c, d) /\ Lively(c, d) /\ Saw(c, d)
  <2>1. PICK d : d = [e EXCEPT !.todo = Tail(e.todo)]
    OBVIOUS
  <2>2. cmd' = [cmd EXCEPT ![q] = d]
    BY <1>10, <2>1, Zenon DEF Advance, GoOn
  <2>3. DOMAIN e = Fields /\ e.todo = c.todo
    BY <1>2, <1>10 DEF Alike, Fields
  <2>4. Alike(e, d, {"todo"}) /\ d.todo = Tail(c.todo)
    BY <2>1, <2>3 DEF Alike, Fields
  <2>5. /\ Alike(c, d, {"todo", "live", "had", "session", "seen", "read", "password"})
        /\ d.kind = c.kind /\ d.place = c.place /\ d.arg = c.arg /\ d.key = c.key
        /\ d.session = c.session /\ d.password = c.password /\ d.by = c.by /\ d.live = c.live
        /\ d.seen = [c.seen EXCEPT ![record] = v] /\ ~ d.read
    BY <1>2, <1>3, <1>10, <2>4 DEF Alike, Fields
  <2>6. DOMAIN d.seen = Records /\ d.seen.rpcs \in Seq(Words)
    <3>1. DOMAIN c.seen = Records /\ c.seen.rpcs \in Seq(Words)
      BY <1>2, CommandFacts
    <3>2. data[c.place][c.key].rpcs \in Seq(Words)
      BY <1>2 DEF TypeInv, CmdType, StoreType
    <3>3. "rpcs" \in Records
      BY DEF Records
    <3>. QED BY <1>5, <2>5, <3>1, <3>2, <3>3
  <2>7. Command(d)
    BY <1>2, <2>4, <2>5, <2>6, CommandFacts, TakeStep DEF Opening
  <2>8. d.todo # <<>> => d.todo[1] # "renew"
    <3>1. Range(d.todo) \cap {"load", "renew"} = {} /\ d.todo \in Seq(Steps) /\ Plan(d.todo)
      BY <1>2, <2>4, CommandFacts, Popped
    <3>. QED BY <3>1, Popped
  <2>9. Keyed(c, d) /\ Lively(c, d)
    BY <1>2, <2>5, <2>8 DEF Keyed, Lively
  <2>10. Saw(c, d)
    BY <1>2, <1>3, <1>4, <1>5, <1>7, <1>10, <2>4, <2>5 DEF Saw
  <2>. QED BY <2>2, <2>7, <2>9, <2>10
<1>11. ASSUME NEW d, Alike(c, d, {"seen", "read"}), d.seen = [c.seen EXCEPT ![record] = made],
              d.read = TRUE, cmd' = [cmd EXCEPT ![q] = d], made # v, made # Refused
       PROVE  /\ Command(d) /\ Keyed(c, d) /\ Lively(c, d) /\ Saw(c, d)
  <2>1. /\ DOMAIN d = Fields /\ d.todo = c.todo /\ d.kind = c.kind /\ d.place = c.place
        /\ d.arg = c.arg /\ d.typed = c.typed /\ d.env = c.env /\ d.password = c.password
        /\ d.session = c.session /\ d.key = c.key /\ d.by = c.by /\ d.live = c.live
    BY <1>2, <1>11 DEF Alike, Fields
  <2>2. c.todo[1] \notin Reads
    BY <1>8, <1>11
  <2>3. DOMAIN d.seen = Records /\ d.seen.rpcs \in Seq(Words)
    <3>1. DOMAIN c.seen = Records /\ c.seen.rpcs \in Seq(Words)
      BY <1>2, CommandFacts
    <3>2. record # "rpcs"
      <4>1. None # "rpcs"
        BY StepFacts DEF Records
      <4>. QED BY <1>3, <1>4, <2>2, <4>1 DEF RecordOf, Reads, Blind
    <3>3. "rpcs" \in Records
      BY DEF Records
    <3>. QED BY <1>11, <3>1, <3>2, <3>3
  <2>4. d.todo[1] = "rpc_active" => d.seen.active = d.arg
    <3>1. CASE c.todo[1] = "rpc_active"
      <4>1. record = "active" /\ made = Seeded(v, c.arg)
        BY <1>4, <1>7, <3>1 DEF RecordOf, Made, Update, RpcUpdate
      <4>2. made = c.arg
        BY <1>11, <4>1 DEF Seeded
      <4>3. DOMAIN c.seen = Records /\ "active" \in Records
        BY <1>2, CommandFacts DEF Records
      <4>. QED BY <1>11, <2>1, <4>1, <4>2, <4>3
    <3>. QED BY <2>1, <3>1
  <2>5. Formed(d)
    <3>1. Formed(c)
      BY <1>2, CommandFacts
    <3>2. RecordOf(d.todo[1]) # None /\ d.todo[1] \notin Blind \cup Reads
      BY <1>2, <1>3, <2>1, <2>2, StepFacts
    <3>. QED BY <2>1, <2>4, <3>1, <3>2 DEF Formed
  <2>6. Command(d)
    BY <1>2, <2>1, <2>3, <2>5, CommandFacts, IsCommand
  <2>7. Keyed(c, d) /\ Lively(c, d)
    BY <1>2, <2>1 DEF Keyed, Lively, Opening
  <2>8. Saw(c, d)
    BY <1>2, <1>3, <1>4, <1>5, <1>7, <1>11, <2>1, <2>2 DEF Saw
  <2>. QED BY <2>6, <2>7, <2>8
<1>12. PICK e : e = [c EXCEPT !.seen[record] = made]
  OBVIOUS
<1>13. Alike(c, e, {"seen"}) /\ e.seen = [c.seen EXCEPT ![record] = made]
  BY <1>2, <1>12 DEF Alike, Fields
<1>14. CASE made # Refused /\ made = v
  <2>1. Advance(q, e)
    BY <1>1, <1>4, <1>6, <1>7, <1>12, <1>14 DEF Look
  <2>. QED BY <1>1, <1>10, <1>13, <1>14, <2>1
<1>15. CASE made # Refused /\ made # v
  <2>1. PICK d : d = [e EXCEPT !.read = TRUE]
    OBVIOUS
  <2>2. cmd' = [cmd EXCEPT ![q] = d]
    BY <1>1, <1>4, <1>6, <1>7, <1>12, <1>15, <2>1 DEF Look
  <2>3. Alike(c, d, {"seen", "read"}) /\ d.seen = [c.seen EXCEPT ![record] = made] /\ d.read = TRUE
    BY <1>2, <1>13, <2>1 DEF Alike, Fields
  <2>. QED BY <1>1, <1>11, <1>15, <2>2, <2>3
<1>. QED BY <1>9, <1>14, <1>15

(* What a command has written into its record.                              *)
Wrote(c, d, record, v) ==
    /\ record = RecordOf(c.todo[1]) /\ record \in Records /\ c.todo[1] \notin Reads
    /\ v = IF c.todo[1] \in Blind THEN Made(c, None) ELSE c.seen[record]
    /\ c.todo[1] \in Blind \/ c.read
    /\ v # Refused
    /\ c.key \in Keys /\ c.place \in Places
    /\ d.kind = c.kind /\ d.place = c.place /\ d.arg = c.arg /\ d.key = c.key /\ d.seen = c.seen
    /\ d.todo = Tail(c.todo) /\ ~ d.read

(* What is written to the lists of RPCs and of assets, and by which steps.   *)
LEMMA WroteWhat ==
    ASSUME NEW c, NEW d, NEW record, NEW v, Command(c), c.todo # <<>>, Wrote(c, d, record, v)
    PROVE  /\ record = "rpcs" => c.todo[1] = "rpc_put" /\ v = Append(c.seen.rpcs, c.arg)
           /\ record = "active" => /\ c.todo[1] \in {"rpc_active", "rpc_use"}
                                   /\ v = c.arg /\ c.arg # None
           /\ record = "erc20s" => c.todo[1] = "register"
           /\ record = "in" => c.todo[1] \in {"opt_in", "drop", "opt_out"}
           /\ record = "out" => c.todo[1] \in {"clear", "remember"}
<1>1. None \notin {"rpcs", "active", "erc20s", "in", "out"}
  BY StepFacts DEF Records
<1>2. c.todo[1] \in Range(c.todo)
  BY CommandFacts, Popped
<1>3. CASE record = "rpcs"
  <2>1. c.todo[1] = "rpc_put"
    BY <1>1, <1>3 DEF Wrote, RecordOf, Reads
  <2>. QED BY <1>3, <2>1 DEF Wrote, Blind, Made, Update, RecordOf, RpcUpdate
<1>4. CASE record = "active"
  <2>1. c.todo[1] \in {"rpc_active", "rpc_use"}
    BY <1>1, <1>4 DEF Wrote, RecordOf, Reads
  <2>2. c.arg # None
    BY <1>2, <2>1, CommandFacts DEF Formed, NamedSteps
  <2>3. CASE c.todo[1] = "rpc_active"
    <3>1. c.todo[1] \notin Blind
      BY <2>3 DEF Blind
    <3>2. c.seen.active = c.arg
      BY <2>3, <3>1, CommandFacts DEF Wrote, Formed
    <3>. QED BY <1>4, <2>1, <2>2, <3>1, <3>2 DEF Wrote
  <2>4. CASE c.todo[1] = "rpc_use"
    BY <1>4, <2>2, <2>4 DEF Wrote, Blind, Made, Update, RecordOf, RpcUpdate
  <2>. QED BY <1>4, <2>1, <2>3, <2>4
<1>5. record = "erc20s" => c.todo[1] = "register"
  BY <1>1 DEF Wrote, RecordOf, Reads
<1>6. record = "in" => c.todo[1] \in {"opt_in", "drop", "opt_out"}
  BY <1>1 DEF Wrote, RecordOf, Reads
<1>7. record = "out" => c.todo[1] \in {"clear", "remember"}
  BY <1>1 DEF Wrote, RecordOf, Reads
<1>. QED BY <1>1, <1>3, <1>4, <1>5, <1>6, <1>7

(* A step that writes a record writes what its command made of it.           *)
LEMMA PutGoes ==
    ASSUME TypeInv, NEW q \in Procs, Put(q)
    PROVE  \/ Moves(q) /\ UNCHANGED data /\ cmd[q].todo[1] # "rpc_put"
           \/ \E d, record, v :
                /\ cmd' = [cmd EXCEPT ![q] = d] /\ Command(d)
                /\ Keyed(cmd[q], d) /\ Lively(cmd[q], d) /\ Wrote(cmd[q], d, record, v)
                /\ data' = [data EXCEPT ![cmd[q].place][cmd[q].key][record] = v]
<1>1. PICK c : c = cmd[q]
  OBVIOUS
<1>2. /\ Command(c) /\ DOMAIN c = Fields /\ c.todo # <<>> /\ c.todo \in Seq(Steps)
      /\ RecordOf(c.todo[1]) \in Records /\ c.key \in Keys /\ c.place \in Places
      /\ c.todo[1] \notin Opening \cup {"temp", "header", "forget"}
  BY <1>1, AtRecord DEF Put
<1>3. PICK record : record = RecordOf(c.todo[1])
  OBVIOUS
<1>4. PICK v : v = IF c.todo[1] \in Blind THEN Made(c, None) ELSE c.seen[record]
  OBVIOUS
<1>5. CASE v = Refused /\ GoOn(q, c, <<>>) /\ UNCHANGED data
  <2>1. OnRecord(q)
    BY DEF Put
  <2>2. PICK d : Goes(q, d) /\ Keyed(c, d) /\ Lively(c, d)
    BY <1>1, <1>5, <2>1, RefusalGoes
  <2>3. c.todo[1] # "rpc_put"
    <3>1. CASE c.todo[1] = "rpc_put"
      <4>1. v = Append(c.seen.rpcs, c.arg)
        BY <1>4, <3>1 DEF Blind, Made, Update, RecordOf, RpcUpdate
      <4>2. c.seen.rpcs \in Seq(Words) /\ c.arg \in Words
        BY <1>2, CommandFacts
      <4>3. v \in Seq(Words)
        BY <4>1, <4>2
      <4>. QED BY <1>5, <4>3, HomeAssumption
    <3>. QED BY <3>1
  <2>. QED BY <1>1, <1>5, <2>2, <2>3 DEF Moves
<1>6. ASSUME data' = [data EXCEPT ![c.place][c.key][record] = v],
             Advance(q, [c EXCEPT !.read = FALSE]), v # Refused
      PROVE  \E d : /\ cmd' = [cmd EXCEPT ![q] = d] /\ Command(d)
                    /\ Keyed(c, d) /\ Lively(c, d) /\ Wrote(c, d, record, v)
  <2>1. PICK e : e = [c EXCEPT !.read = FALSE]
    OBVIOUS
  <2>2. PICK d : d = [e EXCEPT !.todo = Tail(e.todo)]
    OBVIOUS
  <2>3. cmd' = [cmd EXCEPT ![q] = d]
    BY <1>6, <2>1, <2>2, Zenon DEF Advance, GoOn
  <2>4. /\ Alike(c, d, {"todo", "live", "had", "session", "seen", "read", "password"})
        /\ d.kind = c.kind /\ d.place = c.place /\ d.arg = c.arg /\ d.key = c.key
        /\ d.session = c.session /\ d.password = c.password /\ d.by = c.by /\ d.live = c.live
        /\ d.seen = c.seen /\ ~ d.read /\ d.todo = Tail(c.todo)
    BY <1>2, <2>1, <2>2 DEF Alike, Fields
  <2>5. Command(d)
    BY <1>2, <2>4, CommandFacts, TakeStep DEF Opening
  <2>6. d.todo # <<>> => d.todo[1] # "renew"
    <3>1. Range(d.todo) \cap {"load", "renew"} = {} /\ d.todo \in Seq(Steps) /\ Plan(d.todo)
      BY <1>2, <2>4, CommandFacts, Popped
    <3>. QED BY <3>1, Popped
  <2>7. Keyed(c, d) /\ Lively(c, d)
    BY <1>2, <2>4, <2>6 DEF Keyed, Lively
  <2>8. c.todo[1] \in Blind \/ c.read
    BY <1>1 DEF Put
  <2>9. c.todo[1] \notin Reads
    <3>1. c.read => c.todo[1] \notin Reads
      BY <1>2, CommandFacts DEF Formed
    <3>2. Blind \cap Reads = {}
      BY DEF Blind, Reads
    <3>. QED BY <2>8, <3>1, <3>2
  <2>10. Wrote(c, d, record, v)
    BY <1>2, <1>3, <1>4, <1>6, <2>4, <2>8, <2>9 DEF Wrote
  <2>. QED BY <2>3, <2>5, <2>7, <2>10
<1>7. \/ v = Refused /\ GoOn(q, c, <<>>) /\ UNCHANGED data
      \/ /\ data' = [data EXCEPT ![c.place][c.key][record] = v]
         /\ Advance(q, [c EXCEPT !.read = FALSE]) /\ v # Refused
  BY <1>1, <1>3, <1>4 DEF Put
<1>8. CASE data' = [data EXCEPT ![c.place][c.key][record] = v]
           /\ Advance(q, [c EXCEPT !.read = FALSE]) /\ v # Refused
  <2>1. PICK d : /\ cmd' = [cmd EXCEPT ![q] = d] /\ Command(d)
                 /\ Keyed(c, d) /\ Lively(c, d) /\ Wrote(c, d, record, v)
    BY <1>6, <1>8
  <2>. QED BY <1>1, <1>8, <2>1
<1>. QED BY <1>5, <1>7, <1>8

(* A command as it begins.                                                  *)
LEMMA BeginGoes ==
    ASSUME TypeInv, NEW q \in Procs, NEW r \in Commands, Begin(q, r)
    PROVE  \E d : /\ cmd' = [cmd EXCEPT ![q] = d] /\ Command(d)
                  /\ d.key = None /\ ~ d.read /\ ~ Rests(Range(d.todo))
                  /\ d.session = None /\ d.by # "session" /\ d.todo[1] # "renew"
<1>1. PICK d :
        d = [todo |-> Start(r), kind |-> r.kind, arg |-> r.arg, place |-> r.place,
             typed |-> r.typed, env |-> r.env, session |-> None, password |-> None,
             key |-> None, seen |-> NoRecords, read |-> FALSE, by |-> None, live |-> FALSE,
             had |-> FALSE]
  OBVIOUS
<1>2. cmd' = [cmd EXCEPT ![q] = d]
  BY <1>1, Zenon DEF Begin
<1>3. /\ DOMAIN d = Fields /\ d.todo = Start(r) /\ d.kind = r.kind /\ d.arg = r.arg
      /\ d.place = r.place /\ d.typed = r.typed /\ d.env = r.env /\ d.session = None
      /\ d.password = None /\ d.key = None /\ d.seen = NoRecords /\ ~ d.read /\ d.by = None
  BY <1>1 DEF Fields
<1>4. /\ r.kind \in Kinds /\ r.place \in Places /\ None # "session"
      /\ r.kind \in NamedKinds => r.arg # None
  BY HomeAssumption DEF NamedKinds
<1>5. r.arg \in Words /\ r.typed \in Words /\ r.env \in Words /\ None \in Words
  BY DEF Words
<1>6. DOMAIN NoRecords = Records /\ NoRecords.rpcs \in Seq(Words)
  BY DEF NoRecords, Records
<1> DEFINE s == d.todo
<1>7. /\ s \in Seq(Steps) /\ s # <<>> /\ Plan(s) /\ Reaches(r.kind, Range(s)) /\ s[1] # "renew"
      /\ Range(s) \cap (NamedSteps \cup {"rpc_put", "rpc_use", "opt_in", "clear",
                                   "open", "bundler_add", "bundler_remove", "indexer_url",
                                   "indexer_on", "indexer_off", "balance"}) = {}
      /\ r.kind # "lock" => Range(s) \cap Ends # {}
  <2> USE DEF Range, Plan, Precedes, Spoils, Steps, Opening, Ends, Final, Prelude, NamedSteps,
          RecordSteps, Reaches
  <2>1. CASE r.kind = "unlock"
    <3>1. d.todo = <<"load", "password">>
      BY <1>3, <2>1 DEF Start
    <3>. QED BY <2>1, <3>1
  <2>2. CASE r.kind = "lock"
    <3>1. d.todo = <<"forget">>
      BY <1>3, <2>2 DEF Start, Lock
    <3>. QED BY <2>2, <3>1
  <2>3. CASE r.kind = "reveal"
    <3>1. d.todo = <<"load", "reveal">>
      BY <1>3, <2>3 DEF Start
    <3>. QED BY <2>3, <3>1
  <2>4. CASE r.kind \notin {"unlock", "lock", "reveal"}
    <3>1. d.todo = <<"load", "held">>
      BY <1>3, <2>4 DEF Start
    <3>. QED BY <2>4, <3>1
  <2>. QED BY <2>1, <2>2, <2>3, <2>4
<1> HIDE DEF s
<1>8. ~ Rests(Range(s))
  BY <1>7 DEF Rests, PutsListed, PutsActive, UsesListed, OptsIn, UsesBundlers, UsesIndexer, Counts
<1>9. Formed(d)
  BY <1>3, <1>4, <1>7, <1>8 DEF Formed, s
<1>10. Command(d)
  BY <1>3, <1>4, <1>5, <1>6, <1>7, <1>9, IsCommand DEF s
<1>. QED BY <1>2, <1>3, <1>4, <1>7, <1>8, <1>10 DEF s
-----------------------------------------------------------------------------
(* The steps of a command, by what they change.                             *)

Asks(q) ==
    \/ Present(q) \/ HoldFails(q) \/ Held(q) \/ Choose(q) \/ Open(q) \/ Reveal(q) \/ Password(q)
    \/ Same(q) \/ Typed(q) \/ Exists(q) \/ Unlock(q) \/ Rewrap(q) \/ DoWork(q) \/ ReportBalance(q)

(* Steps that change nothing but their command.                              *)
LEMMA AsksMoves ==
    ASSUME TypeInv, NEW q \in Procs, Asks(q)
    PROVE  /\ Moves(q) /\ cmd[q].todo # <<>> /\ cmd[q].todo[1] \notin {"temp", "header", "rpc_put"}
           /\ UNCHANGED <<files, header, data, session, key, granted, idle, alone, crashed,
                        contested>>
<1>1. /\ cmd[q].todo # <<>> /\ cmd[q].todo[1] \notin {"temp", "header", "rpc_put"}
      /\ UNCHANGED <<files, header, data, session, key, granted, idle, alone, crashed,
                        contested>>
  BY DEF Asks, Present, HoldFails, Held, Choose, Open, Reveal, Password, Same, Typed, Exists,
         Unlock, Rewrap, DoWork, ReportBalance, At, OnlyCmd, store, history
<1>2. Present(q) => Moves(q)
  BY PresentGoes DEF Moves
<1>3. HoldFails(q) => Moves(q)
  BY HoldFailsGoes DEF Moves
<1>4. ReportBalance(q) => Moves(q)
  <2>1. ReportBalance(q) => At(q, "balance") /\ Advance(q, cmd[q])
    BY DEF ReportBalance
  <2>. QED BY <2>1, PassesGo DEF Moves, Passing
<1>5. Moves(q)
  BY <1>2, <1>3, <1>4, HeldMoves, ChooseMoves, OpenMoves, RevealMoves, PasswordMoves, SameMoves,
     TypedMoves, ExistsMoves, UnlockMoves, RewrapMoves, WorkMoves DEF Asks
<1>. QED BY <1>1, <1>5

(* Steps on the session record.                                             *)
Keeps(q) == Renew(q) \/ Forget(q) \/ Hold(q)

LEMMA KeepsMoves ==
    ASSUME TypeInv, NEW q \in Procs, Keeps(q)
    PROVE  /\ Moves(q) /\ cmd[q].todo # <<>> /\ cmd[q].todo[1] \notin {"temp", "header", "rpc_put"}
           /\ UNCHANGED <<files, header, data, key, alone, crashed, contested>>
           /\ session' \in {None} \cup Sessions
<1>1. /\ cmd[q].todo # <<>> /\ cmd[q].todo[1] \notin {"temp", "header", "rpc_put"}
      /\ UNCHANGED <<files, header, data, key, alone, crashed, contested>>
  BY DEF Keeps, Renew, Forget, Hold, At, store
<1>2. Moves(q)
  <2>1. \E x \in {"renew", "forget", "hold"} : At(q, x) /\ Advance(q, cmd[q])
    BY DEF Keeps, Renew, Forget, Hold
  <2>. QED BY <2>1, PassesGo DEF Moves, Passing
<1>3. session' \in {None} \cup Sessions
  <2>1. Command(cmd[q])
    BY <1>1, AtStep
  <2>2. CASE Renew(q)
    <3>1. cmd[q].session \in Sessions
      BY <2>1, <2>2, CommandFacts DEF Renew, At, Formed
    <3>2. session' = [cmd[q].session EXCEPT !.left = TTL] \/ session' = session
      BY <2>2 DEF Renew
    <3>. QED BY <3>1, <3>2, HomeAssumption DEF Sessions, TypeInv, StoreType
  <2>3. CASE Forget(q)
    BY <2>3 DEF Forget, TypeInv, StoreType
  <2>4. CASE Hold(q)
    BY <2>1, <2>4, CommandFacts, HomeAssumption DEF Hold, Sessions
  <2>. QED BY <2>2, <2>3, <2>4 DEF Keeps
<1>. QED BY <1>1, <1>2, <1>3

(* The command that creates a store has its new key, and the header is next. *)
LEMMA CreateGoes ==
    ASSUME TypeInv, NEW q \in Procs, Create(q)
    PROVE  \E d : /\ Goes(q, d) /\ Lively(cmd[q], d) /\ d.key = key + 1 /\ d.place = cmd[q].place
                  /\ d.todo # <<>> /\ d.todo[1] = "temp"
<1>1. PICK c : c = cmd[q]
  OBVIOUS
<1>2. c.todo # <<>> /\ c.todo[1] = "create" /\ Command(c)
  BY <1>1, AtStep DEF Create, At
<1>3. key + 1 \in Keys /\ Advance(q, [c EXCEPT !.key = key + 1])
  BY <1>1 DEF Create
<1>4. PICK d : /\ Goes(q, d) /\ Lively(c, d) /\ d.key = key + 1 /\ d.place = c.place
               /\ d.todo = Tail(c.todo)
  BY <1>1, <1>2, <1>3, KeyGoes
<1>5. d.todo # <<>> /\ d.todo[1] = "temp"
  BY <1>2, <1>4, CommandFacts, Popped
<1>. QED BY <1>1, <1>4, <1>5

(* The steps that write the header.                                         *)
Writes(q) == PutTemp(q) \/ PutHeader(q)

LEMMA WritesGo ==
    ASSUME TypeInv, NEW q \in Procs, Writes(q)
    PROVE  \E d : /\ Goes(q, d) /\ Lively(cmd[q], d)
                  /\ d.key = cmd[q].key /\ d.place = cmd[q].place
                  /\ cmd[q].key \in Keys /\ cmd[q].place \in Places /\ cmd[q].password \in Words
                  /\ PutTemp(q) => d.todo # <<>> /\ d.todo[1] = "header"
<1>1. PICK c : c = cmd[q]
  OBVIOUS
<1>2. PICK x \in {"temp", "header"} : At(q, x) /\ Advance(q, cmd[q])
  BY DEF Writes, PutTemp, PutHeader
<1>3. Command(c) /\ c.todo # <<>> /\ c.todo[1] = x
  BY <1>1, <1>2, AtStep DEF At
<1>4. PICK d : /\ Goes(q, d) /\ Lively(c, d) /\ d.todo = Tail(c.todo)
               /\ d.key = c.key /\ d.place = c.place
  BY <1>1, <1>2, PassesGo DEF Passing
<1>5. c.key \in Keys
  BY <1>3, HeadKey, CommandFacts DEF Ends, Prelude
<1>6. PutTemp(q) => d.todo # <<>> /\ d.todo[1] = "header"
  BY <1>1, <1>3, <1>4, CommandFacts, Popped DEF PutTemp, At
<1>. QED BY <1>1, <1>3, <1>4, <1>5, <1>6, CommandFacts

LEMMA StepIs ==
    ASSUME NEW q, Step(q)
    PROVE  \/ End(q) \/ Load(q) \/ Asks(q) \/ Keeps(q) \/ Create(q) \/ Writes(q)
           \/ Look(q) \/ Put(q)
BY Zenon DEF Step, Asks, Keeps, Writes
-----------------------------------------------------------------------------
(* Types.                                                                   *)

LEMMA CmdStep ==
    ASSUME CmdType, NEW q \in Procs, NEW d, d = NoCommand \/ Command(d),
           cmd' = [cmd EXCEPT ![q] = d]
    PROVE  CmdType'
BY DEF CmdType

LEMMA StoreKept ==
    ASSUME StoreType, UNCHANGED <<files, header, data, session, key>>
    PROVE  StoreType'
BY DEF StoreType

LEMMA NewWords ==
    ASSUME NEW s \in Seq(Words), NEW w \in Words
    PROVE  Append(s, w) \in Seq(Words)
OBVIOUS

LEMMA PutTypes ==
    ASSUME TypeInv, NEW q \in Procs, Put(q)
    PROVE  TypeInv'
<1>1. PICK c : c = cmd[q]
  OBVIOUS
<1>2. Command(c) /\ c.todo # <<>>
  BY <1>1, AtRecord DEF Put
<1>3. UNCHANGED <<files, header, session, key>>
  BY DEF Put
<1>4. CASE Moves(q) /\ UNCHANGED data
  BY <1>3, <1>4, CmdStep, StoreKept DEF Moves, Goes, TypeInv
<1>5. ASSUME NEW d, NEW record, NEW v,
             cmd' = [cmd EXCEPT ![q] = d], Command(d), Wrote(c, d, record, v),
             data' = [data EXCEPT ![c.place][c.key][record] = v]
      PROVE  TypeInv'
  <2>1. record = "rpcs" => v \in Seq(Words)
    <3>1. c.seen.rpcs \in Seq(Words) /\ c.arg \in Words
      BY <1>2, CommandFacts
    <3>. QED BY <1>2, <1>5, <3>1, NewWords, WroteWhat
  <2>2. record \in Records
    BY <1>5 DEF Wrote
  <2>3. StoreType'
    BY <1>3, <1>5, <2>1, <2>2 DEF TypeInv, StoreType
  <2>. QED BY <1>5, <2>3, CmdStep DEF TypeInv
<1>. QED BY <1>1, <1>4, <1>5, PutGoes

LEMMA StepTypes ==
    ASSUME TypeInv, NEW q \in Procs, Step(q)
    PROVE  TypeInv'
<1>0. CmdType /\ StoreType
  BY DEF TypeInv
<1>1. CASE End(q)
  BY <1>0, <1>1, CmdStep, StoreKept DEF End, TypeInv, store
<1>2. CASE Load(q)
  <2>1. \E d : cmd' = [cmd EXCEPT ![q] = d] /\ Command(d)
    BY <1>2, LoadGoes DEF Goes
  <2>. QED BY <1>0, <1>2, <2>1, CmdStep, StoreKept DEF Load, OnlyCmd, TypeInv, store
<1>3. CASE Asks(q)
  <2>1. \E d : cmd' = [cmd EXCEPT ![q] = d] /\ Command(d)
    BY <1>3, AsksMoves DEF Moves, Goes
  <2>. QED BY <1>0, <1>3, <2>1, AsksMoves, CmdStep, StoreKept DEF TypeInv
<1>4. CASE Keeps(q)
  <2>1. \E d : cmd' = [cmd EXCEPT ![q] = d] /\ Command(d)
    BY <1>4, KeepsMoves DEF Moves, Goes
  <2>2. StoreType'
    BY <1>0, <1>4, KeepsMoves DEF StoreType
  <2>. QED BY <1>0, <2>1, <2>2, CmdStep DEF TypeInv
<1>5. CASE Create(q)
  <2>1. \E d : cmd' = [cmd EXCEPT ![q] = d] /\ Command(d)
    BY <1>5, CreateGoes DEF Goes
  <2>2. StoreType'
    BY <1>0, <1>5 DEF StoreType, Create, store
  <2>. QED BY <1>0, <2>1, <2>2, CmdStep DEF TypeInv
<1>6. CASE Writes(q)
  <2>1. PICK d : /\ cmd' = [cmd EXCEPT ![q] = d] /\ Command(d)
                 /\ cmd[q].key \in Keys /\ cmd[q].place \in Places /\ cmd[q].password \in Words
    BY <1>6, WritesGo DEF Goes
  <2>2. CASE PutTemp(q)
    <3>1. StoreType'
      BY <1>0, <2>1, <2>2 DEF StoreType, PutTemp
    <3>. QED BY <1>0, <2>1, <3>1, CmdStep DEF TypeInv
  <2>3. CASE PutHeader(q)
    <3>1. Header(cmd[q]) \in Headers
      BY <2>1 DEF Header, Headers
    <3>2. StoreType'
      BY <1>0, <2>1, <2>3, <3>1 DEF StoreType, PutHeader
    <3>. QED BY <1>0, <2>1, <3>2, CmdStep DEF TypeInv
  <2>. QED BY <1>6, <2>2, <2>3 DEF Writes
<1>7. CASE Look(q)
  <2>1. \E d : cmd' = [cmd EXCEPT ![q] = d] /\ Command(d)
    BY <1>7, LookGoes
  <2>. QED BY <1>0, <1>7, <2>1, CmdStep, StoreKept DEF Look, OnlyCmd, TypeInv, store
<1>8. CASE Put(q)
  BY <1>8, PutTypes
<1>. QED BY <1>1, <1>2, <1>3, <1>4, <1>5, <1>6, <1>7, <1>8, StepIs

(* Every step keeps the plans of commands, and the records, well formed.     *)
LEMMA NextTypes ==
    ASSUME TypeInv, [Next]_vars
    PROVE  TypeInv'
<1>0. CmdType /\ StoreType
  BY DEF TypeInv
<1>1. ASSUME NEW q \in Procs, NEW r \in Commands, Begin(q, r) PROVE TypeInv'
  <2>1. \E d : cmd' = [cmd EXCEPT ![q] = d] /\ Command(d)
    BY <1>1, BeginGoes
  <2>. QED BY <1>0, <1>1, <2>1, CmdStep, StoreKept DEF Begin, TypeInv, store
<1>2. ASSUME NEW p \in Places, RemoveInstance(p) PROVE TypeInv'
  <2>1. DOMAIN NoRecords = Records /\ NoRecords.rpcs \in Seq(Words)
    BY DEF NoRecords, Records
  <2>2. StoreType'
    BY <1>0, <1>2, <2>1 DEF StoreType, RemoveInstance
  <2>. QED BY <1>0, <1>2, <2>2 DEF TypeInv, CmdType, RemoveInstance
<1>3. CASE Tick
  <2>1. session' \in {None} \cup Sessions
    BY <1>0, <1>3, HomeAssumption DEF Tick, StoreType, Sessions
  <2>. QED BY <1>0, <1>3, <2>1 DEF TypeInv, CmdType, StoreType, Tick, store
<1>4. CASE UNCHANGED vars
  BY <1>0, <1>4 DEF TypeInv, CmdType, StoreType, vars, store
<1>. QED BY <1>1, <1>2, <1>3, <1>4, StepTypes DEF Next
-----------------------------------------------------------------------------
(* The session.                                                             *)

(* A step that leaves the session alone.                                     *)
LEMMA SessionQuiet ==
    ASSUME CmdType, SessionInv, NEW q \in Procs, NEW d, cmd[q] # NoCommand,
           d = NoCommand \/ Lively(cmd[q], d), cmd' = [cmd EXCEPT ![q] = d],
           UNCHANGED <<session, granted, idle, alone>>
    PROVE  SessionInv'
<1>1. PICK c : c = cmd[q]
  OBVIOUS
<1>2. cmd'[q] = d /\ \A r \in Procs \ {q} : cmd'[r] = cmd[r]
  BY DEF CmdType
<1>3. alone' => \A p, r \in Procs : p # r => cmd'[p] = NoCommand \/ cmd'[r] = NoCommand
  BY <1>2 DEF SessionInv
<1>4. /\ alone' /\ session' # None /\ session'.left # 0 => granted' /\ session'.left + idle' = TTL
      /\ idle' \in Nat
  BY DEF SessionInv
<1>5. ASSUME alone', NEW r \in Procs, cmd'[r] # NoCommand
      PROVE  /\ cmd'[r].session # None \/ cmd'[r].by = "session" => cmd'[r].live
             /\ cmd'[r].todo # <<>> /\ cmd'[r].todo[1] = "renew" => session' # None
  <2>1. CASE r = q
    <3>1. c.session # None \/ c.by = "session" => c.live
      BY <1>1, <1>5 DEF SessionInv
    <3>2. Lively(c, d)
      BY <1>1, <1>2, <1>5, <2>1
    <3>. QED BY <1>2, <2>1, <3>1, <3>2 DEF Lively
  <2>2. CASE r # q
    BY <1>2, <1>5, <2>2 DEF SessionInv
  <2>. QED BY <2>1, <2>2
<1>. QED BY <1>3, <1>4, <1>5 DEF SessionInv

(* A step of the only command there is sets what the session is worth.      *)
LEMMA SessionSet ==
    ASSUME CmdType, SessionInv, NEW q \in Procs, NEW d, cmd[q] # NoCommand, Lively(cmd[q], d),
           cmd' = [cmd EXCEPT ![q] = d], UNCHANGED alone, idle' \in Nat,
           alone => (session' # None /\ session'.left # 0
                       => granted' /\ session'.left + idle' = TTL)
    PROVE  SessionInv'
<1>1. PICK c : c = cmd[q]
  OBVIOUS
<1>2. cmd'[q] = d /\ \A r \in Procs \ {q} : cmd'[r] = cmd[r]
  BY DEF CmdType
<1>3. alone' => \A p, r \in Procs : p # r => cmd'[p] = NoCommand \/ cmd'[r] = NoCommand
  BY <1>2 DEF SessionInv
<1>4. /\ alone' /\ session' # None /\ session'.left # 0 => granted' /\ session'.left + idle' = TTL
      /\ idle' \in Nat
  OBVIOUS
<1>5. ASSUME alone', NEW r \in Procs, cmd'[r] # NoCommand
      PROVE  /\ cmd'[r].session # None \/ cmd'[r].by = "session" => cmd'[r].live
             /\ cmd'[r].todo # <<>> /\ cmd'[r].todo[1] = "renew" => session' # None
  <2>1. CASE r = q
    <3>1. c.session # None \/ c.by = "session" => c.live
      BY <1>1, <1>5 DEF SessionInv
    <3>. QED BY <1>1, <1>2, <2>1, <3>1 DEF Lively
  <2>2. CASE r # q
    BY <1>2, <1>5, <2>2 DEF SessionInv
  <2>. QED BY <2>1, <2>2
<1>. QED BY <1>3, <1>4, <1>5 DEF SessionInv

LEMMA LoadSession ==
    ASSUME TypeInv, SessionInv, NEW q \in Procs, Load(q)
    PROVE  SessionInv'
<1>0. CmdType /\ cmd[q] # NoCommand
  BY AtStep DEF TypeInv, Load, At
<1>1. PICK d : /\ cmd' = [cmd EXCEPT ![q] = d] /\ d.by # "session"
               /\ d.session # None => session # None /\ session.left # 0 /\ d.live = granted
               /\ d.todo # <<>> /\ d.todo[1] = "renew" => session # None
  BY LoadGoes DEF Goes
<1>2. UNCHANGED <<session, granted, idle, alone>>
  BY DEF Load, OnlyCmd, history
<1>3. cmd'[q] = d /\ \A r \in Procs \ {q} : cmd'[r] = cmd[r]
  BY <1>0, <1>1 DEF CmdType
<1>4. alone' => \A p, r \in Procs : p # r => cmd'[p] = NoCommand \/ cmd'[r] = NoCommand
  BY <1>0, <1>2, <1>3 DEF SessionInv
<1>5. /\ alone' /\ session' # None /\ session'.left # 0 => granted' /\ session'.left + idle' = TTL
      /\ idle' \in Nat
  BY <1>2 DEF SessionInv
<1>6. ASSUME alone', NEW r \in Procs, cmd'[r] # NoCommand
      PROVE  /\ cmd'[r].session # None \/ cmd'[r].by = "session" => cmd'[r].live
             /\ cmd'[r].todo # <<>> /\ cmd'[r].todo[1] = "renew" => session' # None
  <2>1. CASE r = q
    <3>1. session # None /\ session.left # 0 => granted
      BY <1>2, <1>6 DEF SessionInv
    <3>. QED BY <1>1, <1>2, <1>3, <2>1, <3>1
  <2>2. CASE r # q
    BY <1>2, <1>3, <1>6, <2>2 DEF SessionInv
  <2>. QED BY <2>1, <2>2
<1>. QED BY <1>4, <1>5, <1>6 DEF SessionInv

LEMMA KeepsSession ==
    ASSUME TypeInv, SessionInv, NEW q \in Procs, Keeps(q)
    PROVE  SessionInv'
<1>1. PICK c : c = cmd[q]
  OBVIOUS
<1>2. Command(c) /\ c # NoCommand /\ CmdType /\ c.todo # <<>>
  BY <1>1, KeepsMoves, AtStep DEF TypeInv
<1>3. PICK d : cmd' = [cmd EXCEPT ![q] = d] /\ Lively(c, d)
  BY <1>1, KeepsMoves DEF Moves, Goes
<1>4. UNCHANGED alone
  BY KeepsMoves
<1>5. idle \in Nat /\ TTL \in Nat
  BY HomeAssumption DEF SessionInv
<1>6. CASE Renew(q)
  <2>1. c.session \in Sessions /\ c.todo[1] = "renew"
    BY <1>1, <1>2, <1>6, CommandFacts, StepFacts DEF Renew, At, Formed
  <2>2. CASE UNCHANGED <<session, granted, idle>>
    BY <1>1, <1>2, <1>3, <1>4, <2>2, SessionQuiet
  <2>3. CASE /\ session' = [c.session EXCEPT !.left = TTL] /\ idle' = 0
             /\ granted' = (c.live /\ session # None)
    <3>1. session'.left = TTL /\ c.session # None
      BY <2>1, <2>3, HomeAssumption DEF Sessions
    <3>2. alone => c.live /\ session # None
      BY <1>1, <1>2, <2>1, <3>1 DEF SessionInv
    <3>3. idle' \in Nat /\ session'.left + idle' = TTL
      BY <1>5, <2>3, <3>1
    <3>4. alone => granted'
      <4>1. granted' <=> (c.live /\ session # None)
        BY <2>3, Zenon
      <4>. QED BY <3>2, <4>1
    <3>. QED BY <1>1, <1>2, <1>3, <1>4, <3>3, <3>4, SessionSet
  <2>. QED BY <1>1, <1>6, <2>2, <2>3 DEF Renew
<1>7. CASE Forget(q)
  <2>1. CASE session' = None
    <3>1. UNCHANGED idle
      BY <1>7 DEF Forget
    <3>. QED BY <1>1, <1>2, <1>3, <1>4, <1>5, <2>1, <3>1, SessionSet
  <2>2. CASE UNCHANGED <<session, granted, idle>>
    BY <1>1, <1>2, <1>3, <1>4, <2>2, SessionQuiet
  <2>. QED BY <1>7, <2>1, <2>2 DEF Forget
<1>8. CASE Hold(q)
  <2>1. session'.left = TTL /\ idle' = 0 /\ granted'
    BY <1>8 DEF Hold
  <2>2. idle' \in Nat /\ session'.left + idle' = TTL
    BY <1>5, <2>1
  <2>. QED BY <1>1, <1>2, <1>3, <1>4, <2>1, <2>2, SessionSet
<1>. QED BY <1>6, <1>7, <1>8 DEF Keeps

LEMMA StepSession ==
    ASSUME TypeInv, SessionInv, NEW q \in Procs, Step(q)
    PROVE  SessionInv'
<1>0. CmdType
  BY DEF TypeInv
<1>1. CASE End(q)
  <2>1. cmd' = [cmd EXCEPT ![q] = NoCommand] /\ UNCHANGED <<session, granted, idle, alone>>
        /\ cmd[q] # NoCommand
    BY <1>1 DEF End
  <2>. QED BY <1>0, <2>1, SessionQuiet
<1>2. CASE Load(q)
  BY <1>2, LoadSession
<1>3. CASE Asks(q)
  <2>1. \E d : cmd' = [cmd EXCEPT ![q] = d] /\ Lively(cmd[q], d)
    BY <1>3, AsksMoves DEF Moves, Goes
  <2>2. cmd[q] # NoCommand
    BY <1>3, AsksMoves, AtStep
  <2>. QED BY <1>0, <1>3, <2>1, <2>2, AsksMoves, SessionQuiet
<1>4. CASE Keeps(q)
  BY <1>4, KeepsSession
<1>5. CASE Create(q)
  <2>1. \E d : cmd' = [cmd EXCEPT ![q] = d] /\ Lively(cmd[q], d)
    BY <1>5, CreateGoes DEF Goes
  <2>2. cmd[q] # NoCommand /\ UNCHANGED <<session, granted, idle, alone>>
    BY <1>5, AtStep DEF Create, At
  <2>. QED BY <1>0, <2>1, <2>2, SessionQuiet
<1>6. CASE Writes(q)
  <2>1. \E d : cmd' = [cmd EXCEPT ![q] = d] /\ Lively(cmd[q], d)
    BY <1>6, WritesGo DEF Goes
  <2>2. cmd[q] # NoCommand /\ UNCHANGED <<session, granted, idle, alone>>
    BY <1>6, AtStep DEF Writes, PutTemp, PutHeader, At, history
  <2>. QED BY <1>0, <2>1, <2>2, SessionQuiet
<1>7. CASE Look(q)
  <2>1. \E d : cmd' = [cmd EXCEPT ![q] = d] /\ Lively(cmd[q], d)
    BY <1>7, LookGoes
  <2>2. cmd[q] # NoCommand /\ UNCHANGED <<session, granted, idle, alone>>
    BY <1>7, AtStep DEF Look, OnRecord, OnlyCmd, history
  <2>. QED BY <1>0, <2>1, <2>2, SessionQuiet
<1>8. CASE Put(q)
  <2>1. \E d : cmd' = [cmd EXCEPT ![q] = d] /\ Lively(cmd[q], d)
    BY <1>8, PutGoes DEF Moves, Goes
  <2>2. cmd[q] # NoCommand /\ UNCHANGED <<session, granted, idle, alone>>
    BY <1>8, AtStep DEF Put, OnRecord, history
  <2>. QED BY <1>0, <2>1, <2>2, SessionQuiet
<1>. QED BY <1>1, <1>2, <1>3, <1>4, <1>5, <1>6, <1>7, <1>8, StepIs

(* Every step keeps what a session is worth.                                 *)
LEMMA NextSession ==
    ASSUME TypeInv, SessionInv, [Next]_vars
    PROVE  SessionInv'
<1>0. CmdType /\ StoreType
  BY DEF TypeInv
<1>1. ASSUME NEW q \in Procs, NEW r \in Commands, Begin(q, r) PROVE SessionInv'
  <2>1. PICK d : /\ cmd' = [cmd EXCEPT ![q] = d]
                 /\ d.session = None /\ d.by # "session" /\ d.todo[1] # "renew"
    BY <1>1, BeginGoes
  <2>2. /\ UNCHANGED <<session, granted, idle>>
        /\ alone' = (alone /\ \A p \in Procs : cmd[p] = NoCommand)
    BY <1>1 DEF Begin
  <2>3. cmd'[q] = d /\ \A s \in Procs \ {q} : cmd'[s] = cmd[s]
    BY <1>0, <2>1 DEF CmdType
  <2>. QED BY <2>1, <2>2, <2>3 DEF SessionInv
<1>2. ASSUME NEW p \in Places, RemoveInstance(p) PROVE SessionInv'
  BY <1>2 DEF RemoveInstance, SessionInv, history
<1>3. CASE Tick
  <2>1. /\ UNCHANGED <<cmd, alone>> /\ idle' = idle + 1 /\ granted' = (granted /\ idle' < TTL)
        /\ session' = IF session = None \/ session.left = 0 THEN session
                      ELSE [session EXCEPT !.left = @ - 1]
    BY <1>3 DEF Tick
  <2>2. idle' \in Nat
    BY <2>1 DEF SessionInv
  <2>3. session' # None => session # None
    BY <2>1
  <2>4. CASE session = None \/ session.left = 0
    <3>1. session' = session
      BY <2>1, <2>4
    <3>. QED BY <2>1, <2>2, <2>4, <3>1 DEF SessionInv
  <2>5. CASE session # None /\ session.left # 0
    <3>1. session \in Sessions /\ session.left \in Nat
      BY <1>0, <2>5 DEF StoreType, Sessions
    <3>2. session'.left = session.left - 1
      BY <2>1, <2>5, <3>1 DEF Sessions
    <3>3. alone' /\ session' # None /\ session'.left # 0
            => granted' /\ session'.left + idle' = TTL
      <4>1. alone => granted /\ session.left + idle = TTL
        BY <2>5 DEF SessionInv
      <4>2. idle \in Nat
        BY DEF SessionInv
      <4>3. TTL \in Nat /\ idle' = idle + 1 /\ granted' = (granted /\ idle' < TTL) /\ alone' = alone
        BY <2>1, HomeAssumption
      <4>4. session'.left = session.left - 1 /\ session.left \in Nat
        BY <3>1, <3>2
      <4>5. granted' <=> (granted /\ idle' < TTL)
        BY <4>3, Zenon
      <4>6. ASSUME alone', session'.left # 0 PROVE granted' /\ session'.left + idle' = TTL
        <5>1. granted /\ session.left + idle = TTL
          BY <4>1, <4>3, <4>6
        <5>2. session'.left + idle' = TTL /\ idle' < TTL
          BY <5>1, <4>2, <4>3, <4>4, <4>6, <2>5
        <5>. QED BY <5>1, <5>2, <4>5
      <4>. QED BY <4>6
    <3>4. session' \in Sessions
      BY <2>1, <2>5, <3>1 DEF Sessions
    <3>5. session' # None
      BY <3>4, HomeAssumption
    <3>6. alone' => \A p, q \in Procs : p # q => cmd'[p] = NoCommand \/ cmd'[q] = NoCommand
      BY <2>1 DEF SessionInv
    <3>7. alone' => \A q \in Procs : cmd'[q] # NoCommand =>
             /\ cmd'[q].session # None \/ cmd'[q].by = "session" => cmd'[q].live
             /\ cmd'[q].todo # <<>> /\ cmd'[q].todo[1] = "renew" => session' # None
      BY <2>1, <3>5 DEF SessionInv
    <3>. QED BY <2>2, <3>3, <3>6, <3>7 DEF SessionInv
  <2>. QED BY <2>4, <2>5
<1>4. CASE UNCHANGED vars
  BY <1>4 DEF SessionInv, vars, history
<1>. QED BY <1>1, <1>2, <1>3, <1>4, StepSession DEF Next
-----------------------------------------------------------------------------
(* Data keys.                                                               *)

(* A command writes a header when that is its next step.                     *)
LEMMA WritingAt ==
    ASSUME NEW q \in Procs, NEW p, CmdType, Writing(q, p)
    PROVE  /\ cmd[q] # NoCommand /\ cmd[q].todo # <<>> /\ cmd[q].todo[1] \in {"temp", "header"}
           /\ cmd[q].place = p /\ cmd[q].key # None
<1>1. /\ cmd[q].todo # <<>> /\ cmd[q].todo[1] \in {"temp", "header"} /\ cmd[q].place = p
  BY DEF Writing, At
<1>2. cmd[q] # NoCommand /\ Command(cmd[q])
  BY <1>1 DEF CmdType, NoCommand
<1>. QED BY <1>1, <1>2, HeadKey DEF Ends, Prelude

(* A step that leaves headers and records alone keeps the keys.              *)
LEMMA KeyQuiet ==
    ASSUME CmdType, CmdType', KeyInv, NEW q \in Procs, NEW d, d = NoCommand \/ Keyed(cmd[q], d),
           d.key = None \/ cmd[q] # NoCommand \/ d = NoCommand,
           cmd' = [cmd EXCEPT ![q] = d], UNCHANGED <<header, contested>>, OneKey'
    PROVE  KeyInv'
<1>1. PICK c : c = cmd[q]
  OBVIOUS
<1>2. cmd'[q] = d /\ \A r \in Procs \ {q} : cmd'[r] = cmd[r]
  BY DEF CmdType
<1>3. \A p : \A r \in Procs \ {q} : Writing(r, p)' <=> Writing(r, p)
  BY <1>2 DEF Writing, At
<1>4. \A p, k : Wraps(p, k)' <=> Wraps(p, k)
  BY DEF Wraps
<1>5. ASSUME d # NoCommand, d.key # None, d.place \notin contested PROVE Wraps(d.place, d.key)
  <2>1. CASE d.key = c.key /\ d.place = c.place /\ c.todo[1] \notin {"temp", "header"}
    <3>1. ~ Writing(q, c.place)
      BY <1>1, <2>1 DEF Writing, At
    <3>2. Keeper(q) /\ c # NoCommand
      BY <1>1, <1>5 DEF KeyInv
    <3>. QED BY <1>1, <1>5, <2>1, <3>1, <3>2 DEF Keeper
  <2>. QED BY <1>1, <1>5, <2>1 DEF Keyed
<1>6. ASSUME NEW r \in Procs PROVE Keeper(r)'
  <2>1. CASE r = q
    BY <1>2, <1>4, <1>5, <2>1 DEF Keeper
  <2>2. CASE r # q
    <3>1. Keeper(r)
      BY DEF KeyInv
    <3>. QED BY <1>2, <1>3, <1>4, <2>2, <3>1 DEF Keeper
  <2>. QED BY <2>1, <2>2
<1>7. ASSUME NEW p \in Places \ contested, NEW r \in Procs, NEW s \in Procs PROVE Rivals(p, r, s)'
  <2>1. CASE r # q /\ s # q
    <3>1. Rivals(p, r, s)
      BY <1>7 DEF KeyInv
    <3>. QED BY <1>3, <2>1, <3>1 DEF Rivals
  <2>2. ASSUME Writing(q, p)' PROVE header'[p] # None
    <3>1. d # NoCommand /\ d.key # None /\ d.place = p
      <4>1. CmdType' /\ Writing(q, p)'
        BY <2>2
      <4>2. cmd'[q] # NoCommand /\ cmd'[q].place = p /\ cmd'[q].key # None
        <5>1. /\ cmd'[q].todo # <<>> /\ cmd'[q].todo[1] \in {"temp", "header"} /\ cmd'[q].place = p
          BY <2>2 DEF Writing, At
        <5>2. cmd'[q] # NoCommand /\ Command(cmd'[q])
          BY <5>1 DEF CmdType, NoCommand
        <5>. QED BY <5>1, <5>2, HeadKey DEF Ends, Prelude
      <4>. QED BY <1>2, <4>2
    <3>2. Wraps(p, d.key)
      BY <1>5, <1>7, <3>1
    <3>. QED BY <3>2 DEF Wraps
  <2>. QED BY <2>1, <2>2 DEF Rivals
<1>8. \A r \in Procs : Keeper(r)'
  BY <1>6
<1>9. \A p \in Places \ contested', r, s \in Procs : Rivals(p, r, s)'
  BY <1>7
<1>. QED BY <1>8, <1>9 DEF KeyInv

LEMMA SameData ==
    ASSUME OneKey, UNCHANGED <<header, data, contested>>
    PROVE  OneKey'
BY DEF OneKey

(* The command that creates a store will write the header its store lacks.   *)
LEMMA CreateKey ==
    ASSUME TypeInv, KeyInv, NEW q \in Procs, Create(q)
    PROVE  KeyInv'
<1>1. PICK c : c = cmd[q]
  OBVIOUS
<1>2. CmdType /\ UNCHANGED <<header, data>> /\ header[c.place] = None
  BY <1>1 DEF Create, store, TypeInv
<1>3. PICK d : /\ cmd' = [cmd EXCEPT ![q] = d] /\ d.place = c.place /\ d.todo # <<>>
               /\ d.todo[1] = "temp"
  BY <1>1, CreateGoes DEF Goes
<1>4. cmd'[q] = d /\ \A r \in Procs \ {q} : cmd'[r] = cmd[r]
  BY <1>2, <1>3 DEF CmdType
<1>5. \A p : \A r \in Procs \ {q} : Writing(r, p)' <=> Writing(r, p)
  BY <1>4 DEF Writing, At
<1>6. \A p, k : Wraps(p, k)' <=> Wraps(p, k)
  BY <1>2 DEF Wraps
<1>7. /\ contested \subseteq contested'
      /\ \A p : Writing(q, p)' => p = c.place
      /\ Writing(q, c.place)'
  BY <1>1, <1>3, <1>4 DEF Create, Writing, At
<1>8. ASSUME NEW r \in Procs \ {q}, Writing(r, c.place) PROVE c.place \in contested'
  BY <1>1, <1>8 DEF Create
<1>9. OneKey'
  BY <1>2, <1>7 DEF OneKey, KeyInv
<1>10. ASSUME NEW r \in Procs PROVE Keeper(r)'
  <2>1. CASE r = q
    BY <1>2, <1>3, <1>4, <1>7, <2>1 DEF Keeper
  <2>2. CASE r # q
    <3>1. Keeper(r)
      BY DEF KeyInv
    <3>. QED BY <1>2, <1>4, <1>5, <1>6, <1>7, <2>2, <3>1 DEF Keeper
  <2>. QED BY <2>1, <2>2
<1>11. ASSUME NEW p \in Places \ contested', NEW r \in Procs, NEW s \in Procs PROVE Rivals(p, r, s)'
  <2>1. CASE r # q /\ s # q
    <3>1. Rivals(p, r, s)
      BY <1>7, <1>11 DEF KeyInv
    <3>. QED BY <1>2, <1>5, <2>1, <3>1 DEF Rivals
  <2>2. CASE r = q
    BY <1>5, <1>7, <1>8, <1>11, <2>2 DEF Rivals
  <2>3. CASE s = q
    BY <1>5, <1>7, <1>8, <1>11, <2>3 DEF Rivals
  <2>. QED BY <2>1, <2>2, <2>3
<1>. QED BY <1>9, <1>10, <1>11 DEF KeyInv

(* The header is written to a temporary file first, which wraps nothing.     *)
LEMMA TempKey ==
    ASSUME TypeInv, KeyInv, NEW q \in Procs, PutTemp(q)
    PROVE  KeyInv'
<1>1. PICK c : c = cmd[q]
  OBVIOUS
<1>2. CmdType /\ UNCHANGED <<header, data, contested>> /\ Writing(q, c.place) /\ c # NoCommand
  BY <1>1, AtStep DEF PutTemp, Writing, TypeInv, At, history
<1>3. PICK d : /\ cmd' = [cmd EXCEPT ![q] = d] /\ d.place = c.place /\ d.key = c.key
               /\ d.todo # <<>> /\ d.todo[1] = "header"
  BY <1>1, WritesGo DEF Goes, Writes
<1>4. cmd'[q] = d /\ \A r \in Procs \ {q} : cmd'[r] = cmd[r]
  BY <1>2, <1>3 DEF CmdType
<1>5. \A p : \A r \in Procs : Writing(r, p)' <=> Writing(r, p)
  <2>1. \A p : Writing(q, p)' <=> p = c.place
    BY <1>3, <1>4 DEF Writing, At
  <2>2. \A p : Writing(q, p) <=> p = c.place
    BY <1>1, <1>2 DEF Writing, At
  <2>3. \A p : \A r \in Procs \ {q} : Writing(r, p)' <=> Writing(r, p)
    BY <1>4 DEF Writing, At
  <2>. QED BY <2>1, <2>2, <2>3
<1>6. \A p, k : Wraps(p, k)' <=> Wraps(p, k)
  BY <1>2 DEF Wraps
<1>7. OneKey'
  BY <1>2, SameData DEF KeyInv
<1>8. ASSUME NEW r \in Procs PROVE Keeper(r)'
  <2>1. Keeper(r)
    BY DEF KeyInv
  <2>2. CASE r = q
    BY <1>1, <1>2, <1>3, <1>4, <1>5, <1>6, <2>1, <2>2 DEF Keeper
  <2>3. CASE r # q
    BY <1>2, <1>4, <1>5, <1>6, <2>1, <2>3 DEF Keeper
  <2>. QED BY <2>2, <2>3
<1>9. ASSUME NEW p \in Places \ contested', NEW r \in Procs, NEW s \in Procs PROVE Rivals(p, r, s)'
  <2>1. Rivals(p, r, s)
    BY <1>2, <1>9 DEF KeyInv
  <2>. QED BY <1>2, <1>5, <2>1 DEF Rivals
<1>. QED BY <1>7, <1>8, <1>9 DEF KeyInv

(* The header wraps the key that its command has had since it opened the     *)
(* store.                                                                    *)
LEMMA HeaderKey ==
    ASSUME TypeInv, KeyInv, NEW q \in Procs, PutHeader(q)
    PROVE  KeyInv'
<1>1. PICK c : c = cmd[q]
  OBVIOUS
<1>2. /\ CmdType /\ StoreType /\ UNCHANGED <<data, contested>> /\ Writing(q, c.place)
      /\ c # NoCommand /\ header' = [header EXCEPT ![c.place] = Header(c)]
  BY <1>1, AtStep DEF PutHeader, Writing, TypeInv, At, history
<1>3. PICK d : /\ cmd' = [cmd EXCEPT ![q] = d] /\ d.place = c.place /\ d.key = c.key
               /\ c.key \in Keys /\ c.place \in Places /\ c.password \in Words
  BY <1>1, WritesGo DEF Goes, Writes
<1>4. cmd'[q] = d /\ \A r \in Procs \ {q} : cmd'[r] = cmd[r]
  BY <1>2, <1>3 DEF CmdType
<1>5. \A p : \A r \in Procs \ {q} : Writing(r, p)' <=> Writing(r, p)
  BY <1>4 DEF Writing, At
<1>6. /\ header'[c.place] # None /\ header'[c.place].key = c.key
      /\ \A p \in Places \ {c.place} : header'[p] = header[p]
  <2>1. Header(c) \in Headers /\ Header(c).key = c.key
    BY <1>3 DEF Header, Headers
  <2>. QED BY <1>2, <1>3, <2>1, HomeAssumption DEF StoreType
<1>7. c.key # None
  BY <1>3, StepFacts
<1>8. c.place \notin contested => header[c.place] = None \/ header[c.place].key = c.key
  <2>1. Keeper(q)
    BY DEF KeyInv
  <2>. QED BY <1>1, <1>2, <1>7, <2>1 DEF Keeper, Wraps
<1>9. OneKey'
  <2>1. ASSUME NEW p \in Places \ contested, NEW k \in Keys, data[p][k] # NoRecords
        PROVE  header'[p] # None /\ header'[p].key = k
    <3>1. header[p] # None /\ header[p].key = k
      BY <2>1 DEF KeyInv, OneKey
    <3>2. CASE p = c.place
      BY <1>6, <1>8, <2>1, <3>1, <3>2
    <3>3. CASE p # c.place
      BY <1>6, <2>1, <3>1, <3>3
    <3>. QED BY <3>2, <3>3
  <2>. QED BY <1>2, <2>1 DEF OneKey
<1>10. ASSUME NEW r \in Procs PROVE Keeper(r)'
  <2>1. CASE r = q
    BY <1>3, <1>4, <1>6, <2>1 DEF Keeper, Wraps
  <2>2. CASE r # q
    <3>1. Keeper(r)
      BY DEF KeyInv
    <3>2. CASE cmd[r].place = c.place /\ cmd[r] # NoCommand /\ cmd[r].place \notin contested
               /\ cmd[r].key # None
      <4>1. ~ (header[c.place] = None /\ Writing(r, c.place))
        <5>1. Rivals(c.place, q, r)
          BY <1>3, <3>2 DEF KeyInv
        <5>. QED BY <1>2, <2>2, <5>1 DEF Rivals
      <4>2. Wraps(c.place, cmd[r].key)
        BY <3>1, <3>2, <4>1 DEF Keeper
      <4>3. cmd[r].key = c.key
        BY <1>8, <3>2, <4>2 DEF Wraps
      <4>. QED BY <1>4, <1>6, <2>2, <3>2, <4>3 DEF Keeper, Wraps
    <3>3. CASE cmd[r].place # c.place /\ cmd[r] # NoCommand
      <4>1. cmd[r].place \in Places
        BY <1>2, <3>3, CommandFacts DEF CmdType
      <4>2. header'[cmd[r].place] = header[cmd[r].place]
        BY <1>6, <3>3, <4>1
      <4>. QED BY <1>2, <1>4, <1>5, <2>2, <3>1, <4>2 DEF Keeper, Wraps
    <3>. QED BY <1>2, <1>4, <2>2, <3>2, <3>3 DEF Keeper
  <2>. QED BY <2>1, <2>2
<1>11. ASSUME NEW p \in Places \ contested', NEW r \in Procs, NEW s \in Procs PROVE Rivals(p, r, s)'
  <2>1. CASE p = c.place
    BY <1>6, <2>1 DEF Rivals
  <2>2. CASE p # c.place
    <3>1. ~ Writing(q, p)'
      BY <1>3, <1>4, <2>2 DEF Writing
    <3>2. Rivals(p, r, s) /\ header'[p] = header[p]
      BY <1>2, <1>6, <1>11, <2>2 DEF KeyInv
    <3>. QED BY <1>5, <3>1, <3>2 DEF Rivals
  <2>. QED BY <2>1, <2>2
<1>. QED BY <1>9, <1>10, <1>11 DEF KeyInv

(* A record is written under the key that the header wraps.                  *)
LEMMA PutKey ==
    ASSUME TypeInv, TypeInv', KeyInv, NEW q \in Procs, Put(q)
    PROVE  KeyInv'
<1>1. PICK c : c = cmd[q]
  OBVIOUS
<1>2. /\ CmdType /\ CmdType' /\ StoreType /\ UNCHANGED <<header, contested>> /\ c # NoCommand
      /\ OnRecord(q)
  BY <1>1, AtStep DEF Put, OnRecord, TypeInv, history
<1>3. CASE Moves(q) /\ UNCHANGED data
  <2>1. OneKey'
    BY <1>2, <1>3, SameData DEF KeyInv
  <2>2. \E d : cmd' = [cmd EXCEPT ![q] = d] /\ Keyed(c, d)
    BY <1>1, <1>3 DEF Moves, Goes
  <2>. QED BY <1>1, <1>2, <2>1, <2>2, KeyQuiet
<1>4. ASSUME NEW d, NEW record, NEW v,
             cmd' = [cmd EXCEPT ![q] = d], Keyed(c, d), Wrote(c, d, record, v),
             data' = [data EXCEPT ![c.place][c.key][record] = v]
      PROVE  KeyInv'
  <2>1. /\ c.key \in Keys /\ c.place \in Places /\ c.key # None
        /\ c.todo[1] \notin {"temp", "header"}
    BY <1>1, <1>2, AtRecord, StepFacts
  <2>2. c.place \notin contested => Wraps(c.place, c.key)
    <3>1. Keeper(q) /\ ~ Writing(q, c.place)
      BY <1>1, <2>1 DEF KeyInv, Writing, At
    <3>. QED BY <1>1, <1>2, <2>1, <3>1 DEF Keeper
  <2>3. ASSUME NEW p \in Places, NEW k \in Keys, p # c.place \/ k # c.key
        PROVE  data'[p][k] = data[p][k]
    BY <1>2, <1>4, <2>1, <2>3 DEF StoreType
  <2>4. OneKey'
    <3>1. ASSUME NEW p \in Places \ contested, NEW k \in Keys, data'[p][k] # NoRecords
          PROVE  header[p] # None /\ header[p].key = k
      <4>1. CASE p = c.place /\ k = c.key
        BY <2>2, <3>1, <4>1 DEF Wraps
      <4>2. CASE p # c.place \/ k # c.key
        BY <2>3, <3>1, <4>2 DEF KeyInv, OneKey
      <4>. QED BY <4>1, <4>2
    <3>. QED BY <1>2, <3>1 DEF OneKey
  <2>. QED BY <1>1, <1>2, <1>4, <2>4, KeyQuiet
<1>. QED BY <1>1, <1>3, <1>4, PutGoes

LEMMA StepKey ==
    ASSUME TypeInv, TypeInv', KeyInv, NEW q \in Procs, Step(q)
    PROVE  KeyInv'
<1>0. CmdType /\ CmdType'
  BY DEF TypeInv
<1>1. ASSUME NEW d, cmd' = [cmd EXCEPT ![q] = d], d = NoCommand \/ Keyed(cmd[q], d),
             cmd[q] # NoCommand, UNCHANGED <<header, data, contested>>
      PROVE  KeyInv'
  <2>1. OneKey'
    BY <1>1, SameData DEF KeyInv
  <2>. QED BY <1>0, <1>1, <2>1, KeyQuiet
<1>2. CASE End(q)
  BY <1>1, <1>2 DEF End, store
<1>3. CASE Load(q)
  <2>1. \E d : cmd' = [cmd EXCEPT ![q] = d] /\ Keyed(cmd[q], d)
    BY <1>3, LoadGoes DEF Goes
  <2>2. cmd[q] # NoCommand /\ UNCHANGED <<header, data, contested>>
    BY <1>3, AtStep DEF Load, At, OnlyCmd, store, history
  <2>. QED BY <1>1, <2>1, <2>2
<1>4. CASE Asks(q)
  <2>1. \E d : cmd' = [cmd EXCEPT ![q] = d] /\ Keyed(cmd[q], d)
    BY <1>4, AsksMoves DEF Moves, Goes
  <2>. QED BY <1>1, <1>4, <2>1, AsksMoves, AtStep
<1>5. CASE Keeps(q)
  <2>1. \E d : cmd' = [cmd EXCEPT ![q] = d] /\ Keyed(cmd[q], d)
    BY <1>5, KeepsMoves DEF Moves, Goes
  <2>. QED BY <1>1, <1>5, <2>1, KeepsMoves, AtStep
<1>6. CASE Create(q)
  BY <1>6, CreateKey
<1>7. CASE Writes(q)
  BY <1>7, TempKey, HeaderKey DEF Writes
<1>8. CASE Look(q)
  <2>1. \E d : cmd' = [cmd EXCEPT ![q] = d] /\ Keyed(cmd[q], d)
    BY <1>8, LookGoes
  <2>2. cmd[q] # NoCommand /\ UNCHANGED <<header, data, contested>>
    BY <1>8, AtStep DEF Look, OnRecord, OnlyCmd, store, history
  <2>. QED BY <1>1, <2>1, <2>2
<1>9. CASE Put(q)
  BY <1>9, PutKey
<1>. QED BY <1>2, <1>3, <1>4, <1>5, <1>6, <1>7, <1>8, <1>9, StepIs

(* Every step keeps the keys.                                                *)
LEMMA NextKey ==
    ASSUME TypeInv, TypeInv', KeyInv, [Next]_vars
    PROVE  KeyInv'
<1>0. CmdType /\ CmdType' /\ StoreType
  BY DEF TypeInv
<1>1. ASSUME NEW q \in Procs, NEW r \in Commands, Begin(q, r) PROVE KeyInv'
  <2>1. PICK d : cmd' = [cmd EXCEPT ![q] = d] /\ d.key = None
    BY <1>1, BeginGoes
  <2>2. UNCHANGED <<header, data, contested>>
    BY <1>1 DEF Begin, store
  <2>3. OneKey' /\ Keyed(cmd[q], d)
    BY <2>1, <2>2, SameData DEF KeyInv, Keyed
  <2>. QED BY <1>0, <2>1, <2>2, <2>3, KeyQuiet
<1>2. ASSUME NEW p \in Places, RemoveInstance(p) PROVE KeyInv'
  <2>1. /\ \A q \in Procs : cmd[q] = NoCommand /\ cmd' = cmd
        /\ header' = [header EXCEPT ![p] = None]
        /\ data' = [data EXCEPT ![p] = [k \in Keys |-> NoRecords]] /\ contested' = contested
    BY <1>2 DEF RemoveInstance, history
  <2>2. OneKey'
    BY <1>0, <2>1 DEF OneKey, KeyInv, StoreType
  <2>3. \A x : \A q \in Procs : ~ Writing(q, x)'
    <3>1. cmd' = cmd
      BY <1>2 DEF RemoveInstance
    <3>. QED BY <2>1, <3>1 DEF Writing, At, NoCommand
  <2>. QED BY <1>2, <2>1, <2>2, <2>3 DEF KeyInv, Keeper, Rivals, RemoveInstance
<1>3. CASE Tick \/ UNCHANGED vars
  <2>1. UNCHANGED <<cmd, header, data, contested>>
    BY <1>3 DEF Tick, vars, store, history
  <2>. QED BY <2>1 DEF KeyInv, Keeper, Rivals, OneKey, Wraps, Writing, At
<1>. QED BY <1>1, <1>2, <1>3, StepKey DEF Next
-----------------------------------------------------------------------------
(* The records.                                                             *)

(* A step that leaves the records alone, of a command that was not about to *)
(* add an RPC, or of one that is cut short.                                 *)
Aside(c, d) ==
    /\ d = NoCommand \/ Rested(c, d)
    /\ c # NoCommand \/ d = NoCommand \/ ~ Rests(Range(d.todo))
    /\ crashed' \/ c = NoCommand \/ c.todo = <<>> \/ c.todo[1] # "rpc_put"

(* Such a step keeps what commands know of the records.                      *)
LEMMA RecordsKept ==
    ASSUME CmdType, ActiveInv, RpcInv, ListInv, NEW q \in Procs, NEW d,
           cmd' = [cmd EXCEPT ![q] = d], Aside(cmd[q], d),
           data' = data, alone' => alone, crashed => crashed'
    PROVE  ActiveInv' /\ RpcInv' /\ ListInv'
<1>1. PICK c : c = cmd[q]
  OBVIOUS
<1>2. cmd'[q] = d /\ \A r \in Procs \ {q} : cmd'[r] = cmd[r]
  BY DEF CmdType
<1>3. ActiveAt(c) /\ (alone => RpcAt(c) /\ ListAt(c))
  BY <1>1 DEF ActiveInv, RpcInv, ListInv
<1>4. d # NoCommand => Rested(c, d) /\ (c # NoCommand \/ ~ Rests(Range(d.todo)))
  BY <1>1 DEF Aside
<1>5. ActiveAt(d)'
  <2>1. CASE AtWork(d) /\ PutsActive(Range(d.todo))
    <3>1. Rests(Range(d.todo)) /\ d # NoCommand
      BY <2>1 DEF Rests, AtWork
    <3>2. d.place = c.place /\ d.key = c.key /\ PutsActive(Range(c.todo)) /\ AtWork(c)
      BY <1>4, <2>1, <3>1 DEF Rested, AtWork
    <3>3. Under(c).active # None
      BY <1>3, <3>2 DEF ActiveAt
    <3>. QED BY <3>2, <3>3 DEF ActiveAt, Under
  <2>. QED BY <2>1 DEF ActiveAt
<1>6. alone' => RpcAt(d)'
  <2>1. CASE alone' /\ AtWork(d)
    <3>1. PutsListed(Range(d.todo)) => d.seen.rpcs = data[d.place][d.key].rpcs
      <4>1. CASE PutsListed(Range(d.todo))
        <5>1. Rests(Range(d.todo)) /\ d # NoCommand
          BY <2>1, <4>1 DEF Rests, AtWork
        <5>2. /\ d.place = c.place /\ d.key = c.key /\ d.seen = c.seen
              /\ PutsListed(Range(c.todo)) /\ AtWork(c)
          BY <1>4, <2>1, <4>1, <5>1 DEF Rested, AtWork
        <5>. QED BY <1>3, <2>1, <5>2 DEF RpcAt, Under
      <4>. QED BY <4>1
    <3>2. UsesListed(Range(d.todo)) => Contains(data[d.place][d.key].rpcs, d.arg)
      <4>1. CASE UsesListed(Range(d.todo))
        <5>1. Rests(Range(d.todo)) /\ d # NoCommand
          BY <2>1, <4>1 DEF Rests, AtWork
        <5>2. /\ d.place = c.place /\ d.key = c.key /\ d.arg = c.arg
              /\ UsesListed(Range(c.todo)) /\ AtWork(c)
          BY <1>4, <2>1, <4>1, <5>1 DEF Rested, AtWork
        <5>. QED BY <1>3, <2>1, <5>2 DEF RpcAt, Under
      <4>. QED BY <4>1
    <3>3. ~ (d.read /\ d.todo # <<>>)
      BY <1>4, <2>1 DEF Rested, AtWork
    <3>. QED BY <3>1, <3>2, <3>3 DEF RpcAt, Under
  <2>. QED BY <2>1 DEF RpcAt
<1>7. alone' => ListAt(d)'
  <2>1. CASE alone' /\ AtWork(d)
    <3>1. OptsIn(Range(d.todo)) =>
            IsDefault(d.place, d.arg) \/ d.arg \in data[d.place][d.key].erc20s
      <4>1. CASE OptsIn(Range(d.todo)) /\ ~ IsDefault(d.place, d.arg)
        <5>1. Rests(Range(d.todo)) /\ d # NoCommand
          BY <2>1, <4>1 DEF Rests, AtWork
        <5>2. /\ d.place = c.place /\ d.key = c.key /\ d.arg = c.arg
              /\ OptsIn(Range(c.todo)) /\ AtWork(c)
          BY <1>4, <2>1, <4>1, <5>1 DEF Rested, AtWork
        <5>. QED BY <1>3, <2>1, <4>1, <5>2 DEF ListAt, Under
      <4>. QED BY <4>1
    <3>2. ~ (d.read /\ d.todo # <<>>)
      BY <1>4, <2>1 DEF Rested, AtWork
    <3>. QED BY <3>1, <3>2 DEF ListAt, Under
  <2>. QED BY <2>1 DEF ListAt
<1>8. ActiveInv'
  <2>1. ASSUME NEW r \in Procs, r # q PROVE ActiveAt(cmd[r])'
    <3>1. ActiveAt(cmd[r])
      BY DEF ActiveInv
    <3>. QED BY <1>2, <2>1, <3>1 DEF ActiveAt, Under
  <2>. QED BY <1>2, <1>5, <2>1 DEF ActiveInv
<1>9. RpcInv'
  <2>1. ASSUME alone', NEW r \in Procs, r # q PROVE RpcAt(cmd[r])'
    <3>1. RpcAt(cmd[r])
      BY <2>1 DEF RpcInv
    <3>. QED BY <1>2, <2>1, <3>1 DEF RpcAt, Under
  <2>2. ASSUME alone', ~ crashed', NEW p \in Places, NEW k \in Keys PROVE InUse(p, k)'
    <3>1. InUse(p, k)
      BY <2>2 DEF RpcInv
    <3>2. ASSUME NEW r \in Procs, Adds(cmd[r], p, k) PROVE Adds(cmd[r], p, k)'
      <4>1. r # q
        BY <1>1, <2>2, <3>2 DEF Aside, Adds
      <4>. QED BY <1>2, <3>2, <4>1 DEF Adds
    <3>. QED BY <3>1, <3>2 DEF InUse
  <2>. QED BY <1>2, <1>6, <2>1, <2>2 DEF RpcInv
<1>10. ListInv'
  <2>1. ASSUME alone', NEW r \in Procs, r # q PROVE ListAt(cmd[r])'
    <3>1. ListAt(cmd[r])
      BY <2>1 DEF ListInv
    <3>. QED BY <1>2, <2>1, <3>1 DEF ListAt, Under
  <2>2. alone' => OptedIsRegistered'
    BY DEF ListInv, OptedIsRegistered
  <2>. QED BY <1>2, <1>7, <2>1, <2>2 DEF ListInv
<1>. QED BY <1>8, <1>9, <1>10

(* What a step that read its record makes of what its command knows.        *)
LEMMA ReadUpdates ==
    ASSUME NEW x, NEW place, NEW arg, NEW seen, NEW v
    PROVE  /\ x = "rpc_active" => Update(x, place, arg, seen, v) = Seeded(v, arg)
           /\ x = "rpc_listed" /\ Update(x, place, arg, seen, v) # Refused => Contains(v, arg)
           /\ x = "register" => Update(x, place, arg, seen, v) = v \cup {arg}
           /\ RecordOf(x) \in {"erc20s", "in", "out"} =>
                Update(x, place, arg, seen, v) = ListUpdate(x, place, arg, seen, v)
BY DEF Update, RecordOf, RpcUpdate, ListUpdate, Unless

(* A step on a list that writes it does not look at what was seen before.   *)
LEMMA ListUpdates ==
    ASSUME NEW x, x \notin Reads, RecordOf(x) \in {"erc20s", "in", "out"},
           NEW place, NEW arg, NEW s, NEW t, NEW v
    PROVE  ListUpdate(x, place, arg, s, v) = ListUpdate(x, place, arg, t, v)
<1>1. None \notin {"erc20s", "in", "out"}
  BY StepFacts DEF Records
<1>2. x \in {"register", "opt_in", "drop", "opt_out", "clear", "remember"}
  BY <1>1 DEF RecordOf, Reads
<1>. QED BY <1>2 DEF ListUpdate

(* So does a step that reads a record: what it saw is there.                 *)
LEMMA SawRecords ==
    ASSUME TypeInv, ActiveInv, RpcInv, ListInv, NEW q \in Procs, NEW d,
           cmd[q].todo # <<>>, cmd' = [cmd EXCEPT ![q] = d], Command(d), Saw(cmd[q], d),
           UNCHANGED <<data, alone, crashed>>
    PROVE  ActiveInv' /\ RpcInv' /\ ListInv'
<1>1. PICK c : c = cmd[q]
  OBVIOUS
<1>2. /\ Command(c) /\ c # NoCommand /\ c.todo \in Seq(Steps) /\ Plan(c.todo) /\ CmdType
      /\ DOMAIN c.seen = Records
  BY <1>1, AtStep, CommandFacts DEF TypeInv
<1>3. cmd'[q] = d /\ \A r \in Procs \ {q} : cmd'[r] = cmd[r]
  BY <1>2 DEF CmdType
<1>4. ActiveAt(c) /\ (alone => RpcAt(c) /\ ListAt(c))
  BY <1>1 DEF ActiveInv, RpcInv, ListInv
<1>5. PICK x : x = c.todo[1]
  OBVIOUS
<1>6. PICK record : record = RecordOf(x)
  OBVIOUS
<1>7. PICK v : v = data[c.place][c.key][record]
  OBVIOUS
<1>8. PICK made : made = Made(c, v)
  OBVIOUS
<1>9. /\ record \in Records /\ x \notin Blind /\ ~ c.read
      /\ d.kind = c.kind /\ d.place = c.place /\ d.arg = c.arg /\ d.key = c.key
      /\ \/ d.todo = <<>> /\ ~ d.read
         \/ /\ made = v /\ made # Refused /\ d.todo = Tail(c.todo) /\ ~ d.read
            /\ d.seen = [c.seen EXCEPT ![record] = v]
         \/ /\ made # v /\ made # Refused /\ d.todo = c.todo /\ d.read
            /\ d.seen = [c.seen EXCEPT ![record] = made] /\ x \notin Reads
  BY <1>1, <1>5, <1>6, <1>7, <1>8 DEF Saw
<1>10. /\ x = "rpc_active" => made = Seeded(v, c.arg)
       /\ x = "rpc_listed" /\ made # Refused => Contains(v, c.arg)
       /\ x = "register" => made = v \cup {c.arg}
       /\ record \in {"erc20s", "in", "out"} => made = ListUpdate(x, c.place, c.arg, c.seen, v)
  BY <1>5, <1>6, <1>8, ReadUpdates DEF Made
<1>11. Range(c.todo) = {x} \cup Range(Tail(c.todo))
  BY <1>1, <1>2, <1>5, Popped
<1>12. /\ x \in {"rpc_active"} => record = "active" /\ c.arg # None
       /\ x \in {"rpc_check", "rpc_listed"} => record = "rpcs"
       /\ x = "register" => record = "erc20s"
  <2>1. x \in Range(c.todo)
    BY <1>11
  <2>2. x = "rpc_active" => c.arg # None
    BY <1>2, <2>1, CommandFacts DEF Formed, NamedSteps
  <2>. QED BY <1>6, <2>2 DEF RecordOf
<1>13. {"rpcs", "active", "erc20s", "in", "out"} \subseteq Records
  BY DEF Records
<1>14. CASE d.todo = <<>> /\ ~ d.read
  <2>1. Range(d.todo) = {}
    BY <1>14 DEF Range
  <2>2. Aside(c, d)
    BY <1>2, <1>5, <1>9, <1>14, <2>1
       DEF Aside, Rested, Rests, PutsListed, PutsActive, UsesListed, OptsIn,
            UsesBundlers, UsesIndexer, Counts, Blind
  <2>. QED BY <1>1, <1>2, <2>2, RecordsKept
<1>15. ASSUME made = v, made # Refused, d.todo = Tail(c.todo), ~ d.read,
              d.seen = [c.seen EXCEPT ![record] = v]
       PROVE  /\ ActiveAt(d)' /\ (alone' => RpcAt(d)' /\ ListAt(d)')
  <2>1. PutsActive(Range(d.todo)) => PutsActive(Range(c.todo)) \/ x = "rpc_active"
    BY <1>11, <1>15 DEF PutsActive
  <2>2. PutsListed(Range(d.todo)) => PutsListed(Range(c.todo)) \/ x = "rpc_check"
    BY <1>11, <1>15 DEF PutsListed
  <2>3. UsesListed(Range(d.todo)) => UsesListed(Range(c.todo)) \/ x = "rpc_listed"
    BY <1>11, <1>15 DEF UsesListed
  <2>4. OptsIn(Range(d.todo)) => OptsIn(Range(c.todo)) \/ x = "register"
    BY <1>11, <1>15 DEF OptsIn
  <2>5. AtWork(d) => AtWork(c)
    BY <1>2, <1>9 DEF AtWork
  <2>6. ActiveAt(d)'
    <3>1. x = "rpc_active" => Under(c).active # None
      BY <1>7, <1>10, <1>12, <1>15 DEF Under, Seeded
    <3>. QED BY <1>4, <1>9, <2>1, <2>5, <3>1 DEF ActiveAt, Under, AtWork
  <2>7. alone' => RpcAt(d)'
    <3>1. CASE alone /\ AtWork(d)
      <4>1. PutsListed(Range(d.todo)) => d.seen.rpcs = Under(d).rpcs
        <5>1. CASE record = "rpcs"
          BY <1>2, <1>7, <1>9, <1>13, <1>15, <5>1 DEF Under
        <5>2. CASE record # "rpcs"
          <6>1. d.seen.rpcs = c.seen.rpcs
            BY <1>2, <1>13, <1>15, <5>2
          <6>. QED BY <1>4, <1>9, <1>12, <2>2, <2>5, <3>1, <5>2, <6>1 DEF RpcAt, Under
        <5>. QED BY <5>1, <5>2
      <4>2. UsesListed(Range(d.todo)) => Contains(Under(d).rpcs, d.arg)
        <5>1. x = "rpc_listed" => Contains(Under(c).rpcs, c.arg)
          BY <1>7, <1>10, <1>12, <1>15 DEF Under
        <5>. QED BY <1>4, <1>9, <2>3, <2>5, <3>1, <5>1 DEF RpcAt, Under
      <4>. QED BY <1>15, <4>1, <4>2 DEF RpcAt, Under, AtWork
    <3>. QED BY <3>1 DEF RpcAt, AtWork
  <2>8. alone' => ListAt(d)'
    <3>1. CASE alone /\ AtWork(d)
      <4>1. OptsIn(Range(d.todo)) => IsDefault(d.place, d.arg) \/ d.arg \in Under(d).erc20s
        <5>1. x = "register" => c.arg \in Under(c).erc20s
          BY <1>7, <1>10, <1>12, <1>15 DEF Under
        <5>. QED BY <1>4, <1>9, <2>4, <2>5, <3>1, <5>1 DEF ListAt, Under
      <4>. QED BY <1>15, <4>1 DEF ListAt, Under, AtWork
    <3>. QED BY <3>1 DEF ListAt, AtWork
  <2>. QED BY <2>6, <2>7, <2>8
<1>16. ASSUME made # v, made # Refused, d.todo = c.todo, d.read,
              d.seen = [c.seen EXCEPT ![record] = made], x \notin Reads
       PROVE  /\ ActiveAt(d)' /\ (alone' => RpcAt(d)' /\ ListAt(d)')
  <2>1. AtWork(d) => AtWork(c)
    BY <1>2, <1>9 DEF AtWork
  <2>2. ActiveAt(d)'
    BY <1>4, <1>9, <1>16, <2>1 DEF ActiveAt, Under, AtWork
  <2>3. alone' => RpcAt(d)'
    <3>1. CASE alone /\ AtWork(d)
      <4>1. record # "rpcs"
        <5>1. None # "rpcs"
          BY StepFacts DEF Records
        <5>. QED BY <1>6, <1>9, <1>16, <5>1 DEF RecordOf, Reads, Blind
      <4>2. d.seen.rpcs = c.seen.rpcs
        BY <1>2, <1>13, <1>16, <4>1
      <4>3. x = "rpc_active" => Under(c).active = None
        BY <1>7, <1>10, <1>12, <1>16 DEF Seeded, Under
      <4>. QED BY <1>4, <1>5, <1>9, <1>16, <2>1, <3>1, <4>2, <4>3 DEF RpcAt, Under, AtWork
    <3>. QED BY <3>1 DEF RpcAt, AtWork
  <2>4. alone' => ListAt(d)'
    <3>1. CASE alone /\ AtWork(d)
      <4>1. record \in {"erc20s", "in", "out"} =>
              d.seen[record] = ListUpdate(x, c.place, c.arg, d.seen, Under(c)[record])
        <5>1. CASE record \in {"erc20s", "in", "out"}
          <6>1. d.seen[record] = made
            BY <1>2, <1>9, <1>16
          <6>2. made = ListUpdate(x, c.place, c.arg, c.seen, v)
            BY <1>10, <5>1
          <6>3. ListUpdate(x, c.place, c.arg, c.seen, v) = ListUpdate(x, c.place, c.arg, d.seen, v)
            BY <1>6, <1>16, <5>1, ListUpdates
          <6>. QED BY <1>7, <6>1, <6>2, <6>3 DEF Under
        <5>. QED BY <5>1
      <4>. QED BY <1>4, <1>5, <1>6, <1>9, <1>16, <2>1, <3>1, <4>1 DEF ListAt, Under, AtWork
    <3>. QED BY <3>1 DEF ListAt, AtWork
  <2>. QED BY <2>2, <2>3, <2>4
<1>17. ASSUME ActiveAt(d)', alone' => RpcAt(d)' /\ ListAt(d)'
       PROVE  ActiveInv' /\ RpcInv' /\ ListInv'
  <2>1. ASSUME NEW r \in Procs, r # q
        PROVE  ActiveAt(cmd[r])' /\ (alone' => RpcAt(cmd[r])' /\ ListAt(cmd[r])')
    <3>1. ActiveAt(cmd[r]) /\ (alone => RpcAt(cmd[r]) /\ ListAt(cmd[r]))
      BY DEF ActiveInv, RpcInv, ListInv
    <3>. QED BY <1>3, <2>1, <3>1 DEF ActiveAt, RpcAt, ListAt, Under
  <2>2. ActiveInv'
    BY <1>3, <1>17, <2>1 DEF ActiveInv
  <2>3. ASSUME alone', ~ crashed', NEW p \in Places, NEW k \in Keys PROVE InUse(p, k)'
    <3>1. InUse(p, k)
      BY <2>3 DEF RpcInv
    <3>2. ASSUME NEW r \in Procs, Adds(cmd[r], p, k) PROVE Adds(cmd[r], p, k)'
      <4>1. r # q
        BY <1>1, <1>5, <1>9, <3>2 DEF Adds, Blind
      <4>. QED BY <1>3, <3>2, <4>1 DEF Adds
    <3>. QED BY <3>1, <3>2 DEF InUse
  <2>4. RpcInv'
    BY <1>3, <1>17, <2>1, <2>3 DEF RpcInv
  <2>5. alone' => OptedIsRegistered'
    BY DEF ListInv, OptedIsRegistered
  <2>6. ListInv'
    BY <1>3, <1>17, <2>1, <2>5 DEF ListInv
  <2>. QED BY <2>2, <2>4, <2>6
<1>. QED BY <1>9, <1>14, <1>15, <1>16, <1>17

(* What an RPC that is appended adds to a list.                              *)
LEMMA Appended ==
    ASSUME NEW s \in Seq(Words), NEW w \in Words, NEW u
    PROVE  /\ Append(s, w) # <<>> /\ (Contains(Append(s, w), u) <=> Contains(s, u) \/ u = w)
           /\ ~ Contains(<<>>, u)
<1>1. /\ Len(Append(s, w)) = Len(s) + 1 /\ Append(s, w)[Len(s) + 1] = w /\ Len(s) \in Nat
      /\ \A i \in 1 .. Len(s) : Append(s, w)[i] = s[i]
  OBVIOUS
<1>2. Append(s, w) # <<>>
  BY <1>1
<1> DEFINE t == Append(s, w)
<1>3. Contains(t, u) <=> Contains(s, u) \/ u = w
  <2> HIDE DEF t
  <2>1. Len(t) = Len(s) + 1 /\ t[Len(s) + 1] = w /\ \A i \in 1 .. Len(s) : t[i] = s[i]
    BY <1>1 DEF t
  <2>2. \A i \in 1 .. Len(s) + 1 : i \in 1 .. Len(s) \/ i = Len(s) + 1
    BY <1>1
  <2>. QED BY <1>1, <2>1, <2>2 DEF Contains
<1>. QED BY <1>2, <1>3 DEF Contains

(* What a step that writes rests on.                                        *)
LEMMA WroteRests ==
    ASSUME NEW c, NEW d, NEW record, NEW v, Command(c), c.todo # <<>>, Wrote(c, d, record, v)
    PROVE  LET x == c.todo[1]
               left == Range(c.todo)
               rest == Range(d.todo)
           IN  /\ x = "rpc_put" => /\ PutsListed(left) /\ PutsActive(left)
                                   /\ ~ PutsListed(rest) /\ ~ PutsActive(rest)
               /\ x = "rpc_use" => UsesListed(left)
               /\ x \in {"opt_in", "clear"} => OptsIn(left)
               /\ x = "rpc_active" => d.todo # <<>> /\ d.todo[1] = "rpc_put"
               /\ PutsActive(rest) => PutsActive(left) \/ x = "rpc_active"
               /\ PutsListed(rest) => PutsListed(left)
               /\ UsesListed(rest) => UsesListed(left)
               /\ OptsIn(rest) => OptsIn(left) \/ x = "register"
<1>1. PICK x : x = c.todo[1]
  OBVIOUS
<1>2. PICK left : left = Range(c.todo)
  OBVIOUS
<1>3. PICK rest : rest = Range(d.todo)
  OBVIOUS
<1>4. d.todo = Tail(c.todo) /\ x \notin Reads
  BY <1>1 DEF Wrote
<1>5. /\ left = {x} \cup rest /\ \A y \in rest : ~ Spoils(x, y)
      /\ x = "rpc_active" => d.todo # <<>> /\ d.todo[1] = "rpc_put"
  BY <1>1, <1>2, <1>3, <1>4, CommandFacts, Popped
<1>6. x \notin {"rpc_check", "rpc_listed"}
  BY <1>4 DEF Reads
<1>7. /\ x = "rpc_put" => rest \cap {"rpc_check", "rpc_active", "rpc_put"} = {}
      /\ x = "rpc_use" => "rpc_listed" \notin rest
      /\ x \in {"opt_in", "clear"} => "register" \notin rest
  BY <1>5 DEF Spoils
<1>8. /\ x = "rpc_put" => /\ PutsListed(left) /\ PutsActive(left)
                          /\ ~ PutsListed(rest) /\ ~ PutsActive(rest)
      /\ x = "rpc_use" => UsesListed(left)
      /\ x \in {"opt_in", "clear"} => OptsIn(left)
  BY <1>5, <1>7 DEF PutsListed, PutsActive, UsesListed, OptsIn, UsesBundlers, UsesIndexer, Counts
<1>9. /\ PutsActive(rest) => PutsActive(left) \/ x = "rpc_active"
      /\ PutsListed(rest) => PutsListed(left)
      /\ UsesListed(rest) => UsesListed(left)
      /\ OptsIn(rest) => OptsIn(left) \/ x = "register"
  BY <1>5, <1>6 DEF PutsListed, PutsActive, UsesListed, OptsIn, UsesBundlers, UsesIndexer, Counts
<1>. QED BY <1>1, <1>2, <1>3, <1>5, <1>8, <1>9

(* What a command writes to a list is what it makes of what is there.       *)
LEMMA WroteList ==
    ASSUME NEW c, NEW d, NEW record, NEW v, Command(c), c.todo # <<>>, Wrote(c, d, record, v),
           ListAt(c), record \in {"erc20s", "in", "out"}, c # NoCommand
    PROVE  LET old == Under(c)[record]
               x == c.todo[1]
           IN  /\ x \in {"register", "opt_in", "remember"} => v = old \cup {c.arg}
               /\ x \in {"drop", "clear", "opt_out"} => v = old \ {c.arg}
<1>1. record = RecordOf(c.todo[1]) /\ v # Refused /\ c.key \in Keys
  BY DEF Wrote
<1>2. c.todo[1] \in {"register", "opt_in", "drop", "opt_out", "clear", "remember"}
  BY WroteWhat
<1>3. c.read /\ c.todo[1] \notin Blind
  BY <1>2 DEF Wrote, Blind
<1>4. v = c.seen[record]
  BY <1>3 DEF Wrote
<1>5. v = ListUpdate(c.todo[1], c.place, c.arg, c.seen, Under(c)[record])
  BY <1>1, <1>3, <1>4 DEF ListAt, AtWork
<1>. QED BY <1>1, <1>2, <1>5 DEF ListUpdate, Unless

(* So does a step that writes one, when no other command is there.           *)
LEMMA WroteRecords ==
    ASSUME TypeInv, SessionInv, ActiveInv, RpcInv, ListInv,
           NEW q \in Procs, NEW d, NEW record, NEW v,
           cmd[q].todo # <<>>, cmd' = [cmd EXCEPT ![q] = d], Command(d),
           Wrote(cmd[q], d, record, v),
           data' = [data EXCEPT ![cmd[q].place][cmd[q].key][record] = v],
           UNCHANGED <<alone, crashed>>
    PROVE  ActiveInv' /\ RpcInv' /\ ListInv'
<1>1. PICK c : c = cmd[q]
  OBVIOUS
<1>2. /\ Command(c) /\ c # NoCommand /\ c.todo # <<>> /\ CmdType /\ StoreType
      /\ c.seen.rpcs \in Seq(Words) /\ c.arg \in Words
  BY <1>1, AtStep, CommandFacts DEF TypeInv
<1>3. cmd'[q] = d /\ \A r \in Procs \ {q} : cmd'[r] = cmd[r]
  BY <1>2 DEF CmdType
<1>4. ActiveAt(c) /\ (alone => RpcAt(c) /\ ListAt(c))
  BY <1>1 DEF ActiveInv, RpcInv, ListInv
<1>5. PICK x : x = c.todo[1]
  OBVIOUS
<1>6. /\ c.key \in Keys /\ c.place \in Places /\ record \in Records /\ Wrote(c, d, record, v)
      /\ d.place = c.place /\ d.arg = c.arg /\ d.key = c.key /\ d.seen = c.seen /\ ~ d.read
      /\ x \in Blind \/ c.read
  BY <1>1, <1>5 DEF Wrote
<1>7. PICK old : old = data[c.place][c.key]
  OBVIOUS
<1>8. PICK new : new = data'[c.place][c.key]
  OBVIOUS
<1>9. DOMAIN old = Records /\ old.rpcs \in Seq(Words)
  BY <1>2, <1>6, <1>7 DEF StoreType
<1>10. new[record] = v /\ \A y \in Records \ {record} : new[y] = old[y]
  BY <1>1, <1>2, <1>6, <1>7, <1>8, <1>9 DEF StoreType
<1>11. \A p \in Places, k \in Keys : p # c.place \/ k # c.key => data'[p][k] = data[p][k]
  BY <1>1, <1>2, <1>6 DEF StoreType
<1>12. {"rpcs", "active", "erc20s", "in", "out"} \subseteq Records
  BY DEF Records
<1>13. /\ record = "rpcs" => x = "rpc_put" /\ v = Append(c.seen.rpcs, c.arg)
       /\ record = "active" => x \in {"rpc_active", "rpc_use"} /\ v = c.arg /\ c.arg # None
       /\ record = "erc20s" => x = "register"
       /\ record = "in" => x \in {"opt_in", "drop", "opt_out"}
       /\ record = "out" => x \in {"clear", "remember"}
  BY <1>2, <1>5, <1>6, WroteWhat
<1>14. PICK left : left = Range(c.todo)
  OBVIOUS
<1>15. PICK rest : rest = Range(d.todo)
  OBVIOUS
<1>16. /\ x = "rpc_put" => /\ PutsListed(left) /\ PutsActive(left)
                           /\ ~ PutsListed(rest) /\ ~ PutsActive(rest)
       /\ x = "rpc_use" => UsesListed(left)
       /\ x \in {"opt_in", "clear"} => OptsIn(left)
       /\ x = "rpc_active" => d.todo # <<>> /\ d.todo[1] = "rpc_put"
       /\ PutsActive(rest) => PutsActive(left) \/ x = "rpc_active"
       /\ PutsListed(rest) => PutsListed(left)
       /\ UsesListed(rest) => UsesListed(left)
       /\ OptsIn(rest) => OptsIn(left) \/ x = "register"
  BY <1>2, <1>5, <1>6, <1>14, <1>15, WroteRests
<1>17. /\ x = "rpc_put" => record = "rpcs"
       /\ x \in {"rpc_active", "rpc_use"} => record = "active"
       /\ x = "register" => record = "erc20s"
  BY <1>5, <1>6 DEF Wrote, RecordOf
<1>18. /\ PutsActive(left) => old.active # None
       /\ alone /\ PutsListed(left) => c.seen.rpcs = old.rpcs
       /\ alone /\ UsesListed(left) => Contains(old.rpcs, c.arg)
       /\ alone /\ OptsIn(left) => IsDefault(c.place, c.arg) \/ c.arg \in old.erc20s
       /\ alone /\ x = "rpc_active" => old.active = None
  <2>1. AtWork(c) /\ old = Under(c)
    BY <1>2, <1>6, <1>7 DEF AtWork, Under
  <2>2. x = "rpc_active" => c.read
    BY <1>6 DEF Blind
  <2>. QED BY <1>2, <1>4, <1>5, <1>14, <2>1, <2>2 DEF ActiveAt, RpcAt, ListAt
<1>19. old.active # None => new.active # None
  BY <1>10, <1>12, <1>13
<1>20. alone => \A r \in Procs \ {q} : cmd[r] = NoCommand
  BY <1>1, <1>2 DEF SessionInv
<1>21. ActiveInv'
  <2>1. ASSUME NEW p \in Places, NEW k \in Keys, data'[p][k].rpcs # <<>>
        PROVE  data'[p][k].active # None
    <3>1. CASE p = c.place /\ k = c.key
      <4>1. old.rpcs # <<>> => old.active # None
        BY <1>6, <1>7 DEF ActiveInv
      <4>2. CASE record = "rpcs"
        BY <1>8, <1>13, <1>16, <1>18, <1>19, <3>1, <4>2
      <4>3. CASE record # "rpcs"
        BY <1>8, <1>10, <1>12, <1>19, <2>1, <3>1, <4>1, <4>3
      <4>. QED BY <4>2, <4>3
    <3>2. CASE p # c.place \/ k # c.key
      BY <1>11, <2>1, <3>2 DEF ActiveInv
    <3>. QED BY <3>1, <3>2
  <2>2. ASSUME NEW r \in Procs PROVE ActiveAt(cmd[r])'
    <3>1. CASE r = q
      <4>1. PutsActive(rest) => new.active # None
        BY <1>10, <1>12, <1>13, <1>16, <1>17, <1>18, <1>19
      <4>. QED BY <1>3, <1>6, <1>8, <1>15, <3>1, <4>1 DEF ActiveAt, Under
    <3>2. CASE r # q /\ AtWork(cmd[r]) /\ PutsActive(Range(cmd[r].todo))
      <4>1. Command(cmd[r]) /\ cmd[r].place \in Places /\ cmd[r].key \in Keys
        BY <1>2, <3>2, CommandFacts DEF CmdType, AtWork
      <4>2. data[cmd[r].place][cmd[r].key].active # None
        BY <3>2 DEF ActiveInv, ActiveAt, Under
      <4>3. data'[cmd[r].place][cmd[r].key].active # None
        BY <1>7, <1>8, <1>11, <1>19, <4>1, <4>2
      <4>. QED BY <1>3, <3>2, <4>3 DEF ActiveAt, Under
    <3>3. CASE r # q /\ ~ (AtWork(cmd[r]) /\ PutsActive(Range(cmd[r].todo)))
      BY <1>3, <3>3 DEF ActiveAt, AtWork
    <3>. QED BY <3>1, <3>2, <3>3
  <2>. QED BY <2>1, <2>2 DEF ActiveInv
<1>22. alone' => RpcAt(d)'
  <2>1. ASSUME alone, PutsListed(rest) PROVE d.seen.rpcs = new.rpcs
    <3>1. record # "rpcs"
      BY <1>13, <1>16, <2>1
    <3>. QED BY <1>6, <1>10, <1>12, <1>16, <1>18, <2>1, <3>1
  <2>2. ASSUME alone, UsesListed(rest) PROVE Contains(new.rpcs, d.arg)
    <3>1. CASE record = "rpcs"
      <4>1. new.rpcs = Append(c.seen.rpcs, c.arg)
        BY <1>10, <1>13, <3>1
      <4>2. Contains(Append(c.seen.rpcs, c.arg), c.arg)
        BY <1>2, Appended
      <4>. QED BY <1>6, <4>1, <4>2
    <3>2. CASE record # "rpcs"
      BY <1>6, <1>10, <1>12, <1>16, <1>18, <2>2, <3>2
    <3>. QED BY <3>1, <3>2
  <2>. QED BY <1>6, <1>8, <1>15, <2>1, <2>2 DEF RpcAt, Under
<1>23. ASSUME alone', ~ crashed', NEW p \in Places, NEW k \in Keys PROVE InUse(p, k)'
  <2>1. alone /\ InUse(p, k) /\ \A r \in Procs : Adds(cmd[r], p, k) => r = q
    BY <1>20, <1>23 DEF RpcInv, Adds
  <2>2. CASE p # c.place \/ k # c.key
    <3>1. \A r \in Procs : ~ Adds(cmd[r], p, k)
      BY <1>1, <2>1, <2>2 DEF Adds
    <3>2. data'[p][k] = data[p][k]
      BY <1>11, <2>2
    <3>. QED BY <2>1, <3>1, <3>2 DEF InUse
  <2>3. CASE p = c.place /\ k = c.key
    <3>1. CASE record = "rpcs"
      <4>1. new.rpcs = Append(old.rpcs, c.arg) /\ new.active = old.active /\ old.active # None
        BY <1>10, <1>12, <1>13, <1>16, <1>18, <2>1, <3>1
      <4>2. Contains(old.rpcs, old.active) \/ old.active = c.arg
        <5>1. CASE old.rpcs # <<>>
          BY <1>7, <2>1, <2>3, <5>1 DEF InUse
        <5>2. CASE old.rpcs = <<>>
          <6>1. PICK r \in Procs : Adds(cmd[r], p, k)
            BY <1>7, <2>1, <2>3, <4>1, <5>2 DEF InUse
          <6>. QED BY <1>1, <1>7, <2>1, <2>3, <6>1 DEF Adds
        <5>. QED BY <5>1, <5>2
      <4>3. new.rpcs # <<>> /\ Contains(new.rpcs, new.active)
        BY <1>2, <1>9, <4>1, <4>2, Appended
      <4>. QED BY <1>8, <2>3, <4>3 DEF InUse
    <3>2. CASE record = "active" /\ x = "rpc_active"
      <4>1. old.active = None
        BY <1>18, <2>1, <3>2
      <4>2. new.rpcs = <<>> /\ new.active = c.arg
        BY <1>6, <1>7, <1>10, <1>12, <1>13, <3>2, <4>1 DEF ActiveInv
      <4>3. d # NoCommand
        BY CommandFacts DEF NoCommand, Fields
      <4>4. Adds(cmd[q], p, k)'
        BY <1>3, <1>6, <1>8, <1>16, <2>3, <3>2, <4>2, <4>3 DEF Adds
      <4>. QED BY <1>8, <2>3, <4>2, <4>4 DEF InUse
    <3>3. CASE record = "active" /\ x = "rpc_use"
      <4>1. Contains(old.rpcs, c.arg) /\ new.rpcs = old.rpcs /\ new.active = c.arg
        BY <1>10, <1>12, <1>13, <1>16, <1>18, <2>1, <3>3
      <4>2. old.rpcs # <<>>
        BY <1>2, <1>9, <4>1, Appended
      <4>. QED BY <1>8, <2>3, <4>1, <4>2 DEF InUse
    <3>4. CASE record \notin {"rpcs", "active"}
      <4>1. new.rpcs = old.rpcs /\ new.active = old.active
        BY <1>10, <1>12, <3>4
      <4>2. \A r \in Procs : ~ Adds(cmd[r], p, k)
        BY <1>1, <1>5, <1>17, <2>1, <3>4 DEF Adds
      <4>. QED BY <1>7, <1>8, <2>1, <2>3, <4>1, <4>2 DEF InUse
    <3>. QED BY <1>13, <3>1, <3>2, <3>3, <3>4
  <2>. QED BY <2>2, <2>3
<1>24. RpcInv'
  <2>1. ASSUME alone', NEW r \in Procs PROVE RpcAt(cmd[r])'
    <3>1. CASE r = q
      BY <1>3, <1>22, <2>1, <3>1
    <3>2. CASE r # q
      BY <1>3, <1>20, <2>1, <3>2 DEF RpcAt, AtWork
    <3>. QED BY <3>1, <3>2
  <2>. QED BY <1>23, <2>1 DEF RpcInv
<1>25. ASSUME alone
       PROVE  /\ old.erc20s \subseteq new.erc20s /\ (x = "register" => c.arg \in new.erc20s)
              /\ Unregistered(c.place, new, new.in) = {}
  <2>1. old[record] = Under(c)[record] /\ ListAt(c)
    BY <1>4, <1>7, <1>25 DEF Under
  <2>2. record \in {"erc20s", "in", "out"} =>
          /\ x \in {"register", "opt_in", "remember"} => v = old[record] \cup {c.arg}
          /\ x \in {"drop", "clear", "opt_out"} => v = old[record] \ {c.arg}
    BY <1>2, <1>5, <1>6, <2>1, WroteList
  <2>3. old.erc20s \subseteq new.erc20s /\ (x = "register" => c.arg \in new.erc20s)
    BY <1>10, <1>12, <1>13, <1>17, <2>2
  <2>4. Unregistered(c.place, old, old.in) = {}
    BY <1>6, <1>7, <1>25 DEF ListInv, OptedIsRegistered
  <2>5. \A a \in old.in \ old.out : IsDefault(c.place, a) \/ a \in old.erc20s
    BY <2>4 DEF Unregistered
  <2>6. ASSUME NEW a \in new.in \ new.out PROVE IsDefault(c.place, a) \/ a \in new.erc20s
    <3>1. CASE a \in old.in \ old.out
      BY <2>3, <2>5, <3>1
    <3>2. CASE a \notin old.in \ old.out
      <4>1. a = c.arg /\ x \in {"opt_in", "clear"}
        BY <1>10, <1>12, <1>13, <2>2, <2>6, <3>2
      <4>. QED BY <1>16, <1>18, <1>25, <2>3, <4>1
    <3>. QED BY <3>1, <3>2
  <2>7. Unregistered(c.place, new, new.in) = {}
    BY <2>6 DEF Unregistered
  <2>. QED BY <2>3, <2>7
<1>26. ListInv'
  <2>1. ASSUME alone', NEW r \in Procs PROVE ListAt(cmd[r])'
    <3>1. CASE r = q
      <4>1. OptsIn(rest) => IsDefault(d.place, d.arg) \/ d.arg \in new.erc20s
        BY <1>6, <1>16, <1>18, <1>25, <2>1
      <4>. QED BY <1>3, <1>6, <1>8, <1>15, <3>1, <4>1 DEF ListAt, Under
    <3>2. CASE r # q
      BY <1>3, <1>20, <2>1, <3>2 DEF ListAt, AtWork
    <3>. QED BY <3>1, <3>2
  <2>2. ASSUME alone', NEW p \in Places, NEW k \in Keys
        PROVE  Unregistered(p, data'[p][k], data'[p][k].in) = {}
    <3>1. CASE p = c.place /\ k = c.key
      BY <1>8, <1>25, <2>2, <3>1
    <3>2. CASE p # c.place \/ k # c.key
      <4>1. Unregistered(p, data[p][k], data[p][k].in) = {}
        BY <2>2 DEF ListInv, OptedIsRegistered
      <4>. QED BY <1>11, <3>2, <4>1
    <3>. QED BY <3>1, <3>2
  <2>3. OptedIsRegistered'
    BY <2>2 DEF OptedIsRegistered
  <2>. QED BY <2>1, <2>3 DEF ListInv
<1>. QED BY <1>21, <1>24, <1>26

(* So does every step of a command.                                          *)
LEMMA StepRecords ==
    ASSUME TypeInv, SessionInv, ActiveInv, RpcInv, ListInv, NEW q \in Procs, Step(q)
    PROVE  ActiveInv' /\ RpcInv' /\ ListInv'
<1>1. CmdType
  BY DEF TypeInv
<1>2. ASSUME NEW d, Goes(q, d), cmd[q].todo # <<>>, cmd[q].todo[1] # "rpc_put",
             UNCHANGED <<data, alone, crashed>>
      PROVE  ActiveInv' /\ RpcInv' /\ ListInv'
  <2>1. cmd[q] # NoCommand
    BY <1>2, AtStep
  <2>2. cmd' = [cmd EXCEPT ![q] = d] /\ Aside(cmd[q], d)
    BY <1>2, <2>1 DEF Goes, Aside
  <2>. QED BY <1>1, <1>2, <2>2, RecordsKept
<1>3. CASE End(q)
  <2>1. /\ cmd' = [cmd EXCEPT ![q] = NoCommand] /\ UNCHANGED <<data, alone>>
        /\ cmd[q] # NoCommand /\ crashed' = (crashed \/ cmd[q].todo # <<>>)
    BY <1>3 DEF End, store
  <2>2. crashed' <=> (crashed \/ cmd[q].todo # <<>>)
    BY <2>1, Zenon
  <2>3. Aside(cmd[q], NoCommand)
    BY <2>1, <2>2 DEF Aside
  <2>. QED BY <1>1, <2>1, <2>2, <2>3, RecordsKept
<1>4. CASE Load(q)
  <2>1. cmd[q].todo # <<>> /\ cmd[q].todo[1] # "rpc_put" /\ UNCHANGED <<data, alone, crashed>>
    BY <1>4 DEF Load, At, OnlyCmd, store, history
  <2>2. \E d : Goes(q, d)
    BY <1>4, LoadGoes
  <2>. QED BY <1>2, <2>1, <2>2
<1>5. CASE Asks(q)
  <2>1. \E d : Goes(q, d)
    BY <1>5, AsksMoves DEF Moves
  <2>. QED BY <1>2, <1>5, <2>1, AsksMoves
<1>6. CASE Keeps(q)
  <2>1. \E d : Goes(q, d)
    BY <1>6, KeepsMoves DEF Moves
  <2>. QED BY <1>2, <1>6, <2>1, KeepsMoves
<1>7. CASE Create(q)
  <2>1. cmd[q].todo # <<>> /\ cmd[q].todo[1] # "rpc_put" /\ UNCHANGED <<data, alone, crashed>>
    BY <1>7 DEF Create, At, store
  <2>2. \E d : Goes(q, d)
    BY <1>7, CreateGoes
  <2>. QED BY <1>2, <2>1, <2>2
<1>8. CASE Writes(q)
  <2>1. cmd[q].todo # <<>> /\ cmd[q].todo[1] # "rpc_put" /\ UNCHANGED <<data, alone, crashed>>
    BY <1>8 DEF Writes, PutTemp, PutHeader, At, history
  <2>2. \E d : Goes(q, d)
    BY <1>8, WritesGo
  <2>. QED BY <1>2, <2>1, <2>2
<1>9. CASE Look(q)
  <2>1. cmd[q].todo # <<>> /\ UNCHANGED <<data, alone, crashed>>
    BY <1>9 DEF Look, OnRecord, OnlyCmd, store, history
  <2>2. \E d : cmd' = [cmd EXCEPT ![q] = d] /\ Command(d) /\ Saw(cmd[q], d)
    BY <1>9, LookGoes
  <2>. QED BY <2>1, <2>2, SawRecords
<1>10. CASE Put(q)
  <2>1. cmd[q].todo # <<>> /\ UNCHANGED <<alone, crashed>>
    BY <1>10 DEF Put, OnRecord, history
  <2>2. CASE Moves(q) /\ UNCHANGED data /\ cmd[q].todo[1] # "rpc_put"
    <3>1. \E d : Goes(q, d)
      BY <2>2 DEF Moves
    <3>. QED BY <1>2, <2>1, <2>2, <3>1
  <2>3. ASSUME NEW d, NEW record, NEW v, cmd' = [cmd EXCEPT ![q] = d], Command(d),
               Wrote(cmd[q], d, record, v),
               data' = [data EXCEPT ![cmd[q].place][cmd[q].key][record] = v]
        PROVE  ActiveInv' /\ RpcInv' /\ ListInv'
    BY <2>1, <2>3, WroteRecords
  <2>. QED BY <1>10, <2>2, <2>3, PutGoes
<1>. QED BY <1>3, <1>4, <1>5, <1>6, <1>7, <1>8, <1>9, <1>10, StepIs

(* Every step keeps what commands know of the records, and what the records  *)
(* are.                                                                      *)
LEMMA NextRecords ==
    ASSUME TypeInv, SessionInv, ActiveInv, RpcInv, ListInv, [Next]_vars
    PROVE  ActiveInv' /\ RpcInv' /\ ListInv'
<1>1. CmdType /\ StoreType
  BY DEF TypeInv
<1>2. ASSUME NEW q \in Procs, NEW r \in Commands, Begin(q, r)
      PROVE  ActiveInv' /\ RpcInv' /\ ListInv'
  <2>1. PICK d : /\ cmd' = [cmd EXCEPT ![q] = d] /\ ~ d.read /\ ~ Rests(Range(d.todo))
    BY <1>2, BeginGoes
  <2>2. /\ UNCHANGED <<data, crashed>> /\ cmd[q] = NoCommand
        /\ alone' = (alone /\ \A p \in Procs : cmd[p] = NoCommand)
    BY <1>2 DEF Begin, store
  <2>3. alone' => alone
    BY <2>2
  <2>4. Aside(cmd[q], d)
    BY <2>1, <2>2 DEF Aside, Rested
  <2>. QED BY <1>1, <2>1, <2>2, <2>3, <2>4, RecordsKept
<1>3. ASSUME NEW p \in Places, RemoveInstance(p)
      PROVE  ActiveInv' /\ RpcInv' /\ ListInv'
  <2>1. /\ cmd' = cmd /\ \A q \in Procs : cmd[q] = NoCommand
        /\ data' = [data EXCEPT ![p] = [k \in Keys |-> NoRecords]]
        /\ UNCHANGED <<alone, crashed>>
    BY <1>3 DEF RemoveInstance, history
  <2>2. \A x \in Places, k \in Keys : data'[x][k] = data[x][k] \/ data'[x][k] = NoRecords
    BY <1>1, <2>1 DEF StoreType
  <2>3. /\ NoRecords.rpcs = <<>> /\ NoRecords.active = None /\ NoRecords.in = {}
        /\ \A x : Unregistered(x, NoRecords, NoRecords.in) = {}
    BY DEF NoRecords, Unregistered
  <2>4. \A q \in Procs : ~ AtWork(cmd'[q]) /\ cmd[q] = NoCommand /\ cmd'[q] = NoCommand
    BY <2>1 DEF AtWork
  <2>5. ActiveInv'
    BY <2>2, <2>3, <2>4 DEF ActiveInv, ActiveAt, AtWork
  <2>6. RpcInv'
    <3>1. ASSUME alone', ~ crashed', NEW x \in Places, NEW k \in Keys PROVE InUse(x, k)'
      <4>1. CASE data'[x][k] = data[x][k]
        BY <2>1, <3>1, <4>1 DEF RpcInv, InUse, Adds
      <4>2. CASE data'[x][k] = NoRecords
        BY <2>3, <4>2 DEF InUse
      <4>. QED BY <2>2, <4>1, <4>2
    <3>. QED BY <2>4, <3>1 DEF RpcInv, RpcAt, AtWork
  <2>7. ListInv'
    <3>1. alone' => OptedIsRegistered'
      BY <2>1, <2>2, <2>3 DEF ListInv, OptedIsRegistered
    <3>. QED BY <2>4, <3>1 DEF ListInv, ListAt, AtWork
  <2>. QED BY <2>5, <2>6, <2>7
<1>4. CASE Tick \/ UNCHANGED vars
  <2>1. UNCHANGED <<cmd, data, alone, crashed>>
    BY <1>4 DEF Tick, vars, store, history
  <2>2. ActiveInv'
    BY <2>1 DEF ActiveInv, ActiveAt, Under, AtWork
  <2>3. RpcInv'
    BY <2>1 DEF RpcInv, RpcAt, InUse, Adds, Under, AtWork
  <2>4. ListInv'
    BY <2>1 DEF ListInv, ListAt, OptedIsRegistered, Under, AtWork
  <2>. QED BY <2>2, <2>3, <2>4
<1>. QED BY <1>2, <1>3, <1>4, StepRecords DEF Next
-----------------------------------------------------------------------------
(* The services.                                                            *)

(* The least of some numbers.                                               *)
LEMMA LeastElement ==
    ASSUME NEW S \in SUBSET Nat, S # {}
    PROVE  \E m \in S : \A n \in S : m <= n
<1>1. \A x, y \in Nat : <<x, y>> \in OpToRel(<, Nat) <=> x < y
  BY Zenon DEF OpToRel
<1>2. IsWellFoundedOn(OpToRel(<, Nat), Nat)
  BY NatLessThanWellFounded
<1>3. PICK m \in S : \A n \in S : <<n, m>> \notin OpToRel(<, Nat)
  BY <1>2, WFMin
<1>4. \A n \in S : ~ (n < m)
  BY <1>1, <1>3
<1>. QED BY <1>4

(* A list without one of its elements, its order kept.                      *)
LEMMA RemoveAtIs ==
    ASSUME NEW T, NEW s \in Seq(T), NEW i \in 1 .. Len(s), IsInjective(s)
    PROVE  /\ RemoveAt(s, i) \in Seq(T) /\ Len(RemoveAt(s, i)) = Len(s) - 1
           /\ IsInjective(RemoveAt(s, i))
<1> DEFINE n == Len(s)
           a == SubSeq(s, 1, i - 1)
           b == SubSeq(s, i + 1, n)
           r == a \o b
<1>1. n \in Nat /\ i \in Nat /\ 1 <= i /\ i <= n /\ DOMAIN s = 1 .. n
  OBVIOUS
<1>2. a \in Seq(T) /\ Len(a) = i - 1 /\ \A j \in 1 .. i - 1 : a[j] = s[j]
  BY <1>1
<1>3. b \in Seq(T) /\ Len(b) = n - i /\ \A j \in 1 .. n - i : b[j] = s[i + j]
  <2>1. i + 1 \in 1 .. n + 1 /\ i + 1 <= n + 1
    BY <1>1
  <2>2. b \in Seq(T)
    BY <1>1, SubSeqProperties
  <2>3. Len(b) = n - i
    <3>1. Len(b) = IF i + 1 <= n THEN n - (i + 1) + 1 ELSE 0
      <4>1. \A j \in i + 1 .. n : s[j] \in T
        BY <1>1
      <4>. QED BY <1>1, <4>1, SubSeqProperties
    <3>2. n \in Int /\ i \in Int /\ i <= n
      BY <1>1
    <3> HIDE DEF b, n
    <3>. QED BY <3>1, <3>2
  <2>4. \A j \in 1 .. n - i : b[j] = s[i + j]
    BY <1>1, <2>1
  <2>. QED BY <2>2, <2>3, <2>4
<1> HIDE DEF a, b, n
<1>4. r \in Seq(T) /\ Len(r) = n - 1
  <2>1. r \in Seq(T) /\ Len(r) = Len(a) + Len(b)
    BY <1>2, <1>3, ConcatProperties
  <2>. QED BY <1>1, <1>2, <1>3, <2>1
<1>5. \A j \in 1 .. i - 1 : r[j] = s[j]
  BY <1>1, <1>2, <1>3
<1>6. \A j \in i .. n - 1 : r[j] = s[j + 1]
  <2>1. SUFFICES ASSUME NEW j \in i .. n - 1 PROVE r[j] = s[j + 1]
    OBVIOUS
  <2>2. j - (i - 1) \in 1 .. n - i /\ i + (j - (i - 1)) = j + 1
    BY <1>1
  <2>3. r[j] = b[j - (i - 1)]
    BY <1>1, <1>2, <1>3, <2>2
  <2>. QED BY <1>3, <2>2, <2>3
<1> HIDE DEF r
<1> DEFINE at(j) == IF j < i THEN j ELSE j + 1
<1>7. \A j \in 1 .. n - 1 : at(j) \in 1 .. n /\ r[j] = s[at(j)]
  BY <1>1, <1>5, <1>6
<1>8. \A j, k \in 1 .. n - 1 : at(j) = at(k) => j = k
  BY <1>1
<1>9. \A j, k \in 1 .. n : s[j] = s[k] => j = k
  BY <1>1 DEF IsInjective
<1>10. DOMAIN r = 1 .. n - 1
  BY <1>1, <1>4
<1> HIDE DEF at
<1>11. IsInjective(r)
  BY <1>7, <1>8, <1>9, <1>10 DEF IsInjective
<1>12. RemoveAt(s, i) = r
  BY Zenon DEF RemoveAt, r, a, b, n
<1>. QED BY <1>4, <1>11, <1>12 DEF n

(* A list without the first of an element it has.                           *)
LEMMA RemoveFirstIs ==
    ASSUME NEW T, NEW s \in Seq(T), NEW e, IsInjective(s), Contains(s, e)
    PROVE  /\ RemoveFirst(s, e) \in Seq(T) /\ Len(RemoveFirst(s, e)) = Len(s) - 1
           /\ IsInjective(RemoveFirst(s, e))
<1> DEFINE I == {i \in 1 .. Len(s) : s[i] = e}
<1>1. I \in SUBSET Nat /\ I # {} /\ I \subseteq 1 .. Len(s)
  BY DEF Contains
<1>2. \E m \in I : \A n \in I : m <= n
  <2> HIDE DEF I
  <2>. QED BY <1>1, LeastElement
<1>3. Min(I) \in I
  BY <1>2 DEF Min
<1>4. SelectInSeq(s, LAMBDA v : v = e) = Min(I)
  BY <1>1 DEF SelectInSeq
<1>5. RemoveFirst(s, e) = RemoveAt(s, Min(I))
  BY <1>4 DEF RemoveFirst, Contains
<1>6. Min(I) \in 1 .. Len(s)
  BY <1>1, <1>3
<1> HIDE DEF I
<1>. QED BY <1>5, <1>6, RemoveAtIs
(* What a step makes of a good record that it reads is good.                *)
LEMMA ReadGood ==
    ASSUME NEW place, NEW arg \in Words, NEW seen, NEW x, x \notin Blind, NEW v,
           RecordOf(x) \in Records, Good(place, RecordOf(x), v),
           Update(x, place, arg, seen, v) # Refused
    PROVE  LET made == Update(x, place, arg, seen, v)
           IN  /\ Good(place, RecordOf(x), made)
               /\ x \in {"bundlers", "indexer"} => made # None
<1>1. PICK record : record = RecordOf(x)
  OBVIOUS
<1>2. PICK made : made = Update(x, place, arg, seen, v)
  OBVIOUS
<1>3. None \notin {"bundlers", "indexer", "in"}
  BY StepFacts DEF Records
<1>4. CASE record = "bundlers"
  <2>1. x = "bundlers" /\ made = Seeded(v, DefaultBundlers(place))
    BY <1>1, <1>2, <1>3, <1>4 DEF RecordOf, Blind, Update, BundlersUpdate
  <2>2. /\ DefaultBundlers(place) \in Seq(Urls) /\ IsInjective(DefaultBundlers(place))
        /\ place \in Presets => DefaultBundlers(place) # <<>>
    <3>1. /\ <<"pimlico">> \in Seq(Urls) /\ IsInjective(<<"pimlico">>) /\ <<"pimlico">> # <<>>
          /\ <<>> \in Seq(Urls) /\ IsInjective(<<>>)
      BY DEF Urls, IsInjective
    <3>. QED BY <3>1, Zenon DEF DefaultBundlers, HasDefaults
  <2>3. made # None
    BY <2>1, <2>2, HomeAssumption DEF Seeded
  <2>4. Good(place, "bundlers", made)
    BY <1>1, <1>4, <2>1, <2>2 DEF Seeded, Good
  <2>. QED BY <1>1, <1>2, <1>4, <2>3, <2>4
<1>5. CASE record = "indexer"
  <2>1. x = "indexer" /\ made = Seeded(v, DefaultIndexer(place))
    BY <1>1, <1>2, <1>3, <1>5 DEF RecordOf, Blind, Update, IndexerUpdate
  <2>2. /\ DefaultIndexer(place) \in Indexers
        /\ DefaultIndexer(place).enabled => DefaultIndexer(place).url # None
    BY HomeAssumption DEF DefaultIndexer, Indexers, Words
  <2>3. made # None
    BY <2>1, <2>2, HomeAssumption DEF Seeded
  <2>4. Good(place, "indexer", made)
    BY <1>1, <1>5, <2>1, <2>2 DEF Seeded, Good
  <2>. QED BY <1>1, <1>2, <1>5, <2>3, <2>4
<1>6. CASE record = "in"
  <2>1. x \in {"tracked", "opt_in", "drop", "opt_out"}
    BY <1>1, <1>3, <1>6 DEF RecordOf
  <2>2. made \in {v, v \cup {arg}, v \ {arg}}
    BY <1>1, <1>2, <1>6, <2>1 DEF Update, ListUpdate, Unless
  <2>3. v \subseteq Words
    BY <1>1, <1>6 DEF Good
  <2>4. Good(place, "in", made)
    BY <2>2, <2>3 DEF Good
  <2>5. x \notin {"bundlers", "indexer"}
    BY <2>1
  <2>. QED BY <1>1, <1>2, <1>6, <2>4, <2>5
<1>7. CASE record \notin {"bundlers", "indexer", "in"}
  <2>1. x \notin {"bundlers", "indexer"}
    BY <1>1, <1>7 DEF RecordOf
  <2>. QED BY <1>1, <1>7, <2>1 DEF Good
<1>. QED BY <1>4, <1>5, <1>6, <1>7

(* What a step that reads nothing writes rests on what was read before.     *)
LEMMA BlindRests ==
    ASSUME NEW c, Command(c), c.todo # <<>>
    PROVE  LET x == c.todo[1]
               left == Range(c.todo)
           IN  /\ x \in {"bundler_add", "bundler_remove"} => UsesBundlers(left)
               /\ x \in {"indexer_url", "indexer_on", "indexer_off"} => UsesIndexer(left)
               /\ x = "balance" => Counts(left)
               /\ x \in NamedSteps => c.arg # None
<1>1. PICK x : x = c.todo[1]
  OBVIOUS
<1>2. PICK left : left = Range(c.todo)
  OBVIOUS
<1>3. PICK rest : rest = Range(Tail(c.todo))
  OBVIOUS
<1>4. left = {x} \cup rest /\ \A y \in rest : ~ Spoils(x, y)
  BY <1>1, <1>2, <1>3, CommandFacts, Popped
<1>5. x \in {"bundler_add", "bundler_remove"} => UsesBundlers(left)
  BY <1>4 DEF Spoils, UsesBundlers
<1>6. x \in {"indexer_url", "indexer_on", "indexer_off"} => UsesIndexer(left)
  BY <1>4 DEF Spoils, UsesIndexer
<1>7. x = "balance" => Counts(left)
  BY <1>4 DEF Spoils, Counts
<1>8. x \in NamedSteps => c.arg # None
  BY <1>2, <1>4, CommandFacts DEF Formed
<1>. QED BY <1>1, <1>2, <1>5, <1>6, <1>7, <1>8

(* An URL that is appended to a list that has it not.                       *)
LEMMA AppendGood ==
    ASSUME NEW s \in Seq(Urls), NEW u \in Urls, IsInjective(s), ~ Contains(s, u)
    PROVE  Append(s, u) \in Seq(Urls) /\ IsInjective(Append(s, u)) /\ Append(s, u) # <<>>
<1> DEFINE t == Append(s, u)
<1>1. /\ t \in Seq(Urls) /\ Len(t) = Len(s) + 1 /\ t[Len(s) + 1] = u /\ Len(s) \in Nat
      /\ DOMAIN t = 1 .. Len(s) + 1 /\ DOMAIN s = 1 .. Len(s)
      /\ \A i \in 1 .. Len(s) : t[i] = s[i]
  OBVIOUS
<1>2. \A i \in 1 .. Len(s) : s[i] # u
  BY DEF Contains
<1> HIDE DEF t
<1>3. \A i \in 1 .. Len(s) + 1 : i \in 1 .. Len(s) \/ i = Len(s) + 1
  BY <1>1
<1>4. IsInjective(t)
  BY <1>1, <1>2, <1>3 DEF IsInjective
<1>5. t # <<>>
  BY <1>1
<1>. QED BY <1>1, <1>4, <1>5 DEF t

(* What such a step writes is good.                                         *)
LEMMA BlindGood ==
    ASSUME NEW c, Command(c), c # NoCommand, c.todo # <<>>, c.key \in Keys, ServiceAt(c),
           c.todo[1] \in Blind, Made(c, None) # Refused
    PROVE  Good(c.place, RecordOf(c.todo[1]), Made(c, None))
<1>1. PICK x : x = c.todo[1]
  OBVIOUS
<1>2. PICK made : made = Made(c, None)
  OBVIOUS
<1>3. made = Update(x, c.place, c.arg, c.seen, None)
  BY <1>1, <1>2 DEF Made
<1>4. AtWork(c) /\ c.arg \in Words /\ Words \subseteq Urls
  BY CommandFacts DEF AtWork, Urls
<1>5. CASE x \in {"rpc_put", "rpc_use"}
  BY <1>1, <1>5 DEF RecordOf, Good
<1>6. CASE x \in {"bundler_add", "bundler_remove"}
  <2>1. PICK s : s = c.seen.bundlers
    OBVIOUS
  <2>2. s # None /\ Good(c.place, "bundlers", s)
    BY <1>1, <1>4, <1>6, <2>1, BlindRests DEF ServiceAt
  <2>3. s \in Seq(Urls) /\ IsInjective(s) /\ (c.place \in Presets => s # <<>>)
    BY <2>2 DEF Good
  <2>4. CASE x = "bundler_add"
    <3>1. made = Unless(Contains(s, c.arg), Append(s, c.arg))
      BY <1>3, <2>1, <2>4 DEF Update, RecordOf, BundlersUpdate
    <3>2. ~ Contains(s, c.arg) /\ made = Append(s, c.arg)
      BY <1>2, <3>1 DEF Unless
    <3>3. made \in Seq(Urls) /\ IsInjective(made) /\ made # <<>>
      BY <1>4, <2>3, <3>2, AppendGood
    <3>. QED BY <1>1, <1>2, <2>4, <3>3 DEF RecordOf, Good
  <2>5. CASE x = "bundler_remove"
    <3>1. made = Unless(~ Contains(s, c.arg) \/ Len(s) = 1, RemoveFirst(s, c.arg))
      BY <1>3, <2>1, <2>5 DEF Update, RecordOf, BundlersUpdate, RemoveBundler
    <3>2. Contains(s, c.arg) /\ Len(s) # 1 /\ made = RemoveFirst(s, c.arg)
      BY <1>2, <3>1 DEF Unless
    <3>3. made \in Seq(Urls) /\ Len(made) = Len(s) - 1 /\ IsInjective(made)
      BY <2>3, <3>2, RemoveFirstIs
    <3>4. Len(s) \in Nat /\ Len(s) # 0
      BY <2>3, <3>2 DEF Contains
    <3>5. made # <<>>
      BY <3>2, <3>3, <3>4
    <3>. QED BY <1>1, <1>2, <2>5, <3>3, <3>5 DEF RecordOf, Good
  <2>. QED BY <1>6, <2>4, <2>5
<1>7. CASE x \in {"indexer_url", "indexer_on", "indexer_off"}
  <2>1. PICK i : i = c.seen.indexer
    OBVIOUS
  <2>2. i # None /\ Good(c.place, "indexer", i)
    BY <1>1, <1>4, <1>7, <2>1, BlindRests DEF ServiceAt
  <2>3. i \in Indexers /\ (i.enabled => i.url # None)
    BY <2>2 DEF Good
  <2>4. /\ x = "indexer_url" => made = [i EXCEPT !.url = c.arg] /\ c.arg # None
        /\ x = "indexer_on" => made = [i EXCEPT !.enabled = TRUE] /\ i.url # None
        /\ x = "indexer_off" => made = [i EXCEPT !.enabled = FALSE]
    BY <1>1, <1>2, <1>3, <1>7, <2>1, BlindRests
       DEF Update, RecordOf, IndexerUpdate, Unless, NamedSteps
  <2>5. made \in Indexers /\ (made.enabled => made.url # None)
    BY <1>4, <1>7, <2>3, <2>4 DEF Indexers
  <2>. QED BY <1>1, <1>2, <1>7, <2>5 DEF RecordOf, Good
<1>. QED BY <1>1, <1>5, <1>6, <1>7 DEF Blind

(* A step that leaves the records alone keeps what its command rests on.    *)
LEMMA ServicesKept ==
    ASSUME CmdType, ServiceInv, NEW q \in Procs, NEW d,
           cmd' = [cmd EXCEPT ![q] = d],
           d = NoCommand \/ Rested(cmd[q], d),
           cmd[q] # NoCommand \/ d = NoCommand \/ ~ Rests(Range(d.todo)),
           data' = data
    PROVE  ServiceInv'
<1>1. PICK c : c = cmd[q]
  OBVIOUS
<1>2. cmd'[q] = d /\ \A r \in Procs \ {q} : cmd'[r] = cmd[r]
  BY DEF CmdType
<1>3. ServiceAt(c)
  BY <1>1 DEF ServiceInv
<1>4. ServiceAt(d)
  <2>1. CASE AtWork(d) /\ Rests(Range(d.todo))
    <3>1. /\ d.place = c.place /\ d.key = c.key /\ d.seen = c.seen /\ c # NoCommand
          /\ UsesBundlers(Range(d.todo)) => UsesBundlers(Range(c.todo))
          /\ UsesIndexer(Range(d.todo)) => UsesIndexer(Range(c.todo))
          /\ Counts(Range(d.todo)) => Counts(Range(c.todo))
          /\ ~ (d.read /\ d.todo # <<>>)
      BY <1>1, <2>1 DEF Rested, AtWork
    <3>2. AtWork(c)
      BY <2>1, <3>1 DEF AtWork
    <3>. QED BY <1>3, <3>1, <3>2 DEF ServiceAt
  <2>2. CASE AtWork(d) /\ ~ Rests(Range(d.todo))
    <3>1. ~ (d.read /\ d.todo # <<>>)
      BY <1>1, <2>2 DEF Rested, AtWork
    <3>. QED BY <2>2, <3>1 DEF ServiceAt, Rests
  <2>. QED BY <2>1, <2>2 DEF ServiceAt
<1>. QED BY <1>2, <1>4 DEF ServiceInv, ServiceAt, AtWork

(* What a command that read its record knows of it is good.                 *)
LEMMA SawServices ==
    ASSUME TypeInv, ServiceInv, NEW q \in Procs, NEW d,
           cmd[q].todo # <<>>, cmd' = [cmd EXCEPT ![q] = d], Saw(cmd[q], d), UNCHANGED data
    PROVE  ServiceInv'
<1>1. PICK c : c = cmd[q]
  OBVIOUS
<1>2. /\ Command(c) /\ c # NoCommand /\ CmdType /\ DOMAIN c.seen = Records
      /\ c.place \in Places /\ c.arg \in Words
  BY <1>1, AtStep, CommandFacts DEF TypeInv
<1>3. cmd'[q] = d /\ \A r \in Procs \ {q} : cmd'[r] = cmd[r]
  BY <1>2 DEF CmdType
<1>4. ServiceAt(c)
  BY <1>1 DEF ServiceInv
<1>5. PICK x : x = c.todo[1]
  OBVIOUS
<1>6. PICK record : record = RecordOf(x)
  OBVIOUS
<1>7. PICK v : v = data[c.place][c.key][record]
  OBVIOUS
<1>8. PICK made : made = Made(c, v)
  OBVIOUS
<1>9. /\ record \in Records /\ x \notin Blind /\ ~ c.read
      /\ d.place = c.place /\ d.arg = c.arg /\ d.key = c.key
      /\ \/ d.todo = <<>> /\ ~ d.read
         \/ /\ made = v /\ made # Refused /\ d.todo = Tail(c.todo) /\ ~ d.read
            /\ d.seen = [c.seen EXCEPT ![record] = v]
         \/ /\ made # v /\ made # Refused /\ d.todo = c.todo /\ d.read
            /\ d.seen = [c.seen EXCEPT ![record] = made] /\ x \notin Reads
  BY <1>1, <1>5, <1>6, <1>7, <1>8 DEF Saw
<1>10. CASE ~ AtWork(d)
  BY <1>3, <1>10 DEF ServiceInv, ServiceAt, AtWork
<1>11. CASE AtWork(d) /\ d.todo = <<>>
  <2>1. Range(d.todo) = {}
    BY <1>11 DEF Range
  <2>2. ServiceAt(d)
    BY <1>11, <2>1 DEF ServiceAt, UsesBundlers, UsesIndexer, Counts
  <2>. QED BY <1>3, <2>2 DEF ServiceInv, ServiceAt, AtWork
<1>12. CASE AtWork(d) /\ d.todo # <<>>
  <2>1. AtWork(c) /\ c.key \in Keys
    BY <1>2, <1>9, <1>12 DEF AtWork
  <2>2. Good(c.place, record, v)
    BY <1>2, <1>7, <1>9, <2>1 DEF ServiceInv
  <2>3. made # Refused /\ made = Update(x, c.place, c.arg, c.seen, v)
    BY <1>5, <1>8, <1>9, <1>12 DEF Made
  <2>4. Good(c.place, record, made) /\ (x \in {"bundlers", "indexer"} => made # None)
    BY <1>2, <1>6, <1>9, <2>2, <2>3, ReadGood
  <2>5. d.seen = [c.seen EXCEPT ![record] = made] /\ d.todo \in {c.todo, Tail(c.todo)}
    BY <1>9, <1>12
  <2>6. d.seen[record] = made /\ \A y \in Records \ {record} : d.seen[y] = c.seen[y]
    BY <1>2, <1>9, <2>5
  <2>7. Range(c.todo) = {x} \cup Range(Tail(c.todo))
    BY <1>2, <1>1, <1>5, CommandFacts, Popped
  <2>8. {"bundlers", "indexer", "in"} \subseteq Records
    BY DEF Records
  <2>9. /\ x = "bundlers" => record = "bundlers"
        /\ x = "indexer" => record = "indexer"
        /\ x = "tracked" => record = "in"
    BY <1>6 DEF RecordOf
  <2>10. record = "bundlers" => x = "bundlers"
    BY <1>6, <1>9, StepFacts DEF RecordOf, Blind, Records
  <2>11. record = "indexer" => x = "indexer"
    BY <1>6, <1>9, StepFacts DEF RecordOf, Blind, Records
  <2>12. UsesBundlers(Range(d.todo)) =>
           d.seen.bundlers # None /\ Good(d.place, "bundlers", d.seen.bundlers)
    <3>1. CASE record = "bundlers"
      BY <1>9, <2>4, <2>6, <2>10, <3>1
    <3>2. CASE record # "bundlers" /\ UsesBundlers(Range(d.todo))
      <4>1. UsesBundlers(Range(c.todo))
        BY <2>5, <2>7, <2>9, <3>2 DEF UsesBundlers
      <4>. QED BY <1>4, <1>9, <2>1, <2>6, <2>8, <3>2, <4>1 DEF ServiceAt
    <3>. QED BY <3>1, <3>2
  <2>13. UsesIndexer(Range(d.todo)) =>
           d.seen.indexer # None /\ Good(d.place, "indexer", d.seen.indexer)
    <3>1. CASE record = "indexer"
      BY <1>9, <2>4, <2>6, <2>11, <3>1
    <3>2. CASE record # "indexer" /\ UsesIndexer(Range(d.todo))
      <4>1. UsesIndexer(Range(c.todo))
        BY <2>5, <2>7, <2>9, <3>2 DEF UsesIndexer
      <4>. QED BY <1>4, <1>9, <2>1, <2>6, <2>8, <3>2, <4>1 DEF ServiceAt
    <3>. QED BY <3>1, <3>2
  <2>14. Counts(Range(d.todo)) => Good(d.place, "in", d.seen.in)
    <3>1. CASE record = "in"
      BY <1>9, <2>4, <2>6, <3>1
    <3>2. CASE record # "in" /\ Counts(Range(d.todo))
      <4>1. Counts(Range(c.todo))
        BY <2>5, <2>7, <2>9, <3>2 DEF Counts
      <4>. QED BY <1>4, <1>9, <2>1, <2>6, <2>8, <3>2, <4>1 DEF ServiceAt
    <3>. QED BY <3>1, <3>2
  <2>15. d.read => /\ Good(d.place, RecordOf(d.todo[1]), d.seen[RecordOf(d.todo[1])])
                   /\ d.todo[1] \in {"bundlers", "indexer"} =>
                        d.seen[RecordOf(d.todo[1])] # None
    <3>1. d.read => d.todo = c.todo
      BY <1>9, <1>12
    <3>. QED BY <1>5, <1>6, <1>9, <2>4, <2>6, <3>1
  <2>16. ServiceAt(d)
    BY <2>12, <2>13, <2>14, <2>15 DEF ServiceAt
  <2>. QED BY <1>3, <2>16 DEF ServiceInv, ServiceAt, AtWork
<1>. QED BY <1>10, <1>11, <1>12

(* A step that writes its record leaves it good.                            *)
LEMMA WroteServices ==
    ASSUME TypeInv, ServiceInv, NEW q \in Procs, NEW d, NEW record, NEW v,
           cmd[q].todo # <<>>, cmd' = [cmd EXCEPT ![q] = d], Wrote(cmd[q], d, record, v),
           data' = [data EXCEPT ![cmd[q].place][cmd[q].key][record] = v]
    PROVE  ServiceInv'
<1>1. PICK c : c = cmd[q]
  OBVIOUS
<1>2. Command(c) /\ c # NoCommand /\ CmdType /\ StoreType
  BY <1>1, AtStep DEF TypeInv
<1>3. cmd'[q] = d /\ \A r \in Procs \ {q} : cmd'[r] = cmd[r]
  BY <1>2 DEF CmdType
<1>4. ServiceAt(c)
  BY <1>1 DEF ServiceInv
<1>5. PICK x : x = c.todo[1]
  OBVIOUS
<1>6. /\ record = RecordOf(x) /\ record \in Records /\ x \notin Reads /\ v # Refused
      /\ v = IF x \in Blind THEN Made(c, None) ELSE c.seen[record]
      /\ x \in Blind \/ c.read
      /\ c.key \in Keys /\ c.place \in Places
      /\ d.place = c.place /\ d.key = c.key /\ d.seen = c.seen
      /\ d.todo = Tail(c.todo) /\ ~ d.read
  BY <1>1, <1>5 DEF Wrote
<1>7. AtWork(c)
  BY <1>2, <1>6 DEF AtWork
<1>8. Good(c.place, record, v)
  <2>1. CASE x \in Blind
    BY <1>1, <1>2, <1>4, <1>5, <1>6, <2>1, BlindGood
  <2>2. CASE x \notin Blind
    BY <1>1, <1>4, <1>5, <1>6, <1>7, <2>2 DEF ServiceAt
  <2>. QED BY <2>1, <2>2
<1>9. \A p \in Places, k \in Keys, y \in Records :
        data'[p][k][y] = IF p = c.place /\ k = c.key /\ y = record THEN v ELSE data[p][k][y]
  BY <1>1, <1>2, <1>6 DEF StoreType
<1>10. \A p \in Places, k \in Keys, y \in Records : Good(p, y, data'[p][k][y])
  BY <1>8, <1>9 DEF ServiceInv
<1>11. Range(c.todo) = {x} \cup Range(d.todo)
  BY <1>1, <1>2, <1>5, <1>6, CommandFacts, Popped
<1>12. x # "tracked"
  BY <1>6 DEF Reads
<1>13. x \in {"bundlers", "indexer"} =>
         c.seen[record] # None /\ Good(c.place, record, c.seen[record]) /\ record = x
  <2>1. x \in {"bundlers", "indexer"} => x \notin Blind /\ RecordOf(x) = x
    BY DEF Blind, RecordOf
  <2>. QED BY <1>1, <1>4, <1>5, <1>6, <1>7, <2>1 DEF ServiceAt
<1>14. UsesBundlers(Range(d.todo)) =>
         d.seen.bundlers # None /\ Good(d.place, "bundlers", d.seen.bundlers)
  <2>1. CASE x = "bundlers"
    BY <1>6, <1>13, <2>1
  <2>2. CASE x # "bundlers" /\ UsesBundlers(Range(d.todo))
    <3>1. UsesBundlers(Range(c.todo))
      BY <1>11, <2>2 DEF UsesBundlers
    <3>. QED BY <1>4, <1>6, <1>7, <3>1 DEF ServiceAt
  <2>. QED BY <2>1, <2>2
<1>15. UsesIndexer(Range(d.todo)) =>
         d.seen.indexer # None /\ Good(d.place, "indexer", d.seen.indexer)
  <2>1. CASE x = "indexer"
    BY <1>6, <1>13, <2>1
  <2>2. CASE x # "indexer" /\ UsesIndexer(Range(d.todo))
    <3>1. UsesIndexer(Range(c.todo))
      BY <1>11, <2>2 DEF UsesIndexer
    <3>. QED BY <1>4, <1>6, <1>7, <3>1 DEF ServiceAt
  <2>. QED BY <2>1, <2>2
<1>16. Counts(Range(d.todo)) => Good(d.place, "in", d.seen.in)
  <2>1. Counts(Range(d.todo)) => Counts(Range(c.todo))
    BY <1>11, <1>12 DEF Counts
  <2>. QED BY <1>4, <1>6, <1>7, <2>1 DEF ServiceAt
<1>17. ServiceAt(d)
  BY <1>6, <1>14, <1>15, <1>16 DEF ServiceAt
<1>. QED BY <1>3, <1>10, <1>17 DEF ServiceInv, ServiceAt, AtWork

(* So does every step of a command.                                         *)
LEMMA StepServices ==
    ASSUME TypeInv, ServiceInv, NEW q \in Procs, Step(q)
    PROVE  ServiceInv'
<1>1. CmdType
  BY DEF TypeInv
<1>2. ASSUME NEW d, Goes(q, d), cmd[q].todo # <<>>, UNCHANGED data
      PROVE  ServiceInv'
  <2>1. cmd[q] # NoCommand
    BY <1>2, AtStep
  <2>2. cmd' = [cmd EXCEPT ![q] = d] /\ Rested(cmd[q], d)
    BY <1>2 DEF Goes
  <2>. QED BY <1>1, <1>2, <2>1, <2>2, ServicesKept
<1>3. CASE End(q)
  <2>1. cmd' = [cmd EXCEPT ![q] = NoCommand] /\ UNCHANGED data
    BY <1>3 DEF End, store
  <2>. QED BY <1>1, <2>1, ServicesKept
<1>4. CASE Load(q) \/ Create(q) \/ Writes(q)
  <2>1. cmd[q].todo # <<>> /\ UNCHANGED data
    BY <1>4 DEF Load, Create, Writes, PutTemp, PutHeader, At, OnlyCmd, store
  <2>2. \E d : Goes(q, d)
    BY <1>4, LoadGoes, CreateGoes, WritesGo
  <2>. QED BY <1>2, <2>1, <2>2
<1>5. CASE Asks(q) \/ Keeps(q)
  <2>1. \E d : Goes(q, d)
    BY <1>5, AsksMoves, KeepsMoves DEF Moves
  <2>. QED BY <1>2, <1>5, <2>1, AsksMoves, KeepsMoves
<1>6. CASE Look(q)
  <2>1. cmd[q].todo # <<>> /\ UNCHANGED data
    BY <1>6 DEF Look, OnRecord, OnlyCmd, store
  <2>2. \E d : cmd' = [cmd EXCEPT ![q] = d] /\ Saw(cmd[q], d)
    BY <1>6, LookGoes
  <2>. QED BY <2>1, <2>2, SawServices
<1>7. CASE Put(q)
  <2>1. cmd[q].todo # <<>>
    BY <1>7 DEF Put, OnRecord
  <2>2. CASE Moves(q) /\ UNCHANGED data
    <3>1. \E d : Goes(q, d)
      BY <2>2 DEF Moves
    <3>. QED BY <1>2, <2>1, <2>2, <3>1
  <2>3. ASSUME NEW d, NEW record, NEW v, cmd' = [cmd EXCEPT ![q] = d],
               Wrote(cmd[q], d, record, v),
               data' = [data EXCEPT ![cmd[q].place][cmd[q].key][record] = v]
        PROVE  ServiceInv'
    BY <2>1, <2>3, WroteServices
  <2>. QED BY <1>7, <2>2, <2>3, PutGoes
<1>. QED BY <1>3, <1>4, <1>5, <1>6, <1>7, StepIs

LEMMA NextServices ==
    ASSUME TypeInv, ServiceInv, [Next]_vars
    PROVE  ServiceInv'
<1>1. CmdType /\ StoreType
  BY DEF TypeInv
<1>2. ASSUME NEW q \in Procs, NEW r \in Commands, Begin(q, r) PROVE ServiceInv'
  <2>1. PICK d : cmd' = [cmd EXCEPT ![q] = d] /\ ~ d.read /\ ~ Rests(Range(d.todo))
    BY <1>2, BeginGoes
  <2>2. UNCHANGED data
    BY <1>2 DEF Begin, store
  <2>3. Rested(cmd[q], d)
    BY <2>1 DEF Rested
  <2>. QED BY <1>1, <2>1, <2>2, <2>3, ServicesKept
<1>3. ASSUME NEW p \in Places, RemoveInstance(p) PROVE ServiceInv'
  <2>1. cmd' = cmd /\ data' = [data EXCEPT ![p] = [k \in Keys |-> NoRecords]]
    BY <1>3 DEF RemoveInstance
  <2>2. \A x \in Places, k \in Keys : data'[x][k] = data[x][k] \/ data'[x][k] = NoRecords
    BY <1>1, <2>1 DEF StoreType
  <2>3. \A x \in Places, y \in Records : Good(x, y, NoRecords[y])
    BY DEF Good, NoRecords
  <2>4. \A x \in Places, k \in Keys, y \in Records : Good(x, y, data'[x][k][y])
    BY <2>2, <2>3 DEF ServiceInv
  <2>. QED BY <2>1, <2>4 DEF ServiceInv, ServiceAt, AtWork
<1>4. CASE Tick \/ UNCHANGED vars
  <2>1. UNCHANGED <<cmd, data>>
    BY <1>4 DEF Tick, vars, store
  <2>. QED BY <2>1 DEF ServiceInv, ServiceAt, AtWork
<1>. QED BY <1>2, <1>3, <1>4, StepServices DEF Next

(* A home as it is found has good records.                                  *)
LEMMA InitServices ==
    ASSUME Init
    PROVE  ServiceInv
<1>1. PICK s \in Starts : data = s.data
  BY DEF Init
<1>2. Found(s)
  BY HomeAssumption
<1>3. \A q \in Procs : cmd[q] = NoCommand
  BY DEF Init
<1>4. ASSUME NEW p \in Places, NEW k \in Keys, NEW record \in Records
      PROVE  Good(p, record, data[p][k][record])
  <2>1. Settled(p, data[p][k])
    BY <1>1, <1>2 DEF Found
  <2>. QED BY <2>1 DEF Settled, Usable, Good
<1>. QED BY <1>3, <1>4 DEF ServiceInv, ServiceAt, AtWork
-----------------------------------------------------------------------------
(* Sums.  SumOver folds a set by a function that CHOOSE picks, in an order   *)
(* that CHOOSE picks too: that there is one, and that neither matters, is    *)
(* induction over the sizes of sets.                                         *)

(* Induction for P is induction over {n \in Nat : P(n)}. *)
LEMMA AllNumbers ==
    ASSUME NEW S \in SUBSET Nat, 0 \in S, \A n \in S : n + 1 \in S
    PROVE  S = Nat
<1> DEFINE T == Nat \ S
<1>1. SUFFICES ASSUME T # {} PROVE FALSE
  OBVIOUS
<1>2. PICK m \in T : \A n \in T : m <= n
  BY <1>1, LeastElement
<1>3. m - 1 \in Nat /\ m - 1 \notin T
  BY <1>2
<1>. QED BY <1>2, <1>3

Amounts == 0 .. MaxAmount
Some(S) == CHOOSE x \in S : TRUE

(* it sums w over the subsets of S. *)
Summing(it, w, S) ==
    it = [s \in SUBSET S |->
            IF s = {} THEN 0 ELSE SaturatingAdd(w[Some(s)], it[s \ {Some(s)}])]

LEMMA SaturatingSums ==
    /\ 0 \in Amounts
    /\ \A x, y \in Amounts : SaturatingAdd(x, y) \in Amounts
    /\ \A x \in Amounts : SaturatingAdd(x, 0) = x /\ SaturatingAdd(0, x) = x
    /\ \A x, y \in Amounts : SaturatingAdd(x, y) = SaturatingAdd(y, x)
    /\ \A x, y, z \in Amounts :
         SaturatingAdd(x, SaturatingAdd(y, z)) = SaturatingAdd(SaturatingAdd(x, y), z)
BY SettingsAssumption DEF SaturatingAdd, Amounts

(* A set without one of its elements. *)
LEMMA Smaller ==
    ASSUME NEW S, IsFiniteSet(S), NEW x \in S
    PROVE  /\ IsFiniteSet(S \ {x}) /\ Cardinality(S) \in Nat /\ Cardinality(S) >= 1
           /\ Cardinality(S \ {x}) = Cardinality(S) - 1
<1>1. IsFiniteSet(S \ {x}) /\ Cardinality(S \ {x}) = Cardinality(S) - 1
  BY FS_RemoveElement
<1>2. Cardinality(S) \in Nat /\ Cardinality(S \ {x}) \in Nat
  BY <1>1, FS_CardinalityType
<1>. QED BY <1>1, <1>2

LEMMA SomeIs == \A S : S # {} => Some(S) \in S
BY DEF Some

(* it sums w over the subsets of S with up to k elements. *)
SumsUpTo(it, w, S, k) ==
    /\ it \in [SUBSET S -> Amounts] /\ it[{}] = 0
    /\ \A s \in SUBSET S : s # {} /\ Cardinality(s) <= k =>
         it[s] = SaturatingAdd(w[Some(s)], it[s \ {Some(s)}])

(* There is such a sum: one for the sets of k elements extends to k + 1. *)
LEMMA SumExists ==
    ASSUME NEW S, IsFiniteSet(S), NEW w, \A x \in S : w[x] \in Amounts
    PROVE  \E it : Summing(it, w, S)
<1> DEFINE K == {k \in Nat : \E it : SumsUpTo(it, w, S, k)}
<1>0. \A s \in SUBSET S : IsFiniteSet(s) /\ Cardinality(s) \in Nat
  BY FS_Subset, FS_CardinalityType
<1>1. 0 \in K
  <2> DEFINE it == [s \in SUBSET S |-> 0]
  <2>1. it \in [SUBSET S -> Amounts] /\ it[{}] = 0
    BY SaturatingSums
  <2>2. ASSUME NEW s \in SUBSET S, s # {} PROVE ~ (Cardinality(s) <= 0)
    <3>1. Some(s) \in s
      BY <2>2, SomeIs
    <3>2. Cardinality(s) \in Nat /\ Cardinality(s) >= 1
      BY <1>0, <3>1, Smaller
    <3>. QED BY <3>2
  <2> HIDE DEF it
  <2>3. SumsUpTo(it, w, S, 0)
    BY <2>1, <2>2 DEF SumsUpTo
  <2>. QED BY <2>3
<1>2. ASSUME NEW k \in K PROVE k + 1 \in K
  <2>1. PICK f : SumsUpTo(f, w, S, k)
    OBVIOUS
  <2>2. k \in Nat
    OBVIOUS
  <2> DEFINE next(s) == SaturatingAdd(w[Some(s)], f[s \ {Some(s)}])
             g == [s \in SUBSET S |-> IF s # {} /\ Cardinality(s) = k + 1 THEN next(s) ELSE f[s]]
  <2>3. ASSUME NEW s \in SUBSET S, s # {}
        PROVE  /\ Some(s) \in s /\ s \ {Some(s)} \in SUBSET S
               /\ Cardinality(s \ {Some(s)}) = Cardinality(s) - 1 /\ next(s) \in Amounts
    <3>1. Some(s) \in s /\ Some(s) \in S
      BY <2>3, SomeIs
    <3>2. f[s \ {Some(s)}] \in Amounts
      BY <2>1 DEF SumsUpTo
    <3>. QED BY <1>0, <3>1, <3>2, Smaller, SaturatingSums
  <2>4. g \in [SUBSET S -> Amounts] /\ g[{}] = 0
    BY <2>1, <2>3 DEF SumsUpTo
  <2>5. ASSUME NEW s \in SUBSET S, s # {}, Cardinality(s) <= k + 1
        PROVE  g[s] = SaturatingAdd(w[Some(s)], g[s \ {Some(s)}])
    <3>1. Cardinality(s) \in Nat
      BY <1>0
    <3>2. g[s \ {Some(s)}] = f[s \ {Some(s)}]
      BY <2>2, <2>3, <2>5, <3>1
    <3>3. g[s] = next(s)
      <4>1. CASE Cardinality(s) = k + 1
        BY <2>5, <4>1
      <4>2. CASE Cardinality(s) # k + 1
        BY <2>1, <2>2, <2>5, <3>1, <4>2 DEF SumsUpTo
      <4>. QED BY <4>1, <4>2
    <3>. QED BY <3>2, <3>3
  <2> HIDE DEF g
  <2>6. SumsUpTo(g, w, S, k + 1)
    BY <2>4, <2>5 DEF SumsUpTo
  <2>. QED BY <2>2, <2>6
<1>3. K = Nat
  <2> HIDE DEF K
  <2>1. K \in SUBSET Nat
    BY DEF K
  <2>. QED BY <1>1, <1>2, <2>1, AllNumbers
<1>4. PICK it : SumsUpTo(it, w, S, Cardinality(S))
  BY <1>0, <1>3
<1>5. \A s \in SUBSET S : Cardinality(s) <= Cardinality(S)
  BY FS_Subset
<1>6. Summing(it, w, S)
  <2>1. it = [s \in SUBSET S |-> it[s]]
    BY <1>4 DEF SumsUpTo
  <2>2. \A s \in SUBSET S :
          it[s] = IF s = {} THEN 0 ELSE SaturatingAdd(w[Some(s)], it[s \ {Some(s)}])
    BY <1>4, <1>5 DEF SumsUpTo
  <2>. QED BY <2>1, <2>2 DEF Summing
<1>. QED BY <1>6

(* The folds over two sets agree on what both sets hold. *)
LEMMA SumsAgree ==
    ASSUME NEW w, NEW S, NEW T, NEW f, NEW g, Summing(f, w, S), Summing(g, w, T),
           NEW s \in SUBSET S, s \in SUBSET T, IsFiniteSet(s)
    PROVE  f[s] = g[s]
<1> DEFINE K == {k \in Nat : \A u \in SUBSET s : Cardinality(u) = k => f[u] = g[u]}
<1>0. \A u \in SUBSET s : IsFiniteSet(u) /\ Cardinality(u) \in Nat
  BY FS_Subset, FS_CardinalityType
<1>1. /\ f[{}] = 0 /\ g[{}] = 0
      /\ \A u \in SUBSET s : u # {} =>
           /\ f[u] = SaturatingAdd(w[Some(u)], f[u \ {Some(u)}])
           /\ g[u] = SaturatingAdd(w[Some(u)], g[u \ {Some(u)}])
  BY DEF Summing
<1>2. \A u \in SUBSET s : u # {} =>
        u \ {Some(u)} \in SUBSET s /\ Cardinality(u \ {Some(u)}) = Cardinality(u) - 1
        /\ Cardinality(u) >= 1
  BY <1>0, SomeIs, Smaller
<1>3. 0 \in K
  <2>1. \A u \in SUBSET s : Cardinality(u) = 0 => u = {}
    BY <1>0, FS_EmptySet
  <2>. QED BY <1>1, <2>1
<1>4. ASSUME NEW k \in K PROVE k + 1 \in K
  <2>1. ASSUME NEW u \in SUBSET s, Cardinality(u) = k + 1 PROVE f[u] = g[u]
    <3>1. CASE u = {}
      BY <1>1, <3>1
    <3>2. CASE u # {}
      <4>1. f[u \ {Some(u)}] = g[u \ {Some(u)}]
        BY <1>2, <2>1, <3>2
      <4>. QED BY <1>1, <3>2, <4>1
    <3>. QED BY <3>1, <3>2
  <2>. QED BY <2>1
<1>5. K = Nat
  <2> HIDE DEF K
  <2>1. K \in SUBSET Nat
    BY DEF K
  <2>. QED BY <1>3, <1>4, <2>1, AllNumbers
<1>. QED BY <1>0, <1>5

(* SumOver is a fold that takes the elements in the order of CHOOSE; SumAny *)
(* below says that any other gives the same.                                *)
LEMMA SumIs ==
    ASSUME NEW S, IsFiniteSet(S), NEW w, \A x \in S : w[x] \in Amounts
    PROVE  \E it : Summing(it, w, S) /\ SumOver(w, S) = it[S]
<1>1. PICK f : Summing(f, w, S)
  BY SumExists
<1>2. PICK it : Summing(it, w, S) /\ SumOver(w, S) = it[S]
  BY <1>1 DEF SumOver, FoldSet, MapThenFoldSet, Summing, Some
<1>. QED BY <1>2

LEMMA SumStep ==
    ASSUME NEW S, IsFiniteSet(S), NEW w, \A x \in S : w[x] \in Amounts
    PROVE  /\ S = {} => SumOver(w, S) = 0
           /\ S # {} => /\ Some(S) \in S
                        /\ SumOver(w, S) = SaturatingAdd(w[Some(S)], SumOver(w, S \ {Some(S)}))
<1>1. PICK f : Summing(f, w, S) /\ SumOver(w, S) = f[S]
  BY SumIs
<1>2. CASE S # {}
  <2>1. Some(S) \in S
    BY <1>2, SomeIs
  <2> DEFINE T == S \ {Some(S)}
  <2>2. T \in SUBSET S /\ IsFiniteSet(T)
    BY <2>1, Smaller
  <2>3. PICK g : Summing(g, w, T) /\ SumOver(w, T) = g[T]
    BY <2>2, SumIs
  <2>4. f[T] = g[T]
    BY <1>1, <2>2, <2>3, SumsAgree
  <2>5. f[S] = SaturatingAdd(w[Some(S)], f[T])
    BY <1>1, <1>2 DEF Summing
  <2>. QED BY <1>1, <1>2, <2>1, <2>3, <2>4, <2>5
<1>3. CASE S = {}
  BY <1>1, <1>3 DEF Summing
<1>. QED BY <1>2, <1>3

(* What does not depend on the order, for the sets of n elements. *)
Sums(w, D, n) ==
    \A S \in SUBSET D : Cardinality(S) = n =>
      /\ SumOver(w, S) \in Amounts
      /\ \A x \in S : SumOver(w, S) = SaturatingAdd(w[x], SumOver(w, S \ {x}))

LEMMA SumsNext ==
    ASSUME NEW D, IsFiniteSet(D), NEW w, \A x \in D : w[x] \in Amounts,
           NEW n \in Nat, \A k \in 0 .. n : Sums(w, D, k),
           NEW S \in SUBSET D, Cardinality(S) = n + 1
    PROVE  /\ SumOver(w, S) \in Amounts
           /\ \A x \in S : SumOver(w, S) = SaturatingAdd(w[x], SumOver(w, S \ {x}))
<1>1. \A T \in SUBSET D : IsFiniteSet(T) /\ Cardinality(T) \in Nat
  BY FS_Subset, FS_CardinalityType
<1>2. \A T \in SUBSET D : \A x \in T :
        T \ {x} \in SUBSET D /\ Cardinality(T \ {x}) = Cardinality(T) - 1
  BY <1>1, Smaller
<1>3. S # {}
  BY FS_EmptySet
<1>4. PICK y \in S : SumOver(w, S) = SaturatingAdd(w[y], SumOver(w, S \ {y}))
  BY <1>1, <1>3, SumStep
<1>5. \A x \in S : S \ {x} \in SUBSET D /\ Cardinality(S \ {x}) = n
  BY <1>2
<1>6. \A x \in S : w[x] \in Amounts /\ SumOver(w, S \ {x}) \in Amounts
  BY <1>5 DEF Sums
<1>7. ASSUME NEW x \in S, x # y
      PROVE  SumOver(w, S) = SaturatingAdd(w[x], SumOver(w, S \ {x}))
  <2> DEFINE rest == S \ {x, y}
  <2>1. (S \ {y}) \ {x} = rest /\ (S \ {x}) \ {y} = rest
    OBVIOUS
  <2>2. SumOver(w, S \ {y}) = SaturatingAdd(w[x], SumOver(w, rest))
    BY <1>5, <1>7, <2>1 DEF Sums
  <2>3. SumOver(w, S \ {x}) = SaturatingAdd(w[y], SumOver(w, rest))
    BY <1>5, <1>7, <2>1 DEF Sums
  <2>4. rest \in SUBSET D /\ Cardinality(rest) = n - 1 /\ Cardinality(rest) \in Nat
    <3>1. S \ {y} \in SUBSET D /\ Cardinality(S \ {y}) = n /\ x \in S \ {y}
      BY <1>5, <1>7
    <3>. QED BY <1>1, <1>2, <2>1, <3>1
  <2>5. SumOver(w, rest) \in Amounts
    BY <2>4 DEF Sums
  <2> HIDE DEF rest
  <2>. QED BY <1>4, <1>6, <2>2, <2>3, <2>5, SaturatingSums
<1>8. SumOver(w, S) \in Amounts
  BY <1>4, <1>6, SaturatingSums
<1>. QED BY <1>4, <1>7, <1>8

LEMMA SumAny ==
    ASSUME NEW D, IsFiniteSet(D), NEW w, \A x \in D : w[x] \in Amounts, NEW S \in SUBSET D
    PROVE  /\ SumOver(w, S) \in Amounts /\ SumOver(w, {}) = 0
           /\ \A x \in S : SumOver(w, S) = SaturatingAdd(w[x], SumOver(w, S \ {x}))
<1> DEFINE K == {n \in Nat : \A k \in 0 .. n : Sums(w, D, k)}
<1>1. \A T \in SUBSET D : IsFiniteSet(T) /\ Cardinality(T) \in Nat
  BY FS_Subset, FS_CardinalityType
<1>2. SumOver(w, {}) = 0
  BY FS_EmptySet, SumStep
<1>3. Sums(w, D, 0)
  <2>1. \A T \in SUBSET D : Cardinality(T) = 0 => T = {}
    BY <1>1, FS_EmptySet
  <2>. QED BY <1>2, <2>1, SaturatingSums DEF Sums
<1>4. ASSUME NEW n \in K PROVE n + 1 \in K
  <2>1. n \in Nat /\ \A k \in 0 .. n : Sums(w, D, k)
    OBVIOUS
  <2>2. Sums(w, D, n + 1)
    <3>1. ASSUME NEW T \in SUBSET D, Cardinality(T) = n + 1
          PROVE  /\ SumOver(w, T) \in Amounts
                 /\ \A x \in T : SumOver(w, T) = SaturatingAdd(w[x], SumOver(w, T \ {x}))
      <4> HIDE DEF K
      <4>. QED BY <2>1, <3>1, SumsNext
    <3>. QED BY <3>1, Zenon DEF Sums
  <2>3. \A k \in 0 .. n + 1 : k \in 0 .. n \/ k = n + 1
    BY <2>1
  <2>. QED BY <2>1, <2>2, <2>3
<1>5. K = Nat
  <2>1. 0 \in K
    <3>1. \A k \in 0 .. 0 : k = 0
      OBVIOUS
    <3>. QED BY <1>3, <3>1
  <2> HIDE DEF K
  <2>2. K \in SUBSET Nat
    BY DEF K
  <2>. QED BY <1>4, <2>1, <2>2, AllNumbers
<1>6. Sums(w, D, Cardinality(S))
  <2>1. Cardinality(S) \in Nat
    BY <1>1
  <2>. QED BY <1>5, <2>1
<1>. QED BY <1>2, <1>6 DEF Sums

(* What two sets without a common element add up to. *)
Joins(w, A, B) == SumOver(w, A \cup B) = SaturatingAdd(SumOver(w, A), SumOver(w, B))

LEMMA SumParts ==
    ASSUME NEW D, IsFiniteSet(D), NEW w, \A x \in D : w[x] \in Amounts,
           NEW A \in SUBSET D, NEW B \in SUBSET D, A \cap B = {}
    PROVE  SumOver(w, A \cup B) = SaturatingAdd(SumOver(w, A), SumOver(w, B))
<1> DEFINE K == {n \in Nat : \A S \in SUBSET A : Cardinality(S) = n => Joins(w, S, B)}
<1>1. \A S \in SUBSET D : /\ IsFiniteSet(S) /\ Cardinality(S) \in Nat
                          /\ SumOver(w, S) \in Amounts
  BY FS_Subset, FS_CardinalityType, SumAny
<1>2. SumOver(w, {}) = 0
  BY SumAny
<1>3. 0 \in K
  <2>1. \A S \in SUBSET A : Cardinality(S) = 0 => S = {}
    BY <1>1, FS_EmptySet
  <2>2. {} \cup B = B
    OBVIOUS
  <2>3. Joins(w, {}, B)
    BY <1>1, <1>2, <2>2, SaturatingSums DEF Joins
  <2>. QED BY <2>1, <2>3
<1>4. ASSUME NEW n \in K PROVE n + 1 \in K
  <2>1. ASSUME NEW S \in SUBSET A, Cardinality(S) = n + 1 PROVE Joins(w, S, B)
    <3>1. S # {}
      BY <2>1, FS_EmptySet
    <3>2. PICK x \in S : TRUE
      BY <3>1
    <3> DEFINE T == S \ {x}
    <3>3. T \in SUBSET A /\ Cardinality(T) = n /\ (S \cup B) \ {x} = T \cup B
      BY <1>1, <2>1, Smaller
    <3>4. Joins(w, T, B)
      BY <3>3
    <3>5. SumOver(w, S) = SaturatingAdd(w[x], SumOver(w, T))
      BY SumAny
    <3>6. SumOver(w, S \cup B) = SaturatingAdd(w[x], SumOver(w, T \cup B))
      BY <3>3, SumAny
    <3>7. w[x] \in Amounts /\ SumOver(w, T) \in Amounts /\ SumOver(w, B) \in Amounts
      BY <1>1, <3>3
    <3> HIDE DEF T
    <3>8. /\ SumOver(w, S) = SaturatingAdd(w[x], SumOver(w, T))
          /\ SumOver(w, T \cup B) = SaturatingAdd(SumOver(w, T), SumOver(w, B))
      BY <3>4, <3>5 DEF Joins
    <3>9. \A a, b, c \in Amounts :
            SaturatingAdd(a, SaturatingAdd(b, c)) = SaturatingAdd(SaturatingAdd(a, b), c)
      BY SaturatingSums
    <3>10. SaturatingAdd(w[x], SaturatingAdd(SumOver(w, T), SumOver(w, B)))
             = SaturatingAdd(SaturatingAdd(w[x], SumOver(w, T)), SumOver(w, B))
      BY <3>7, <3>9, Zenon
    <3>11. SumOver(w, S \cup B) = SaturatingAdd(SumOver(w, S), SumOver(w, B))
      BY <3>6, <3>8, <3>10, Zenon
    <3>. QED BY <3>11, Zenon DEF Joins
  <2>. QED BY <2>1
<1>5. K = Nat
  <2> HIDE DEF K
  <2>1. K \in SUBSET Nat
    BY DEF K
  <2>. QED BY <1>3, <1>4, <2>1, AllNumbers
<1>. QED BY <1>1, <1>5 DEF Joins
-----------------------------------------------------------------------------
(* The balances.                                                            *)

(* A balance is of assets that there are.                                   *)
LEMMA TrackedIs ==
    ASSUME NEW place, NEW seen, seen.in \subseteq Words
    PROVE  TrackedAssets(place, seen) \subseteq Assets
BY DEF TrackedAssets, Assets

(* What is held of an asset, in vaults and in notes.                        *)
HeldOf(a) == [v \in DOMAIN Holdings |-> Holdings[v][a]]
Noted(notes) == [n \in notes |-> n.amount]

(* What is read of the vaults, public and private, is all that is held but  *)
(* for what is not.                                                         *)
LEMMA HeldParts ==
    ASSUME NEW a \in Assets, NEW read \in SUBSET DOMAIN Holdings
    PROVE  LET all == SumOver(HeldOf(a), DOMAIN Holdings)
               some == SumOver(HeldOf(a), read)
               rest == SumOver(HeldOf(a), DOMAIN Holdings \ read)
               public == SumOver(HeldOf(a), read \cap Public)
               private == SumOver(HeldOf(a), read \ Public)
           IN  /\ all \in Amounts /\ some \in Amounts /\ rest \in Amounts
               /\ public \in Amounts /\ private \in Amounts
               /\ all = SaturatingAdd(some, rest)
               /\ some = SaturatingAdd(public, private)
<1> DEFINE D == DOMAIN Holdings
           w == HeldOf(a)
<1>1. IsFiniteSet(D) /\ \A x \in D : w[x] \in Amounts
  BY HomeAssumption DEF HeldOf, Amounts
<1>2. /\ read \in SUBSET D /\ D \ read \in SUBSET D /\ D \in SUBSET D
      /\ read \cap Public \in SUBSET D /\ read \ Public \in SUBSET D
  OBVIOUS
<1>3. /\ read \cup (D \ read) = D /\ read \cap (D \ read) = {}
      /\ (read \cap Public) \cup (read \ Public) = read
      /\ (read \cap Public) \cap (read \ Public) = {}
  OBVIOUS
<1> HIDE DEF D, w
<1>4. \A S \in SUBSET D : SumOver(w, S) \in Amounts
  BY <1>1, SumAny
<1>5. SumOver(w, read \cup (D \ read)) = SaturatingAdd(SumOver(w, read), SumOver(w, D \ read))
  BY <1>1, <1>2, <1>3, SumParts
<1>6. SumOver(w, (read \cap Public) \cup (read \ Public))
        = SaturatingAdd(SumOver(w, read \cap Public), SumOver(w, read \ Public))
  BY <1>1, <1>2, <1>3, SumParts
<1>7. /\ SumOver(w, D) = SaturatingAdd(SumOver(w, read), SumOver(w, D \ read))
      /\ SumOver(w, read) = SaturatingAdd(SumOver(w, read \cap Public), SumOver(w, read \ Public))
  BY <1>3, <1>5, <1>6
<1>. QED BY <1>2, <1>4, <1>7 DEF D, w

(* A sum over positions that each hold another element is a sum over these. *)
OnceAt(list, P) == \A i, j \in P : list[i] = list[j] => i = j
HeldAt(list, P) == {list[i] : i \in P}
SameSum(list, w, v, P) == SumOver(w, P) = SumOver(v, HeldAt(list, P))

LEMMA SumAtPositions ==
    ASSUME NEW D, IsFiniteSet(D), NEW E, IsFiniteSet(E), NEW list, NEW w, NEW v,
           \A i \in D : list[i] \in E /\ w[i] = v[list[i]],
           \A n \in E : v[n] \in Amounts, NEW P \in SUBSET D, OnceAt(list, P)
    PROVE  SameSum(list, w, v, P)
<1> DEFINE K == {n \in Nat : \A S \in SUBSET P : Cardinality(S) = n => SameSum(list, w, v, S)}
<1>1. \A S \in SUBSET D : IsFiniteSet(S) /\ Cardinality(S) \in Nat
  BY FS_Subset, FS_CardinalityType
<1>2. \A i \in D : w[i] \in Amounts
  OBVIOUS
<1>3. 0 \in K
  <2>1. \A S \in SUBSET P : Cardinality(S) = 0 => S = {}
    BY <1>1, FS_EmptySet
  <2>2. HeldAt(list, {}) = {}
    BY DEF HeldAt
  <2>3. SumOver(w, {}) = 0
    BY <1>2, SumAny
  <2>4. SumOver(v, {}) = 0
    BY SumAny
  <2>5. SameSum(list, w, v, {})
    BY <2>2, <2>3, <2>4 DEF SameSum
  <2>. QED BY <2>1, <2>5
<1>4. ASSUME NEW n \in K PROVE n + 1 \in K
  <2>1. ASSUME NEW S \in SUBSET P, Cardinality(S) = n + 1 PROVE SameSum(list, w, v, S)
    <3>1. S # {}
      BY <2>1, FS_EmptySet
    <3>2. PICK x \in S : TRUE
      BY <3>1
    <3> DEFINE T == S \ {x}
    <3>3. S \in SUBSET D /\ x \in P /\ T \in SUBSET P /\ Cardinality(T) = n
      BY <1>1, <2>1, Smaller
    <3>4. SameSum(list, w, v, T)
      BY <3>3
    <3>5. HeldAt(list, S) \in SUBSET E /\ list[x] \in HeldAt(list, S)
      BY <3>3 DEF HeldAt
    <3>6. HeldAt(list, S) \ {list[x]} = HeldAt(list, T)
      BY <3>3 DEF HeldAt, OnceAt
    <3>7. SumOver(w, S) = SaturatingAdd(w[x], SumOver(w, T))
      BY <1>2, <3>3, SumAny
    <3>8. SumOver(v, HeldAt(list, S))
            = SaturatingAdd(v[list[x]], SumOver(v, HeldAt(list, S) \ {list[x]}))
      BY <3>5, SumAny
    <3>9. w[x] = v[list[x]]
      BY <3>3
    <3> HIDE DEF T
    <3>. QED BY <3>4, <3>6, <3>7, <3>8, <3>9 DEF SameSum
  <2>. QED BY <2>1
<1>5. K = Nat
  <2> HIDE DEF K
  <2>1. K \in SUBSET Nat
    BY DEF K
  <2>. QED BY <1>3, <1>4, <2>1, AllNumbers
<1>. QED BY <1>1, <1>5

(* The notes of an asset, and the positions they have in a list.            *)
NotesOf(a) == {n \in Notes : n.asset = a}
PlacesOf(list, a) == {i \in DOMAIN list : list[i].asset = a}
AmountAt(list) == [i \in DOMAIN list |-> list[i].amount]
Counted(list, a) == SumOver(AmountAt(list), PlacesOf(list, a))
NotedOf(a) == SumOver(Noted(Notes), NotesOf(a))

(* What is listed of an asset is the spendable and the pending notes.       *)
LEMMA ListedParts ==
    ASSUME NEW a, NEW list \in Listings
    PROVE  /\ Counted(list, a) \in Amounts
           /\ FoldTornado(list, a, FALSE) \in Amounts /\ FoldTornado(list, a, TRUE) \in Amounts
           /\ Counted(list, a)
                = SaturatingAdd(FoldTornado(list, a, FALSE), FoldTornado(list, a, TRUE))
<1> DEFINE D == DOMAIN list
           w == AmountAt(list)
           A == {i \in D : list[i].asset = a /\ list[i].pending = FALSE}
           B == {i \in D : list[i].asset = a /\ list[i].pending = TRUE}
<1>1. IsFiniteSet(D) /\ \A i \in D : list[i] \in Notes
  <2>1. list \in Seq(Notes)
    BY HomeAssumption
  <2>2. Len(list) \in Nat /\ D = 1 .. Len(list)
    BY <2>1
  <2>. QED BY <2>1, <2>2, FS_Interval
<1>2. \A i \in D : w[i] \in Amounts /\ list[i].pending \in BOOLEAN
  BY <1>1, HomeAssumption DEF AmountAt, Amounts
<1>3. A \in SUBSET D /\ B \in SUBSET D /\ A \cap B = {} /\ A \cup B = PlacesOf(list, a)
  BY <1>2 DEF PlacesOf
<1>4. FoldTornado(list, a, FALSE) = SumOver(w, A) /\ FoldTornado(list, a, TRUE) = SumOver(w, B)
  BY Zenon DEF FoldTornado, AmountAt
<1> HIDE DEF D, w, A, B
<1>5. \A S \in SUBSET D : SumOver(w, S) \in Amounts
  BY <1>1, <1>2, SumAny
<1>6. SumOver(w, A \cup B) = SaturatingAdd(SumOver(w, A), SumOver(w, B))
  BY <1>1, <1>2, <1>3, SumParts
<1>7. Counted(list, a) = SumOver(w, A \cup B)
  BY <1>3 DEF Counted, w
<1>. QED BY <1>3, <1>4, <1>5, <1>6, <1>7

(* Nothing is listed by an empty list.                                      *)
LEMMA NothingListed == \A a, p : FoldTornado(<<>>, a, p) = 0
<1>1. ASSUME NEW a, NEW p PROVE FoldTornado(<<>>, a, p) = 0
  <2> DEFINE e == [i \in DOMAIN <<>> |-> (<<>>)[i].amount]
             none == {i \in DOMAIN <<>> : (<<>>)[i].asset = a /\ (<<>>)[i].pending = p}
  <2>1. none = {}
    OBVIOUS
  <2>2. FoldTornado(<<>>, a, p) = SumOver(e, none)
    BY Zenon DEF FoldTornado
  <2> HIDE DEF e, none
  <2>3. \A n \in {} : e[n] \in Amounts
    OBVIOUS
  <2>4. SumOver(e, {}) = 0
    BY <2>3, FS_EmptySet, SumStep
  <2>. QED BY <2>1, <2>2, <2>4
<1>. QED BY <1>1

(* A list counts every note of an asset, and only once what it lists once.  *)
LEMMA ListedCounts ==
    ASSUME NEW a, NEW list \in Listings
    PROVE  /\ NotedOf(a) \in Amounts
           /\ \E t \in Amounts : Counted(list, a) = SaturatingAdd(NotedOf(a), t)
           /\ IsInjective(list) => Counted(list, a) = NotedOf(a)
<1> DEFINE D == DOMAIN list
           w == AmountAt(list)
           v == Noted(Notes)
           all == PlacesOf(list, a)
           pos(n) == CHOOSE i \in D : list[i] = n
           P == {pos(n) : n \in NotesOf(a)}
           R == all \ P
<1>1. IsFiniteSet(D) /\ (\A i \in D : list[i] \in Notes) /\ \A n \in Notes : \E i \in D : list[i] = n
  <2>1. list \in Seq(Notes) /\ Range(list) = Notes
    BY HomeAssumption
  <2>2. Len(list) \in Nat /\ D = 1 .. Len(list)
    BY <2>1
  <2>. QED BY <2>1, <2>2, FS_Interval DEF Range
<1>2. /\ IsFiniteSet(Notes) /\ \A n \in Notes : v[n] \in Amounts
      /\ \A i \in D : w[i] = v[list[i]] /\ w[i] \in Amounts
  BY <1>1, HomeAssumption DEF Noted, AmountAt, Amounts
<1>3. \A n \in Notes : pos(n) \in D /\ list[pos(n)] = n
  BY <1>1
<1>4. /\ all \in SUBSET D /\ P \in SUBSET all /\ R \in SUBSET D /\ P \cap R = {}
      /\ P \cup R = all
  <2>1. \A n \in NotesOf(a) : pos(n) \in D /\ list[pos(n)].asset = a
    BY <1>3 DEF NotesOf
  <2>. QED BY <2>1 DEF PlacesOf
<1>5. OnceAt(list, P)
  <2>1. ASSUME NEW i \in P, NEW j \in P, list[i] = list[j] PROVE i = j
    <3>1. PICK m \in NotesOf(a) : i = pos(m)
      OBVIOUS
    <3>2. PICK n \in NotesOf(a) : j = pos(n)
      OBVIOUS
    <3>3. list[i] = m /\ list[j] = n
      BY <1>3, <3>1, <3>2 DEF NotesOf
    <3>. QED BY <2>1, <3>1, <3>2, <3>3
  <2>. QED BY <2>1, Zenon DEF OnceAt
<1>6. HeldAt(list, P) = NotesOf(a)
  <2>1. \A n \in NotesOf(a) : list[pos(n)] = n /\ pos(n) \in P
    BY <1>3 DEF NotesOf
  <2>. QED BY <2>1 DEF HeldAt
<1> HIDE DEF w, v, pos, P, R, all, D
<1>7. SumOver(w, P) = NotedOf(a)
  <2>1. P \in SUBSET D
    BY <1>4
  <2>2. SameSum(list, w, v, P)
    BY <1>1, <1>2, <1>5, <2>1, SumAtPositions
  <2>. QED BY <1>6, <2>2 DEF SameSum, NotedOf, v
<1>8. SumOver(w, P) \in Amounts /\ SumOver(w, R) \in Amounts
  <2>1. P \in SUBSET D
    BY <1>4
  <2>. QED BY <1>1, <1>2, <1>4, <2>1, SumAny
<1>9. SumOver(w, P \cup R) = SaturatingAdd(SumOver(w, P), SumOver(w, R))
  <2>1. P \in SUBSET D
    BY <1>4
  <2>. QED BY <1>1, <1>2, <1>4, <2>1, SumParts
<1>10. Counted(list, a) = SumOver(w, P \cup R)
  BY <1>4 DEF Counted, w, all
<1>11. ASSUME IsInjective(list) PROVE R = {}
  <2>1. ASSUME NEW i \in all PROVE i \in P
    <3>1. i \in D /\ list[i] \in NotesOf(a)
      BY <1>1, <1>4, <2>1 DEF all, PlacesOf, NotesOf
    <3>2. pos(list[i]) \in D /\ list[pos(list[i])] = list[i] /\ pos(list[i]) \in P
      BY <1>3, <3>1 DEF NotesOf, P
    <3>3. pos(list[i]) = i
      BY <1>11, <3>1, <3>2 DEF IsInjective, D
    <3>. QED BY <3>2, <3>3
  <2>. QED BY <2>1 DEF R
<1>12. SumOver(w, {}) = 0
  BY <1>1, <1>2, SumAny
<1>13. IsInjective(list) => Counted(list, a) = NotedOf(a)
  BY <1>7, <1>8, <1>9, <1>10, <1>11, <1>12, SaturatingSums
<1>. QED BY <1>7, <1>8, <1>9, <1>10, <1>13

(* What is reported of an asset is all that there is if everything was read, *)
(* and no more than there is of a list that has every note once.             *)
Said(r) == SaturatingAdd(r.public, SaturatingAdd(r.spendable, r.pending))
TrueOf(a) == SaturatingAdd(SumOver(HeldOf(a), DOMAIN Holdings), NotedOf(a))

LEMMA SaidOrder ==
    ASSUME NEW x \in Amounts, NEW y \in Amounts, NEW z \in Amounts, NEW t \in Amounts
    PROVE  /\ SaturatingAdd(x, SaturatingAdd(SaturatingAdd(y, z), t))
                = SaturatingAdd(SaturatingAdd(x, y), SaturatingAdd(z, t))
           /\ SaturatingAdd(x, y) <= SaturatingAdd(SaturatingAdd(x, z), SaturatingAdd(y, t))
           /\ SaturatingAdd(x, y) <= SaturatingAdd(x, SaturatingAdd(y, z))
           /\ SaturatingAdd(x, y) \in Amounts
BY SettingsAssumption DEF SaturatingAdd, Amounts

LEMMA ReportExact ==
    ASSUME NEW a \in Assets, NEW read \in SUBSET DOMAIN Holdings, NEW tornado \in BOOLEAN,
           NEW list \in Listings
    PROVE  /\ Complete(read, tornado) => Said(Report(read, tornado, a, list)) >= TrueOf(a)
           /\ IsInjective(list) => Said(Report(read, tornado, a, list)) <= TrueOf(a)
<1> DEFINE all == SumOver(HeldOf(a), DOMAIN Holdings)
           some == SumOver(HeldOf(a), read)
           rest == SumOver(HeldOf(a), DOMAIN Holdings \ read)
           public == SumOver(HeldOf(a), read \cap Public)
           private == SumOver(HeldOf(a), read \ Public)
           noted == NotedOf(a)
           counted == Counted(list, a)
           spendable == FoldTornado(list, a, FALSE)
           pending == FoldTornado(list, a, TRUE)
           s == IF tornado THEN spendable ELSE 0
           p == IF tornado THEN pending ELSE 0
<1>1. /\ all \in Amounts /\ some \in Amounts /\ rest \in Amounts
      /\ public \in Amounts /\ private \in Amounts
      /\ all = SaturatingAdd(some, rest) /\ some = SaturatingAdd(public, private)
  BY HeldParts
<1>2. /\ counted \in Amounts /\ spendable \in Amounts /\ pending \in Amounts
      /\ counted = SaturatingAdd(spendable, pending)
      /\ FoldTornado(<<>>, a, FALSE) = 0 /\ FoldTornado(<<>>, a, TRUE) = 0
  BY ListedParts, NothingListed
<1>3. /\ noted \in Amounts /\ \E t \in Amounts : counted = SaturatingAdd(noted, t)
      /\ IsInjective(list) => counted = noted
  BY ListedCounts
<1>4. PICK r : r = Report(read, tornado, a, list)
  OBVIOUS
<1>5. r.public = public /\ r.spendable = SaturatingAdd(private, s) /\ r.pending = p
  <2>1. Totals(read, a) = [public |-> public, private |-> private]
    BY Zenon DEF Totals, HeldOf
  <2>2. /\ FoldTornado(IF tornado THEN list ELSE <<>>, a, FALSE) = s
        /\ FoldTornado(IF tornado THEN list ELSE <<>>, a, TRUE) = p
    BY <1>2
  <2>3. PICK x : x = FoldTornado(IF tornado THEN list ELSE <<>>, a, FALSE)
    OBVIOUS
  <2>4. PICK y : y = FoldTornado(IF tornado THEN list ELSE <<>>, a, TRUE)
    OBVIOUS
  <2>5. PICK totals : totals = Totals(read, a)
    OBVIOUS
  <2>6. r = [public |-> totals.public, spendable |-> SaturatingAdd(totals.private, x),
             pending |-> y]
    BY <1>4, <2>3, <2>4, <2>5, Zenon DEF Report
  <2> HIDE DEF public, private, s, p
  <2>7. x = s /\ y = p
    BY <2>2, <2>3, <2>4, Zenon
  <2>8. totals.public = public /\ totals.private = private
    BY <2>1, <2>5
  <2>9. /\ r.public = totals.public /\ r.spendable = SaturatingAdd(totals.private, x)
        /\ r.pending = y
    BY <2>6
  <2>. QED BY <2>7, <2>8, <2>9
<1>6. Complete(read, tornado) => tornado /\ some = all
  BY DEF Complete
<1>7. TrueOf(a) = SaturatingAdd(all, noted)
  BY Zenon DEF TrueOf
<1> HIDE DEF all, some, rest, public, private, noted, counted, spendable, pending
<1>8. s \in Amounts /\ p \in Amounts /\ SaturatingAdd(s, p) \in Amounts
  BY <1>2, SaturatingSums
<1>9. Said(r) = SaturatingAdd(some, SaturatingAdd(s, p))
  <2> HIDE DEF s, p
  <2>. QED BY <1>1, <1>5, <1>8, SaidOrder DEF Said
<1>10. Complete(read, tornado) => Said(r) >= TrueOf(a)
  <2>1. ASSUME Complete(read, tornado) PROVE Said(r) >= TrueOf(a)
    <3>1. Said(r) = SaturatingAdd(all, counted)
      BY <1>2, <1>6, <1>9, <2>1
    <3>2. PICK t \in Amounts : counted = SaturatingAdd(noted, t)
      BY <1>3
    <3>3. SaturatingAdd(all, noted) <= SaturatingAdd(all, SaturatingAdd(noted, t))
      BY <1>1, <1>3, SaidOrder
    <3>4. SaturatingAdd(all, noted) \in Amounts /\ SaturatingAdd(all, counted) \in Amounts
      BY <1>1, <1>2, <1>3, SaturatingSums
    <3>. QED BY <1>7, <3>1, <3>2, <3>3, <3>4, SettingsAssumption DEF Amounts
  <2>. QED BY <2>1
<1>11. IsInjective(list) => Said(r) <= TrueOf(a)
  <2>1. ASSUME IsInjective(list) PROVE Said(r) <= TrueOf(a)
    <3>1. \E t \in Amounts : noted = SaturatingAdd(SaturatingAdd(s, p), t)
      <4>1. CASE tornado
        BY <1>2, <1>3, <2>1, <4>1, SaturatingSums
      <4>2. CASE ~ tornado
        BY <1>3, <4>2, SaturatingSums
      <4>. QED BY <4>1, <4>2
    <3>. QED BY <1>1, <1>7, <1>8, <1>9, <3>1, SaidOrder
  <2>. QED BY <2>1
<1>. QED BY <1>4, <1>10, <1>11

(* So a balance that is reported is as exact as its list.                   *)
LEMMA NextTotals ==
    ASSUME TypeInv, ServiceInv, TotalsExact, [Next]_vars
    PROVE  TotalsExact'
<1>1. ASSUME NEW q \in Procs, ReportBalance(q) PROVE TotalsExact'
  <2>1. PICK c : c = cmd[q]
    OBVIOUS
  <2>2. Command(c) /\ c # NoCommand /\ c.todo # <<>> /\ c.todo[1] = "balance"
    BY <1>1, <2>1, AtStep DEF ReportBalance, At
  <2>3. c.key \in Keys
    BY <2>2, HeadKey, CommandFacts DEF Ends, Prelude
  <2>4. Counts(Range(c.todo))
    BY <2>2, BlindRests
  <2>5. c.seen.in \subseteq Words
    BY <2>1, <2>2, <2>3, <2>4 DEF ServiceInv, ServiceAt, AtWork, Good
  <2>6. PICK read \in SUBSET DOMAIN Holdings, tornado \in BOOLEAN, list \in Listings :
          balance' = [complete |-> Complete(read, tornado), once |-> IsInjective(list),
                      assets   |-> [a \in TrackedAssets(c.place, c.seen) |->
                                      Report(read, tornado, a, list)]]
    BY <1>1, <2>1 DEF ReportBalance
  <2>7. /\ balance'.complete = Complete(read, tornado)
        /\ balance'.once = IsInjective(list)
        /\ DOMAIN balance'.assets \subseteq Assets
        /\ \A a \in DOMAIN balance'.assets : balance'.assets[a] = Report(read, tornado, a, list)
    BY <2>5, <2>6, TrackedIs
  <2>8. ASSUME NEW a \in DOMAIN balance'.assets
        PROVE  /\ balance'.complete => Said(balance'.assets[a]) >= TrueOf(a)
               /\ balance'.once => Said(balance'.assets[a]) <= TrueOf(a)
    BY <2>7, <2>8, ReportExact
  <2>. QED BY <2>8 DEF TotalsExact, Said, TrueOf, HeldOf, Noted, NotedOf, NotesOf
<1>2. CASE balance' = balance
  BY <1>2 DEF TotalsExact
<1>3. ASSUME NEW q \in Procs, Step(q), ~ ReportBalance(q) PROVE balance' = balance
  BY <1>3 DEF Step, End, Load, Renew, Present, Forget, Hold, HoldFails, Held, Choose, Open, Reveal,
         Password, Same, Typed, Exists, Unlock, Create, PutTemp, PutHeader, Rewrap, DoWork, Look,
         Put, OnlyCmd
<1>4. ASSUME NEW q \in Procs, NEW r \in Commands, Begin(q, r) PROVE balance' = balance
  BY <1>4 DEF Begin
<1>5. ASSUME NEW p \in Places, RemoveInstance(p) PROVE balance' = balance
  BY <1>5 DEF RemoveInstance
<1>6. CASE Tick \/ UNCHANGED vars
  BY <1>2, <1>6 DEF Tick, vars
<1>. QED BY <1>1, <1>2, <1>3, <1>4, <1>5, <1>6 DEF Next
-----------------------------------------------------------------------------
(* The home at first.                                                       *)

(* A home as it is found, with no command begun.                             *)
LEMMA InitTypes ==
    ASSUME Init
    PROVE  TypeInv
<1>1. PICK s \in Starts :
        files = s.files /\ header = s.header /\ data = s.data /\ session = s.session
  BY DEF Init
<1>2. Found(s)
  BY HomeAssumption
<1>3. CmdType
  BY DEF Init, CmdType
<1>4. files \subseteq Places /\ header \in [Places -> {None} \cup Headers]
  BY <1>1, <1>2 DEF Found
<1>5. session \in {None} \cup Sessions
  BY <1>1, <1>2 DEF Found
<1>6. key \in Nat
  <2>1. IsFiniteSet(files)
    BY <1>4, HomeAssumption, FS_Subset
  <2>. QED BY <2>1, FS_CardinalityType DEF Init
<1>7. DOMAIN NoRecords = Records
  BY DEF NoRecords, Records
<1>8. /\ DOMAIN data = Places
      /\ \A p \in Places :
           /\ DOMAIN data[p] = Keys
           /\ \A k \in Keys : DOMAIN data[p][k] = Records /\ data[p][k].rpcs \in Seq(Words)
  BY <1>1, <1>2, <1>7 DEF Found, Settled
<1>. QED BY <1>3, <1>4, <1>5, <1>6, <1>8 DEF TypeInv, StoreType

LEMMA InitInv ==
    ASSUME Init
    PROVE  SessionInv /\ KeyInv /\ ActiveInv /\ RpcInv /\ ListInv
<1>1. PICK s \in Starts :
        files = s.files /\ header = s.header /\ data = s.data /\ session = s.session
  BY DEF Init
<1>2. Found(s) /\ TTL \in Nat
  BY HomeAssumption
<1>3. \A q \in Procs : cmd[q] = NoCommand
  BY DEF Init
<1>4. SessionInv
  <2>1. session # None => session.left = TTL
    BY <1>1, <1>2 DEF Found
  <2>2. granted <=> session # None
    BY Zenon DEF Init
  <2>3. idle = 0
    BY DEF Init
  <2>. QED BY <1>2, <1>3, <2>1, <2>2, <2>3 DEF SessionInv
<1>5. KeyInv
  <2>1. OneKey
    BY <1>1, <1>2 DEF OneKey, Found
  <2>2. \A q \in Procs : \A p : ~ Writing(q, p)
    BY <1>3 DEF Writing, At, NoCommand
  <2>. QED BY <1>3, <2>1, <2>2 DEF KeyInv, Keeper, Rivals
<1>6. \A p \in Places, k \in Keys : Settled(p, data[p][k])
  BY <1>1, <1>2 DEF Found
<1>7. ActiveInv
  BY <1>3, <1>6 DEF ActiveInv, ActiveAt, AtWork, Settled
<1>8. RpcInv
  BY <1>3, <1>6 DEF RpcInv, RpcAt, InUse, AtWork, Settled
<1>9. ListInv
  BY <1>3, <1>6 DEF ListInv, ListAt, OptedIsRegistered, AtWork, Settled
<1>. QED BY <1>4, <1>5, <1>7, <1>8, <1>9
-----------------------------------------------------------------------------
(* The inductive invariant.                                                 *)

IInv ==
    /\ TypeInv /\ SessionInv /\ KeyInv /\ ActiveInv /\ RpcInv /\ ListInv
    /\ ServiceInv /\ TotalsExact

LEMMA InitIInv == Init => IInv
<1>1. Init => TotalsExact
  BY DEF Init, TotalsExact
<1>. QED BY <1>1, InitTypes, InitInv, InitServices DEF IInv

LEMMA NextIInv == IInv /\ [Next]_vars => IInv'
<1>1. ASSUME IInv, [Next]_vars PROVE IInv'
  <2>1. TypeInv'
    BY <1>1, NextTypes DEF IInv
  <2>2. SessionInv'
    BY <1>1, NextSession DEF IInv
  <2>3. KeyInv'
    BY <1>1, <2>1, NextKey DEF IInv
  <2>4. ActiveInv' /\ RpcInv' /\ ListInv'
    BY <1>1, NextRecords DEF IInv
  <2>5. ServiceInv'
    BY <1>1, NextServices DEF IInv
  <2>6. TotalsExact'
    BY <1>1, NextTotals DEF IInv
  <2>. QED BY <2>1, <2>2, <2>3, <2>4, <2>5, <2>6 DEF IInv
<1>. QED BY <1>1

LEMMA Inductive == Spec => []IInv
BY InitIInv, NextIInv, PTL DEF Spec

(* Every command runs a well-formed plan: what opens the store comes before *)
(* what works on it, a header or an active RPC is followed by what it is    *)
(* written for, and a step that rests on a check has it behind it.          *)
THEOREM TypeSafe == Spec => []TypeInv
<1>1. IInv => TypeInv
  BY DEF IInv
<1>. QED BY <1>1, Inductive, PTL

(* What was written can always be read by whoever has the password, crashes *)
(* in the middle of a first unlock or of change_password included.          *)
THEOREM KeySafe == Spec => []OneKey
<1>1. IInv => OneKey
  BY DEF IInv, KeyInv
<1>. QED BY <1>1, Inductive, PTL

(* A command that asks for no password comes within the session of an       *)
(* unlock, and a phrase is not revealed on the session's word alone.        *)
THEOREM LockSafe == Spec => []LockHolds
<1>1. ASSUME IInv PROVE LockHolds
  <2>1. ASSUME NEW q \in Procs, cmd[q] # NoCommand
        PROVE  /\ alone /\ cmd[q].by = "session" => cmd[q].live
               /\ cmd[q].kind = "reveal" /\ cmd[q].key # None => cmd[q].by = "user"
    <3>1. Formed(cmd[q])
      BY <1>1, <2>1, CommandFacts DEF IInv, TypeInv, CmdType
    <3>. QED BY <1>1, <2>1, <3>1 DEF IInv, SessionInv, Formed
  <2>. QED BY <2>1 DEF LockHolds
<1>. QED BY <1>1, Inductive, PTL

(* A list of RPC configs always has an active one, which is the one that is *)
(* used unless the command that added it was interrupted or met another.    *)
THEOREM ActiveSafe == Spec => []ActiveInUse
<1>1. ASSUME IInv PROVE ActiveInUse
  <2>1. ASSUME NEW p \in Places, NEW k \in Keys, data[p][k].rpcs # <<>>
        PROVE  /\ data[p][k].active # None
               /\ alone /\ ~ crashed => Endpoint(data[p][k]) = data[p][k].active
    <3>1. alone /\ ~ crashed => Contains(data[p][k].rpcs, data[p][k].active)
      BY <1>1, <2>1 DEF IInv, RpcInv, InUse
    <3>. QED BY <1>1, <2>1, <3>1 DEF IInv, ActiveInv, Endpoint
  <2>. QED BY <2>1 DEF ActiveInUse
<1>. QED BY <1>1, Inductive, PTL

(* What a profile opted into is registered, though a command is interrupted *)
(* between the two, as long as no two commands met.                         *)
THEOREM OptedSafe == Spec => []OptedIsRegistered
<1>1. IInv => OptedIsRegistered
  BY DEF IInv, ListInv, OptedIsRegistered
<1>. QED BY <1>1, Inductive, PTL

(* An indexer is on only with a URL, no bundler is listed twice and the last *)
(* one of a network with defaults stays, however commands that write what    *)
(* they made of an old list meet.                                            *)
THEOREM ServicesSafe == Spec => []ServicesUsable
<1>1. ASSUME IInv PROVE ServicesUsable
  <2>1. ASSUME NEW p \in Places, NEW k \in Keys PROVE Usable(p, data[p][k])
    <3>1. /\ Good(p, "bundlers", data[p][k].bundlers) /\ Good(p, "indexer", data[p][k].indexer)
      BY <1>1 DEF IInv, ServiceInv, Records
    <3>. QED BY <3>1 DEF Usable, Good
  <2>. QED BY <2>1 DEF ServicesUsable
<1>. QED BY <1>1, Inductive, PTL

(* A balance that is called complete leaves nothing out that its profile     *)
(* holds of what it tracks, and none says more unless the vault listed a     *)
(* note twice, whichever vaults were read and in whatever order their        *)
(* amounts, each of which may be the largest, are added up.                  *)
THEOREM BalancesSafe == Spec => []TotalsExact
<1>1. IInv => TotalsExact
  BY DEF IInv
<1>. QED BY <1>1, Inductive, PTL
=============================================================================
