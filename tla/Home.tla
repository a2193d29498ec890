-------------------------------- MODULE Home --------------------------------
(***************************************************************************)
(* The wallet's home: the encrypted stores of a data directory             *)
(* (database/encrypted.rs, instance/mod.rs, instance/data_dir.rs), the     *)
(* session between commands (session.rs, unlock.rs, global_args.rs) and    *)
(* the commands that configure an opened wallet (Settings).                *)
(*                                                                         *)
(* Every command is the list of the steps it still has to take, and each   *)
(* step is one access to a store: those of two commands interleave, and a  *)
(* command may end after any of them.                                      *)
(***************************************************************************)
EXTENDS Settings

CONSTANTS
    Procs,        \* processes that run commands
    Commands,     \* what they may be asked for
    Starts,       \* what the home may hold at first
    TTL,          \* how many ticks a session lives after its last use
    MaxTicks,     \* bound on the ticks
    MaxCommands   \* bound on the commands, and on the keys of stores

Keys == 1 .. MaxCommands + Cardinality(Places)

Words == {None, "publicnode"} \cup UNION {{r.arg, r.typed, r.env} : r \in Commands}
Sessions == [place : Places, password : Words, left : Nat]
Headers == [password : Words, key : Keys]
Kinds == {"unlock", "lock", "reveal"} \cup DOMAIN RpcWork \cup DOMAIN BundlerWork
           \cup DOMAIN IndexerWork
           \cup {"opt_in", "opt_out", "view", "balance", "change_password"}

Urls == Words \cup {"pimlico"}
Indexers == [url : Words \cup {"saga"}, enabled : BOOLEAN]
Assets == {"eth"} \cup DefaultAssets \cup Words

(* The services of a wallet: an indexer that is on, bundlers to send to.    *)
Usable(place, r) ==
    /\ r.indexer # None /\ r.indexer.enabled => r.indexer.url # None
    /\ r.bundlers # None => IsInjective(r.bundlers)
    /\ place \in Presets /\ r.bundlers # None => r.bundlers # <<>>

(* Records as commands leave them when each is over before the next begins. *)
Settled(place, r) ==
    /\ DOMAIN r = DOMAIN NoRecords /\ r.rpcs \in Seq(Words) /\ r.in \subseteq Words
    /\ r.bundlers \in {None} \cup Seq(Urls) /\ r.indexer \in {None} \cup Indexers
    /\ Usable(place, r)
    /\ IF r.rpcs = <<>> THEN r.active = None
       ELSE r.active # None /\ Contains(r.rpcs, r.active)
    /\ Unregistered(place, r, r.in) = {}

(* A home at first: empty, or as an earlier session of the wallet left it. *)
Found(s) ==
    /\ s.files \subseteq Places /\ s.header \in [Places -> {None} \cup Headers]
    /\ s.session # None => s.session \in Sessions /\ s.session.left = TTL
    /\ DOMAIN s.data = Places
    /\ \A p \in Places :
         /\ DOMAIN s.data[p] = Keys
         /\ \A k \in Keys :
              /\ Settled(p, s.data[p][k])
              /\ s.data[p][k] # NoRecords => s.header[p] # None /\ s.header[p].key = k

(* An RPC config has a name and an indexer a URL, no value is another's, and *)
(* every asset is held in some amount.                                       *)
ASSUME HomeAssumption ==
    /\ TTL \in Nat /\ MaxCommands \in Nat /\ IsFiniteSet(Places)
    /\ None \notin Nat \cup Sessions \cup Headers \cup DOMAIN NoRecords
                     \cup {"publicnode", "session", "saga"}
    /\ None \notin Seq(Urls) /\ None \notin Indexers /\ Refused \notin Seq(Words)
    /\ \A r \in Commands :
         /\ r.kind \in Kinds /\ r.place \in Places
         /\ r.kind \in DOMAIN RpcWork \cup {"indexer_url"} => r.arg # None
    /\ \A s \in Starts : Found(s)
    /\ IsFiniteSet(DOMAIN Holdings) /\ IsFiniteSet(Notes)
    /\ \A v \in DOMAIN Holdings, a \in Assets : Holdings[v][a] \in 0 .. MaxAmount
    /\ \A n \in Notes : n.amount \in 0 .. MaxAmount /\ n.pending \in BOOLEAN
    /\ \A l \in Listings : l \in Seq(Notes) /\ Range(l) = Notes

VARIABLES
    files,      \* the places whose directory holds a file
    header,     \* the header of a store: its password slot, wrapping a data key
    data,       \* its records, which can only be found under their data key
    session,    \* the session record
    cmd,        \* the command of a process
    begun,      \* how many commands there have been
    key,        \* the last data key that was drawn
    ticks,      \* clock ticks so far
    balance,    \* the last balance reported; history: it read a list with each note once
    granted,    \* history: the session was unlocked, and used since in time
    idle,       \* history: ticks since the session was used
    alone,      \* history: no two commands overlapped
    crashed,    \* history: a command ended before its last step
    contested   \* history: places that two commands created at once

store == <<files, header, data>>
history == <<granted, idle, alone, crashed, contested>>
vars == <<store, session, cmd, begun, key, ticks, balance, history>>

NoCommand == [kind |-> "none", todo |-> <<>>]
-----------------------------------------------------------------------------
(* Commands. *)

Lock == <<"forget">>
Start(r) ==
    CASE r.kind = "unlock" -> <<"load", "password">>
      [] r.kind = "lock"   -> Lock
      [] r.kind = "reveal" -> <<"load", "reveal">>
      [] OTHER             -> <<"load", "held">>

Begin(q, r) ==
    /\ cmd[q] = NoCommand /\ begun < MaxCommands
    /\ begun' = begun + 1
    /\ cmd' = [cmd EXCEPT ![q] =
         [todo |-> Start(r), kind |-> r.kind, arg |-> r.arg, place |-> r.place,
          typed |-> r.typed, env |-> r.env, session |-> None, password |-> None,
          key |-> None, seen |-> NoRecords, read |-> FALSE, by |-> None, live |-> FALSE, had |-> FALSE]]
    /\ alone' = (alone /\ \A p \in Procs : cmd[p] = NoCommand)
    /\ UNCHANGED <<store, session, key, ticks, balance, granted, idle, crashed, contested>>

At(q, step) == cmd[q].todo # <<>> /\ cmd[q].todo[1] = step
GoOn(q, c, todo) == cmd' = [cmd EXCEPT ![q] = [c EXCEPT !.todo = todo]]
Advance(q, c) == GoOn(q, c, Tail(c.todo))
Insert(q, c, steps) == GoOn(q, c, steps \o Tail(c.todo))
OnlyCmd == UNCHANGED <<store, session, begun, key, ticks, balance, history>>

(* The end of a command, of its process, or of the power. *)
End(q) ==
    /\ cmd[q] # NoCommand
    /\ cmd' = [cmd EXCEPT ![q] = NoCommand]
    /\ crashed' = (crashed \/ cmd[q].todo # <<>>)
    /\ UNCHANGED <<store, session, begun, key, ticks, balance, granted, idle, alone, contested>>

-----------------------------------------------------------------------------
(* The session. *)

(* load: an expired session is removed, a live one is written again. *)
LoadRenewing(q) ==
    /\ At(q, "load")
    /\ LET c == [cmd[q] EXCEPT !.session = session, !.live = granted]
       IN  IF session = None THEN Advance(q, c) ELSE Insert(q, c, <<"renew", "present">>)
    /\ OnlyCmd
Load(q) ==
    /\ At(q, "load")
    /\ LET c == [cmd[q] EXCEPT !.session = session, !.live = granted]
       IN  IF session = None THEN Advance(q, c)
           ELSE IF session.left = 0 THEN Insert(q, [c EXCEPT !.session = None], <<"forget">>)
           ELSE Insert(q, c, <<"renew", "present">>)
    /\ OnlyCmd

(* A renewal that fails is ignored. *)
Renew(q) ==
    /\ At(q, "renew")
    /\ \/ /\ session' = [cmd[q].session EXCEPT !.left = TTL]
          /\ granted' = (cmd[q].live /\ session # None) /\ idle' = 0
       \/ UNCHANGED <<session, granted, idle>>
    /\ Advance(q, cmd[q])
    /\ UNCHANGED <<store, begun, key, ticks, balance, alone, crashed, contested>>

(* load_if_present: a session for an instance that was removed is deleted. *)
Present(q) ==
    /\ At(q, "present")
    /\ LET c == cmd[q]
       IN  IF c.session.place \in files THEN Advance(q, c)
           ELSE Insert(q, [c EXCEPT !.session = None], <<"forget">>)
    /\ OnlyCmd

(* A removal that fails ends its command, but load, which ignores it, does not. *)
AfterLoad == {"held", "reveal", "password", "same"}
Forget(q) ==
    /\ At(q, "forget")
    /\ \/ session' = None /\ granted' = FALSE
       \/ /\ Len(cmd[q].todo) > 1 /\ cmd[q].todo[2] \in AfterLoad
          /\ UNCHANGED <<session, granted>>
    /\ Advance(q, cmd[q])
    /\ UNCHANGED <<store, begun, key, ticks, balance, idle, alone, crashed, contested>>

Hold(q) ==
    /\ At(q, "hold")
    /\ session' = [place |-> cmd[q].place, password |-> cmd[q].password, left |-> TTL]
    /\ granted' = TRUE /\ idle' = 0
    /\ Advance(q, cmd[q])
    /\ UNCHANGED <<store, begun, key, ticks, balance, alone, crashed, contested>>

(* A session that cannot be kept: `unlock` then removes the one there was. *)
HoldFails(q) ==
    /\ At(q, "hold")
    /\ IF cmd[q].had THEN Insert(q, cmd[q], <<"forget">>) ELSE Advance(q, cmd[q])
    /\ OnlyCmd

Tick ==
    /\ ticks < MaxTicks /\ ticks' = ticks + 1
    /\ session' = IF session = None \/ session.left = 0 THEN session
                  ELSE [session EXCEPT !.left = @ - 1]
    /\ idle' = idle + 1 /\ granted' = (granted /\ idle' < TTL)
    /\ UNCHANGED <<store, cmd, begun, key, balance, alone, crashed, contested>>

-----------------------------------------------------------------------------
(* Opening: through the session, the environment's password, or a prompt. *)

Instances(dir) == {p \in files : p.dir = dir}

Held(q) ==
    /\ At(q, "held")
    /\ LET c == cmd[q]
       IN  IF c.session # None /\ c.session.place.dir = c.place.dir
           THEN Insert(q, [c EXCEPT !.place = c.session.place, !.password = c.session.password,
                                    !.by = "session"], <<"open", "opened", "work">>)
           ELSE Insert(q, c, <<"choose">>)
    /\ OnlyCmd

(* The only instance of the directory, or the one that is picked. *)
Choose(q) ==
    /\ At(q, "choose")
    /\ LET c == cmd[q]
           password == IF c.env # None THEN c.env ELSE c.typed
       IN  /\ password # None
           /\ \E p \in Instances(c.place.dir) :
                Insert(q, [c EXCEPT !.place = p, !.password = password, !.by = "user"],
                       <<"open", "opened">> \o (IF c.env # None THEN <<>> ELSE <<"hold">>)
                                            \o <<"work">>)
    /\ OnlyCmd

Opens(c) == header[c.place] # None /\ header[c.place].password = c.password

(* A session whose password no longer opens the store is removed. *)
Open(q) ==
    /\ At(q, "open") /\ cmd[q].place \in files /\ header[cmd[q].place] # None
    /\ LET c == cmd[q]
       IN  \/ Opens(c) /\ Advance(q, [c EXCEPT !.key = header[c.place].key])
           \/ /\ ~Opens(c) /\ c.by = "session"
              /\ GoOn(q, [c EXCEPT !.session = None, !.by = None], <<"forget", "choose">>)
    /\ OnlyCmd

(* The session says which instance's phrase to reveal, but does not open it: *)
(* "An unlocked session alone must not be enough to read the phrase."        *)
Reveal(q) ==
    /\ At(q, "reveal") /\ cmd[q].typed # None
    /\ LET c == [cmd[q] EXCEPT !.password = cmd[q].typed, !.by = "user"]
       IN  IF c.session # None /\ c.session.place.dir = c.place.dir
           THEN Insert(q, [c EXCEPT !.place = c.session.place], <<"open", "opened">>)
           ELSE \E p \in Instances(c.place.dir) :
                  Insert(q, [c EXCEPT !.place = p], <<"open", "opened">>)
    /\ OnlyCmd

(* The password for unlock: from the environment, a session that is not stale, *)
(* or the prompt.                                                              *)
Password(q) ==
    /\ At(q, "password")
    /\ LET c == cmd[q]
       IN  IF c.env # None
           THEN Insert(q, [c EXCEPT !.password = c.env, !.by = "user", !.had = c.session # None],
                       <<"exists">>)
           ELSE Insert(q, [c EXCEPT !.had = c.session # None], <<"load", "same">>)
    /\ OnlyCmd

Same(q) ==
    /\ At(q, "same")
    /\ LET c == cmd[q]
       IN  IF c.session # None /\ c.session.place = c.place
           THEN LET d == [c EXCEPT !.password = c.session.password]
                IN  IF c.place \in files /\ header[c.place] # None /\ ~Opens(d)
                    THEN Insert(q, c, <<"forget", "typed">>)
                    ELSE Insert(q, [d EXCEPT !.by = "session"], <<"exists">>)
           ELSE Insert(q, c, <<"typed">>)
    /\ OnlyCmd

Typed(q) ==
    /\ At(q, "typed") /\ cmd[q].typed # None
    /\ Insert(q, [cmd[q] EXCEPT !.password = cmd[q].typed, !.by = "user"], <<"exists">>)
    /\ OnlyCmd

(* open_or_create looks once whether there is an instance, and installs the *)
(* defaults only if there was none.                                         *)
Exists(q) ==
    /\ At(q, "exists")
    /\ LET c == cmd[q]
       IN  IF c.place \in files THEN Insert(q, c, <<"unlock", "network", "hold">>)
           ELSE Insert(q, [c EXCEPT !.arg = "publicnode"],
                       <<"create", "temp", "header", "network">>
                         \o Defaults(c.place) \o <<"hold">>)
    /\ OnlyCmd

Unlock(q) ==
    /\ At(q, "unlock") /\ Opens(cmd[q])
    /\ Advance(q, [cmd[q] EXCEPT !.key = header[cmd[q].place].key])
    /\ OnlyCmd

-----------------------------------------------------------------------------
(* The header of a store, with its one slot: the data key under a password. *)

Header(c) == [password |-> c.password, key |-> c.key]
Writing(q, place) == \E s \in {"temp", "header"} : At(q, s) /\ cmd[q].place = place

Create(q) ==
    /\ At(q, "create") /\ header[cmd[q].place] = None
    /\ key' = key + 1 /\ key' \in Keys
    /\ Advance(q, [cmd[q] EXCEPT !.key = key'])
    /\ contested' = IF \E p \in Procs \ {q} : Writing(p, cmd[q].place)
                    THEN contested \cup {cmd[q].place} ELSE contested
    /\ UNCHANGED <<store, session, begun, ticks, balance, granted, idle, alone, crashed>>

(* The file is there before it has the header's name. *)
PutTemp(q) ==
    /\ At(q, "temp")
    /\ files' = files \cup {cmd[q].place}
    /\ Advance(q, cmd[q])
    /\ UNCHANGED <<header, data, session, begun, key, ticks, balance, history>>

PutHeader(q) ==
    /\ At(q, "header")
    /\ header' = [header EXCEPT ![cmd[q].place] = Header(cmd[q])]
    /\ Advance(q, cmd[q])
    /\ UNCHANGED <<files, data, session, begun, key, ticks, balance, history>>

(* change_password wraps the key the store was opened with. *)
RewrapFresh(q) ==
    /\ At(q, "rewrap") /\ header[cmd[q].place] # None
    /\ key' = key + 1
    /\ Advance(q, [cmd[q] EXCEPT !.password = cmd[q].arg, !.key = key'])
    /\ UNCHANGED <<store, session, begun, ticks, balance, history>>
Rewrap(q) ==
    /\ At(q, "rewrap") /\ header[cmd[q].place] # None
    /\ Advance(q, [cmd[q] EXCEPT !.password = cmd[q].arg])
    /\ OnlyCmd

(* The user removes the directory of an instance. *)
RemoveInstance(p) ==
    /\ p \in files /\ \A q \in Procs : cmd[q] = NoCommand
    /\ begun < MaxCommands /\ begun' = begun + 1
    /\ files' = files \ {p} /\ header' = [header EXCEPT ![p] = None]
    /\ data' = [data EXCEPT ![p] = [k \in Keys |-> NoRecords]]
    /\ UNCHANGED <<session, cmd, key, ticks, balance, history>>

-----------------------------------------------------------------------------
(* The records of an opened store. *)

DoWork(q) ==
    /\ At(q, "work")
    /\ Insert(q, cmd[q], Work(cmd[q].kind, cmd[q].place, cmd[q].arg))
    /\ OnlyCmd

Sealed(place, k) == data[place][k]
Value(c, record) == Sealed(c.place, c.key)[record]
Made(c, v) == Update(c.todo[1], c.place, c.arg, c.seen, v)
OnRecord(q) == cmd[q].todo # <<>> /\ RecordOf(cmd[q].todo[1]) # None

(* A step that leaves its record alone is over when it has read it, and one *)
(* that refuses ends its command.                                           *)
Look(q) ==
    /\ OnRecord(q) /\ cmd[q].todo[1] \notin Blind /\ ~cmd[q].read
    /\ LET c == cmd[q]
           record == RecordOf(c.todo[1])
           v == Value(c, record)
           d == [c EXCEPT !.seen[record] = Made(c, v)]
       IN  IF Made(c, v) = Refused THEN GoOn(q, c, <<>>)
           ELSE IF Made(c, v) = v THEN Advance(q, d)
           ELSE cmd' = [cmd EXCEPT ![q] = [d EXCEPT !.read = TRUE]]
    /\ OnlyCmd

Put(q) ==
    /\ OnRecord(q) /\ (cmd[q].read \/ cmd[q].todo[1] \in Blind)
    /\ LET c == cmd[q]
           record == RecordOf(c.todo[1])
           v == IF c.todo[1] \in Blind THEN Made(c, None) ELSE c.seen[record]
       IN  \/ v = Refused /\ GoOn(q, c, <<>>) /\ UNCHANGED data
           \/ /\ v # Refused
              /\ data' = [data EXCEPT ![c.place][c.key][record] = v]
              /\ Advance(q, [c EXCEPT !.read = FALSE])
    /\ UNCHANGED <<files, header, session, begun, key, ticks, balance, history>>

(* Vaults may fail to be built or read, and Tornado may fail. *)
ReportBalance(q) ==
    /\ At(q, "balance")
    /\ \E read \in SUBSET DOMAIN Holdings, tornado \in BOOLEAN, listed \in Listings :
         balance' = [complete |-> Complete(read, tornado), once |-> IsInjective(listed),
                     assets   |-> [a \in TrackedAssets(cmd[q].place, cmd[q].seen) |->
                                     Report(read, tornado, a, listed)]]
    /\ Advance(q, cmd[q])
    /\ UNCHANGED <<store, session, begun, key, ticks, history>>

-----------------------------------------------------------------------------
Init ==
    /\ \E s \in Starts :
         files = s.files /\ header = s.header /\ data = s.data /\ session = s.session
    /\ cmd = [q \in Procs |-> NoCommand] /\ begun = 0 /\ ticks = 0 /\ balance = None
    /\ key = Cardinality(files) /\ granted = (session # None) /\ idle = 0
    /\ alone = TRUE /\ crashed = FALSE /\ contested = {}

Step(q) ==
    \/ End(q) \/ Load(q) \/ Renew(q) \/ Present(q) \/ Forget(q) \/ Hold(q) \/ HoldFails(q)
    \/ Held(q) \/ Choose(q) \/ Open(q) \/ Reveal(q) \/ Password(q) \/ Same(q) \/ Typed(q)
    \/ Exists(q) \/ Unlock(q) \/ Create(q) \/ PutTemp(q) \/ PutHeader(q) \/ Rewrap(q)
    \/ DoWork(q) \/ Look(q) \/ Put(q) \/ ReportBalance(q)

Next ==
    \/ \E q \in Procs, r \in Commands : Begin(q, r)
    \/ \E q \in Procs : Step(q)
    \/ \E p \in Places : RemoveInstance(p)
    \/ Tick

Spec == Init /\ [][Next]_vars
-----------------------------------------------------------------------------
(* Properties. *)

(* Whatever was written can be read by whoever has the password: the header *)
(* wraps the key the records are under, after a crash in the middle of a    *)
(* first unlock or of change_password too, unless two processes created the *)
(* store at once.                                                           *)
OneKey ==
    \A p \in Places \ contested, k \in Keys :
      data[p][k] # NoRecords => header[p] # None /\ header[p].key = k

(* A command that needs no password from its user comes within the session  *)
(* of an unlock, not after a lock or the end of the session's time, wherever *)
(* commands before it were interrupted; and a store whose phrase is revealed *)
(* was opened with a password, of which the session knows nothing.          *)
LockHolds ==
    \A q \in Procs : cmd[q] # NoCommand =>
      /\ alone /\ cmd[q].by = "session" => cmd[q].live
      /\ cmd[q].kind = "reveal" /\ cmd[q].key # None => cmd[q].by = "user"

(* A list of RPC configs always has an active one, which is the one in use  *)
(* unless the command that added it was interrupted or met another.         *)
ActiveInUse ==
    \A p \in Places, k \in Keys :
      LET r == data[p][k]
      IN  r.rpcs # <<>> =>
            /\ r.active # None
            /\ alone /\ ~crashed => Endpoint(r) = r.active

(* An indexer is on only with a URL, no bundler is listed twice, and the     *)
(* last one stays, although a command writes what it made of a list that     *)
(* others may have written since it read it.                                 *)
ServicesUsable == \A p \in Places, k \in Keys : Usable(p, data[p][k])

(* What a profile opted into is registered, or every command that reads its *)
(* assets would fail from then on.                                          *)
OptedIsRegistered ==
    alone => \A p \in Places, k \in Keys : Unregistered(p, data[p][k], data[p][k].in) = {}

(* A balance called complete leaves nothing out that the profile holds of    *)
(* what it tracks, and no balance says more than is held, unless the vault   *)
(* listed a note twice (TornadoVault's NotesListedOnce, which fails): then a *)
(* balance called complete does say more.                                    *)
TotalsExact ==
    balance # None => \A a \in DOMAIN balance.assets :
      LET held == SumOver([v \in DOMAIN Holdings |-> Holdings[v][a]], DOMAIN Holdings)
          noted == SumOver([n \in Notes |-> n.amount], {n \in Notes : n.asset = a})
          r == balance.assets[a]
          said == SaturatingAdd(r.public, SaturatingAdd(r.spendable, r.pending))
          true == SaturatingAdd(held, noted)
      IN  (balance.complete => said >= true) /\ (balance.once => said <= true)
=============================================================================
