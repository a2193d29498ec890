----------------------------- MODULE Broadcasts -----------------------------
(***************************************************************************)
(* Everything an account of the wallet signs for the chain: broadcast.rs,  *)
(* executor/, delegate/, vault/simple/ with the SimpleDelegate contract,   *)
(* and the commands `shield` and `transfer` from an account.               *)
(*                                                                         *)
(* A command is the list of the steps it still has to take, each of them   *)
(* one request or one write.  What it sends may be mined at once, much     *)
(* later or never, and other commands of the same accounts go on           *)
(* meanwhile: a nonce, a delegation or a balance may be stale when used.   *)
(***************************************************************************)
EXTENDS Amounts, Bags

CONSTANTS
    Accounts,    \* accounts of the wallet
    Simple,      \* the SimpleDelegate implementation
    Other,       \* the implementation user operations run on (Simple7702)
    None,        \* no value
    Procs,       \* processes that run commands
    Commands,    \* what they may be asked for
    Pools,       \* the pools of the chain
    Starts,      \* what the accounts may be at first
    MaxCommands  \* bound on the commands

Kinds == {"batch", "executor", "vault", "transfer", "shield"}
Authorizations == [account : Accounts, to : {Simple, Other}, nonce : Nat]

(* The records are those of one executor, so one account is drawn for them.  *)
ASSUME BroadcastsAssumption ==
    /\ MaxCommands \in Nat /\ Simple # Other
    /\ None \notin {Simple, Other} /\ None \notin Accounts
    /\ None \notin Nat /\ None \notin BOOLEAN /\ None \notin Authorizations
    /\ \A r \in Commands : r.kind \in Kinds /\ r.context \in Accounts /\ r.payer \in Accounts
    /\ \A r \in Commands : r.amount \in Nat /\ r.named \in Seq(Nat)
    /\ Pools \in Seq(Range(Pools)) /\ \A p \in Range(Pools) : p.value \in Nat /\ p.value > 0
    /\ \A r, s \in Commands : r.from = "random" /\ s.from = "random" => r.context = s.context
    /\ \A s \in Starts :
         s.nonce \in [Accounts -> Nat] /\ s.delegate \in [Accounts -> {None, Simple, Other}]

VARIABLES
    count,      \* the transaction count of an account
    delegate,   \* the implementation it delegates to
    nonce,      \* the nonce in its SimpleDelegate storage
    opNonce,    \* its nonce at the entry point
    held,       \* what it holds
    pending,    \* transactions and user operations that may still be included
    mined,      \* those that have been, with what became of them
    db,         \* the records of an executor or a simple vault
    cmd,        \* the command of a process
    asked,      \* what the commands so far were asked for
    ran,        \* history: the calls that took effect, as a bag
    said,       \* history: what a command told its user
    overlapped  \* history: commands that were not alone

chain == <<count, delegate, nonce, opNonce, held, mined, ran>>
vars == <<chain, pending, db, cmd, asked, said, overlapped>>

Idle == [todo |-> <<>>, kind |-> "idle"]

-----------------------------------------------------------------------------
(* The chain. *)

(* An authorisation applies at the signer's nonce after the sender's moved. *)
Applies(t) ==
    t.auth # None /\ t.auth.nonce = count[t.auth.account]
                                    + (IF t.from = t.auth.account THEN 1 ELSE 0)
CodeFor(t, a) == IF Applies(t) /\ t.auth.account = a THEN t.auth.to ELSE delegate[a]

Affords(t) == \A unit \in {"eth", "token"} : t.value[unit] <= held[t.payer][unit]

(* What may become of a transaction's call.  A batch that reaches an account *)
(* without code succeeds, and does nothing.  The signature of a batch is     *)
(* over its calls and a nonce: executeBatch runs all of them or none, and    *)
(* only at that nonce.                                                       *)
SignedFor(t) == t.at = nonce[t.account]
BatchOutcomes(t) ==
    LET code == CodeFor(t, t.account)
    IN  CASE code = None -> {"nothing"}
          [] code = Other -> {"nothing", "reverted"}
          [] code = Simple /\ SignedFor(t) -> {"done", "reverted"}
          [] OTHER -> {"reverted"}
Outcomes(t) ==
    CASE t.kind = "none"  -> {"nothing"}
      [] t.kind = "batch" -> BatchOutcomes(t)
      [] OTHER -> IF Affords(t) THEN {"done", "reverted"} ELSE {"reverted"}

Take(t) ==
    /\ ran' = ran (+) SetToBag({t.cmd} \X t.calls)
    /\ held' = [held EXCEPT ![t.payer] = [eth   |-> @.eth - t.value.eth,
                                         token |-> @.token - t.value.token]]

NonceUnmoved(t, outcome) == nonce
NextNonce(t, outcome) ==
    IF t.kind = "batch" /\ outcome = "done" THEN [nonce EXCEPT ![t.account] = @ + 1]
    ELSE nonce

Effect(t, outcome) ==
    /\ nonce' = NextNonce(t, outcome)
    /\ IF outcome = "done" THEN Take(t) ELSE UNCHANGED <<ran, held>>

(* The delegation stays even when the call reverts. *)
Mine(t) ==
    /\ t.kind # "op" /\ t.nonce = count[t.from]
    /\ \E outcome \in Outcomes(t) :
         /\ Effect(t, outcome)
         /\ mined' = mined \cup {[tx |-> t, outcome |-> outcome]}
    /\ count' = [a \in Accounts |->
                   count[a] + (IF a = t.from THEN 1 ELSE 0)
                            + (IF Applies(t) /\ a = t.auth.account THEN 1 ELSE 0)]
    /\ delegate' = IF Applies(t) THEN [delegate EXCEPT ![t.auth.account] = t.auth.to]
                   ELSE delegate
    /\ pending' = pending \ {t}
    /\ UNCHANGED <<opNonce, db, cmd, asked, said, overlapped>>

(* A bundler includes an operation that validates. *)
IncludeOp(t) ==
    /\ t.kind = "op" /\ t.nonce = opNonce[t.payer] /\ CodeFor(t, t.payer) = Other
    /\ \E outcome \in {"done", "reverted"} :
         /\ outcome = "done" => Affords(t)
         /\ Effect(t, outcome)
         /\ mined' = mined \cup {[tx |-> t, outcome |-> outcome]}
    /\ opNonce' = [opNonce EXCEPT ![t.payer] = @ + 1]
    /\ count' = [count EXCEPT ![t.payer] = @ + (IF Applies(t) THEN 1 ELSE 0)]
    /\ delegate' = [delegate EXCEPT ![t.payer] = Other]
    /\ pending' = pending \ {t}
    /\ UNCHANGED <<db, cmd, asked, said, overlapped>>

(* A signed batch is public once sent, and anyone may submit it. *)
Sent == pending \cup {m.tx : m \in mined}

Relay(t) ==
    /\ t.kind = "batch" /\ delegate[t.account] = Simple /\ SignedFor(t)
    /\ Effect(t, "done")
    /\ UNCHANGED <<count, delegate, opNonce, mined, pending, db, cmd, asked, said, overlapped>>

-----------------------------------------------------------------------------
(* Commands. *)

PlannedPools(r) ==
    LET pools == AssetPools(Pools, r.eth, r.classic)
        named == NamedPools(r.named, pools)
    IN  CASE r.named = <<>> -> DepositPools(r.amount, pools)
          [] r.named # <<>> /\ r.amount \in {0, Total(named)} -> named
          [] OTHER -> <<>>

Value(eth, amount) ==
    [eth |-> IF eth THEN amount ELSE 0, token |-> IF eth THEN 0 ELSE amount]

(* choose_funded_payer lists the accounts that check_balances will accept. *)
Funded(a, eth, amount) ==
    /\ held[a].eth > (IF eth THEN amount ELSE 0)
    /\ (IF eth THEN held[a].eth ELSE held[a].token) >= amount
Enough(c) ==
    LET a == c.payer
    IN  held[a].token >= c.value.token /\ held[a].eth > c.value.eth

(* A deposit of tokens is an approval and the deposit. *)
Calls(r, pools) ==
    CASE r.kind # "shield" -> {<<1, "call">>}
      [] r.kind = "shield" /\ r.eth -> (DOMAIN pools) \X {"deposit"}
      [] OTHER -> (DOMAIN pools) \X {"approve", "deposit"}

SendCall == <<"pick", "fill", "send", "mined">>

(* Several calls are one user operation, or none of them might follow. *)
BroadcastOverTwo(calls) ==
    IF Cardinality(calls) > 2 THEN <<"build", "send_op", "receipt">>
    ELSE FlattenSeq([i \in 1 .. Cardinality(calls) |-> SendCall])
Broadcast(calls) ==
    IF \E x \in calls : calls = {x} THEN SendCall ELSE <<"build", "send_op", "receipt">>

SignerFrom(r) ==
    CASE r.from = "random" -> <<"put_key">>
      [] r.from = "context" -> <<"rebuild">>
      [] OTHER -> <<>>

BuildExecutor == <<"persist", "put_implementation", "authorize_if_missing", "check">>
Execute == <<"nonce", "fill", "send", "await">>

BuildVault == <<"persist", "check", "put_implementation">>
Withdraw == <<"nonce", "fill", "send", "mined">>

Transfer(r) ==
    IF r.eth THEN <<"pick", "covers", "fill", "confirm", "send", "mined">>
    ELSE <<"pick", "simulate", "covers", "fill", "confirm", "send", "mined">>

Steps(r, calls) ==
    CASE r.kind = "batch"    -> <<"delegation">>
      [] r.kind = "executor" -> SignerFrom(r) \o BuildExecutor \o Execute
      [] r.kind = "vault"    -> SignerFrom(r) \o BuildVault \o Withdraw
      [] r.kind = "transfer" -> Transfer(r)
      [] r.kind = "shield" /\ calls = {} -> <<"refused">>
      [] OTHER               -> <<"confirm", "balances">> \o Broadcast(calls)

(* Nothing else of the wallet is under way. *)
Alone == pending = {} /\ \A q \in Procs : cmd[q] = Idle

Begin(q, r) ==
    /\ cmd[q] = Idle /\ Len(asked) < MaxCommands
    /\ LET pools  == IF r.kind = "shield" THEN PlannedPools(r) ELSE <<>>
           amount == IF r.kind = "shield" THEN Total(pools) ELSE r.amount
           calls  == Calls(r, pools)
       IN  /\ r.offered => Funded(r.payer, r.eth, amount)
           /\ asked' = Append(asked, [kind |-> r.kind, calls |-> calls])
           /\ cmd' = [cmd EXCEPT ![q] =
                [todo |-> Steps(r, calls), kind |-> r.kind, id |-> Len(asked'), request |-> r,
                 context |-> r.context, payer |-> r.payer, pools |-> pools, calls |-> calls,
                 value |-> Value(r.eth, amount), picked |-> {},
                 auth |-> None, at |-> None, tx |-> None]]
    /\ overlapped' = IF Alone THEN overlapped
                     ELSE overlapped \cup {Len(asked')} \cup {t.cmd : t \in pending}
                          \cup {cmd[p].id : p \in {p \in Procs : cmd[p] # Idle}}
    /\ UNCHANGED <<chain, pending, db, said>>

At(q, step) == cmd[q].todo # <<>> /\ cmd[q].todo[1] = step
Then(q, c, todo) == cmd' = [cmd EXCEPT ![q] = [c EXCEPT !.todo = todo]]
Advance(q, c) == Then(q, c, Tail(c.todo))
OnlyCmd == UNCHANGED <<chain, pending, db, asked, said, overlapped>>

Tell(c, what) == said' = [said EXCEPT ![c.id] = what]

Finish(q) ==
    /\ cmd[q] # Idle /\ cmd[q].todo = <<>>
    /\ Tell(cmd[q], TRUE)
    /\ cmd' = [cmd EXCEPT ![q] = Idle]
    /\ UNCHANGED <<chain, pending, db, asked, overlapped>>

(* An error: of a request, a timeout, a refusal; or the end of the process. *)
Stop(q) ==
    /\ cmd[q].todo # <<>>
    /\ cmd' = [cmd EXCEPT ![q] = Idle]
    /\ \/ Tell(cmd[q], FALSE)
       \/ UNCHANGED said
    /\ UNCHANGED <<chain, pending, db, asked, overlapped>>

-----------------------------------------------------------------------------
(* The executor's and the simple vault's records. *)

SetDb(q, records) == db' = records /\ Advance(q, cmd[q])
OnlyDb == UNCHANGED <<chain, pending, asked, said, overlapped>>

PutKey(q) ==
    At(q, "put_key") /\ SetDb(q, [db EXCEPT !.key = cmd[q].context]) /\ OnlyDb

Rebuild(q) ==
    /\ At(q, "rebuild") /\ db.tag /\ db.implementation # None /\ db.key # None
    /\ Advance(q, [cmd[q] EXCEPT !.context = db.key,
                                 !.payer = IF cmd[q].kind = "executor" THEN db.key ELSE @])
    /\ OnlyCmd

(* A signer that the database cannot rebuild is refused. *)
PersistUnchecked(q) == At(q, "persist") /\ SetDb(q, [db EXCEPT !.tag = TRUE]) /\ OnlyDb
PersistAndRebuild(q) ==
    /\ At(q, "persist") /\ db.key = cmd[q].context
    /\ SetDb(q, [db EXCEPT !.tag = TRUE]) /\ OnlyDb

PutImplementation(q) ==
    At(q, "put_implementation") /\ SetDb(q, [db EXCEPT !.implementation = Simple]) /\ OnlyDb

CheckDelegate(q) ==
    At(q, "check") /\ delegate[cmd[q].context] = Simple /\ Advance(q, cmd[q]) /\ OnlyCmd

-----------------------------------------------------------------------------
(* Authorising, signing, filling, sending. *)

Installed(c) == delegate[c.context] = Simple
Self(c) == c.payer = c.context

(* authorize_if_missing does not look at the status of the receipt. *)
AuthorizeIfMissing(q) ==
    /\ At(q, "authorize_if_missing")
    /\ LET c == cmd[q]
       IN  Then(q, c, (IF Installed(c) THEN <<>> ELSE <<"authorize", "fill", "send", "await">>)
                      \o Tail(c.todo))
    /\ OnlyCmd

ReadDelegation(q) ==
    /\ At(q, "delegation")
    /\ LET c == cmd[q]
       IN  Then(q, c,
             CASE Installed(c) -> <<"nonce", "fill", "send", "mined">>
               [] ~Installed(c) /\ Self(c) ->
                    <<"authorize", "fill", "send", "mined", "nonce", "fill", "send", "mined">>
               [] OTHER -> <<"first_nonce", "authorize", "fill", "send", "mined">>)
    /\ OnlyCmd

AuthorizationAfter(c) == [account |-> c.context, to |-> Simple, nonce |-> count[c.context] + 1]
Authorization(c) ==
    [account |-> c.context, to |-> Simple,
     nonce   |-> count[c.context] + (IF Self(c) THEN 1 ELSE 0)]

Authorize(q) ==
    /\ At(q, "authorize")
    /\ Advance(q, [cmd[q] EXCEPT !.auth = Authorization(cmd[q])])
    /\ OnlyCmd

(* nonce() can be read where the delegate runs; elsewhere it decodes to an error. *)
ReadNonce(q) ==
    /\ At(q, "nonce") /\ Installed(cmd[q])
    /\ Advance(q, [cmd[q] EXCEPT !.at = nonce[cmd[q].context]])
    /\ OnlyCmd
FirstNonce(q) == At(q, "first_nonce") /\ Advance(q, [cmd[q] EXCEPT !.at = 0]) /\ OnlyCmd

Pick(q) ==
    /\ At(q, "pick")
    /\ \E x \in cmd[q].calls \ cmd[q].picked : Advance(q, [cmd[q] EXCEPT !.picked = {x}])
    /\ OnlyCmd

Tx(c) ==
    [cmd |-> c.id, from |-> c.payer, payer |-> IF c.at # None THEN c.context ELSE c.payer,
     nonce |-> count[c.payer], auth |-> c.auth, account |-> c.context, at |-> c.at,
     kind  |-> IF c.at # None THEN "batch" ELSE IF c.picked # {} THEN "call" ELSE "none",
     calls |-> IF c.at # None THEN c.calls ELSE c.picked,
     value |-> IF c.picked = c.calls THEN c.value ELSE Value(TRUE, 0)]

(* Gas is estimated against the latest block: a call that must revert is refused. *)
Fill(q) ==
    /\ At(q, "fill") /\ Outcomes(Tx(cmd[q])) # {"reverted"}
    /\ Advance(q, [cmd[q] EXCEPT !.tx = Tx(cmd[q])])
    /\ OnlyCmd

Send(q) ==
    /\ At(q, "send") /\ cmd[q].tx.nonce >= count[cmd[q].payer]
    /\ pending' = pending \cup {cmd[q].tx}
    /\ Advance(q, [cmd[q] EXCEPT !.auth = None])
    /\ UNCHANGED <<chain, db, asked, said, overlapped>>

Included(c, outcomes) == \E m \in mined : m.tx = c.tx /\ m.outcome \in outcomes

WaitMined(q) ==
    /\ At(q, "mined") /\ Included(cmd[q], {"done", "nothing"})
    /\ Advance(q, [cmd[q] EXCEPT !.tx = None]) /\ OnlyCmd
AwaitReceipt(q) ==
    /\ At(q, "await") /\ Included(cmd[q], {"done", "nothing", "reverted"})
    /\ Advance(q, [cmd[q] EXCEPT !.tx = None]) /\ OnlyCmd

-----------------------------------------------------------------------------
(* Shield and transfer. *)

Confirm(q) == At(q, "confirm") /\ Advance(q, cmd[q]) /\ OnlyCmd

CheckBalances(q) == At(q, "balances") /\ Enough(cmd[q]) /\ Advance(q, cmd[q]) /\ OnlyCmd

(* A transfer of tokens is simulated before it is filled. *)
Simulate(q) ==
    /\ At(q, "simulate") /\ held[cmd[q].payer].token >= cmd[q].value.token
    /\ Advance(q, cmd[q]) /\ OnlyCmd

(* The amount, and one unit of ETH for the gas at its highest price. *)
HighestCost(c) == c.value.eth + 1
Covers(q) ==
    /\ At(q, "covers") /\ held[cmd[q].payer].eth >= HighestCost(cmd[q])
    /\ Advance(q, cmd[q]) /\ OnlyCmd

(* The operation authorises its account unless that delegates already. *)
Build(q) ==
    /\ At(q, "build")
    /\ LET c == cmd[q]
           a == c.payer
       IN  Advance(q, [c EXCEPT !.tx =
             [cmd |-> c.id, from |-> None, payer |-> a, nonce |-> opNonce[a], kind |-> "op",
              auth |-> IF delegate[a] = Other THEN None
                       ELSE [account |-> a, to |-> Other, nonce |-> count[a]],
              account |-> a, at |-> None, calls |-> c.calls, value |-> c.value]])
    /\ OnlyCmd

(* Sending through the bundlers may fail after one of them took it (Stop). *)
SendOp(q) ==
    /\ At(q, "send_op")
    /\ pending' = pending \cup {cmd[q].tx}
    /\ \/ Advance(q, cmd[q]) /\ UNCHANGED said
       \/ /\ cmd' = [cmd EXCEPT ![q] = Idle]
          /\ Tell(cmd[q], FALSE)
    /\ UNCHANGED <<chain, db, asked, overlapped>>

Receipt(q) ==
    At(q, "receipt") /\ Included(cmd[q], {"done"}) /\ Advance(q, cmd[q]) /\ OnlyCmd

-----------------------------------------------------------------------------
Init ==
    /\ \E s \in Starts : held = s.held /\ delegate = s.delegate /\ nonce = s.nonce
    /\ count = [a \in Accounts |-> 0] /\ opNonce = [a \in Accounts |-> 0]
    /\ pending = {} /\ mined = {} /\ ran = EmptyBag
    /\ db = [key |-> None, tag |-> FALSE, implementation |-> None]
    /\ cmd = [q \in Procs |-> Idle] /\ asked = <<>>
    /\ said = [i \in 1 .. MaxCommands |-> None] /\ overlapped = {}

Step(q) ==
    \/ Finish(q) \/ Stop(q)
    \/ PutKey(q) \/ Rebuild(q) \/ PersistAndRebuild(q) \/ PutImplementation(q)
    \/ CheckDelegate(q) \/ AuthorizeIfMissing(q)
    \/ ReadDelegation(q) \/ Authorize(q) \/ ReadNonce(q) \/ FirstNonce(q)
    \/ Pick(q) \/ Fill(q) \/ Send(q) \/ WaitMined(q) \/ AwaitReceipt(q)
    \/ Confirm(q) \/ CheckBalances(q) \/ Simulate(q) \/ Covers(q)
    \/ Build(q) \/ SendOp(q) \/ Receipt(q)

Next ==
    \/ \E q \in Procs, r \in Commands : Begin(q, r)
    \/ \E q \in Procs : Step(q)
    \/ \E t \in pending : Mine(t) \/ IncludeOp(t)
    \/ \E t \in Sent : Relay(t)

Spec == Init /\ [][Next]_vars

-----------------------------------------------------------------------------
(* Properties. *)

RanOf(id) == {e[2] : e \in {e \in BagToSet(ran) : e[1] = id}}

(* No call of a command takes effect twice, whoever submits its batch again *)
(* and whatever else the account signs at the same delegate nonce.          *)
CallsRunOnce == \A e \in BagToSet(ran) : ran[e] = 1

(* The calls of one command take effect together or not at all: an approval *)
(* without its deposit, or some notes of a shield, are never left behind.   *)
AllOrNothing == \A id \in DOMAIN asked : RanOf(id) \in {{}, asked[id].calls}

(* A command that was alone and reported success has had its effect, but for *)
(* the executor's, whose receipts do not say whether the batch reverted.     *)
SuccessMeansRun ==
    \A id \in DOMAIN asked \ overlapped :
      said[id] = TRUE /\ asked[id].kind # "executor" => RanOf(id) # {}

(* "an authorization that lands while db is missing either one delegates an *)
(* account this executor cannot rebuild": none is ever sent before.         *)
DelegationRebuildable ==
    \A t \in Sent :
      t.auth # None /\ asked[t.cmd].kind = "executor" =>
        db = [key |-> t.auth.account, tag |-> TRUE, implementation |-> t.auth.to]

(* A shield takes the fewest notes that make its amount, and is refused only *)
(* when five do not: of the pools there are, the greedy split is the best.   *)
PlanFewest ==
    \A q \in Procs : (At(q, "confirm") \/ At(q, "refused")) /\ cmd[q].kind = "shield" =>
      LET r     == cmd[q].request
          pools == AssetPools(Pools, r.eth, r.classic)
          Split(n) == {f \in [DOMAIN pools -> 0 .. n] :
                         /\ FoldFunction(+, 0, f) = n
                         /\ FoldFunctionOnSet(+, 0, [i \in DOMAIN f |-> f[i] * pools[i].value],
                                              DOMAIN f) = r.amount}
          fewest == {n \in 1 .. MaxNotes : Split(n) # {}}
      IN  r.named = <<>> => IF fewest = {} THEN cmd[q].pools = <<>>
                            ELSE Total(cmd[q].pools) = r.amount /\ Len(cmd[q].pools) = Min(fewest)
=============================================================================
