-------------------------- MODULE BroadcastsProofs --------------------------
(***************************************************************************)
(* Proofs about Broadcasts.  What a command may still send, and what has   *)
(* become of what it sent, follow from the steps it has left: the          *)
(* invariant says of each point of a command what it has sent, signed and  *)
(* seen, and of each transaction what the chain may still do with it.      *)
(***************************************************************************)
EXTENDS Broadcasts, SequenceTheorems, FiniteSetTheorems, WellFoundedInduction, TLAPS

-----------------------------------------------------------------------------
(* The points of a command, by the steps it has left.                      *)

(* It has signed and sent nothing. *)
Early(kind) ==
    IF kind = "executor"
    THEN {<<"put_key", "persist", "put_implementation", "authorize_if_missing", "check",
            "nonce", "fill", "send", "await">>,
          <<"rebuild", "persist", "put_implementation", "authorize_if_missing", "check",
            "nonce", "fill", "send", "await">>,
          <<"persist", "put_implementation", "authorize_if_missing", "check",
            "nonce", "fill", "send", "await">>,
          <<"put_implementation", "authorize_if_missing", "check",
            "nonce", "fill", "send", "await">>,
          <<"authorize_if_missing", "check", "nonce", "fill", "send", "await">>,
          <<"authorize", "fill", "send", "await", "check", "nonce", "fill", "send", "await">>}
    ELSE {<<"put_key", "persist", "check", "put_implementation", "nonce", "fill", "send", "mined">>,
          <<"rebuild", "persist", "check", "put_implementation", "nonce", "fill", "send", "mined">>,
          <<"persist", "check", "put_implementation", "nonce", "fill", "send", "mined">>,
          <<"check", "put_implementation", "nonce", "fill", "send", "mined">>,
          <<"put_implementation", "nonce", "fill", "send", "mined">>,
          <<"delegation">>,
          <<"authorize", "fill", "send", "mined", "nonce", "fill", "send", "mined">>,
          <<"confirm", "balances", "build", "send_op", "receipt">>,
          <<"balances", "build", "send_op", "receipt">>,
          <<"build", "send_op", "receipt">>,
          <<"refused">>}

(* The same, with the one call of a transaction to pick. *)
Picking(kind) ==
    IF kind = "executor" THEN {}
    ELSE {<<"pick", "covers", "fill", "confirm", "send", "mined">>,
          <<"pick", "simulate", "covers", "fill", "confirm", "send", "mined">>,
          <<"confirm", "balances", "pick", "fill", "send", "mined">>,
          <<"balances", "pick", "fill", "send", "mined">>,
          <<"pick", "fill", "send", "mined">>}

(* Its payer is to submit the first batch of an account, with the            *)
(* authorisation of that account.                                            *)
Foreign(kind) ==
    IF kind = "executor" THEN {}
    ELSE {<<"first_nonce", "authorize", "fill", "send", "mined">>}
ForeignSigned(kind) ==
    IF kind = "executor" THEN {} ELSE {<<"authorize", "fill", "send", "mined">>}

(* An authorisation of its own is to be sent by itself. *)
AuthFilling(kind) ==
    IF kind = "executor"
    THEN {<<"fill", "send", "await", "check", "nonce", "fill", "send", "await">>}
    ELSE {<<"fill", "send", "mined", "nonce", "fill", "send", "mined">>}
AuthSending(kind) ==
    IF kind = "executor"
    THEN {<<"send", "await", "check", "nonce", "fill", "send", "await">>}
    ELSE {<<"send", "mined", "nonce", "fill", "send", "mined">>}

(* The authorisation may have been sent, the calls have not. *)
Authorized(kind) ==
    IF kind = "executor"
    THEN {<<"await", "check", "nonce", "fill", "send", "await">>,
          <<"check", "nonce", "fill", "send", "await">>,
          <<"nonce", "fill", "send", "await">>}
    ELSE {<<"mined", "nonce", "fill", "send", "mined">>,
          <<"nonce", "fill", "send", "mined">>}

(* The calls are signed or picked, and to be filled in; then to be sent. *)
Filling(kind) ==
    IF kind = "executor" THEN {<<"fill", "send", "await">>}
    ELSE {<<"simulate", "covers", "fill", "confirm", "send", "mined">>,
          <<"covers", "fill", "confirm", "send", "mined">>,
          <<"fill", "confirm", "send", "mined">>,
          <<"fill", "send", "mined">>}
Sending(kind) ==
    IF kind = "executor" THEN {<<"send", "await">>}
    ELSE {<<"confirm", "send", "mined">>, <<"send", "mined">>}
OpSending(kind) == IF kind = "executor" THEN {} ELSE {<<"send_op", "receipt">>}

(* The calls have been sent. *)
Waiting(kind) ==
    IF kind = "executor" THEN {<<"await">>} ELSE {<<"mined">>, <<"receipt">>}

-----------------------------------------------------------------------------
(* What holds of a command at each of them.                                *)

Fields == {"todo", "kind", "id", "request", "context", "payer", "pools", "calls", "value",
           "picked", "auth", "at", "tx"}

Carries(t, id) == t.cmd = id /\ t.calls # {}
Unsent(id) == \A t \in Sent : ~ Carries(t, id)
Silent(id) == \A t \in Sent : t.cmd # id

Blank(c) == c.at = None /\ c.picked = {}
Signed(c) ==
    c.auth # None => /\ c.auth \in Authorizations
                     /\ c.auth.account = c.context /\ c.auth.to = Simple

Formed(c) ==
    /\ DOMAIN c = Fields /\ c.kind \in Kinds /\ c.id \in DOMAIN asked
    /\ c.kind = asked[c.id].kind /\ c.calls = asked[c.id].calls
    /\ c.context \in Accounts /\ c.payer \in Accounts /\ Signed(c)
    /\ c.todo # <<"refused">> => c.calls # {}

(* What the transaction it will send carries. *)
Loaded(c) ==
    /\ IF c.at = None THEN c.picked = c.calls ELSE c.at \in Nat
    /\ c.auth # None => c.at # None /\ ~ Self(c) /\ Silent(c.id)

(* A batch that was signed while nothing else was under way can still run.   *)
Ready(c) ==
    c.at # None /\ c.id \notin overlapped =>
      IF c.auth = None THEN delegate[c.context] = Simple
      ELSE c.auth.nonce = count[c.context]

TxLoaded(c) ==
    LET t == c.tx
    IN  /\ t.cmd = c.id /\ t.from = c.payer /\ t.auth = c.auth /\ t.account = c.context
        /\ t.at = c.at /\ t.calls = c.calls /\ t.kind = IF c.at = None THEN "call" ELSE "batch"

AtEarly(c) == c.todo \in Early(c.kind) /\ Silent(c.id) /\ Blank(c) /\ c.auth = None
AtPicking(c) ==
    /\ c.todo \in Picking(c.kind) /\ Silent(c.id) /\ Blank(c) /\ c.auth = None
    /\ \E x \in c.calls : c.calls = {x}
AtForeign(c) ==
    c.todo \in Foreign(c.kind) /\ Silent(c.id) /\ Blank(c) /\ c.auth = None /\ ~ Self(c)
AtForeignSigned(c) ==
    /\ c.todo \in ForeignSigned(c.kind) /\ Silent(c.id)
    /\ c.at = 0 /\ c.auth = None /\ ~ Self(c)
AtAuthFilling(c) ==
    c.todo \in AuthFilling(c.kind) /\ Silent(c.id) /\ Blank(c) /\ c.auth # None
AtAuthSending(c) ==
    /\ c.todo \in AuthSending(c.kind) /\ Silent(c.id) /\ Blank(c) /\ c.auth # None
    /\ c.tx.cmd = c.id /\ c.tx.kind = "none" /\ c.tx.calls = {} /\ c.tx.auth = c.auth
AtAuthorized(c) == c.todo \in Authorized(c.kind) /\ Unsent(c.id) /\ Blank(c) /\ c.auth = None
AtFilling(c) == c.todo \in Filling(c.kind) /\ Unsent(c.id) /\ Loaded(c) /\ Ready(c)
AtSending(c) ==
    c.todo \in Sending(c.kind) /\ Unsent(c.id) /\ Loaded(c) /\ Ready(c) /\ TxLoaded(c)
AtOpSending(c) ==
    /\ c.todo \in OpSending(c.kind) /\ Silent(c.id)
    /\ c.tx.cmd = c.id /\ c.tx.kind = "op" /\ c.tx.calls = c.calls
AtWaiting(c) == c.todo \in Waiting(c.kind) /\ c.tx.cmd = c.id /\ c.tx.calls = c.calls
AtEnd(c) ==
    c.todo = <<>> /\ (c.kind # "executor" /\ c.id \notin overlapped => RanOf(c.id) # {})

Placed(c) ==
    \/ AtEarly(c) \/ AtPicking(c) \/ AtForeign(c) \/ AtForeignSigned(c)
    \/ AtAuthFilling(c) \/ AtAuthSending(c) \/ AtAuthorized(c)
    \/ AtFilling(c) \/ AtSending(c) \/ AtOpSending(c) \/ AtWaiting(c) \/ AtEnd(c)

(* Before an executor signs, its records are complete. *)
Fresh == {r.context : r \in {r \in Commands : r.from = "random"}}
Recorded(c, records) ==
    /\ c.todo # <<>> /\ c.todo[1] = "put_key" => c.context \in Fresh
    /\ c.kind = "executor" /\ c.todo # <<>> =>
         /\ c.todo[1] \notin {"put_key", "rebuild", "persist"} =>
              records.key = c.context /\ records.tag
         /\ c.todo[1] \notin {"put_key", "rebuild", "persist", "put_implementation"} =>
              records.implementation = Simple

Running(c) == Formed(c) /\ Placed(c) /\ Recorded(c, db)

-----------------------------------------------------------------------------
(* What holds of the chain and of what was sent.                           *)

PoolsOf(r) == IF r.kind = "shield" THEN PlannedPools(r) ELSE <<>>
Entries == {[kind |-> r.kind, calls |-> Calls(r, PoolsOf(r))] : r \in Commands}

Records ==
    [key : {None} \cup (Accounts \cap Fresh), tag : BOOLEAN, implementation : {None, Simple}]

Typed ==
    /\ DOMAIN cmd = Procs /\ asked \in Seq(Entries) /\ Len(asked) <= MaxCommands
    /\ count \in [Accounts -> Nat] /\ nonce \in [Accounts -> Nat]
    /\ delegate \in [Accounts -> {None, Simple, Other}]
    /\ DOMAIN said = 1 .. MaxCommands /\ db \in Records

Sound(t) ==
    /\ t.cmd \in DOMAIN asked /\ t.kind \in {"none", "call", "batch", "op"}
    /\ IF t.kind = "none" THEN t.calls = {}
       ELSE t.calls = asked[t.cmd].calls /\ t.calls # {}
    /\ t.kind = "batch" => t.at \in Nat /\ t.account \in Accounts
    /\ t.kind # "op" /\ t.auth # None => t.auth \in Authorizations /\ t.auth.to = Simple
    /\ t.kind = "op" => asked[t.cmd].kind # "executor"

(* One transaction carries the calls of a command, and one that carries an   *)
(* authorisation too is all that the command sends.                          *)
OneCarrier ==
    \A t, u \in Sent : t.cmd = u.cmd =>
      /\ t.calls # {} /\ u.calls # {} => t = u
      /\ t.kind = "batch" /\ t.auth # None => t = u

(* Calls run once, all together, and a batch that has run is stale.          *)
RanOnce ==
    /\ \A e \in DOMAIN ran : ran[e] = 1
    /\ \A id \in DOMAIN asked : RanOf(id) \in {{}, asked[id].calls}
    /\ \A e \in DOMAIN ran : \E t \in Sent : \E x \in t.calls : e = <<t.cmd, x>>
    /\ \A t \in pending : t.kind \notin {"none", "batch"} => RanOf(t.cmd) = {}
    /\ \A t \in Sent : t.kind = "batch" /\ RanOf(t.cmd) # {} => t.at < nonce[t.account]

Outcome ==
    \A m \in mined : m.tx.calls # {} =>
      /\ m.outcome = "done" => RanOf(m.tx.cmd) # {}
      /\ m.outcome = "nothing" => m.tx.cmd \in overlapped

Active == {cmd[q].id : q \in {q \in Procs : cmd[q] # Idle}} \cup {t.cmd : t \in pending}
Apart == \A p, q \in Procs : cmd[p] # Idle /\ cmd[q] # Idle /\ cmd[p].id = cmd[q].id => p = q
Lone == \A id \in Active \ overlapped : Active = {id}

ReadyTx ==
    \A t \in pending : t.kind = "batch" /\ t.cmd \notin overlapped =>
      IF t.auth = None THEN delegate[t.account] = Simple
      ELSE /\ t.auth.account = t.account /\ t.from # t.account
           /\ t.auth.nonce = count[t.account]

Told ==
    /\ \A i \in 1 .. MaxCommands : i \notin DOMAIN asked => said[i] # TRUE
    /\ SuccessMeansRun

IInv ==
    /\ Typed /\ \A q \in Procs : cmd[q] = Idle \/ Running(cmd[q])
    /\ \A t \in Sent : Sound(t)
    /\ OneCarrier /\ RanOnce /\ Outcome /\ Apart /\ Lone /\ ReadyTx /\ Told
    /\ DelegationRebuildable

-----------------------------------------------------------------------------
(* The steps of a command.                                                 *)

StepNames ==
    {"put_key", "rebuild", "persist", "put_implementation", "authorize_if_missing", "check",
     "authorize", "nonce", "first_nonce", "delegation", "pick", "simulate", "covers", "confirm",
     "balances", "fill", "send", "await", "mined", "build", "send_op", "receipt"}

LEMMA ConcatIs ==
    ASSUME NEW s \in Seq(StepNames), NEW t \in Seq(StepNames), NEW u \in Seq(StepNames),
           Len(u) = Len(s) + Len(t), \A i \in 1 .. Len(s) : u[i] = s[i],
           \A i \in 1 .. Len(t) : u[Len(s) + i] = t[i]
    PROVE  s \o t = u
<1>1. Len(s \o t) = Len(u) /\ s \o t \in Seq(StepNames)
  OBVIOUS
<1>2. ASSUME NEW i \in 1 .. Len(u) PROVE (s \o t)[i] = u[i]
  <2>1. CASE i <= Len(s)
    BY <2>1
  <2>2. CASE i > Len(s)
    <3>1. i - Len(s) \in 1 .. Len(t) /\ (s \o t)[i] = t[i - Len(s)]
      BY <2>2
    <3>2. u[Len(s) + (i - Len(s))] = t[i - Len(s)]
      BY <3>1
    <3>. QED BY <3>1, <3>2
  <2>. QED BY <2>1, <2>2
<1>. QED BY <1>1, <1>2

(* An executor's plan, put together.                                         *)
LEMMA ExecutorPlan ==
    /\ <<>> \o BuildExecutor \o Execute
         = <<"persist", "put_implementation", "authorize_if_missing", "check",
             "nonce", "fill", "send", "await">>
    /\ <<"put_key">> \o BuildExecutor \o Execute
         = <<"put_key", "persist", "put_implementation", "authorize_if_missing", "check",
             "nonce", "fill", "send", "await">>
    /\ <<"rebuild">> \o BuildExecutor \o Execute
         = <<"rebuild", "persist", "put_implementation", "authorize_if_missing", "check",
             "nonce", "fill", "send", "await">>
<1> DEFINE s == <<"persist", "put_implementation", "authorize_if_missing", "check">>
           t == <<"nonce", "fill", "send", "await">>
           u == <<"persist", "put_implementation", "authorize_if_missing", "check",
                  "nonce", "fill", "send", "await">>
           P(x) == <<x, "persist", "put_implementation", "authorize_if_missing", "check">>
           Q(x) == <<x, "persist", "put_implementation", "authorize_if_missing", "check",
                     "nonce", "fill", "send", "await">>
<1>1. /\ s \in Seq(StepNames) /\ t \in Seq(StepNames) /\ u \in Seq(StepNames)
      /\ Len(u) = Len(s) + Len(t) /\ \A i \in 1 .. Len(s) : u[i] = s[i]
      /\ \A i \in 1 .. Len(t) : u[Len(s) + i] = t[i]
  BY DEF StepNames
<1>2. s \o t = u
  <2> HIDE DEF s, t, u
  <2>. QED BY <1>1, ConcatIs
<1>3. <<>> \o s = s
  <2> HIDE DEF s
  <2>. QED BY <1>1
<1>4. ASSUME NEW x \in {"put_key", "rebuild"} PROVE <<x>> \o s \o t = Q(x)
  <2>1. /\ <<x>> \in Seq(StepNames) /\ P(x) \in Seq(StepNames) /\ Q(x) \in Seq(StepNames)
        /\ Len(P(x)) = Len(<<x>>) + Len(s) /\ Len(Q(x)) = Len(P(x)) + Len(t)
        /\ \A i \in 1 .. Len(<<x>>) : P(x)[i] = <<x>>[i]
    BY DEF StepNames
  <2>2. \A i \in 1 .. Len(s) : P(x)[Len(<<x>>) + i] = s[i]
    OBVIOUS
  <2>3. \A i \in 1 .. Len(P(x)) : Q(x)[i] = P(x)[i]
    OBVIOUS
  <2>4. \A i \in 1 .. Len(t) : Q(x)[Len(P(x)) + i] = t[i]
    OBVIOUS
  <2>5. <<x>> \o s = P(x)
    <3> HIDE DEF s, P
    <3>. QED BY <1>1, <2>1, <2>2, ConcatIs
  <2>6. P(x) \o t = Q(x)
    <3> HIDE DEF t, P, Q
    <3>. QED BY <1>1, <2>1, <2>3, <2>4, ConcatIs
  <2>. QED BY <2>5, <2>6, Zenon
<1>5. BuildExecutor = s /\ Execute = t
  BY DEF BuildExecutor, Execute
<1>6. <<>> \o BuildExecutor \o Execute = u
  BY <1>2, <1>3, <1>5, Zenon
<1>7. \A x \in {"put_key", "rebuild"} : <<x>> \o BuildExecutor \o Execute = Q(x)
  BY <1>4, <1>5, Zenon
<1>. QED BY <1>6, <1>7, Zenon

(* A vault's, the same way.                                                  *)
LEMMA VaultPlan ==
    /\ <<>> \o BuildVault \o Withdraw
         = <<"persist", "check", "put_implementation", "nonce", "fill", "send", "mined">>
    /\ <<"put_key">> \o BuildVault \o Withdraw
         = <<"put_key", "persist", "check", "put_implementation", "nonce", "fill", "send", "mined">>
    /\ <<"rebuild">> \o BuildVault \o Withdraw
         = <<"rebuild", "persist", "check", "put_implementation", "nonce", "fill", "send", "mined">>
<1> DEFINE s == <<"persist", "check", "put_implementation">>
           t == <<"nonce", "fill", "send", "mined">>
           u == <<"persist", "check", "put_implementation", "nonce", "fill", "send", "mined">>
           P(x) == <<x, "persist", "check", "put_implementation">>
           Q(x) == <<x, "persist", "check", "put_implementation", "nonce", "fill", "send", "mined">>
<1>1. /\ s \in Seq(StepNames) /\ t \in Seq(StepNames) /\ u \in Seq(StepNames)
      /\ Len(u) = Len(s) + Len(t) /\ \A i \in 1 .. Len(s) : u[i] = s[i]
      /\ \A i \in 1 .. Len(t) : u[Len(s) + i] = t[i]
  BY DEF StepNames
<1>2. s \o t = u
  <2> HIDE DEF s, t, u
  <2>. QED BY <1>1, ConcatIs
<1>3. <<>> \o s = s
  <2> HIDE DEF s
  <2>. QED BY <1>1
<1>4. ASSUME NEW x \in {"put_key", "rebuild"} PROVE <<x>> \o s \o t = Q(x)
  <2>1. /\ <<x>> \in Seq(StepNames) /\ P(x) \in Seq(StepNames) /\ Q(x) \in Seq(StepNames)
        /\ Len(P(x)) = Len(<<x>>) + Len(s) /\ Len(Q(x)) = Len(P(x)) + Len(t)
        /\ \A i \in 1 .. Len(<<x>>) : P(x)[i] = <<x>>[i]
    BY DEF StepNames
  <2>2. \A i \in 1 .. Len(s) : P(x)[Len(<<x>>) + i] = s[i]
    OBVIOUS
  <2>3. \A i \in 1 .. Len(P(x)) : Q(x)[i] = P(x)[i]
    OBVIOUS
  <2>4. \A i \in 1 .. Len(t) : Q(x)[Len(P(x)) + i] = t[i]
    OBVIOUS
  <2>5. <<x>> \o s = P(x)
    <3> HIDE DEF s, P
    <3>. QED BY <1>1, <2>1, <2>2, ConcatIs
  <2>6. P(x) \o t = Q(x)
    <3> HIDE DEF t, P, Q
    <3>. QED BY <1>1, <2>1, <2>3, <2>4, ConcatIs
  <2>. QED BY <2>5, <2>6, Zenon
<1>5. BuildVault = s /\ Withdraw = t
  BY DEF BuildVault, Withdraw
<1>6. <<>> \o BuildVault \o Withdraw = u
  BY <1>2, <1>3, <1>5, Zenon
<1>7. \A x \in {"put_key", "rebuild"} : <<x>> \o BuildVault \o Withdraw = Q(x)
  BY <1>4, <1>5, Zenon
<1>. QED BY <1>6, <1>7, Zenon

(* A shield's, and an executor's that has to authorise.                      *)
LEMMA OtherPlans ==
    /\ <<"confirm", "balances">> \o SendCall
         = <<"confirm", "balances", "pick", "fill", "send", "mined">>
    /\ <<"confirm", "balances">> \o <<"build", "send_op", "receipt">>
         = <<"confirm", "balances", "build", "send_op", "receipt">>
    /\ <<"authorize", "fill", "send", "await">> \o <<"check", "nonce", "fill", "send", "await">>
         = <<"authorize", "fill", "send", "await", "check", "nonce", "fill", "send", "await">>
<1>1. <<"confirm", "balances">> \o SendCall
        = <<"confirm", "balances", "pick", "fill", "send", "mined">>
  <2> DEFINE s == <<"confirm", "balances">>
             t == <<"pick", "fill", "send", "mined">>
             u == <<"confirm", "balances", "pick", "fill", "send", "mined">>
  <2>1. /\ s \in Seq(StepNames) /\ t \in Seq(StepNames) /\ u \in Seq(StepNames)
        /\ Len(u) = Len(s) + Len(t) /\ \A i \in 1 .. Len(s) : u[i] = s[i]
        /\ \A i \in 1 .. Len(t) : u[Len(s) + i] = t[i]
    BY DEF StepNames
  <2>2. s \o t = u
    <3> HIDE DEF s, t, u
    <3>. QED BY <2>1, ConcatIs
  <2>. QED BY <2>2, Zenon DEF SendCall
<1>2. <<"confirm", "balances">> \o <<"build", "send_op", "receipt">>
        = <<"confirm", "balances", "build", "send_op", "receipt">>
  <2> DEFINE s == <<"confirm", "balances">>
             t == <<"build", "send_op", "receipt">>
             u == <<"confirm", "balances", "build", "send_op", "receipt">>
  <2>1. /\ s \in Seq(StepNames) /\ t \in Seq(StepNames) /\ u \in Seq(StepNames)
        /\ Len(u) = Len(s) + Len(t) /\ \A i \in 1 .. Len(s) : u[i] = s[i]
        /\ \A i \in 1 .. Len(t) : u[Len(s) + i] = t[i]
    BY DEF StepNames
  <2>2. s \o t = u
    <3> HIDE DEF s, t, u
    <3>. QED BY <2>1, ConcatIs
  <2>. QED BY <2>2
<1>3. <<"authorize", "fill", "send", "await">> \o <<"check", "nonce", "fill", "send", "await">>
        = <<"authorize", "fill", "send", "await", "check", "nonce", "fill", "send", "await">>
  <2> DEFINE s == <<"authorize", "fill", "send", "await">>
             t == <<"check", "nonce", "fill", "send", "await">>
             u == <<"authorize", "fill", "send", "await", "check", "nonce", "fill", "send", "await">>
  <2>1. /\ s \in Seq(StepNames) /\ t \in Seq(StepNames) /\ u \in Seq(StepNames)
        /\ Len(u) = Len(s) + Len(t) /\ \A i \in 1 .. Len(s) : u[i] = s[i]
        /\ \A i \in 1 .. Len(t) : u[Len(s) + i] = t[i]
    BY DEF StepNames
  <2>2. s \o t = u
    <3> HIDE DEF s, t, u
    <3>. QED BY <2>1, ConcatIs
  <2>. QED BY <2>2
<1>. QED BY <1>1, <1>2, <1>3

(* Each list of steps: what is left of it after its first step.              *)
LEMMA Tails ==
    /\ Tail(<<"put_key", "persist", "put_implementation", "authorize_if_missing", "check",
              "nonce", "fill", "send", "await">>)
         = <<"persist", "put_implementation", "authorize_if_missing", "check", "nonce", "fill",
             "send", "await">>
    /\ Tail(<<"rebuild", "persist", "put_implementation", "authorize_if_missing", "check",
              "nonce", "fill", "send", "await">>)
         = <<"persist", "put_implementation", "authorize_if_missing", "check", "nonce", "fill",
             "send", "await">>
    /\ Tail(<<"persist", "put_implementation", "authorize_if_missing", "check", "nonce",
              "fill", "send", "await">>)
         = <<"put_implementation", "authorize_if_missing", "check", "nonce", "fill", "send",
             "await">>
    /\ Tail(<<"put_implementation", "authorize_if_missing", "check", "nonce", "fill", "send",
              "await">>)
         = <<"authorize_if_missing", "check", "nonce", "fill", "send", "await">>
    /\ Tail(<<"authorize_if_missing", "check", "nonce", "fill", "send", "await">>)
         = <<"check", "nonce", "fill", "send", "await">>
    /\ Tail(<<"authorize", "fill", "send", "await", "check", "nonce", "fill", "send", "await">>)
         = <<"fill", "send", "await", "check", "nonce", "fill", "send", "await">>
    /\ Tail(<<"put_key", "persist", "check", "put_implementation", "nonce", "fill", "send",
              "mined">>)
         = <<"persist", "check", "put_implementation", "nonce", "fill", "send", "mined">>
    /\ Tail(<<"rebuild", "persist", "check", "put_implementation", "nonce", "fill", "send",
              "mined">>)
         = <<"persist", "check", "put_implementation", "nonce", "fill", "send", "mined">>
    /\ Tail(<<"persist", "check", "put_implementation", "nonce", "fill", "send", "mined">>)
         = <<"check", "put_implementation", "nonce", "fill", "send", "mined">>
    /\ Tail(<<"check", "put_implementation", "nonce", "fill", "send", "mined">>)
         = <<"put_implementation", "nonce", "fill", "send", "mined">>
    /\ Tail(<<"put_implementation", "nonce", "fill", "send", "mined">>)
         = <<"nonce", "fill", "send", "mined">>
    /\ Tail(<<"delegation">>) = <<>>
    /\ Tail(<<"authorize", "fill", "send", "mined", "nonce", "fill", "send", "mined">>)
         = <<"fill", "send", "mined", "nonce", "fill", "send", "mined">>
    /\ Tail(<<"confirm", "balances", "build", "send_op", "receipt">>)
         = <<"balances", "build", "send_op", "receipt">>
    /\ Tail(<<"balances", "build", "send_op", "receipt">>) = <<"build", "send_op", "receipt">>
    /\ Tail(<<"build", "send_op", "receipt">>) = <<"send_op", "receipt">>
    /\ Tail(<<"refused">>) = <<>>
    /\ Tail(<<"pick", "covers", "fill", "confirm", "send", "mined">>)
         = <<"covers", "fill", "confirm", "send", "mined">>
    /\ Tail(<<"pick", "simulate", "covers", "fill", "confirm", "send", "mined">>)
         = <<"simulate", "covers", "fill", "confirm", "send", "mined">>
    /\ Tail(<<"confirm", "balances", "pick", "fill", "send", "mined">>)
         = <<"balances", "pick", "fill", "send", "mined">>
    /\ Tail(<<"balances", "pick", "fill", "send", "mined">>)
         = <<"pick", "fill", "send", "mined">>
    /\ Tail(<<"pick", "fill", "send", "mined">>) = <<"fill", "send", "mined">>
    /\ Tail(<<"first_nonce", "authorize", "fill", "send", "mined">>)
         = <<"authorize", "fill", "send", "mined">>
    /\ Tail(<<"authorize", "fill", "send", "mined">>) = <<"fill", "send", "mined">>
    /\ Tail(<<"fill", "send", "await", "check", "nonce", "fill", "send", "await">>)
         = <<"send", "await", "check", "nonce", "fill", "send", "await">>
    /\ Tail(<<"fill", "send", "mined", "nonce", "fill", "send", "mined">>)
         = <<"send", "mined", "nonce", "fill", "send", "mined">>
    /\ Tail(<<"send", "await", "check", "nonce", "fill", "send", "await">>)
         = <<"await", "check", "nonce", "fill", "send", "await">>
    /\ Tail(<<"send", "mined", "nonce", "fill", "send", "mined">>)
         = <<"mined", "nonce", "fill", "send", "mined">>
    /\ Tail(<<"await", "check", "nonce", "fill", "send", "await">>)
         = <<"check", "nonce", "fill", "send", "await">>
    /\ Tail(<<"check", "nonce", "fill", "send", "await">>)
         = <<"nonce", "fill", "send", "await">>
    /\ Tail(<<"nonce", "fill", "send", "await">>) = <<"fill", "send", "await">>
    /\ Tail(<<"mined", "nonce", "fill", "send", "mined">>)
         = <<"nonce", "fill", "send", "mined">>
    /\ Tail(<<"nonce", "fill", "send", "mined">>) = <<"fill", "send", "mined">>
    /\ Tail(<<"fill", "send", "await">>) = <<"send", "await">>
    /\ Tail(<<"simulate", "covers", "fill", "confirm", "send", "mined">>)
         = <<"covers", "fill", "confirm", "send", "mined">>
    /\ Tail(<<"covers", "fill", "confirm", "send", "mined">>)
         = <<"fill", "confirm", "send", "mined">>
    /\ Tail(<<"fill", "confirm", "send", "mined">>) = <<"confirm", "send", "mined">>
    /\ Tail(<<"fill", "send", "mined">>) = <<"send", "mined">>
    /\ Tail(<<"send", "await">>) = <<"await">>
    /\ Tail(<<"confirm", "send", "mined">>) = <<"send", "mined">>
    /\ Tail(<<"send", "mined">>) = <<"mined">>
    /\ Tail(<<"send_op", "receipt">>) = <<"receipt">>
    /\ Tail(<<"await">>) = <<>>
    /\ Tail(<<"mined">>) = <<>>
    /\ Tail(<<"receipt">>) = <<>>
<1>1. Tail(<<"put_key", "persist", "put_implementation", "authorize_if_missing", "check",
             "nonce", "fill", "send", "await">>)
        = <<"persist", "put_implementation", "authorize_if_missing", "check", "nonce", "fill",
            "send", "await">>
  OBVIOUS
<1>2. Tail(<<"rebuild", "persist", "put_implementation", "authorize_if_missing", "check",
             "nonce", "fill", "send", "await">>)
        = <<"persist", "put_implementation", "authorize_if_missing", "check", "nonce", "fill",
            "send", "await">>
  OBVIOUS
<1>3. Tail(<<"persist", "put_implementation", "authorize_if_missing", "check", "nonce", "fill",
             "send", "await">>)
        = <<"put_implementation", "authorize_if_missing", "check", "nonce", "fill", "send",
            "await">>
  OBVIOUS
<1>4. Tail(<<"put_implementation", "authorize_if_missing", "check", "nonce", "fill", "send",
             "await">>)
        = <<"authorize_if_missing", "check", "nonce", "fill", "send", "await">>
  OBVIOUS
<1>5. Tail(<<"authorize_if_missing", "check", "nonce", "fill", "send", "await">>)
        = <<"check", "nonce", "fill", "send", "await">>
  OBVIOUS
<1>6. Tail(<<"authorize", "fill", "send", "await", "check", "nonce", "fill", "send", "await">>)
        = <<"fill", "send", "await", "check", "nonce", "fill", "send", "await">>
  OBVIOUS
<1>7. Tail(<<"put_key", "persist", "check", "put_implementation", "nonce", "fill", "send",
             "mined">>)
        = <<"persist", "check", "put_implementation", "nonce", "fill", "send", "mined">>
  OBVIOUS
<1>8. Tail(<<"rebuild", "persist", "check", "put_implementation", "nonce", "fill", "send",
             "mined">>)
        = <<"persist", "check", "put_implementation", "nonce", "fill", "send", "mined">>
  OBVIOUS
<1>9. Tail(<<"persist", "check", "put_implementation", "nonce", "fill", "send", "mined">>)
        = <<"check", "put_implementation", "nonce", "fill", "send", "mined">>
  OBVIOUS
<1>10. Tail(<<"check", "put_implementation", "nonce", "fill", "send", "mined">>)
         = <<"put_implementation", "nonce", "fill", "send", "mined">>
  OBVIOUS
<1>11. Tail(<<"put_implementation", "nonce", "fill", "send", "mined">>)
         = <<"nonce", "fill", "send", "mined">>
  OBVIOUS
<1>12. Tail(<<"delegation">>) = <<>>
  OBVIOUS
<1>13. Tail(<<"authorize", "fill", "send", "mined", "nonce", "fill", "send", "mined">>)
         = <<"fill", "send", "mined", "nonce", "fill", "send", "mined">>
  OBVIOUS
<1>14. Tail(<<"confirm", "balances", "build", "send_op", "receipt">>)
         = <<"balances", "build", "send_op", "receipt">>
  OBVIOUS
<1>15. Tail(<<"balances", "build", "send_op", "receipt">>) = <<"build", "send_op", "receipt">>
  OBVIOUS
<1>16. Tail(<<"build", "send_op", "receipt">>) = <<"send_op", "receipt">>
  OBVIOUS
<1>17. Tail(<<"refused">>) = <<>>
  OBVIOUS
<1>18. Tail(<<"pick", "covers", "fill", "confirm", "send", "mined">>)
         = <<"covers", "fill", "confirm", "send", "mined">>
  OBVIOUS
<1>19. Tail(<<"pick", "simulate", "covers", "fill", "confirm", "send", "mined">>)
         = <<"simulate", "covers", "fill", "confirm", "send", "mined">>
  OBVIOUS
<1>20. Tail(<<"confirm", "balances", "pick", "fill", "send", "mined">>)
         = <<"balances", "pick", "fill", "send", "mined">>
  OBVIOUS
<1>21. Tail(<<"balances", "pick", "fill", "send", "mined">>)
         = <<"pick", "fill", "send", "mined">>
  OBVIOUS
<1>22. Tail(<<"pick", "fill", "send", "mined">>) = <<"fill", "send", "mined">>
  OBVIOUS
<1>23. Tail(<<"first_nonce", "authorize", "fill", "send", "mined">>)
         = <<"authorize", "fill", "send", "mined">>
  OBVIOUS
<1>24. Tail(<<"authorize", "fill", "send", "mined">>) = <<"fill", "send", "mined">>
  OBVIOUS
<1>25. Tail(<<"fill", "send", "await", "check", "nonce", "fill", "send", "await">>)
         = <<"send", "await", "check", "nonce", "fill", "send", "await">>
  OBVIOUS
<1>26. Tail(<<"fill", "send", "mined", "nonce", "fill", "send", "mined">>)
         = <<"send", "mined", "nonce", "fill", "send", "mined">>
  OBVIOUS
<1>27. Tail(<<"send", "await", "check", "nonce", "fill", "send", "await">>)
         = <<"await", "check", "nonce", "fill", "send", "await">>
  OBVIOUS
<1>28. Tail(<<"send", "mined", "nonce", "fill", "send", "mined">>)
         = <<"mined", "nonce", "fill", "send", "mined">>
  OBVIOUS
<1>29. Tail(<<"await", "check", "nonce", "fill", "send", "await">>)
         = <<"check", "nonce", "fill", "send", "await">>
  OBVIOUS
<1>30. Tail(<<"check", "nonce", "fill", "send", "await">>)
         = <<"nonce", "fill", "send", "await">>
  OBVIOUS
<1>31. Tail(<<"nonce", "fill", "send", "await">>) = <<"fill", "send", "await">>
  OBVIOUS
<1>32. Tail(<<"mined", "nonce", "fill", "send", "mined">>)
         = <<"nonce", "fill", "send", "mined">>
  OBVIOUS
<1>33. Tail(<<"nonce", "fill", "send", "mined">>) = <<"fill", "send", "mined">>
  OBVIOUS
<1>34. Tail(<<"fill", "send", "await">>) = <<"send", "await">>
  OBVIOUS
<1>35. Tail(<<"simulate", "covers", "fill", "confirm", "send", "mined">>)
         = <<"covers", "fill", "confirm", "send", "mined">>
  OBVIOUS
<1>36. Tail(<<"covers", "fill", "confirm", "send", "mined">>)
         = <<"fill", "confirm", "send", "mined">>
  OBVIOUS
<1>37. Tail(<<"fill", "confirm", "send", "mined">>) = <<"confirm", "send", "mined">>
  OBVIOUS
<1>38. Tail(<<"fill", "send", "mined">>) = <<"send", "mined">>
  OBVIOUS
<1>39. Tail(<<"send", "await">>) = <<"await">>
  OBVIOUS
<1>40. Tail(<<"confirm", "send", "mined">>) = <<"send", "mined">>
  OBVIOUS
<1>41. Tail(<<"send", "mined">>) = <<"mined">>
  OBVIOUS
<1>42. Tail(<<"send_op", "receipt">>) = <<"receipt">>
  OBVIOUS
<1>43. Tail(<<"await">>) = <<>>
  OBVIOUS
<1>44. Tail(<<"mined">>) = <<>>
  OBVIOUS
<1>45. Tail(<<"receipt">>) = <<>>
  OBVIOUS
<1>. QED BY <1>1, <1>2, <1>3, <1>4, <1>5, <1>6, <1>7, <1>8, <1>9, <1>10, <1>11, <1>12, <1>13,
        <1>14, <1>15, <1>16, <1>17, <1>18, <1>19, <1>20, <1>21, <1>22, <1>23, <1>24, <1>25,
        <1>26, <1>27, <1>28, <1>29, <1>30, <1>31, <1>32, <1>33, <1>34, <1>35, <1>36, <1>37,
        <1>38, <1>39, <1>40, <1>41, <1>42, <1>43, <1>44, <1>45, Zenon

(* And its first step.                                                       *)
LEMMA Heads ==
    /\ <<"put_key", "persist", "put_implementation", "authorize_if_missing", "check", "nonce",
         "fill", "send", "await">>[1] = "put_key"
    /\ <<"rebuild", "persist", "put_implementation", "authorize_if_missing", "check", "nonce",
         "fill", "send", "await">>[1] = "rebuild"
    /\ <<"persist", "put_implementation", "authorize_if_missing", "check", "nonce", "fill",
         "send", "await">>[1] = "persist"
    /\ <<"put_implementation", "authorize_if_missing", "check", "nonce", "fill", "send", "await">>[1] = "put_implementation"
    /\ <<"authorize_if_missing", "check", "nonce", "fill", "send", "await">>[1] = "authorize_if_missing"
    /\ <<"authorize", "fill", "send", "await", "check", "nonce", "fill", "send", "await">>[1] = "authorize"
    /\ <<"put_key", "persist", "check", "put_implementation", "nonce", "fill", "send", "mined">>[1] = "put_key"
    /\ <<"rebuild", "persist", "check", "put_implementation", "nonce", "fill", "send", "mined">>[1] = "rebuild"
    /\ <<"persist", "check", "put_implementation", "nonce", "fill", "send", "mined">>[1] = "persist"
    /\ <<"check", "put_implementation", "nonce", "fill", "send", "mined">>[1] = "check"
    /\ <<"put_implementation", "nonce", "fill", "send", "mined">>[1] = "put_implementation"
    /\ <<"delegation">>[1] = "delegation"
    /\ <<"authorize", "fill", "send", "mined", "nonce", "fill", "send", "mined">>[1] = "authorize"
    /\ <<"confirm", "balances", "build", "send_op", "receipt">>[1] = "confirm"
    /\ <<"balances", "build", "send_op", "receipt">>[1] = "balances"
    /\ <<"build", "send_op", "receipt">>[1] = "build"
    /\ <<"refused">>[1] = "refused"
    /\ <<"pick", "covers", "fill", "confirm", "send", "mined">>[1] = "pick"
    /\ <<"pick", "simulate", "covers", "fill", "confirm", "send", "mined">>[1] = "pick"
    /\ <<"confirm", "balances", "pick", "fill", "send", "mined">>[1] = "confirm"
    /\ <<"balances", "pick", "fill", "send", "mined">>[1] = "balances"
    /\ <<"pick", "fill", "send", "mined">>[1] = "pick"
    /\ <<"first_nonce", "authorize", "fill", "send", "mined">>[1] = "first_nonce"
    /\ <<"authorize", "fill", "send", "mined">>[1] = "authorize"
    /\ <<"fill", "send", "await", "check", "nonce", "fill", "send", "await">>[1] = "fill"
    /\ <<"fill", "send", "mined", "nonce", "fill", "send", "mined">>[1] = "fill"
    /\ <<"send", "await", "check", "nonce", "fill", "send", "await">>[1] = "send"
    /\ <<"send", "mined", "nonce", "fill", "send", "mined">>[1] = "send"
    /\ <<"await", "check", "nonce", "fill", "send", "await">>[1] = "await"
    /\ <<"check", "nonce", "fill", "send", "await">>[1] = "check"
    /\ <<"nonce", "fill", "send", "await">>[1] = "nonce"
    /\ <<"mined", "nonce", "fill", "send", "mined">>[1] = "mined"
    /\ <<"nonce", "fill", "send", "mined">>[1] = "nonce"
    /\ <<"fill", "send", "await">>[1] = "fill"
    /\ <<"simulate", "covers", "fill", "confirm", "send", "mined">>[1] = "simulate"
    /\ <<"covers", "fill", "confirm", "send", "mined">>[1] = "covers"
    /\ <<"fill", "confirm", "send", "mined">>[1] = "fill"
    /\ <<"fill", "send", "mined">>[1] = "fill"
    /\ <<"send", "await">>[1] = "send"
    /\ <<"confirm", "send", "mined">>[1] = "confirm"
    /\ <<"send", "mined">>[1] = "send"
    /\ <<"send_op", "receipt">>[1] = "send_op"
    /\ <<"await">>[1] = "await"
    /\ <<"mined">>[1] = "mined"
    /\ <<"receipt">>[1] = "receipt"
OBVIOUS

(* Where a command starts.                                                   *)
LEMMA Begun ==
    ASSUME NEW r \in Commands, NEW pools
    PROVE  LET calls == Calls(r, pools)
               s     == Steps(r, calls)
           IN  /\ s \in Early(r.kind) \cup Picking(r.kind)
               /\ s \in Picking(r.kind) => \E x \in calls : calls = {x}
               /\ s # <<"refused">> => calls # {}
               /\ s # <<>> /\ (s[1] = "put_key" => r.from = "random")
               /\ r.kind = "executor" => s[1] \in {"put_key", "rebuild", "persist"}
<1> DEFINE calls == Calls(r, pools)
           s == Steps(r, calls)
<1>1. r.kind \in Kinds
  BY BroadcastsAssumption
<1>2. r.kind # "shield" => calls = {<<1, "call">>}
  BY DEF Calls
<1> HIDE DEF calls
<1>3. \/ r.from = "random" /\ SignerFrom(r) = <<"put_key">>
      \/ SignerFrom(r) = <<"rebuild">> \/ SignerFrom(r) = <<>>
  BY DEF SignerFrom
<1>4. CASE r.kind = "executor"
  <2>1. s = SignerFrom(r) \o BuildExecutor \o Execute
    BY <1>4, Zenon DEF Steps
  <2>2. \/ r.from = "random" /\ s = <<"put_key">> \o BuildExecutor \o Execute
        \/ s = <<"rebuild">> \o BuildExecutor \o Execute
        \/ s = <<>> \o BuildExecutor \o Execute
    BY <1>3, <2>1, Zenon
  <2>3. \/ /\ r.from = "random"
           /\ s = <<"put_key", "persist", "put_implementation", "authorize_if_missing", "check",
                    "nonce", "fill", "send", "await">>
        \/ s = <<"rebuild", "persist", "put_implementation", "authorize_if_missing", "check",
                 "nonce", "fill", "send", "await">>
        \/ s = <<"persist", "put_implementation", "authorize_if_missing", "check",
                 "nonce", "fill", "send", "await">>
    BY <2>2, ExecutorPlan, Zenon
  <2> HIDE DEF s
  <2>4. s \in Early(r.kind) /\ s # <<>> /\ s[1] \in {"put_key", "rebuild", "persist"}
    BY <1>4, <2>3 DEF Early
  <2>5. s[1] = "put_key" => r.from = "random"
    BY <2>3
  <2>6. Picking(r.kind) = {}
    BY <1>4 DEF Picking
  <2>. QED BY <1>2, <1>4, <2>4, <2>5, <2>6 DEF s, calls
<1>5. CASE r.kind = "vault"
  <2>1. s = SignerFrom(r) \o BuildVault \o Withdraw
    BY <1>5, Zenon DEF Steps
  <2>2. \/ r.from = "random" /\ s = <<"put_key">> \o BuildVault \o Withdraw
        \/ s = <<"rebuild">> \o BuildVault \o Withdraw
        \/ s = <<>> \o BuildVault \o Withdraw
    BY <1>3, <2>1, Zenon
  <2>3. \/ /\ r.from = "random"
           /\ s = <<"put_key", "persist", "check", "put_implementation",
                    "nonce", "fill", "send", "mined">>
        \/ s = <<"rebuild", "persist", "check", "put_implementation",
                 "nonce", "fill", "send", "mined">>
        \/ s = <<"persist", "check", "put_implementation", "nonce", "fill", "send", "mined">>
    BY <2>2, VaultPlan, Zenon
  <2> HIDE DEF s
  <2>4. s \in Early(r.kind) /\ s # <<>>
    BY <1>5, <2>3 DEF Early
  <2>5. s[1] = "put_key" => r.from = "random"
    BY <2>3
  <2>. QED BY <1>2, <1>5, <2>4, <2>5 DEF s, calls
<1>6. CASE r.kind = "batch"
  <2>1. s = <<"delegation">>
    BY <1>6, Zenon DEF Steps
  <2> HIDE DEF s
  <2>2. s \in Early(r.kind) /\ s # <<>> /\ s[1] # "put_key"
    BY <1>6, <2>1 DEF Early
  <2>. QED BY <1>2, <1>6, <2>2 DEF s, calls
<1>7. CASE r.kind = "transfer"
  <2>1. s = Transfer(r)
    BY <1>7, Zenon DEF Steps
  <2> HIDE DEF s
  <2>2. s \in Picking(r.kind) /\ s # <<>> /\ s[1] # "put_key"
    BY <1>7, <2>1 DEF Picking, Transfer
  <2>. QED BY <1>2, <1>7, <2>2 DEF s, calls
<1>8. CASE r.kind = "shield"
  <2>1. CASE calls = {}
    <3>1. s = <<"refused">>
      BY <1>8, <2>1, Zenon DEF Steps
    <3> HIDE DEF s
    <3>2. s \in Early(r.kind) /\ s # <<>> /\ s[1] # "put_key"
      BY <1>8, <3>1 DEF Early
    <3>3. s \notin Picking(r.kind)
      BY <1>8, <3>1 DEF Picking
    <3>. QED BY <1>8, <3>1, <3>2, <3>3 DEF s, calls
  <2>2. CASE calls # {}
    <3>1. s = <<"confirm", "balances">> \o Broadcast(calls)
      BY <1>8, <2>2, Zenon DEF Steps
    <3>2. CASE \E x \in calls : calls = {x}
      <4>1. s = <<"confirm", "balances">> \o SendCall
        BY <3>1, <3>2, Zenon DEF Broadcast
      <4>2. s = <<"confirm", "balances", "pick", "fill", "send", "mined">>
        BY <4>1, OtherPlans, Zenon
      <4> HIDE DEF s
      <4>3. s \in Picking(r.kind) /\ s # <<>> /\ s[1] # "put_key"
        BY <1>8, <4>2 DEF Picking
      <4>. QED BY <1>8, <2>2, <3>2, <4>3 DEF s, calls
    <3>3. CASE ~ \E x \in calls : calls = {x}
      <4>1. s = <<"confirm", "balances">> \o <<"build", "send_op", "receipt">>
        BY <3>1, <3>3, Zenon DEF Broadcast
      <4>2. s = <<"confirm", "balances", "build", "send_op", "receipt">>
        BY <4>1, OtherPlans, Zenon
      <4> HIDE DEF s
      <4>3. s \in Early(r.kind) /\ s # <<>> /\ s[1] # "put_key"
        BY <1>8, <4>2 DEF Early
      <4>4. s \notin Picking(r.kind)
        BY <1>8, <4>2 DEF Picking
      <4>. QED BY <1>8, <2>2, <4>3, <4>4 DEF s, calls
    <3>. QED BY <3>2, <3>3
  <2>. QED BY <2>1, <2>2
<1>. QED BY <1>1, <1>4, <1>5, <1>6, <1>7, <1>8 DEF Kinds

(* How the points of a command follow each other.                            *)
LEMMA EarlySteps ==
    ASSUME NEW kind \in Kinds, NEW s \in Early(kind)
    PROVE  LET t == Tail(s) IN
           /\ s[1] \in {"put_key", "rebuild", "persist", "put_implementation",
                        "authorize_if_missing", "authorize", "check", "delegation", "confirm",
                        "balances", "build", "refused"}
           /\ s[1] \in {"put_key", "rebuild", "persist", "check", "confirm", "balances"} =>
                t \in Early(kind)
           /\ s[1] = "put_implementation" => t \in Early(kind) \cup Authorized(kind)
           /\ s[1] = "authorize_if_missing" =>
                /\ t \in Authorized(kind)
                /\ <<"authorize", "fill", "send", "await">> \o t \in Early(kind)
                /\ (<<"authorize", "fill", "send", "await">> \o t)[1] = "authorize"
           /\ s[1] = "authorize" => t \in AuthFilling(kind)
           /\ s[1] = "delegation" => kind # "executor"
           /\ s[1] = "build" => t \in OpSending(kind)
<1>1. CASE kind = "executor"
  <2>1. CASE s = <<"put_key", "persist", "put_implementation", "authorize_if_missing", "check",
                   "nonce", "fill", "send", "await">>
    BY <1>1, <2>1, Tails, Heads, ZenonT(40) DEF Early
  <2>2. CASE s = <<"rebuild", "persist", "put_implementation", "authorize_if_missing", "check",
                   "nonce", "fill", "send", "await">>
    BY <1>1, <2>2, Tails, Heads, ZenonT(40) DEF Early
  <2>3. CASE s = <<"persist", "put_implementation", "authorize_if_missing", "check", "nonce",
                   "fill", "send", "await">>
    BY <1>1, <2>3, Tails, Heads, ZenonT(40) DEF Early
  <2>4. CASE s = <<"put_implementation", "authorize_if_missing", "check", "nonce", "fill",
                   "send", "await">>
    BY <1>1, <2>4, Tails, Heads, ZenonT(40) DEF Early, Authorized
  <2>5. CASE s = <<"authorize_if_missing", "check", "nonce", "fill", "send", "await">>
    BY <1>1, <2>5, Tails, Heads, OtherPlans, ZenonT(40) DEF Early, Authorized
  <2>6. CASE s = <<"authorize", "fill", "send", "await", "check", "nonce", "fill", "send",
                   "await">>
    BY <1>1, <2>6, Tails, Heads, ZenonT(40) DEF Early, AuthFilling
  <2>. QED BY <1>1, <2>1, <2>2, <2>3, <2>4, <2>5, <2>6, Zenon DEF Early
<1>2. CASE kind # "executor"
  <2>1. CASE s = <<"put_key", "persist", "check", "put_implementation", "nonce", "fill",
                   "send", "mined">>
    BY <1>2, <2>1, Tails, Heads, ZenonT(40) DEF Early
  <2>2. CASE s = <<"rebuild", "persist", "check", "put_implementation", "nonce", "fill",
                   "send", "mined">>
    BY <1>2, <2>2, Tails, Heads, ZenonT(40) DEF Early
  <2>3. CASE s = <<"persist", "check", "put_implementation", "nonce", "fill", "send", "mined">>
    BY <1>2, <2>3, Tails, Heads, ZenonT(40) DEF Early
  <2>4. CASE s = <<"check", "put_implementation", "nonce", "fill", "send", "mined">>
    BY <1>2, <2>4, Tails, Heads, ZenonT(40) DEF Early
  <2>5. CASE s = <<"put_implementation", "nonce", "fill", "send", "mined">>
    BY <1>2, <2>5, Tails, Heads, ZenonT(40) DEF Early, Authorized
  <2>6. CASE s = <<"delegation">>
    BY <1>2, <2>6, Tails, Heads, ZenonT(40) DEF Early
  <2>7. CASE s = <<"authorize", "fill", "send", "mined", "nonce", "fill", "send", "mined">>
    BY <1>2, <2>7, Tails, Heads, ZenonT(40) DEF Early, AuthFilling
  <2>8. CASE s = <<"confirm", "balances", "build", "send_op", "receipt">>
    BY <1>2, <2>8, Tails, Heads, ZenonT(40) DEF Early
  <2>9. CASE s = <<"balances", "build", "send_op", "receipt">>
    BY <1>2, <2>9, Tails, Heads, ZenonT(40) DEF Early
  <2>10. CASE s = <<"build", "send_op", "receipt">>
    BY <1>2, <2>10, Tails, Heads, ZenonT(40) DEF Early, OpSending
  <2>11. CASE s = <<"refused">>
    BY <1>2, <2>11, Tails, Heads, ZenonT(40) DEF Early
  <2>. QED BY <1>2, <2>1, <2>2, <2>3, <2>4, <2>5, <2>6, <2>7, <2>8, <2>9, <2>10, <2>11, Zenon DEF Early
<1>. QED BY <1>1, <1>2, Zenon

(* A shield or a transfer of one call picks it.                              *)
LEMMA PickingSteps ==
    ASSUME NEW kind \in Kinds, NEW s \in Picking(kind)
    PROVE  /\ s[1] \in {"pick", "confirm", "balances"}
           /\ s[1] = "pick" => Tail(s) \in Filling(kind)
           /\ s[1] # "pick" => Tail(s) \in Picking(kind)
<1>1. CASE kind = "executor"
  BY <1>1, Zenon DEF Picking
<1>2. CASE kind # "executor"
  <2>1. CASE s = <<"pick", "covers", "fill", "confirm", "send", "mined">>
    BY <1>2, <2>1, Tails, Heads, ZenonT(40) DEF Picking, Filling
  <2>2. CASE s = <<"pick", "simulate", "covers", "fill", "confirm", "send", "mined">>
    BY <1>2, <2>2, Tails, Heads, ZenonT(40) DEF Picking, Filling
  <2>3. CASE s = <<"confirm", "balances", "pick", "fill", "send", "mined">>
    BY <1>2, <2>3, Tails, Heads, ZenonT(40) DEF Picking, Filling
  <2>4. CASE s = <<"balances", "pick", "fill", "send", "mined">>
    BY <1>2, <2>4, Tails, Heads, ZenonT(40) DEF Picking, Filling
  <2>5. CASE s = <<"pick", "fill", "send", "mined">>
    BY <1>2, <2>5, Tails, Heads, ZenonT(40) DEF Picking, Filling
  <2>. QED BY <1>2, <2>1, <2>2, <2>3, <2>4, <2>5, Zenon DEF Picking
<1>. QED BY <1>1, <1>2, Zenon

(* The first batch of an account is signed, then its authorisation.          *)
LEMMA ForeignSteps ==
    ASSUME NEW kind \in Kinds, NEW s \in Foreign(kind)
    PROVE  s[1] = "first_nonce" /\ Tail(s) \in ForeignSigned(kind)
<1>1. CASE kind = "executor"
  BY <1>1, Zenon DEF Foreign
<1>2. CASE kind # "executor"
  BY <1>2, Tails, Heads, ZenonT(40) DEF Foreign, ForeignSigned
<1>. QED BY <1>1, <1>2, Zenon

(* Both go in one transaction.                                               *)
LEMMA ForeignSignedSteps ==
    ASSUME NEW kind \in Kinds, NEW s \in ForeignSigned(kind)
    PROVE  s[1] = "authorize" /\ Tail(s) \in Filling(kind)
<1>1. CASE kind = "executor"
  BY <1>1, Zenon DEF ForeignSigned
<1>2. CASE kind # "executor"
  BY <1>2, Tails, Heads, ZenonT(40) DEF ForeignSigned, Filling
<1>. QED BY <1>1, <1>2, Zenon

(* An authorisation of its own is filled in,                                 *)
LEMMA AuthFillingSteps ==
    ASSUME NEW kind \in Kinds, NEW s \in AuthFilling(kind)
    PROVE  s[1] = "fill" /\ Tail(s) \in AuthSending(kind)
<1>1. CASE kind = "executor"
  BY <1>1, Tails, Heads, ZenonT(40) DEF AuthFilling, AuthSending
<1>2. CASE kind # "executor"
  BY <1>2, Tails, Heads, ZenonT(40) DEF AuthFilling, AuthSending
<1>. QED BY <1>1, <1>2, Zenon

(* sent,                                                                     *)
LEMMA AuthSendingSteps ==
    ASSUME NEW kind \in Kinds, NEW s \in AuthSending(kind)
    PROVE  s[1] = "send" /\ Tail(s) \in Authorized(kind)
<1>1. CASE kind = "executor"
  BY <1>1, Tails, Heads, ZenonT(40) DEF AuthSending, Authorized
<1>2. CASE kind # "executor"
  BY <1>2, Tails, Heads, ZenonT(40) DEF AuthSending, Authorized
<1>. QED BY <1>1, <1>2, Zenon

(* and waited for, before the nonce of the batch is read.                    *)
LEMMA AuthorizedSteps ==
    ASSUME NEW kind \in Kinds, NEW s \in Authorized(kind)
    PROVE  /\ s[1] \in {"await", "mined", "check", "nonce"}
           /\ s[1] = "nonce" => Tail(s) \in Filling(kind)
           /\ s[1] # "nonce" => Tail(s) \in Authorized(kind)
<1>1. CASE kind = "executor"
  <2>1. CASE s = <<"await", "check", "nonce", "fill", "send", "await">>
    BY <1>1, <2>1, Tails, Heads, ZenonT(40) DEF Authorized, Filling
  <2>2. CASE s = <<"check", "nonce", "fill", "send", "await">>
    BY <1>1, <2>2, Tails, Heads, ZenonT(40) DEF Authorized, Filling
  <2>3. CASE s = <<"nonce", "fill", "send", "await">>
    BY <1>1, <2>3, Tails, Heads, ZenonT(40) DEF Authorized, Filling
  <2>. QED BY <1>1, <2>1, <2>2, <2>3, Zenon DEF Authorized
<1>2. CASE kind # "executor"
  <2>1. CASE s = <<"mined", "nonce", "fill", "send", "mined">>
    BY <1>2, <2>1, Tails, Heads, ZenonT(40) DEF Authorized, Filling
  <2>2. CASE s = <<"nonce", "fill", "send", "mined">>
    BY <1>2, <2>2, Tails, Heads, ZenonT(40) DEF Authorized, Filling
  <2>. QED BY <1>2, <2>1, <2>2, Zenon DEF Authorized
<1>. QED BY <1>1, <1>2, Zenon

(* The calls are filled in,                                                  *)
LEMMA FillingSteps ==
    ASSUME NEW kind \in Kinds, NEW s \in Filling(kind)
    PROVE  /\ s[1] \in {"simulate", "covers", "fill"}
           /\ s[1] = "fill" => Tail(s) \in Sending(kind)
           /\ s[1] # "fill" => Tail(s) \in Filling(kind)
<1>1. CASE kind = "executor"
  BY <1>1, Tails, Heads, ZenonT(40) DEF Filling, Sending
<1>2. CASE kind # "executor"
  <2>1. CASE s = <<"simulate", "covers", "fill", "confirm", "send", "mined">>
    BY <1>2, <2>1, Tails, Heads, ZenonT(40) DEF Filling, Sending
  <2>2. CASE s = <<"covers", "fill", "confirm", "send", "mined">>
    BY <1>2, <2>2, Tails, Heads, ZenonT(40) DEF Filling, Sending
  <2>3. CASE s = <<"fill", "confirm", "send", "mined">>
    BY <1>2, <2>3, Tails, Heads, ZenonT(40) DEF Filling, Sending
  <2>4. CASE s = <<"fill", "send", "mined">>
    BY <1>2, <2>4, Tails, Heads, ZenonT(40) DEF Filling, Sending
  <2>. QED BY <1>2, <2>1, <2>2, <2>3, <2>4, Zenon DEF Filling
<1>. QED BY <1>1, <1>2, Zenon

(* sent,                                                                     *)
LEMMA SendingSteps ==
    ASSUME NEW kind \in Kinds, NEW s \in Sending(kind)
    PROVE  /\ s[1] \in {"confirm", "send"}
           /\ s[1] = "send" => Tail(s) \in Waiting(kind)
           /\ s[1] # "send" => Tail(s) \in Sending(kind)
<1>1. CASE kind = "executor"
  BY <1>1, Tails, Heads, ZenonT(40) DEF Sending, Waiting
<1>2. CASE kind # "executor"
  <2>1. CASE s = <<"confirm", "send", "mined">>
    BY <1>2, <2>1, Tails, Heads, ZenonT(40) DEF Sending, Waiting
  <2>2. CASE s = <<"send", "mined">>
    BY <1>2, <2>2, Tails, Heads, ZenonT(40) DEF Sending, Waiting
  <2>. QED BY <1>2, <2>1, <2>2, Zenon DEF Sending
<1>. QED BY <1>1, <1>2, Zenon

(* as a user operation where there are several,                              *)
LEMMA OpSendingSteps ==
    ASSUME NEW kind \in Kinds, NEW s \in OpSending(kind)
    PROVE  s[1] = "send_op" /\ Tail(s) \in Waiting(kind)
<1>1. CASE kind = "executor"
  BY <1>1, Zenon DEF OpSending
<1>2. CASE kind # "executor"
  BY <1>2, Tails, Heads, ZenonT(40) DEF OpSending, Waiting
<1>. QED BY <1>1, <1>2, Zenon

(* and waited for.                                                           *)
LEMMA WaitingSteps ==
    ASSUME NEW kind \in Kinds, NEW s \in Waiting(kind)
    PROVE  /\ s[1] \in {"await", "mined", "receipt"} /\ Tail(s) = <<>>
           /\ s[1] = "await" => kind = "executor"
<1>1. CASE kind = "executor"
  BY <1>1, Tails, Heads, ZenonT(40) DEF Waiting
<1>2. CASE kind # "executor"
  <2>1. CASE s = <<"mined">>
    BY <1>2, <2>1, Tails, Heads, ZenonT(40) DEF Waiting
  <2>2. CASE s = <<"receipt">>
    BY <1>2, <2>2, Tails, Heads, ZenonT(40) DEF Waiting
  <2>. QED BY <1>2, <2>1, <2>2, Zenon DEF Waiting
<1>. QED BY <1>1, <1>2, Zenon

(* An executor completes its records before anything else.                   *)
PointsOf(kind) ==
    UNION {Early(kind), Picking(kind), Foreign(kind), ForeignSigned(kind), AuthFilling(kind),
           AuthSending(kind), Authorized(kind), Filling(kind), Sending(kind), OpSending(kind),
           Waiting(kind), {<<>>}}

LEMMA PointsNotEmpty ==
    ASSUME NEW kind \in Kinds
    PROVE  <<>> \notin UNION {Early(kind), Picking(kind), Foreign(kind), ForeignSigned(kind),
                             AuthFilling(kind), AuthSending(kind), Authorized(kind),
                             Filling(kind), Sending(kind), OpSending(kind), Waiting(kind)}
<1>1. CASE kind = "executor"
  BY <1>1 DEF Early, Picking, Foreign, ForeignSigned, AuthFilling, AuthSending,
              Authorized, Filling, Sending, OpSending, Waiting
<1>2. CASE kind # "executor"
  BY <1>2 DEF Early, Picking, Foreign, ForeignSigned, AuthFilling, AuthSending,
              Authorized, Filling, Sending, OpSending, Waiting
<1>. QED BY <1>1, <1>2

LEMMA RecordingFirst ==
    ASSUME NEW kind \in Kinds, NEW s \in PointsOf(kind), s # <<>>, Tail(s) # <<>>
    PROVE  LET t == Tail(s) IN
           /\ t[1] \notin {"put_key", "rebuild"}
           /\ t[1] = "persist" <=> s[1] \in {"put_key", "rebuild"}
           /\ kind = "executor" => (t[1] = "put_implementation" <=> s[1] = "persist")
<1>1. CASE kind = "executor"
  BY <1>1 DEF PointsOf, Early, Picking, Foreign, ForeignSigned, AuthFilling, AuthSending,
              Authorized, Filling, Sending, OpSending, Waiting
<1>2. CASE kind # "executor"
  BY <1>2 DEF PointsOf, Early, Picking, Foreign, ForeignSigned, AuthFilling, AuthSending,
              Authorized, Filling, Sending, OpSending, Waiting
<1>. QED BY <1>1, <1>2

-----------------------------------------------------------------------------
(* Where a command is, by the step it takes next.                          *)

LEMMA Where ==
    ASSUME NEW c, c.kind \in Kinds, Placed(c)
    PROVE  /\ c.todo \in PointsOf(c.kind)
           /\ c.todo = <<>> => AtEnd(c)
           /\ c.todo # <<>> =>
                LET h == c.todo[1] IN
                /\ h \in {"put_key", "rebuild", "persist", "put_implementation",
                          "authorize_if_missing", "delegation", "build"} => AtEarly(c)
                /\ h = "pick" => AtPicking(c)
                /\ h = "first_nonce" => AtForeign(c)
                /\ h = "authorize" => AtEarly(c) \/ AtForeignSigned(c)
                /\ h = "nonce" => AtAuthorized(c)
                /\ h = "check" => AtEarly(c) \/ AtAuthorized(c)
                /\ h = "balances" => AtEarly(c) \/ AtPicking(c)
                /\ h = "confirm" => AtEarly(c) \/ AtPicking(c) \/ AtSending(c)
                /\ h \in {"simulate", "covers"} => AtFilling(c)
                /\ h = "fill" => AtAuthFilling(c) \/ AtFilling(c)
                /\ h = "send" => AtAuthSending(c) \/ AtSending(c)
                /\ h = "send_op" => AtOpSending(c)
                /\ h \in {"mined", "await"} => AtAuthorized(c) \/ AtWaiting(c)
                /\ h = "receipt" => AtWaiting(c)
<1> DEFINE k == c.kind
           s == c.todo
<1>1. s \in PointsOf(k)
  BY Zenon DEF Placed, PointsOf, AtEarly, AtPicking, AtForeign, AtForeignSigned, AtAuthFilling,
       AtAuthSending, AtAuthorized, AtFilling, AtSending, AtOpSending, AtWaiting, AtEnd
<1>2. s = <<>> => AtEnd(c)
  BY PointsNotEmpty, Zenon DEF Placed, AtEarly, AtPicking, AtForeign, AtForeignSigned,
       AtAuthFilling, AtAuthSending, AtAuthorized, AtFilling, AtSending, AtOpSending, AtWaiting
<1>3. AtEarly(c) => s[1] \in {"put_key", "rebuild", "persist", "put_implementation",
                        "authorize_if_missing", "authorize", "check", "delegation", "confirm",
                        "balances", "build", "refused"}
  BY EarlySteps, Zenon DEF AtEarly
<1>4. AtPicking(c) => s[1] \in {"pick", "confirm", "balances"}
  BY PickingSteps, Zenon DEF AtPicking
<1>5. (AtForeign(c) => s[1] = "first_nonce") /\ (AtForeignSigned(c) => s[1] = "authorize")
  BY ForeignSteps, ForeignSignedSteps, Zenon DEF AtForeign, AtForeignSigned
<1>6. (AtAuthFilling(c) => s[1] = "fill") /\ (AtAuthSending(c) => s[1] = "send")
  BY AuthFillingSteps, AuthSendingSteps, Zenon DEF AtAuthFilling, AtAuthSending
<1>7. AtAuthorized(c) => s[1] \in {"await", "mined", "check", "nonce"}
  BY AuthorizedSteps, Zenon DEF AtAuthorized
<1>8. AtFilling(c) => s[1] \in {"simulate", "covers", "fill"}
  BY FillingSteps, Zenon DEF AtFilling
<1>9. (AtSending(c) => s[1] \in {"confirm", "send"}) /\ (AtOpSending(c) => s[1] = "send_op")
  BY SendingSteps, OpSendingSteps, Zenon DEF AtSending, AtOpSending
<1>10. AtWaiting(c) => s[1] \in {"await", "mined", "receipt"}
  BY WaitingSteps, Zenon DEF AtWaiting
<1>11. AtEnd(c) => s = <<>>
  BY DEF AtEnd
<1>. QED BY <1>1, <1>2, <1>3, <1>4, <1>5, <1>6, <1>7, <1>8, <1>9, <1>10, <1>11 DEF Placed

(* A command that takes a step with no record to write stays recorded.       *)
LEMMA RecordedNext ==
    ASSUME NEW c, c.kind \in Kinds, Placed(c), Recorded(c, db), c.todo # <<>>,
           c.todo[1] \notin {"put_key", "rebuild", "persist", "put_implementation"},
           NEW d, d.kind = c.kind, d.context = c.context, d.todo = Tail(c.todo)
    PROVE  Recorded(d, db)
<1>1. c.todo \in PointsOf(c.kind)
  BY Where
<1>2. CASE Tail(c.todo) = <<>>
  BY <1>2 DEF Recorded
<1>3. CASE Tail(c.todo) # <<>>
  <2>1. LET t == Tail(c.todo) IN
        /\ t[1] \notin {"put_key", "rebuild", "persist"}
        /\ c.kind = "executor" => t[1] # "put_implementation"
    BY <1>1, <1>3, RecordingFirst
  <2>2. d.todo[1] # "put_key"
    BY <2>1, Zenon
  <2>. QED BY <2>2 DEF Recorded
<1>. QED BY <1>2, <1>3

(* What the invariant says of the running commands.                          *)
LEMMA ActiveCommand ==
    ASSUME IInv, NEW q \in Procs, cmd[q] # Idle
    PROVE  /\ Formed(cmd[q]) /\ Placed(cmd[q]) /\ Recorded(cmd[q], db) /\ cmd[q].kind \in Kinds
           /\ cmd[q].id \in DOMAIN asked /\ cmd[q].id \in Active
BY DEF IInv, Running, Formed, Active

LEMMA AtMeansActive ==
    ASSUME NEW q \in Procs, NEW step, At(q, step)
    PROVE  cmd[q] # Idle /\ cmd[q].todo # <<>> /\ cmd[q].todo[1] = step
BY DEF At, Idle

(* A command takes a step, with nothing sent, said or asked for; records may *)
(* be completed.                                                             *)
Completes(before, after) ==
    /\ before.key # None => after.key = before.key
    /\ before.tag => after.tag
    /\ before.implementation = Simple => after.implementation = Simple

LEMMA Stepped ==
    ASSUME IInv, NEW q \in Procs, cmd[q] # Idle, NEW d, d.id = cmd[q].id,
           cmd' = [cmd EXCEPT ![q] = d], UNCHANGED <<chain, pending, asked, said, overlapped>>,
           Formed(d), Placed(d), Recorded(d, db'), db' \in Records, Completes(db, db')
    PROVE  IInv'
<1>1. UNCHANGED <<count, delegate, nonce, opNonce, held, mined, ran, pending, asked, said,
                  overlapped>>
  BY DEF chain
<1>2. Typed'
  BY <1>1 DEF IInv, Typed
<1>3. d # Idle
  <2>1. "id" \in DOMAIN d
    BY DEF Formed, Fields
  <2>2. "id" \notin DOMAIN Idle
    BY DEF Idle
  <2>. QED BY <2>1, <2>2
<1>4. \A p \in Procs : cmd'[p] = IF p = q THEN d ELSE cmd[p]
  BY DEF IInv, Typed
<1>5. Sent' = Sent
  BY <1>1 DEF Sent
<1>6. ASSUME NEW c, Formed(c) PROVE Formed(c)'
  BY <1>1, <1>6 DEF Formed, Signed
<1>7. ASSUME NEW c, Placed(c) PROVE Placed(c)'
  BY <1>1, <1>5, <1>7
     DEF Placed, AtEarly, AtPicking, AtForeign, AtForeignSigned, AtAuthFilling,
         AtAuthSending, AtAuthorized, AtFilling, AtSending, AtOpSending, AtWaiting, AtEnd,
         Silent, Unsent, Ready, Loaded, RanOf
<1>8. ASSUME NEW c, Formed(c), Recorded(c, db) PROVE Recorded(c, db')
  <2>1. c.context # None
    BY <1>8, BroadcastsAssumption DEF Formed
  <2>2. db.key = c.context => db'.key = c.context
    BY <2>1 DEF Completes
  <2>. QED BY <1>8, <2>2 DEF Recorded, Completes
<1>9. \A p \in Procs : (cmd[p] = Idle \/ Running(cmd[p]))'
  <2>1. ASSUME NEW p \in Procs PROVE (cmd[p] = Idle \/ Running(cmd[p]))'
    <3>1. CASE p = q
      <4>1. cmd'[p] = d
        BY <1>4, <3>1
      <4>2. Formed(d)' /\ Placed(d)'
        BY <1>6, <1>7
      <4>. QED BY <4>1, <4>2 DEF Running
    <3>2. CASE p # q
      <4>1. cmd'[p] = cmd[p]
        BY <1>4, <3>2
      <4>2. CASE cmd[p] = Idle
        BY <4>1, <4>2 DEF Idle
      <4>3. CASE Running(cmd[p])
        <5>1. PICK c : c = cmd[p]
          OBVIOUS
        <5>2. Formed(c) /\ Placed(c) /\ Recorded(c, db)
          BY <4>3, <5>1 DEF Running
        <5>3. Formed(c)' /\ Placed(c)' /\ Recorded(c, db')
          BY <1>6, <1>7, <1>8, <5>2
        <5>4. cmd'[p] = c
          BY <4>1, <5>1
        <5>. QED BY <5>3, <5>4 DEF Running
      <4>. QED BY <4>2, <4>3 DEF IInv
    <3>. QED BY <3>1, <3>2
  <2>. QED BY <2>1
<1>10. (\A t \in Sent : Sound(t))' /\ OneCarrier' /\ RanOnce' /\ Outcome' /\ ReadyTx'
  BY <1>1, <1>5, ZenonT(30) DEF IInv, Sound, OneCarrier, RanOnce, Outcome, ReadyTx, RanOf
<1>11. Active' = Active
  BY <1>1, <1>3, <1>4 DEF Active
<1>12. Apart' /\ Lone'
  BY <1>1, <1>3, <1>4, <1>11 DEF IInv, Apart, Lone
<1>13. Told'
  BY <1>1 DEF IInv, Told, SuccessMeansRun, RanOf
<1>14. DelegationRebuildable'
  <2>1. ASSUME NEW t \in Sent, t.auth # None, asked[t.cmd].kind = "executor"
        PROVE  db' = [key |-> t.auth.account, tag |-> TRUE, implementation |-> t.auth.to]
    <3>1. db = [key |-> t.auth.account, tag |-> TRUE, implementation |-> t.auth.to]
      BY <2>1 DEF IInv, DelegationRebuildable
    <3>2. Sound(t) /\ t.auth.to = Simple /\ t.auth.account \in Accounts
      BY <2>1 DEF IInv, Sound, Authorizations
    <3>3. t.auth.account # None
      BY <3>2, BroadcastsAssumption
    <3>4. db'.key = t.auth.account /\ db'.tag = TRUE /\ db'.implementation = Simple
      BY <3>1, <3>2, <3>3 DEF Completes, Records
    <3>. QED BY <3>2, <3>4 DEF Records
  <2>. QED BY <2>1, <1>1, <1>5 DEF DelegationRebuildable
<1>. QED BY <1>2, <1>9, <1>10, <1>12, <1>13, <1>14 DEF IInv

-----------------------------------------------------------------------------
(* The steps of a command that send nothing.                               *)

(* Two records of a command that differ in some fields only.                 *)
Alike(c, d, changed) == DOMAIN d = DOMAIN c /\ \A f \in Fields \ changed : d[f] = c[f]

LEMMA FormedNext ==
    ASSUME NEW c, Formed(c), NEW d, Alike(c, d, {"todo", "picked", "auth", "at", "tx"}),
           Signed(d), c.todo # <<"refused">>
    PROVE  Formed(d)
BY DEF Formed, Alike, Fields

LEMMA SilentIsUnsent == ASSUME NEW id, Silent(id) PROVE Unsent(id)
BY DEF Silent, Unsent, Carries

LEMMA NotRefused == ASSUME NEW s, s[1] # "refused" PROVE s # <<"refused">>
OBVIOUS

(* A step that only leaves the rest to do.                                   *)
LEMMA Passed ==
    ASSUME NEW c, Formed(c), Placed(c), Recorded(c, db), c.todo # <<>>,
           c.todo[1] \in {"check", "confirm", "balances", "simulate", "covers"},
           NEW d, Alike(c, d, {"todo"}), d.todo = Tail(c.todo)
    PROVE  Formed(d) /\ Placed(d) /\ Recorded(d, db) /\ d.id = c.id
<1>1. /\ d.kind = c.kind /\ d.id = c.id /\ d.context = c.context /\ d.payer = c.payer
      /\ d.calls = c.calls /\ d.picked = c.picked /\ d.auth = c.auth /\ d.at = c.at
      /\ d.tx = c.tx
  BY DEF Alike, Fields
<1>2. c.kind \in Kinds
  BY DEF Formed
<1>3. Formed(d)
  <2>1. Alike(c, d, {"todo", "picked", "auth", "at", "tx"})
    BY DEF Alike
  <2>2. Signed(d)
    BY <1>1 DEF Formed, Signed
  <2>3. c.todo # <<"refused">>
    BY NotRefused
  <2>. QED BY <2>1, <2>2, <2>3, FormedNext
<1>4. Placed(d)
  <2>1. CASE AtEarly(c)
    <3>1. c.todo[1] \in {"check", "confirm", "balances"}
      BY <2>1, <1>2, EarlySteps DEF AtEarly
    <3>2. Tail(c.todo) \in Early(c.kind)
      BY <2>1, <3>1, <1>2, EarlySteps DEF AtEarly
    <3>. QED BY <2>1, <3>2, <1>1 DEF Placed, AtEarly, Blank
  <2>2. CASE AtPicking(c)
    <3>1. Tail(c.todo) \in Picking(c.kind)
      BY <2>2, <1>2, PickingSteps DEF AtPicking
    <3>. QED BY <2>2, <3>1, <1>1 DEF Placed, AtPicking, Blank
  <2>3. CASE AtAuthorized(c)
    <3>1. Tail(c.todo) \in Authorized(c.kind)
      BY <2>3, <1>2, AuthorizedSteps DEF AtAuthorized
    <3>. QED BY <2>3, <3>1, <1>1 DEF Placed, AtAuthorized, Blank
  <2>4. CASE AtFilling(c)
    <3>1. Tail(c.todo) \in Filling(c.kind)
      BY <2>4, <1>2, FillingSteps DEF AtFilling
    <3>. QED BY <2>4, <3>1, <1>1 DEF Placed, AtFilling, Loaded, Ready, Self
  <2>5. CASE AtSending(c)
    <3>1. Tail(c.todo) \in Sending(c.kind)
      BY <2>5, <1>2, SendingSteps DEF AtSending
    <3>. QED BY <2>5, <3>1, <1>1 DEF Placed, AtSending, Loaded, Ready, Self, TxLoaded
  <2>. QED BY <2>1, <2>2, <2>3, <2>4, <2>5, <1>2, Where
<1>5. Recorded(d, db)
  BY <1>1, <1>2, RecordedNext
<1>. QED BY <1>1, <1>3, <1>4, <1>5

LEMMA CompletesItself == Completes(db, db)
BY DEF Completes

(* The command of a process, when it takes a step that sends nothing.        *)
LEMMA QuietStep ==
    ASSUME IInv, NEW q \in Procs, cmd[q] # Idle, NEW d, d.id = cmd[q].id,
           cmd' = [cmd EXCEPT ![q] = d], OnlyCmd, Formed(d), Placed(d), Recorded(d, db)
    PROVE  IInv'
<1>1. db' = db /\ UNCHANGED <<chain, pending, asked, said, overlapped>>
  BY DEF OnlyCmd
<1>2. db' \in Records /\ Completes(db, db') /\ Recorded(d, db')
  BY <1>1, CompletesItself DEF IInv, Typed
<1>. QED BY <1>1, <1>2, Stepped

LEMMA PassingSteps ==
    ASSUME IInv, NEW q \in Procs,
           \/ CheckDelegate(q) \/ Confirm(q) \/ CheckBalances(q) \/ Simulate(q) \/ Covers(q)
    PROVE  IInv'
<1> DEFINE c == cmd[q]
           d == [c EXCEPT !.todo = Tail(c.todo)]
<1>1. \E h \in {"check", "confirm", "balances", "simulate", "covers"} : At(q, h)
  BY DEF CheckDelegate, Confirm, CheckBalances, Simulate, Covers
<1>2. c # Idle /\ c.todo # <<>> /\ c.todo[1] \in {"check", "confirm", "balances", "simulate", "covers"}
  BY <1>1, AtMeansActive
<1>3. cmd' = [cmd EXCEPT ![q] = d] /\ OnlyCmd
  BY DEF CheckDelegate, Confirm, CheckBalances, Simulate, Covers, Advance, Then
<1>4. Formed(c) /\ Placed(c) /\ Recorded(c, db)
  BY <1>2, ActiveCommand
<1>5. Alike(c, d, {"todo"}) /\ d.todo = Tail(c.todo)
  BY <1>4 DEF Alike, Formed, Fields
<1> HIDE DEF c, d
<1>6. Formed(d) /\ Placed(d) /\ Recorded(d, db) /\ d.id = c.id
  BY <1>2, <1>4, <1>5, Passed
<1>. QED BY <1>2, <1>3, <1>6, QuietStep DEF c


(* A command after a step that changes one field of its record.              *)
After(c, f, v) ==
    [x \in Fields |-> IF x = "todo" THEN Tail(c.todo) ELSE IF x = f THEN v ELSE c[x]]

LEMMA Advanced ==
    ASSUME NEW q, NEW c, DOMAIN c = Fields, NEW f \in Fields \ {"todo"}, NEW v, NEW e,
           e = [c EXCEPT ![f] = v], Advance(q, e)
    PROVE  cmd' = [cmd EXCEPT ![q] = After(c, f, v)]
<1>1. "todo" \in Fields
  BY DEF Fields
<1>2. [e EXCEPT !.todo = Tail(e.todo)] = After(c, f, v)
  BY <1>1 DEF After
<1>. QED BY <1>2 DEF Advance, Then

LEMMA AfterFields ==
    ASSUME NEW c, Formed(c), NEW f \in {"picked", "auth", "at", "tx"}, NEW v
    PROVE  LET d == After(c, f, v) IN
           /\ Alike(c, d, {"todo", "picked", "auth", "at", "tx"}) /\ d.todo = Tail(c.todo)
           /\ d.kind = c.kind /\ d.id = c.id /\ d.context = c.context /\ d.payer = c.payer
           /\ d.calls = c.calls
           /\ d.picked = (IF f = "picked" THEN v ELSE c.picked)
           /\ d.auth = (IF f = "auth" THEN v ELSE c.auth)
           /\ d.at = (IF f = "at" THEN v ELSE c.at)
           /\ d.tx = (IF f = "tx" THEN v ELSE c.tx)
BY DEF After, Alike, Fields, Formed

(* Such a step, in general: the command must be somewhere after it.          *)
LEMMA FieldStep ==
    ASSUME IInv, NEW q \in Procs, NEW c, c = cmd[q], c # Idle, c.todo # <<>>,
           c.todo[1] \notin {"put_key", "rebuild", "persist", "put_implementation", "refused"},
           NEW f \in {"picked", "auth", "at", "tx"}, NEW v, NEW d, d = After(c, f, v),
           cmd' = [cmd EXCEPT ![q] = d], OnlyCmd, Signed(d), Placed(d)
    PROVE  IInv'
<1>1. Formed(c) /\ Placed(c) /\ Recorded(c, db) /\ c.kind \in Kinds
  BY ActiveCommand
<1>2. /\ Alike(c, d, {"todo", "picked", "auth", "at", "tx"}) /\ d.todo = Tail(c.todo)
      /\ d.kind = c.kind /\ d.id = c.id /\ d.context = c.context
  BY <1>1, AfterFields
<1>3. Formed(d)
  BY <1>1, <1>2, NotRefused, FormedNext
<1>4. Recorded(d, db)
  BY <1>1, <1>2, RecordedNext
<1>. QED BY <1>2, <1>3, <1>4, QuietStep

(* A transaction has been waited for: that of an authorisation, or the one   *)
(* with the calls, which took effect if nothing else was under way.          *)
LEMMA WaitingNext ==
    ASSUME IInv, NEW q \in Procs, WaitMined(q) \/ AwaitReceipt(q) \/ Receipt(q)
    PROVE  IInv'
<1>1. PICK c : c = cmd[q]
  OBVIOUS
<1>2. /\ c # Idle /\ c.todo # <<>> /\ c.todo[1] \in {"mined", "await", "receipt"}
      /\ c.todo[1] # "await" => Included(c, {"done", "nothing"})
  <2>1. CASE WaitMined(q)
    BY <1>1, <2>1, AtMeansActive DEF WaitMined
  <2>2. CASE AwaitReceipt(q)
    BY <1>1, <2>2, AtMeansActive DEF AwaitReceipt
  <2>3. CASE Receipt(q)
    BY <1>1, <2>3, AtMeansActive DEF Receipt, Included
  <2>. QED BY <2>1, <2>2, <2>3
<1>3. Formed(c) /\ Placed(c) /\ c.kind \in Kinds
  BY <1>1, <1>2, ActiveCommand
<1>4. OnlyCmd /\ \E v : cmd' = [cmd EXCEPT ![q] = After(c, "tx", v)]
  <2>1. DOMAIN c = Fields /\ "tx" \in Fields \ {"todo"}
    BY <1>3 DEF Formed, Fields
  <2>2. CASE WaitMined(q) \/ AwaitReceipt(q)
    <3>1. Advance(q, [c EXCEPT !.tx = None]) /\ OnlyCmd
      BY <1>1, <2>2, Zenon DEF WaitMined, AwaitReceipt
    <3>2. cmd' = [cmd EXCEPT ![q] = After(c, "tx", None)]
      BY <2>1, <3>1, Advanced
    <3>. QED BY <3>1, <3>2
  <2>3. CASE Receipt(q)
    <3>1. Advance(q, c) /\ OnlyCmd
      BY <1>1, <2>3, Zenon DEF Receipt
    <3>2. [c EXCEPT !.todo = Tail(c.todo)] = After(c, "tx", c.tx)
      BY <2>1 DEF After, Fields
    <3>. QED BY <3>1, <3>2 DEF Advance, Then
  <2>. QED BY <2>2, <2>3
<1>5. PICK v : cmd' = [cmd EXCEPT ![q] = After(c, "tx", v)]
  BY <1>4
<1>6. PICK d : d = After(c, "tx", v)
  OBVIOUS
<1>7. /\ d.todo = Tail(c.todo) /\ d.kind = c.kind /\ d.id = c.id /\ d.context = c.context
      /\ d.payer = c.payer /\ d.calls = c.calls /\ d.picked = c.picked /\ d.auth = c.auth
      /\ d.at = c.at
  BY <1>3, <1>6, AfterFields
<1>8. c.calls # {}
  BY <1>2, <1>3, NotRefused DEF Formed
<1>9. Placed(d)
  <2>1. CASE AtAuthorized(c)
    <3>1. Tail(c.todo) \in Authorized(c.kind)
      BY <2>1, <1>2, <1>3, AuthorizedSteps DEF AtAuthorized
    <3>. QED BY <2>1, <3>1, <1>7 DEF Placed, AtAuthorized, Blank
  <2>2. CASE AtWaiting(c)
    <3>1. Tail(c.todo) = <<>> /\ (c.todo[1] = "await" => c.kind = "executor")
      BY <2>2, <1>3, WaitingSteps DEF AtWaiting
    <3>2. ASSUME c.kind # "executor", c.id \notin overlapped PROVE RanOf(c.id) # {}
      <4>1. PICK m \in mined : m.tx = c.tx /\ m.outcome \in {"done", "nothing"}
        BY <1>2, <3>1, <3>2 DEF Included
      <4>2. m.tx.cmd = c.id /\ m.tx.calls # {}
        BY <2>2, <4>1, <1>8 DEF AtWaiting
      <4>. QED BY <4>1, <4>2, <3>2 DEF IInv, Outcome
    <3>. QED BY <3>1, <3>2, <1>7 DEF Placed, AtEnd
  <2>. QED BY <2>1, <2>2, <1>2, <1>3, Where
<1>10. Signed(d)
  BY <1>3, <1>7 DEF Formed, Signed
<1>. QED BY <1>1, <1>2, <1>4, <1>5, <1>6, <1>9, <1>10, FieldStep

(* An authorisation is signed at the nonce its account will have.            *)
LEMMA AuthorizeNext ==
    ASSUME IInv, NEW q \in Procs, Authorize(q) PROVE IInv'
<1>1. PICK c : c = cmd[q]
  OBVIOUS
<1>2. c # Idle /\ c.todo # <<>> /\ c.todo[1] = "authorize"
  BY <1>1, AtMeansActive DEF Authorize
<1>3. Formed(c) /\ Placed(c) /\ c.kind \in Kinds
  BY <1>1, <1>2, ActiveCommand
<1>4. PICK v : v = Authorization(c)
  OBVIOUS
<1>5. PICK d : d = After(c, "auth", v)
  OBVIOUS
<1>6. cmd' = [cmd EXCEPT ![q] = d] /\ OnlyCmd
  <2>1. DOMAIN c = Fields /\ "auth" \in Fields \ {"todo"}
    BY <1>3 DEF Formed, Fields
  <2>2. Advance(q, [c EXCEPT !.auth = v]) /\ OnlyCmd
    BY <1>1, <1>4, Zenon DEF Authorize
  <2>. QED BY <1>5, <2>1, <2>2, Advanced
<1>7. /\ d.todo = Tail(c.todo) /\ d.kind = c.kind /\ d.id = c.id /\ d.context = c.context
      /\ d.payer = c.payer /\ d.calls = c.calls /\ d.picked = c.picked /\ d.auth = v
      /\ d.at = c.at
  BY <1>3, <1>5, AfterFields
<1>8. /\ v \in Authorizations /\ v # None /\ v.account = c.context /\ v.to = Simple
      /\ ~ Self(c) => v.nonce = count[c.context]
  <2>1. c.context \in Accounts /\ count[c.context] \in Nat
    BY <1>3 DEF Formed, IInv, Typed
  <2>. QED BY <1>4, <2>1, BroadcastsAssumption DEF Authorization, Authorizations
<1>9. Signed(d)
  BY <1>7, <1>8 DEF Signed
<1>10. Placed(d)
  <2>1. CASE AtEarly(c)
    <3>1. Tail(c.todo) \in AuthFilling(c.kind)
      BY <2>1, <1>2, <1>3, EarlySteps DEF AtEarly
    <3>. QED BY <2>1, <3>1, <1>7, <1>8 DEF Placed, AtAuthFilling, AtEarly, Blank
  <2>2. CASE AtForeignSigned(c)
    <3>1. Tail(c.todo) \in Filling(c.kind)
      BY <2>2, <1>2, <1>3, ForeignSignedSteps DEF AtForeignSigned
    <3>2. d.at = 0 /\ 0 # None
      BY <2>2, <1>7, BroadcastsAssumption DEF AtForeignSigned
    <3>3. Unsent(d.id) /\ Silent(d.id) /\ ~ Self(d) /\ ~ Self(c)
      BY <2>2, <1>7, SilentIsUnsent DEF AtForeignSigned, Self
    <3>4. Loaded(d) /\ Ready(d)
      BY <3>2, <3>3, <1>7, <1>8 DEF Loaded, Ready
    <3>. QED BY <3>1, <3>3, <3>4, <1>7 DEF Placed, AtFilling
  <2>. QED BY <2>1, <2>2, <1>2, <1>3, Where
<1>. QED BY <1>1, <1>2, <1>5, <1>6, <1>9, <1>10, FieldStep

(* The nonce of a batch is read where the delegate runs.                     *)
LEMMA ReadNonceNext ==
    ASSUME IInv, NEW q \in Procs, ReadNonce(q) PROVE IInv'
<1>1. PICK c : c = cmd[q]
  OBVIOUS
<1>2. c # Idle /\ c.todo # <<>> /\ c.todo[1] = "nonce"
  BY <1>1, AtMeansActive DEF ReadNonce
<1>3. Formed(c) /\ Placed(c) /\ c.kind \in Kinds
  BY <1>1, <1>2, ActiveCommand
<1>4. PICK v : v = nonce[c.context]
  OBVIOUS
<1>5. PICK d : d = After(c, "at", v)
  OBVIOUS
<1>6. cmd' = [cmd EXCEPT ![q] = d] /\ OnlyCmd /\ delegate[c.context] = Simple
  <2>1. DOMAIN c = Fields /\ "at" \in Fields \ {"todo"}
    BY <1>3 DEF Formed, Fields
  <2>2. Advance(q, [c EXCEPT !.at = v]) /\ OnlyCmd /\ delegate[c.context] = Simple
    BY <1>1, <1>4, Zenon DEF ReadNonce, Installed
  <2>. QED BY <1>5, <2>1, <2>2, Advanced
<1>7. /\ d.todo = Tail(c.todo) /\ d.kind = c.kind /\ d.id = c.id /\ d.context = c.context
      /\ d.payer = c.payer /\ d.calls = c.calls /\ d.picked = c.picked /\ d.auth = c.auth
      /\ d.at = v
  BY <1>3, <1>5, AfterFields
<1>8. d.at \in Nat /\ d.at # None
  BY <1>3, <1>4, <1>7, BroadcastsAssumption DEF Formed, IInv, Typed
<1>9. AtAuthorized(c)
  BY <1>2, <1>3, Where
<1>10. Tail(c.todo) \in Filling(c.kind)
  BY <1>2, <1>3, <1>9, AuthorizedSteps DEF AtAuthorized
<1>11. Placed(d) /\ Signed(d)
  BY <1>6, <1>7, <1>8, <1>9, <1>10 DEF Placed, AtFilling, AtAuthorized, Loaded, Ready, Signed
<1>. QED BY <1>1, <1>2, <1>5, <1>6, <1>11, FieldStep

(* The first batch of an account has nonce 0.                                *)
LEMMA FirstNonceNext ==
    ASSUME IInv, NEW q \in Procs, FirstNonce(q) PROVE IInv'
<1>1. PICK c : c = cmd[q]
  OBVIOUS
<1>2. c # Idle /\ c.todo # <<>> /\ c.todo[1] = "first_nonce"
  BY <1>1, AtMeansActive DEF FirstNonce
<1>3. Formed(c) /\ Placed(c) /\ c.kind \in Kinds
  BY <1>1, <1>2, ActiveCommand
<1>4. PICK d : d = After(c, "at", 0)
  OBVIOUS
<1>5. cmd' = [cmd EXCEPT ![q] = d] /\ OnlyCmd
  <2>1. DOMAIN c = Fields /\ "at" \in Fields \ {"todo"}
    BY <1>3 DEF Formed, Fields
  <2>2. PICK v : v = 0
    OBVIOUS
  <2>3. Advance(q, [c EXCEPT !.at = v]) /\ OnlyCmd
    BY <1>1, <2>2, Zenon DEF FirstNonce
  <2>4. cmd' = [cmd EXCEPT ![q] = After(c, "at", v)]
    BY <2>1, <2>3, Advanced
  <2>. QED BY <1>4, <2>2, <2>3, <2>4
<1>6. /\ d.todo = Tail(c.todo) /\ d.kind = c.kind /\ d.id = c.id /\ d.context = c.context
      /\ d.payer = c.payer /\ d.calls = c.calls /\ d.picked = c.picked /\ d.auth = c.auth
      /\ d.at = 0
  BY <1>3, <1>4, AfterFields
<1>7. AtForeign(c)
  BY <1>2, <1>3, Where
<1>8. Tail(c.todo) \in ForeignSigned(c.kind)
  BY <1>2, <1>3, <1>7, ForeignSteps DEF AtForeign
<1>9. Placed(d) /\ Signed(d)
  BY <1>6, <1>7, <1>8 DEF Placed, AtForeign, AtForeignSigned, Signed, Self
<1>. QED BY <1>1, <1>2, <1>4, <1>5, <1>9, FieldStep

(* The one call is picked.                                                   *)
LEMMA PickNext ==
    ASSUME IInv, NEW q \in Procs, Pick(q) PROVE IInv'
<1>1. PICK c : c = cmd[q]
  OBVIOUS
<1>2. c # Idle /\ c.todo # <<>> /\ c.todo[1] = "pick"
  BY <1>1, AtMeansActive DEF Pick
<1>3. Formed(c) /\ Placed(c) /\ c.kind \in Kinds
  BY <1>1, <1>2, ActiveCommand
<1>4. OnlyCmd /\ \E x \in c.calls : cmd' = [cmd EXCEPT ![q] = After(c, "picked", {x})]
  <2>1. DOMAIN c = Fields /\ "picked" \in Fields \ {"todo"}
    BY <1>3 DEF Formed, Fields
  <2>2. OnlyCmd /\ \E x \in c.calls : Advance(q, [c EXCEPT !.picked = {x}])
    BY <1>1, Zenon DEF Pick
  <2>3. PICK x \in c.calls : Advance(q, [c EXCEPT !.picked = {x}])
    BY <2>2
  <2>4. cmd' = [cmd EXCEPT ![q] = After(c, "picked", {x})]
    BY <2>1, <2>3, Advanced
  <2>. QED BY <2>2, <2>4
<1>5. PICK x \in c.calls : cmd' = [cmd EXCEPT ![q] = After(c, "picked", {x})]
  BY <1>4
<1>6. PICK d : d = After(c, "picked", {x})
  OBVIOUS
<1>7. /\ d.todo = Tail(c.todo) /\ d.kind = c.kind /\ d.id = c.id /\ d.context = c.context
      /\ d.payer = c.payer /\ d.calls = c.calls /\ d.picked = {x} /\ d.auth = c.auth
      /\ d.at = c.at
  BY <1>3, <1>6, AfterFields
<1>8. AtPicking(c)
  BY <1>2, <1>3, Where
<1>9. Tail(c.todo) \in Filling(c.kind) /\ d.picked = d.calls
  BY <1>2, <1>3, <1>7, <1>8, PickingSteps DEF AtPicking
<1>10. Placed(d) /\ Signed(d)
  BY <1>7, <1>8, <1>9, SilentIsUnsent
     DEF Placed, AtPicking, Blank, AtFilling, Loaded, Ready, Signed
<1>. QED BY <1>1, <1>2, <1>4, <1>5, <1>6, <1>10, FieldStep

(* A transaction is filled in: an authorisation by itself, or the calls.     *)
LEMMA FillNext ==
    ASSUME IInv, NEW q \in Procs, Fill(q) PROVE IInv'
<1>1. PICK c : c = cmd[q]
  OBVIOUS
<1>2. c # Idle /\ c.todo # <<>> /\ c.todo[1] = "fill"
  BY <1>1, AtMeansActive DEF Fill
<1>3. Formed(c) /\ Placed(c) /\ c.kind \in Kinds
  BY <1>1, <1>2, ActiveCommand
<1>4. PICK t : t = Tx(c)
  OBVIOUS
<1>5. PICK d : d = After(c, "tx", t)
  OBVIOUS
<1>6. cmd' = [cmd EXCEPT ![q] = d] /\ OnlyCmd
  <2>1. DOMAIN c = Fields /\ "tx" \in Fields \ {"todo"}
    BY <1>3 DEF Formed, Fields
  <2>2. Advance(q, [c EXCEPT !.tx = t]) /\ OnlyCmd
    BY <1>1, <1>4, Zenon DEF Fill
  <2>. QED BY <1>5, <2>1, <2>2, Advanced
<1>7. /\ d.todo = Tail(c.todo) /\ d.kind = c.kind /\ d.id = c.id /\ d.context = c.context
      /\ d.payer = c.payer /\ d.calls = c.calls /\ d.picked = c.picked /\ d.auth = c.auth
      /\ d.at = c.at /\ d.tx = t
  BY <1>3, <1>5, AfterFields
<1>8. /\ t.cmd = c.id /\ t.from = c.payer /\ t.auth = c.auth /\ t.account = c.context
      /\ t.at = c.at
      /\ t.kind = (IF c.at # None THEN "batch" ELSE IF c.picked # {} THEN "call" ELSE "none")
      /\ t.calls = (IF c.at # None THEN c.calls ELSE c.picked)
  BY <1>4 DEF Tx
<1>9. c.calls # {} /\ Signed(d)
  BY <1>2, <1>3, <1>7, NotRefused DEF Formed, Signed
<1>10. Placed(d)
  <2>1. CASE AtAuthFilling(c)
    <3>1. Tail(c.todo) \in AuthSending(c.kind)
      BY <2>1, <1>3, AuthFillingSteps DEF AtAuthFilling
    <3>. QED BY <2>1, <3>1, <1>7, <1>8 DEF Placed, AtAuthFilling, AtAuthSending, Blank
  <2>2. CASE AtFilling(c)
    <3>1. Tail(c.todo) \in Sending(c.kind)
      BY <2>2, <1>2, <1>3, FillingSteps DEF AtFilling
    <3>2. TxLoaded(d)
      BY <2>2, <1>7, <1>8, <1>9 DEF TxLoaded, AtFilling, Loaded
    <3>. QED BY <2>2, <3>1, <3>2, <1>7 DEF Placed, AtFilling, AtSending, Loaded, Ready, Self
  <2>. QED BY <2>1, <2>2, <1>2, <1>3, Where
<1>. QED BY <1>1, <1>2, <1>5, <1>6, <1>9, <1>10, FieldStep

(* An operation is built with all the calls.                                 *)
LEMMA BuildNext ==
    ASSUME IInv, NEW q \in Procs, Build(q) PROVE IInv'
<1>1. PICK c : c = cmd[q]
  OBVIOUS
<1>2. c # Idle /\ c.todo # <<>> /\ c.todo[1] = "build"
  BY <1>1, AtMeansActive DEF Build
<1>3. Formed(c) /\ Placed(c) /\ c.kind \in Kinds
  BY <1>1, <1>2, ActiveCommand
<1>4. OnlyCmd /\ \E t : /\ t.cmd = c.id /\ t.kind = "op" /\ t.calls = c.calls
                       /\ cmd' = [cmd EXCEPT ![q] = After(c, "tx", t)]
  <2>1. DOMAIN c = Fields /\ "tx" \in Fields \ {"todo"}
    BY <1>3 DEF Formed, Fields
  <2>2. OnlyCmd /\ \E t : /\ t.cmd = c.id /\ t.kind = "op" /\ t.calls = c.calls
                         /\ Advance(q, [c EXCEPT !.tx = t])
    BY <1>1 DEF Build
  <2>3. PICK t : /\ t.cmd = c.id /\ t.kind = "op" /\ t.calls = c.calls
                 /\ Advance(q, [c EXCEPT !.tx = t])
    BY <2>2
  <2>4. PICK e : e = [c EXCEPT !.tx = t]
    OBVIOUS
  <2>5. Advance(q, e)
    BY <2>3, <2>4, Zenon
  <2>6. cmd' = [cmd EXCEPT ![q] = After(c, "tx", t)]
    BY <2>1, <2>4, <2>5, Advanced
  <2>. QED BY <2>2, <2>3, <2>6
<1>5. PICK t : /\ t.cmd = c.id /\ t.kind = "op" /\ t.calls = c.calls
               /\ cmd' = [cmd EXCEPT ![q] = After(c, "tx", t)]
  BY <1>4
<1>6. PICK d : d = After(c, "tx", t)
  OBVIOUS
<1>7. /\ d.todo = Tail(c.todo) /\ d.kind = c.kind /\ d.id = c.id /\ d.context = c.context
      /\ d.calls = c.calls /\ d.auth = c.auth /\ d.tx = t
  BY <1>3, <1>6, AfterFields
<1>8. AtEarly(c)
  BY <1>2, <1>3, Where
<1>9. Tail(c.todo) \in OpSending(c.kind)
  BY <1>2, <1>3, <1>8, EarlySteps DEF AtEarly
<1>10. Placed(d) /\ Signed(d)
  BY <1>5, <1>7, <1>8, <1>9 DEF Placed, AtEarly, AtOpSending, Signed
<1>. QED BY <1>1, <1>2, <1>4, <1>5, <1>6, <1>10, FieldStep
(* The other steps change what is left to do, or also the records.           *)
LEMMA TodoFields ==
    ASSUME NEW c, Formed(c), NEW s, NEW d, d = [c EXCEPT !.todo = s]
    PROVE  /\ Alike(c, d, {"todo", "picked", "auth", "at", "tx"}) /\ d.todo = s
           /\ d.kind = c.kind /\ d.id = c.id /\ d.context = c.context /\ d.payer = c.payer
           /\ d.calls = c.calls /\ d.picked = c.picked /\ d.auth = c.auth /\ d.at = c.at
           /\ d.tx = c.tx
BY DEF Alike, Formed, Fields

LEMMA AuthorizedIsSeq ==
    ASSUME NEW kind \in Kinds, NEW s \in Authorized(kind) PROVE s \in Seq(StepNames)
<1>1. CASE kind = "executor"
  <2>1. /\ <<"await", "check", "nonce", "fill", "send", "await">> \in Seq(StepNames)
        /\ <<"check", "nonce", "fill", "send", "await">> \in Seq(StepNames)
        /\ <<"nonce", "fill", "send", "await">> \in Seq(StepNames)
    BY DEF StepNames
  <2>. QED BY <1>1, <2>1, Zenon DEF Authorized
<1>2. CASE kind # "executor"
  <2>1. /\ <<"mined", "nonce", "fill", "send", "mined">> \in Seq(StepNames)
        /\ <<"nonce", "fill", "send", "mined">> \in Seq(StepNames)
    BY DEF StepNames
  <2>. QED BY <1>2, <2>1, Zenon DEF Authorized
<1>. QED BY <1>1, <1>2

LEMMA AuthorizeIfMissingNext ==
    ASSUME IInv, NEW q \in Procs, AuthorizeIfMissing(q) PROVE IInv'
<1>1. PICK c : c = cmd[q]
  OBVIOUS
<1>2. c # Idle /\ c.todo # <<>> /\ c.todo[1] = "authorize_if_missing"
  BY <1>1, AtMeansActive DEF AuthorizeIfMissing
<1>3. Formed(c) /\ Placed(c) /\ Recorded(c, db) /\ c.kind \in Kinds
  BY <1>1, <1>2, ActiveCommand
<1>4. PICK s : /\ s = Tail(c.todo) \/ s = <<"authorize", "fill", "send", "await">> \o Tail(c.todo)
               /\ cmd' = [cmd EXCEPT ![q] = [c EXCEPT !.todo = s]]
  <2>1. Tail(c.todo) \in Authorized(c.kind)
    <3>1. AtEarly(c)
      BY <1>2, <1>3, Where
    <3>. QED BY <3>1, <1>2, <1>3, EarlySteps DEF AtEarly
  <2>2. <<>> \o Tail(c.todo) = Tail(c.todo)
    BY <2>1, <1>3, AuthorizedIsSeq
  <2>3. cmd' = [cmd EXCEPT ![q] = [c EXCEPT !.todo =
          (IF Installed(c) THEN <<>> ELSE <<"authorize", "fill", "send", "await">>) \o Tail(c.todo)]]
    BY <1>1, Zenon DEF AuthorizeIfMissing, Then
  <2>4. CASE Installed(c)
    BY <2>2, <2>3, <2>4, Zenon
  <2>5. CASE ~ Installed(c)
    BY <2>3, <2>5, Zenon
  <2>. QED BY <2>4, <2>5
<1>5. PICK d : d = [c EXCEPT !.todo = s]
  OBVIOUS
<1>6. /\ Alike(c, d, {"todo", "picked", "auth", "at", "tx"}) /\ d.todo = s
      /\ d.kind = c.kind /\ d.id = c.id /\ d.context = c.context /\ d.payer = c.payer
      /\ d.calls = c.calls /\ d.picked = c.picked /\ d.auth = c.auth /\ d.at = c.at
      /\ d.tx = c.tx
  BY <1>3, <1>5, TodoFields
<1>7. AtEarly(c)
  BY <1>2, <1>3, Where
<1>8. \/ s = Tail(c.todo) /\ s \in Authorized(c.kind)
      \/ s \in Early(c.kind) /\ s[1] = "authorize"
  <2>1. /\ Tail(c.todo) \in Authorized(c.kind)
        /\ <<"authorize", "fill", "send", "await">> \o Tail(c.todo) \in Early(c.kind)
        /\ (<<"authorize", "fill", "send", "await">> \o Tail(c.todo))[1] = "authorize"
    <3>1. c.todo \in Early(c.kind)
      BY <1>7 DEF AtEarly
    <3>. QED BY <1>2, <1>3, <3>1, EarlySteps, Zenon
  <2>. QED BY <1>4, <2>1, Zenon
<1>9. Formed(d)
  BY <1>2, <1>3, <1>6, NotRefused, FormedNext DEF Formed, Signed
<1>10. Placed(d)
  BY <1>6, <1>7, <1>8, SilentIsUnsent DEF Placed, AtEarly, AtAuthorized, Blank
<1>11. Recorded(d, db)
  <2>1. CASE s = Tail(c.todo)
    BY <1>2, <1>3, <1>6, <2>1, RecordedNext
  <2>2. CASE s[1] = "authorize"
    BY <1>2, <1>3, <1>6, <2>2 DEF Recorded
  <2>. QED BY <2>1, <2>2, <1>8
<1>. QED BY <1>1, <1>2, <1>4, <1>5, <1>6, <1>9, <1>10, <1>11, QuietStep DEF AuthorizeIfMissing

LEMMA ReadDelegationNext ==
    ASSUME IInv, NEW q \in Procs, ReadDelegation(q) PROVE IInv'
<1>1. PICK c : c = cmd[q]
  OBVIOUS
<1>2. c # Idle /\ c.todo # <<>> /\ c.todo[1] = "delegation"
  BY <1>1, AtMeansActive DEF ReadDelegation
<1>3. Formed(c) /\ Placed(c) /\ Recorded(c, db) /\ c.kind \in Kinds
  BY <1>1, <1>2, ActiveCommand
<1>4. AtEarly(c) /\ c.kind # "executor"
  BY <1>2, <1>3, Where, EarlySteps DEF AtEarly
<1>5. PICK s : /\ \/ s = <<"nonce", "fill", "send", "mined">>
                  \/ s = <<"authorize", "fill", "send", "mined", "nonce", "fill", "send", "mined">>
                  \/ ~ Self(c) /\ s = <<"first_nonce", "authorize", "fill", "send", "mined">>
               /\ cmd' = [cmd EXCEPT ![q] = [c EXCEPT !.todo = s]]
  <2>1. \E s : /\ s = (CASE Installed(c) -> <<"nonce", "fill", "send", "mined">>
                         [] ~Installed(c) /\ Self(c) ->
                              <<"authorize", "fill", "send", "mined", "nonce", "fill", "send", "mined">>
                         [] OTHER -> <<"first_nonce", "authorize", "fill", "send", "mined">>)
               /\ cmd' = [cmd EXCEPT ![q] = [c EXCEPT !.todo = s]]
    BY <1>1, Zenon DEF ReadDelegation, Then
  <2>. QED BY <2>1
<1>6. PICK d : d = [c EXCEPT !.todo = s]
  OBVIOUS
<1>7. /\ Alike(c, d, {"todo", "picked", "auth", "at", "tx"}) /\ d.todo = s
      /\ d.kind = c.kind /\ d.id = c.id /\ d.context = c.context /\ d.payer = c.payer
      /\ d.calls = c.calls /\ d.picked = c.picked /\ d.auth = c.auth /\ d.at = c.at
      /\ d.tx = c.tx
  BY <1>3, <1>6, TodoFields
<1>8. Formed(d)
  BY <1>2, <1>3, <1>7, NotRefused, FormedNext DEF Formed, Signed
<1>9. Placed(d)
  <2>1. CASE s = <<"nonce", "fill", "send", "mined">>
    <3>1. d.todo \in Authorized(d.kind)
      BY <1>4, <1>7, <2>1, Zenon DEF Authorized
    <3>. QED BY <3>1, <1>4, <1>7, SilentIsUnsent DEF Placed, AtEarly, AtAuthorized, Blank
  <2>2. CASE s = <<"authorize", "fill", "send", "mined", "nonce", "fill", "send", "mined">>
    <3>1. d.todo \in Early(d.kind)
      BY <1>4, <1>7, <2>2, Zenon DEF Early
    <3>. QED BY <3>1, <1>4, <1>7 DEF Placed, AtEarly, Blank
  <2>3. CASE ~ Self(c) /\ s = <<"first_nonce", "authorize", "fill", "send", "mined">>
    <3>1. d.todo \in Foreign(d.kind)
      BY <1>4, <1>7, <2>3, Zenon DEF Foreign
    <3>. QED BY <3>1, <2>3, <1>4, <1>7 DEF Placed, AtEarly, AtForeign, Blank, Self
  <2>. QED BY <2>1, <2>2, <2>3, <1>5
<1>10. Recorded(d, db)
  <2>1. s[1] # "put_key"
    BY <1>5
  <2>. QED BY <2>1, <1>4, <1>7 DEF Recorded
<1>. QED BY <1>1, <1>2, <1>5, <1>6, <1>7, <1>8, <1>9, <1>10, QuietStep DEF ReadDelegation

(* A rebuilt signer is the one of the records.                               *)
LEMMA RebuildNext ==
    ASSUME IInv, NEW q \in Procs, Rebuild(q) PROVE IInv'
<1>1. PICK c : c = cmd[q]
  OBVIOUS
<1>2. c # Idle /\ c.todo # <<>> /\ c.todo[1] = "rebuild"
  BY <1>1, AtMeansActive DEF Rebuild
<1>3. Formed(c) /\ Placed(c) /\ Recorded(c, db) /\ c.kind \in Kinds
  BY <1>1, <1>2, ActiveCommand
<1>4. db.key \in Accounts
  BY DEF Rebuild, IInv, Typed, Records
<1>5. PICK e : e = [c EXCEPT !.context = db.key,
                             !.payer = IF c.kind = "executor" THEN db.key ELSE @]
  OBVIOUS
<1>6. PICK d : d = [e EXCEPT !.todo = Tail(e.todo)]
  OBVIOUS
<1>7. cmd' = [cmd EXCEPT ![q] = d] /\ OnlyCmd
  BY <1>1, <1>5, <1>6, Zenon DEF Rebuild, Advance, Then
<1>8. /\ DOMAIN d = Fields /\ d.todo = Tail(c.todo) /\ d.kind = c.kind /\ d.id = c.id
      /\ d.context = db.key /\ d.payer \in Accounts
      /\ d.calls = c.calls /\ d.picked = c.picked /\ d.auth = c.auth /\ d.at = c.at
  BY <1>3, <1>4, <1>5, <1>6 DEF Formed, Fields
<1>9. AtEarly(c)
  BY <1>2, <1>3, Where
<1>10. Tail(c.todo) \in Early(c.kind) /\ Tail(c.todo) # <<>>
  <2>1. Tail(c.todo) \in Early(c.kind)
    BY <1>2, <1>3, <1>9, EarlySteps DEF AtEarly
  <2>. QED BY <2>1, <1>3, PointsNotEmpty
<1>11. Tail(c.todo)[1] = "persist"
  BY <1>2, <1>3, <1>10, Where, RecordingFirst
<1>12. Formed(d)
  BY <1>2, <1>3, <1>4, <1>8, <1>9, NotRefused DEF Formed, Signed, AtEarly
<1>13. Placed(d) /\ Recorded(d, db)
  BY <1>8, <1>9, <1>10, <1>11 DEF Placed, AtEarly, Blank, Recorded
<1>. QED BY <1>1, <1>2, <1>7, <1>8, <1>12, <1>13, QuietStep

(* The records are written once each, and always the same.                   *)
LEMMA RecordingSteps ==
    ASSUME IInv, NEW q \in Procs, PutKey(q) \/ PersistAndRebuild(q) \/ PutImplementation(q)
    PROVE  IInv'
<1>1. PICK c : c = cmd[q]
  OBVIOUS
<1>2. c # Idle /\ c.todo # <<>> /\ c.todo[1] \in {"put_key", "persist", "put_implementation"}
  BY <1>1, AtMeansActive DEF PutKey, PersistAndRebuild, PutImplementation
<1>3. Formed(c) /\ Placed(c) /\ Recorded(c, db) /\ c.kind \in Kinds
  BY <1>1, <1>2, ActiveCommand
<1>4. db \in Records /\ c.context \in Accounts
  BY <1>3 DEF IInv, Typed, Formed
<1>5. PICK s : s = Tail(c.todo)
  OBVIOUS
<1>6. PICK d : d = [c EXCEPT !.todo = s]
  OBVIOUS
<1>7. cmd' = [cmd EXCEPT ![q] = d] /\ OnlyDb
  BY <1>1, <1>5, <1>6, Zenon
     DEF PutKey, PersistAndRebuild, PutImplementation, SetDb, Advance, Then
<1>8. /\ Alike(c, d, {"todo", "picked", "auth", "at", "tx"}) /\ d.todo = Tail(c.todo)
      /\ d.kind = c.kind /\ d.id = c.id /\ d.context = c.context /\ d.payer = c.payer
      /\ d.calls = c.calls /\ d.picked = c.picked /\ d.auth = c.auth /\ d.at = c.at
      /\ d.tx = c.tx
  <2>1. /\ Alike(c, d, {"todo", "picked", "auth", "at", "tx"}) /\ d.todo = s
        /\ d.kind = c.kind /\ d.id = c.id /\ d.context = c.context /\ d.payer = c.payer
        /\ d.calls = c.calls /\ d.picked = c.picked /\ d.auth = c.auth /\ d.at = c.at
        /\ d.tx = c.tx
    BY <1>3, <1>6, TodoFields
  <2>. QED BY <1>5, <2>1
<1>9. AtEarly(c)
  BY <1>2, <1>3, Where
<1>10. Tail(c.todo) \in Early(c.kind) \cup Authorized(c.kind) /\ Tail(c.todo) # <<>>
  <2>1. Tail(c.todo) \in Early(c.kind) \cup Authorized(c.kind)
    BY <1>2, <1>3, <1>9, EarlySteps DEF AtEarly
  <2>. QED BY <2>1, <1>3, PointsNotEmpty
<1>11. Formed(d)
  BY <1>2, <1>3, <1>8, NotRefused, FormedNext DEF Formed, Signed
<1>12. Placed(d)
  BY <1>8, <1>9, <1>10, SilentIsUnsent DEF Placed, AtEarly, AtAuthorized, Blank
<1>13. LET t == Tail(c.todo) IN
       /\ t[1] \notin {"put_key", "rebuild"} /\ (t[1] = "persist" <=> c.todo[1] = "put_key")
       /\ c.kind = "executor" => (t[1] = "put_implementation" <=> c.todo[1] = "persist")
  BY <1>2, <1>3, <1>10, Where, RecordingFirst
<1>14. db' \in Records /\ Completes(db, db') /\ Recorded(d, db')
  <2>1. CASE PutKey(q)
    <3>1. c.todo[1] = "put_key" /\ db' = [db EXCEPT !.key = c.context]
      BY <1>1, <2>1, AtMeansActive DEF PutKey, SetDb
    <3>2. c.context \in Fresh
      BY <1>2, <1>3, <3>1 DEF Recorded
    <3>3. db.key # None => db.key = c.context
      BY <1>4, <3>2, BroadcastsAssumption DEF Records, Fresh
    <3>4. db' \in Records /\ Completes(db, db')
      BY <1>4, <3>1, <3>2, <3>3 DEF Records, Completes
    <3>5. d.todo[1] = "persist"
      BY <1>8, <1>13, <3>1
    <3>. QED BY <3>4, <3>5 DEF Recorded
  <2>2. CASE PersistAndRebuild(q)
    <3>1. /\ c.todo[1] = "persist" /\ db.key = c.context /\ db' = [db EXCEPT !.tag = TRUE]
      BY <1>1, <2>2, AtMeansActive DEF PersistAndRebuild, SetDb
    <3>2. /\ db' \in Records /\ db'.key = c.context /\ db'.tag = TRUE
          /\ db'.implementation = db.implementation
      BY <1>4, <3>1 DEF Records
    <3>3. d.todo[1] # "put_key" /\ (d.kind = "executor" => d.todo[1] = "put_implementation")
      BY <1>8, <1>13, <3>1
    <3>. QED BY <1>8, <3>1, <3>2, <3>3 DEF Recorded, Completes
  <2>3. CASE PutImplementation(q)
    <3>1. /\ c.todo[1] = "put_implementation" /\ db' = [db EXCEPT !.implementation = Simple]
      BY <1>1, <2>3, AtMeansActive DEF PutImplementation, SetDb
    <3>2. /\ db' \in Records /\ db'.key = db.key /\ db'.tag = db.tag
          /\ db'.implementation = Simple
      BY <1>4, <3>1 DEF Records
    <3>3. c.kind = "executor" => db.key = c.context /\ db.tag
      BY <1>2, <1>3, <3>1 DEF Recorded
    <3>4. d.todo[1] # "put_key"
      BY <1>8, <1>13
    <3>. QED BY <1>8, <3>2, <3>3, <3>4 DEF Recorded, Completes
  <2>. QED BY <2>1, <2>2, <2>3
<1>. QED BY <1>1, <1>2, <1>7, <1>8, <1>11, <1>12, <1>14, Stepped DEF OnlyDb

-----------------------------------------------------------------------------
(* The end of a command, and what it sends.                                *)

(* A command keeps its place while only others go on: what is sent is not    *)
(* its own.                                                                  *)
LEMMA PlaceKept ==
    ASSUME UNCHANGED <<chain, asked, overlapped>>, NEW c, Formed(c), Placed(c),
           NEW t, pending' \in {pending, pending \cup {t}}, c.id # t.cmd
    PROVE  Formed(c)' /\ Placed(c)'
<1>1. UNCHANGED <<count, delegate, nonce, ran, mined>>
  BY DEF chain
<1>2. Formed(c)'
  BY DEF Formed, Signed
<1>3. Sent' \subseteq Sent \cup {t}
  BY <1>1 DEF Sent
<1>4. (Silent(c.id) => Silent(c.id)') /\ (Unsent(c.id) => Unsent(c.id)')
  BY <1>3 DEF Silent, Unsent, Carries
<1>5. (Loaded(c) => Loaded(c)') /\ (Ready(c) => Ready(c)')
  BY <1>1, <1>4 DEF Loaded, Ready
<1>6. AtEnd(c) => AtEnd(c)'
  BY <1>1 DEF AtEnd, RanOf
<1>. QED BY <1>2, <1>4, <1>5, <1>6
     DEF Placed, AtEarly, AtPicking, AtForeign, AtForeignSigned, AtAuthFilling, AtAuthSending,
         AtAuthorized, AtFilling, AtSending, AtOpSending, AtWaiting

(* What a command tells its user, when it says that it succeeded.            *)
MayTell(c, what) == UNCHANGED said \/ Tell(c, what)

LEMMA ToldNext ==
    ASSUME IInv, NEW c, Formed(c), UNCHANGED <<asked, ran, overlapped>>, NEW what,
           MayTell(c, what), what = TRUE => AtEnd(c)
    PROVE  Told' /\ DOMAIN said' = 1 .. MaxCommands
<1>1. /\ c.id \in DOMAIN asked /\ c.kind = asked[c.id].kind /\ DOMAIN said = 1 .. MaxCommands
      /\ DOMAIN asked \subseteq 1 .. MaxCommands
      /\ DOMAIN said' = DOMAIN said
  BY BroadcastsAssumption DEF Formed, IInv, Typed, MayTell, Tell
<1>2. \A i \in 1 .. MaxCommands : said'[i] = TRUE => said[i] = TRUE \/ (i = c.id /\ AtEnd(c))
  BY <1>1 DEF MayTell, Tell
<1>3. \A id \in DOMAIN asked \ overlapped :
        AtEnd(c) /\ id = c.id /\ asked[id].kind # "executor" => RanOf(id) # {}
  BY <1>1 DEF AtEnd
<1>4. SuccessMeansRun'
  BY <1>1, <1>2, <1>3 DEF IInv, Told, SuccessMeansRun, RanOf
<1>5. \A i \in 1 .. MaxCommands : i \notin DOMAIN asked => said'[i] # TRUE
  BY <1>1, <1>2 DEF IInv, Told
<1>. QED BY <1>1, <1>4, <1>5 DEF Told

LEMMA Ended ==
    ASSUME IInv, NEW q \in Procs, NEW c, c = cmd[q], c # Idle, cmd' = [cmd EXCEPT ![q] = Idle],
           UNCHANGED <<chain, pending, db, asked, overlapped>>, NEW what,
           MayTell(c, what), what = TRUE => AtEnd(c)
    PROVE  IInv'
<1>1. UNCHANGED <<count, delegate, nonce, opNonce, held, mined, ran>>
  BY DEF chain
<1>2. Formed(c)
  BY ActiveCommand
<1>3. \A p \in Procs : cmd'[p] = IF p = q THEN Idle ELSE cmd[p]
  BY DEF IInv, Typed
<1>4. Told' /\ DOMAIN said' = 1 .. MaxCommands
  BY <1>1, <1>2, ToldNext
<1>5. Typed'
  BY <1>1, <1>4 DEF IInv, Typed
<1>6. Sent' = Sent
  BY <1>1 DEF Sent
<1>7. \A p \in Procs : (cmd[p] = Idle \/ Running(cmd[p]))'
  <2>1. ASSUME NEW p \in Procs, cmd'[p] # Idle PROVE Running(cmd[p])'
    <3>1. PICK k : k = cmd[p]
      OBVIOUS
    <3>2. p # q /\ k = cmd'[p] /\ Formed(k) /\ Placed(k) /\ Recorded(k, db)
      BY <1>3, <2>1, <3>1 DEF IInv, Running
    <3>3. PICK t : t = [cmd |-> k.id + 1]
      OBVIOUS
    <3>4. k.id # t.cmd
      <4>1. k.id + 1 # k.id
        BY <3>2 DEF Formed, IInv, Typed
      <4>. QED BY <3>3, <4>1
    <3>5. Formed(k)' /\ Placed(k)'
      BY <3>2, <3>4, PlaceKept
    <3>. QED BY <3>2, <3>5 DEF Running
  <2>. QED BY <2>1 DEF Idle
<1>8. (\A t \in Sent : Sound(t))' /\ OneCarrier' /\ RanOnce' /\ Outcome' /\ ReadyTx'
  BY <1>1, <1>6 DEF IInv, Sound, OneCarrier, RanOnce, Outcome, ReadyTx, RanOf
<1>9. Active' \subseteq Active
  BY <1>1, <1>3 DEF Active
<1>10. Apart' /\ Lone'
  BY <1>3, <1>9 DEF IInv, Apart, Lone
<1>11. DelegationRebuildable'
  BY <1>6 DEF IInv, DelegationRebuildable
<1>. QED BY <1>4, <1>5, <1>7, <1>8, <1>10, <1>11 DEF IInv

LEMMA FinishNext ==
    ASSUME IInv, NEW q \in Procs, Finish(q) PROVE IInv'
<1>1. PICK c : c = cmd[q]
  OBVIOUS
<1>2. PICK what : what = TRUE
  OBVIOUS
<1>3. c # Idle /\ c.todo = <<>> /\ MayTell(c, what)
  BY <1>1, <1>2, Zenon DEF Finish, MayTell
<1>4. AtEnd(c)
  BY <1>1, <1>3, ActiveCommand, Where
<1>. QED BY <1>1, <1>3, <1>4, Ended DEF Finish

LEMMA StopNext ==
    ASSUME IInv, NEW q \in Procs, Stop(q) PROVE IInv'
<1>1. PICK c : c = cmd[q]
  OBVIOUS
<1>2. PICK what : what = FALSE
  OBVIOUS
<1>3. c # Idle /\ MayTell(c, what)
  <2>1. c # Idle
    BY <1>1 DEF Stop, Idle
  <2>. QED BY <1>1, <1>2, <2>1, Zenon DEF Stop, MayTell
<1>. QED BY <1>1, <1>2, <1>3, Ended DEF Stop

(* Calls that were not sent have not run.                                    *)
LEMMA UnsentIsUnrun ==
    ASSUME IInv, NEW id, Unsent(id)
    PROVE  RanOf(id) = {}
BY DEF IInv, RanOnce, RanOf, Unsent, Carries, BagToSet

(* A command sends a transaction, and goes on or stops.                      *)
LEMMA SentNext ==
    ASSUME IInv, NEW q \in Procs, NEW c, c = cmd[q], c # Idle, NEW t, t.cmd = c.id, Sound(t),
           Silent(c.id) \/ (Unsent(c.id) /\ t.calls # {} /\ t.auth = None),
           t.kind = "batch" /\ t.cmd \notin overlapped =>
             IF t.auth = None THEN delegate[t.account] = Simple
             ELSE /\ t.auth.account = t.account /\ t.from # t.account
                  /\ t.auth.nonce = count[t.account],
           t.auth # None /\ c.kind = "executor" =>
             db = [key |-> t.auth.account, tag |-> TRUE, implementation |-> t.auth.to],
           pending' = pending \cup {t}, UNCHANGED <<chain, db, asked, overlapped>>,
           NEW d, cmd' = [cmd EXCEPT ![q] = d],
           d = Idle \/ (d # Idle /\ d.id = c.id /\ Running(d)'),
           NEW what, MayTell(c, what), what # TRUE
    PROVE  IInv'
<1>1. UNCHANGED <<count, delegate, nonce, opNonce, held, mined, ran>>
  BY DEF chain
<1>2. Formed(c) /\ c.id \in Active
  BY ActiveCommand
<1>3. \A p \in Procs : cmd'[p] = IF p = q THEN d ELSE cmd[p]
  BY DEF IInv, Typed
<1>4. Told' /\ DOMAIN said' = 1 .. MaxCommands
  BY <1>1, <1>2, ToldNext
<1>5. Typed'
  BY <1>1, <1>4 DEF IInv, Typed
<1>6. Sent' = Sent \cup {t}
  BY <1>1 DEF Sent
<1>7. \A p \in Procs : (cmd[p] = Idle \/ Running(cmd[p]))'
  <2>1. ASSUME NEW p \in Procs, p # q, cmd'[p] # Idle PROVE Running(cmd[p])'
    <3>1. PICK k : k = cmd[p]
      OBVIOUS
    <3>2. k = cmd'[p] /\ Formed(k) /\ Placed(k) /\ Recorded(k, db)
      BY <1>3, <2>1, <3>1 DEF IInv, Running
    <3>3. k.id # t.cmd
      BY <2>1, <3>1, <3>2 DEF IInv, Apart
    <3>4. Formed(k)' /\ Placed(k)'
      BY <3>2, <3>3, PlaceKept
    <3>. QED BY <3>2, <3>4 DEF Running
  <2>2. cmd'[q] = Idle \/ Running(cmd[q])'
    <3>1. cmd'[q] = d
      BY <1>3
    <3>. QED BY <3>1
  <2>. QED BY <2>1, <2>2 DEF Idle
<1>8. RanOf(c.id) = {}
  BY SilentIsUnsent, UnsentIsUnrun
<1>9. (\A u \in Sent : Sound(u))'
  BY <1>6 DEF IInv, Sound
<1>10. OneCarrier'
  <2>1. ASSUME NEW u \in Sent, u.cmd = t.cmd
        PROVE  /\ u.calls = {} /\ t.auth = None /\ u.kind # "batch"
    BY <2>1 DEF Silent, Unsent, Carries, IInv, Sound
  <2>. QED BY <1>6, <2>1 DEF IInv, OneCarrier
<1>11. RanOnce'
  <2>1. \A id : RanOf(id)' = RanOf(id)
    BY <1>1 DEF RanOf
  <2>2. /\ (\A e \in DOMAIN ran : ran[e] = 1)'
        /\ (\A id \in DOMAIN asked : RanOf(id) \in {{}, asked[id].calls})'
    BY <1>1, <2>1 DEF IInv, RanOnce
  <2>3. (\A e \in DOMAIN ran : \E u \in Sent : \E x \in u.calls : e = <<u.cmd, x>>)'
    BY <1>1, <1>6 DEF IInv, RanOnce
  <2>4. /\ \A u \in pending' : u.kind \notin {"none", "batch"} => RanOf(u.cmd) = {}
        /\ \A u \in Sent' : u.kind = "batch" /\ RanOf(u.cmd) # {} => u.at < nonce[u.account]
    BY <1>6, <1>8 DEF IInv, RanOnce
  <2>5. /\ (\A u \in pending : u.kind \notin {"none", "batch"} => RanOf(u.cmd) = {})'
        /\ (\A u \in Sent : u.kind = "batch" /\ RanOf(u.cmd) # {} => u.at < nonce[u.account])'
    BY <1>1, <2>1, <2>4
  <2>. QED BY <2>2, <2>3, <2>5 DEF RanOnce
<1>12. Outcome'
  BY <1>1 DEF IInv, Outcome, RanOf
<1>13. ReadyTx'
  BY <1>1 DEF IInv, ReadyTx
<1>14. Active' = Active
  BY <1>2, <1>3 DEF Active
<1>15. Apart' /\ Lone'
  BY <1>3, <1>14 DEF IInv, Apart, Lone
<1>16. DelegationRebuildable'
  BY <1>2, <1>6 DEF IInv, DelegationRebuildable, Formed
<1>. QED BY <1>4, <1>5, <1>7, <1>9, <1>10, <1>11, <1>12, <1>13, <1>15, <1>16 DEF IInv

(* It has an authorisation only when its records are complete.               *)
LEMMA SentRecorded ==
    ASSUME IInv, NEW c, Formed(c), Recorded(c, db), c.todo # <<>>, c.todo[1] = "send",
           c.kind = "executor", c.auth # None
    PROVE  db = [key |-> c.auth.account, tag |-> TRUE, implementation |-> c.auth.to]
<1>1. db.key = c.context /\ db.tag /\ db.implementation = Simple
  BY DEF Recorded
<1>2. c.auth.account = c.context /\ c.auth.to = Simple
  BY DEF Formed, Signed
<1>. QED BY <1>1, <1>2 DEF IInv, Typed, Records

LEMMA SendNext ==
    ASSUME IInv, NEW q \in Procs, Send(q) PROVE IInv'
<1>1. PICK c : c = cmd[q]
  OBVIOUS
<1>2. c # Idle /\ c.todo # <<>> /\ c.todo[1] = "send"
  BY <1>1, AtMeansActive DEF Send
<1>3. Formed(c) /\ Placed(c) /\ Recorded(c, db) /\ c.kind \in Kinds
  BY <1>1, <1>2, ActiveCommand
<1>4. PICK t : t = c.tx
  OBVIOUS
<1>5. PICK d : d = After(c, "auth", None)
  OBVIOUS
<1>6. /\ cmd' = [cmd EXCEPT ![q] = d] /\ pending' = pending \cup {t}
      /\ UNCHANGED <<chain, db, asked, said, overlapped>>
  <2>1. DOMAIN c = Fields /\ "auth" \in Fields \ {"todo"}
    BY <1>3 DEF Formed, Fields
  <2>2. Advance(q, [c EXCEPT !.auth = None])
    BY <1>1, Zenon DEF Send
  <2>. QED BY <1>1, <1>4, <1>5, <2>1, <2>2, Advanced DEF Send
<1>7. /\ Alike(c, d, {"todo", "picked", "auth", "at", "tx"})
      /\ d.todo = Tail(c.todo) /\ d.kind = c.kind /\ d.id = c.id /\ d.context = c.context
      /\ d.payer = c.payer /\ d.calls = c.calls /\ d.picked = c.picked /\ d.auth = None
      /\ d.at = c.at /\ d.tx = t
  BY <1>3, <1>4, <1>5, AfterFields
<1>8. Formed(d)
  BY <1>2, <1>3, <1>7, NotRefused, FormedNext DEF Signed
<1>9. Recorded(d, db)
  BY <1>2, <1>3, <1>7, RecordedNext
<1>10. d # Idle
  BY <1>8 DEF Formed, Fields, Idle
<1>11. Sent' = Sent \cup {t}
  BY <1>6 DEF Sent, chain
<1>12. c.calls # {} /\ c.calls = asked[c.id].calls /\ c.id \in DOMAIN asked
       /\ c.context \in Accounts /\ Signed(c)
  BY <1>2, <1>3, NotRefused DEF Formed
<1>13. CASE AtAuthSending(c)
  <2>1. t.cmd = c.id /\ t.kind = "none" /\ t.calls = {} /\ t.auth = c.auth /\ Silent(c.id)
    BY <1>4, <1>13 DEF AtAuthSending
  <2>2. Sound(t)
    BY <1>12, <2>1 DEF Sound, Signed
  <2>3. AtAuthorized(d)'
    <3>1. d.todo \in Authorized(d.kind)
      BY <1>3, <1>7, <1>13, AuthSendingSteps DEF AtAuthSending
    <3>2. Unsent(d.id)'
      BY <1>7, <1>11, <2>1 DEF Unsent, Silent, Carries
    <3>. QED BY <3>1, <3>2, <1>7, <1>13 DEF AtAuthorized, AtAuthSending, Blank
  <2>4. Running(d)'
    <3>1. Formed(d)'
      BY <1>6, <1>8 DEF Formed, Signed
    <3>. QED BY <3>1, <2>3, <1>6, <1>9 DEF Running, Placed
  <2>5. t.auth # None /\ c.kind = "executor" =>
          db = [key |-> t.auth.account, tag |-> TRUE, implementation |-> t.auth.to]
    BY <1>2, <1>3, <2>1, SentRecorded
  <2>6. PICK what : what = FALSE
    OBVIOUS
  <2>7. MayTell(c, what) /\ what # TRUE
    BY <1>6, <2>6 DEF MayTell
  <2>. QED BY <1>1, <1>2, <1>6, <1>7, <1>10, <2>1, <2>2, <2>4, <2>5, <2>7, SentNext
<1>14. CASE AtSending(c)
  <2>1. /\ t.cmd = c.id /\ t.from = c.payer /\ t.auth = c.auth /\ t.account = c.context
        /\ t.at = c.at /\ t.calls = c.calls
        /\ t.kind = IF c.at = None THEN "call" ELSE "batch"
    BY <1>4, <1>14 DEF AtSending, TxLoaded
  <2>2. /\ Unsent(c.id) /\ (c.at # None => c.at \in Nat)
        /\ (c.auth # None => c.at # None /\ ~ Self(c) /\ Silent(c.id)) /\ Ready(c)
    BY <1>14 DEF AtSending, Loaded
  <2>3. Sound(t)
    BY <1>12, <2>1, <2>2 DEF Sound, Signed
  <2>4. Placed(d)'
    <3>1. d.todo \in Waiting(d.kind)
      BY <1>2, <1>3, <1>7, <1>14, SendingSteps DEF AtSending
    <3>. QED BY <3>1, <1>7, <2>1 DEF Placed, AtWaiting
  <2>5. Running(d)'
    <3>1. Formed(d)'
      BY <1>6, <1>8 DEF Formed, Signed
    <3>. QED BY <3>1, <2>4, <1>6, <1>9 DEF Running
  <2>6. t.auth # None /\ c.kind = "executor" =>
          db = [key |-> t.auth.account, tag |-> TRUE, implementation |-> t.auth.to]
    BY <1>2, <1>3, <2>1, SentRecorded
  <2>7. t.kind = "batch" /\ t.cmd \notin overlapped =>
          IF t.auth = None THEN delegate[t.account] = Simple
          ELSE /\ t.auth.account = t.account /\ t.from # t.account
               /\ t.auth.nonce = count[t.account]
    BY <1>12, <2>1, <2>2 DEF Ready, Signed, Self
  <2>8. PICK what : what = FALSE
    OBVIOUS
  <2>9. MayTell(c, what) /\ what # TRUE
    BY <1>6, <2>8 DEF MayTell
  <2>10. Silent(c.id) \/ (Unsent(c.id) /\ t.calls # {} /\ t.auth = None)
    BY <1>12, <2>1, <2>2
  <2>. QED BY <1>1, <1>2, <1>6, <1>7, <1>10, <2>1, <2>3, <2>5, <2>6, <2>7, <2>9, <2>10, SentNext
<1>. QED BY <1>2, <1>3, <1>13, <1>14, Where

(* An operation may be sent, and the command stop all the same.              *)
LEMMA SendOpNext ==
    ASSUME IInv, NEW q \in Procs, SendOp(q) PROVE IInv'
<1>1. PICK c : c = cmd[q]
  OBVIOUS
<1>2. c # Idle /\ c.todo # <<>> /\ c.todo[1] = "send_op"
  BY <1>1, AtMeansActive DEF SendOp
<1>3. Formed(c) /\ Placed(c) /\ Recorded(c, db) /\ c.kind \in Kinds
  BY <1>1, <1>2, ActiveCommand
<1>4. PICK t : t = c.tx
  OBVIOUS
<1>5. pending' = pending \cup {t} /\ UNCHANGED <<chain, db, asked, overlapped>>
  BY <1>1, <1>4 DEF SendOp
<1>6. PICK what : what = FALSE
  OBVIOUS
<1>7. PICK s : s = Tail(c.todo)
  OBVIOUS
<1>8. PICK e : e = [c EXCEPT !.todo = s]
  OBVIOUS
<1>9. \/ cmd' = [cmd EXCEPT ![q] = e] /\ MayTell(c, what)
      \/ cmd' = [cmd EXCEPT ![q] = Idle] /\ MayTell(c, what)
  BY <1>1, <1>6, <1>7, <1>8, Zenon DEF SendOp, MayTell, Advance, Then
<1>10. AtOpSending(c) /\ c.kind # "executor"
  <2>1. AtOpSending(c)
    BY <1>2, <1>3, Where
  <2>. QED BY <2>1 DEF AtOpSending, OpSending
<1>11. c.calls # {} /\ c.calls = asked[c.id].calls /\ c.id \in DOMAIN asked
       /\ c.kind = asked[c.id].kind
  BY <1>2, <1>3, NotRefused DEF Formed
<1>12. t.cmd = c.id /\ t.kind = "op" /\ t.calls = c.calls /\ Silent(c.id) /\ Sound(t)
  BY <1>4, <1>10, <1>11 DEF AtOpSending, Sound
<1>13. /\ Alike(c, e, {"todo", "picked", "auth", "at", "tx"}) /\ e.todo = s
       /\ e.kind = c.kind /\ e.id = c.id /\ e.context = c.context /\ e.payer = c.payer
       /\ e.calls = c.calls /\ e.picked = c.picked /\ e.auth = c.auth /\ e.at = c.at
       /\ e.tx = c.tx
  BY <1>3, <1>8, TodoFields
<1>14. Formed(e)
  BY <1>2, <1>3, <1>13, NotRefused, FormedNext DEF Formed, Signed
<1>15. Recorded(e, db)
  BY <1>2, <1>3, <1>7, <1>13, RecordedNext
<1>16. e # Idle
  BY <1>14 DEF Formed, Fields, Idle
<1>17. Running(e)'
  <2>1. e.todo \in Waiting(e.kind)
    BY <1>3, <1>7, <1>10, <1>13, OpSendingSteps DEF AtOpSending
  <2>2. Placed(e)'
    BY <2>1, <1>4, <1>12, <1>13 DEF Placed, AtWaiting
  <2>3. Formed(e)'
    BY <1>5, <1>14 DEF Formed, Signed
  <2>. QED BY <2>2, <2>3, <1>5, <1>15 DEF Running
<1>18. PICK d : cmd' = [cmd EXCEPT ![q] = d] /\ (d = Idle \/ d = e)
  BY <1>9
<1>19. d = Idle \/ (d # Idle /\ d.id = c.id /\ Running(d)')
  BY <1>13, <1>16, <1>17, <1>18
<1>20. MayTell(c, what) /\ what # TRUE
  BY <1>6, <1>9
<1>. QED BY <1>1, <1>2, <1>5, <1>10, <1>12, <1>18, <1>19, <1>20, SentNext

-----------------------------------------------------------------------------
(* A new command.                                                          *)

LEMMA BeginNext ==
    ASSUME IInv, NEW q \in Procs, NEW r \in Commands, Begin(q, r)
    PROVE  IInv'
<1>1. PICK calls : calls = Calls(r, PoolsOf(r))
  OBVIOUS
<1>2. PICK n : n = Len(asked) + 1
  OBVIOUS
<1>3. PICK entry : entry = [kind |-> r.kind, calls |-> calls]
  OBVIOUS
<1>4. PICK s : s = Steps(r, calls)
  OBVIOUS
<1>5. /\ asked \in Seq(Entries) /\ Len(asked) < MaxCommands /\ entry \in Entries /\ MaxCommands \in Nat
      /\ asked' = Append(asked, entry)
  <2>1. asked' = Append(asked, entry) /\ Len(asked) < MaxCommands
    BY <1>1, <1>3, Zenon DEF Begin, PoolsOf
  <2>. QED BY <1>1, <1>3, <2>1, BroadcastsAssumption DEF IInv, Typed, Entries
<1>6. /\ asked' \in Seq(Entries) /\ Len(asked') = n /\ n \in 1 .. MaxCommands
      /\ DOMAIN asked' = DOMAIN asked \cup {n} /\ n \notin DOMAIN asked
      /\ asked'[n] = entry /\ \A i \in DOMAIN asked : asked'[i] = asked[i]
  BY <1>2, <1>5
<1>7. PICK d : /\ DOMAIN d = Fields /\ d.todo = s /\ d.kind = r.kind /\ d.id = n
               /\ d.context = r.context /\ d.payer = r.payer /\ d.calls = calls
               /\ d.picked = {} /\ d.auth = None /\ d.at = None
               /\ cmd' = [cmd EXCEPT ![q] = d]
  <2>1. \E pools, value :
          cmd' = [cmd EXCEPT ![q] =
                   [todo |-> Steps(r, calls), kind |-> r.kind, id |-> Len(asked'), request |-> r,
                    context |-> r.context, payer |-> r.payer, pools |-> pools, calls |-> calls,
                    value |-> value, picked |-> {}, auth |-> None, at |-> None, tx |-> None]]
    BY <1>1, Zenon DEF Begin, PoolsOf
  <2>2. PICK pools, value :
          cmd' = [cmd EXCEPT ![q] =
                   [todo |-> Steps(r, calls), kind |-> r.kind, id |-> Len(asked'), request |-> r,
                    context |-> r.context, payer |-> r.payer, pools |-> pools, calls |-> calls,
                    value |-> value, picked |-> {}, auth |-> None, at |-> None, tx |-> None]]
    BY <2>1
  <2>3. PICK d : d = [todo |-> Steps(r, calls), kind |-> r.kind, id |-> Len(asked'), request |-> r,
                    context |-> r.context, payer |-> r.payer, pools |-> pools, calls |-> calls,
                    value |-> value, picked |-> {}, auth |-> None, at |-> None, tx |-> None]
    OBVIOUS
  <2>4. /\ DOMAIN d = Fields /\ d.todo = s /\ d.kind = r.kind /\ d.id = n
        /\ d.context = r.context /\ d.payer = r.payer /\ d.calls = calls
        /\ d.picked = {} /\ d.auth = None /\ d.at = None
    BY <1>4, <1>6, <2>3 DEF Fields
  <2>. QED BY <2>2, <2>3, <2>4
<1>8. UNCHANGED <<count, delegate, nonce, opNonce, held, mined, ran, pending, db, said>>
      /\ cmd[q] = Idle
  BY DEF Begin, chain
<1>9. Sent' = Sent
  BY <1>8 DEF Sent
<1>10. \A t \in Sent : t.cmd \in DOMAIN asked
  BY DEF IInv, Sound
<1>11. Silent(n) /\ RanOf(n) = {}
  BY <1>6, <1>10, SilentIsUnsent, UnsentIsUnrun DEF Silent
<1>12. \A p \in Procs : cmd'[p] = IF p = q THEN d ELSE cmd[p]
  BY <1>7 DEF IInv, Typed
<1>13. d # Idle
  BY <1>7 DEF Fields, Idle
<1>14. Active \subseteq DOMAIN asked
  BY <1>10, ActiveCommand DEF Active, Sent
<1>15. Active' = Active \cup {n}
  BY <1>7, <1>8, <1>12, <1>13 DEF Active
<1>16. /\ overlapped \subseteq overlapped'
       /\ overlapped' \subseteq overlapped \cup Active \cup {n}
       /\ Active # {} => n \in overlapped' /\ Active \subseteq overlapped'
  BY <1>2, <1>6 DEF Begin, Alone, Active
<1>17. \A id \in DOMAIN asked : id \notin overlapped' => id \notin overlapped
  BY <1>16
<1>18. ASSUME NEW k, Formed(k), Placed(k) PROVE Formed(k)' /\ Placed(k)'
  <2>1. Formed(k)'
    BY <1>6, <1>18 DEF Formed, Signed
  <2>2. k.id \in DOMAIN asked
    BY <1>18 DEF Formed
  <2>. QED BY <1>8, <1>9, <1>17, <1>18, <2>1, <2>2
       DEF Placed, AtEarly, AtPicking, AtForeign, AtForeignSigned, AtAuthFilling, AtAuthSending,
           AtAuthorized, AtFilling, AtSending, AtOpSending, AtWaiting, AtEnd, Silent, Unsent,
           Ready, Loaded, RanOf
<1>19. Running(d)'
  <2>1. /\ s \in Early(r.kind) \cup Picking(r.kind)
        /\ s \in Picking(r.kind) => \E x \in calls : calls = {x}
        /\ s # <<"refused">> => calls # {}
        /\ s # <<>> /\ (s[1] = "put_key" => r.from = "random")
        /\ r.kind = "executor" => s[1] \in {"put_key", "rebuild", "persist"}
    BY <1>1, <1>4, Begun, Zenon
  <2>2. r.kind \in Kinds /\ r.context \in Accounts /\ r.payer \in Accounts
    BY BroadcastsAssumption
  <2>3. Formed(d)'
    BY <1>3, <1>6, <1>7, <2>1, <2>2 DEF Formed, Signed
  <2>4. Placed(d)'
    BY <1>7, <1>9, <1>11, <2>1 DEF Placed, AtEarly, AtPicking, Blank, Silent
  <2>5. Recorded(d, db)
    <3>1. s[1] = "put_key" => r.context \in Fresh
      BY <2>1 DEF Fresh
    <3>. QED BY <1>7, <2>1, <3>1 DEF Recorded
  <2>. QED BY <1>8, <2>3, <2>4, <2>5 DEF Running
<1>20. \A p \in Procs : (cmd[p] = Idle \/ Running(cmd[p]))'
  <2>1. ASSUME NEW p \in Procs, p # q, cmd'[p] # Idle PROVE Running(cmd[p])'
    <3>1. PICK k : k = cmd[p]
      OBVIOUS
    <3>2. k = cmd'[p] /\ Formed(k) /\ Placed(k) /\ Recorded(k, db)
      BY <1>12, <2>1, <3>1 DEF IInv, Running
    <3>3. Formed(k)' /\ Placed(k)'
      BY <1>18, <3>2
    <3>. QED BY <1>8, <3>2, <3>3 DEF Running
  <2>2. Running(cmd[q])'
    <3>1. cmd'[q] = d
      BY <1>12
    <3>. QED BY <1>19, <3>1
  <2>. QED BY <2>1, <2>2 DEF Idle
<1>21. Typed'
  BY <1>6, <1>7, <1>8 DEF IInv, Typed
<1>22. (\A t \in Sent : Sound(t))' /\ OneCarrier'
  BY <1>6, <1>9 DEF IInv, Sound, OneCarrier
<1>23. RanOnce'
  <2>1. \A id : RanOf(id)' = RanOf(id)
    BY <1>8 DEF RanOf
  <2>2. \A id \in DOMAIN asked' : RanOf(id) \in {{}, asked'[id].calls}
    BY <1>6, <1>11 DEF IInv, RanOnce
  <2>. QED BY <1>8, <1>9, <2>1, <2>2 DEF IInv, RanOnce
<1>24. Outcome'
  BY <1>8, <1>16 DEF IInv, Outcome, RanOf
<1>25. Apart'
  BY <1>6, <1>7, <1>12, <1>14 DEF IInv, Apart, Active
<1>26. Lone'
  BY <1>15, <1>16 DEF Lone
<1>27. ReadyTx'
  <2>1. \A t \in pending : t.cmd \notin overlapped' => t.cmd \notin overlapped
    BY <1>16
  <2>. QED BY <1>8, <2>1 DEF IInv, ReadyTx
<1>28. Told'
  <2>1. said[n] # TRUE
    BY <1>6 DEF IInv, Told
  <2>. QED BY <1>6, <1>8, <1>17, <2>1 DEF IInv, Told, SuccessMeansRun, RanOf
<1>29. DelegationRebuildable'
  BY <1>6, <1>8, <1>9, <1>10 DEF IInv, DelegationRebuildable
<1>. QED BY <1>20, <1>21, <1>22, <1>23, <1>24, <1>25, <1>26, <1>27, <1>28, <1>29 DEF IInv

-----------------------------------------------------------------------------
(* The chain.                                                              *)

(* Calls that take effect are added to those that did.                       *)
LEMMA RanNext ==
    ASSUME IInv, NEW t \in Sent, NEW outcome, Effect(t, outcome),
           outcome = "done" => t.kind # "none" /\ RanOf(t.cmd) = {}
    PROVE  /\ DOMAIN ran' = DOMAIN ran \cup (IF outcome = "done" THEN {t.cmd} \X t.calls ELSE {})
           /\ \A e \in DOMAIN ran' : ran'[e] = 1
           /\ \A id : RanOf(id)' = IF outcome = "done" /\ id = t.cmd THEN t.calls ELSE RanOf(id)
<1>1. \A e \in DOMAIN ran : ran[e] = 1
  BY DEF IInv, RanOnce
<1>2. CASE outcome = "done"
  <2>1. ran' = ran (+) SetToBag({t.cmd} \X t.calls)
    BY <1>2 DEF Effect, Take
  <2>2. \A e \in {t.cmd} \X t.calls : e \notin DOMAIN ran
    BY <1>2 DEF RanOf, BagToSet
  <2>3. DOMAIN ran' = DOMAIN ran \cup ({t.cmd} \X t.calls)
    BY <2>1 DEF (+), SetToBag
  <2>4. \A e \in DOMAIN ran' : ran'[e] = 1
    BY <1>1, <2>1, <2>2 DEF (+), SetToBag
  <2>5. ASSUME NEW id PROVE RanOf(id)' = IF id = t.cmd THEN t.calls ELSE RanOf(id)
    <3>1. RanOf(id)' = {e[2] : e \in {e \in DOMAIN ran \cup ({t.cmd} \X t.calls) : e[1] = id}}
      BY <2>3 DEF RanOf, BagToSet
    <3>2. CASE id = t.cmd
      <4>1. \A e \in DOMAIN ran : e[1] # id
        BY <1>2, <3>2 DEF RanOf, BagToSet
      <4>2. {e \in DOMAIN ran \cup ({t.cmd} \X t.calls) : e[1] = id} = {t.cmd} \X t.calls
        BY <3>2, <4>1
      <4>3. {e[2] : e \in {t.cmd} \X t.calls} = t.calls
        <5> DEFINE P == {t.cmd} \X t.calls
        <5>1. \A x \in t.calls : \E e \in P : e[2] = x
          <6>1. ASSUME NEW x \in t.calls PROVE \E e \in P : e[2] = x
            <7>1. <<t.cmd, x>> \in P /\ <<t.cmd, x>>[2] = x
              OBVIOUS
            <7>. QED BY <7>1, Zenon
          <6>. QED BY <6>1
        <5>2. \A e \in P : e[2] \in t.calls
          OBVIOUS
        <5> HIDE DEF P
        <5>3. {e[2] : e \in P} = t.calls
          BY <5>1, <5>2
        <5>. QED BY <5>3 DEF P
      <4>. QED BY <3>1, <3>2, <4>2, <4>3
    <3>3. CASE id # t.cmd
      <4>1. {e \in DOMAIN ran \cup ({t.cmd} \X t.calls) : e[1] = id} = {e \in DOMAIN ran : e[1] = id}
        BY <3>3
      <4>. QED BY <3>1, <3>3, <4>1 DEF RanOf, BagToSet
    <3>. QED BY <3>2, <3>3
  <2>. QED BY <1>2, <2>3, <2>4, <2>5
<1>3. CASE outcome # "done"
  BY <1>1, <1>3 DEF Effect, RanOf
<1>. QED BY <1>2, <1>3

(* What the chain does keeps what the wallet relies on: a delegation that it *)
(* found, and, while a command is alone, the nonces it signed for.           *)
LEMMA ChainNext ==
    ASSUME IInv, NEW t \in Sent, NEW outcome, Effect(t, outcome),
           outcome = "done" =>
             /\ t.kind # "none" /\ RanOf(t.cmd) = {} /\ (t.kind = "batch" => SignedFor(t))
             /\ t.kind # "batch" => t \notin pending',
           outcome = "nothing" /\ t.calls # {} => t.cmd \in overlapped,
           UNCHANGED <<db, cmd, asked, said, overlapped>>, Sent' = Sent,
           pending' \subseteq pending, mined' \subseteq mined \cup {[tx |-> t, outcome |-> outcome]},
           count' \in [Accounts -> Nat], delegate' \in [Accounts -> {None, Simple, Other}],
           \/ UNCHANGED <<count, delegate>>
           \/ /\ t \in pending /\ t \notin pending'
              /\ t.kind # "op" =>
                   \A a \in Accounts : delegate[a] = Simple => delegate'[a] = Simple
    PROVE  IInv'
<1>1. /\ DOMAIN ran' = DOMAIN ran \cup (IF outcome = "done" THEN {t.cmd} \X t.calls ELSE {})
      /\ \A e \in DOMAIN ran' : ran'[e] = 1
      /\ \A id : RanOf(id)' = IF outcome = "done" /\ id = t.cmd THEN t.calls ELSE RanOf(id)
  BY RanNext
<1>2. Sound(t) /\ (t.kind # "none" => t.calls # {})
  BY DEF IInv, Sound
<1>3. \A id : RanOf(id) # {} => RanOf(id)' # {}
  BY <1>1, <1>2
<1>4. /\ nonce' \in [Accounts -> Nat] /\ \A a \in Accounts : nonce'[a] >= nonce[a]
      /\ outcome = "done" /\ t.kind = "batch" =>
           t.account \in Accounts /\ nonce'[t.account] > t.at
  BY <1>2 DEF Effect, NextNonce, IInv, Typed, Sound, SignedFor
<1>5. Typed'
  BY <1>4 DEF IInv, Typed
<1>6. Active' \subseteq Active
  BY DEF Active
<1>7. Apart' /\ Lone'
  BY <1>6 DEF IInv, Apart, Lone
<1>8. (\A u \in Sent : Sound(u))' /\ OneCarrier' /\ DelegationRebuildable'
  BY DEF IInv, Sound, OneCarrier, DelegationRebuildable
<1>9. ASSUME NEW a \in Accounts, delegate[a] = Simple, t.kind # "op"
      PROVE  delegate'[a] = Simple
  BY <1>9
<1>10. ASSUME NEW c, Formed(c), Placed(c), c.id \in Active PROVE Formed(c)' /\ Placed(c)'
  <2>1. Formed(c)'
    BY <1>10 DEF Formed, Signed
  <2>2. (Silent(c.id) => Silent(c.id)') /\ (Unsent(c.id) => Unsent(c.id)')
    BY DEF Silent, Unsent, Carries
  <2>3. ASSUME Unsent(c.id), Loaded(c), Ready(c) PROVE Loaded(c)' /\ Ready(c)'
    <3>1. Loaded(c)'
      BY <2>2, <2>3 DEF Loaded
    <3>2. CASE UNCHANGED <<count, delegate>>
      BY <2>3, <3>1, <3>2 DEF Ready
    <3>3. CASE t \in pending /\ c.at # None /\ c.id \notin overlapped
      <4>1. t.cmd = c.id
        <5>1. t.cmd \in Active
          BY <3>3 DEF Active
        <5>2. Active = {c.id}
          BY <1>10, <3>3 DEF IInv, Lone
        <5>. QED BY <5>1, <5>2
      <4>2. t.calls = {} /\ t.kind # "op"
        BY <1>2, <2>3, <4>1 DEF Unsent, Carries
      <4>3. c.auth = None
        BY <2>3, <4>1 DEF Loaded, Silent
      <4>4. delegate'[c.context] = Simple
        BY <1>9, <1>10, <2>3, <3>3, <4>2, <4>3 DEF Ready, Formed
      <4>. QED BY <3>1, <4>3, <4>4 DEF Ready
    <3>. QED BY <3>1, <3>2, <3>3 DEF Ready
  <2>4. AtEnd(c) => AtEnd(c)'
    BY <1>3 DEF AtEnd
  <2>. QED BY <1>10, <2>1, <2>2, <2>3, <2>4
       DEF Placed, AtEarly, AtPicking, AtForeign, AtForeignSigned, AtAuthFilling, AtAuthSending,
           AtAuthorized, AtFilling, AtSending, AtOpSending, AtWaiting
<1>11. \A p \in Procs : (cmd[p] = Idle \/ Running(cmd[p]))'
  <2>1. ASSUME NEW p \in Procs, cmd[p] # Idle PROVE Running(cmd[p])'
    <3>1. PICK k : k = cmd[p]
      OBVIOUS
    <3>2. Formed(k) /\ Placed(k) /\ Recorded(k, db) /\ k.id \in Active
      BY <2>1, <3>1, ActiveCommand
    <3>3. Formed(k)' /\ Placed(k)' /\ k = cmd'[p]
      BY <1>10, <3>1, <3>2
    <3>. QED BY <3>2, <3>3 DEF Running
  <2>. QED BY <2>1 DEF Idle
<1>12. RanOnce'
  <2>1. (\A id \in DOMAIN asked : RanOf(id) \in {{}, asked[id].calls})'
    BY <1>1, <1>2 DEF IInv, RanOnce, Sound
  <2>2. (\A e \in DOMAIN ran : \E u \in Sent : \E x \in u.calls : e = <<u.cmd, x>>)'
    BY <1>1 DEF IInv, RanOnce
  <2>3. ASSUME NEW u \in Sent, outcome = "done", u.cmd = t.cmd, u.kind # "none" PROVE u = t
    <3>1. u.calls # {} /\ t.calls # {}
      BY <1>2, <2>3 DEF IInv, Sound
    <3>. QED BY <2>3, <3>1 DEF IInv, OneCarrier
  <2>4. \A u \in pending' : u.kind \notin {"none", "batch"} => RanOf(u.cmd)' = {}
    <3>1. ASSUME NEW u \in pending', u.kind \notin {"none", "batch"} PROVE RanOf(u.cmd)' = {}
      <4>1. u \in pending /\ u \in Sent /\ RanOf(u.cmd) = {}
        BY <3>1 DEF Sent, IInv, RanOnce
      <4>2. ~ (outcome = "done" /\ u.cmd = t.cmd)
        BY <2>3, <3>1, <4>1
      <4>. QED BY <1>1, <4>1, <4>2
    <3>. QED BY <3>1
  <2>5. \A u \in Sent : u.kind = "batch" /\ RanOf(u.cmd)' # {} => u.at < nonce'[u.account]
    <3>1. ASSUME NEW u \in Sent, u.kind = "batch", RanOf(u.cmd)' # {}
          PROVE  u.at < nonce'[u.account]
      <4>1. u.account \in Accounts /\ u.at \in Nat
        BY <3>1 DEF IInv, Sound
      <4>2. CASE outcome = "done" /\ u.cmd = t.cmd
        BY <1>4, <2>3, <3>1, <4>1, <4>2 DEF IInv, Typed
      <4>3. CASE ~ (outcome = "done" /\ u.cmd = t.cmd)
        <5>1. u.at < nonce[u.account]
          BY <1>1, <3>1, <4>3 DEF IInv, RanOnce
        <5>. QED BY <1>4, <4>1, <5>1 DEF IInv, Typed
      <4>. QED BY <4>2, <4>3
    <3>. QED BY <3>1
  <2>. QED BY <1>1, <2>1, <2>2, <2>4, <2>5 DEF RanOnce
<1>13. Outcome'
  BY <1>1, <1>2, <1>3 DEF IInv, Outcome
<1>14. ReadyTx'
  <2>1. CASE UNCHANGED <<count, delegate>>
    BY <2>1 DEF IInv, ReadyTx
  <2>2. CASE t \in pending /\ t \notin pending'
    <3>1. ASSUME NEW u \in pending', u.kind = "batch", u.cmd \notin overlapped
          PROVE  u.auth = None /\ delegate[u.account] = Simple /\ delegate'[u.account] = Simple
      <4>1. u \in pending /\ u \in Sent /\ u # t
        BY <2>2, <3>1 DEF Sent
      <4>2. u.cmd = t.cmd
        <5>1. t.cmd \in Active /\ u.cmd \in Active
          BY <2>2, <4>1 DEF Active
        <5>2. Active = {u.cmd}
          BY <3>1, <5>1 DEF IInv, Lone
        <5>. QED BY <5>1, <5>2
      <4>3. u.auth = None
        BY <3>1, <4>1, <4>2 DEF IInv, OneCarrier
      <4>4. delegate[u.account] = Simple /\ u.account \in Accounts
        BY <3>1, <4>1, <4>3 DEF IInv, ReadyTx, Sound
      <4>5. t.kind # "op"
        BY <1>2, <3>1, <4>1, <4>2 DEF IInv, OneCarrier, Sound
      <4>. QED BY <1>9, <4>3, <4>4, <4>5
    <3>. QED BY <3>1 DEF ReadyTx
  <2>. QED BY <2>1, <2>2
<1>15. Told'
  BY <1>3 DEF IInv, Told, SuccessMeansRun
<1>. QED BY <1>5, <1>7, <1>8, <1>11, <1>12, <1>13, <1>14, <1>15 DEF IInv

(* A batch that the delegate still accepts has not run.                      *)
LEMMA SignedForIsUnrun ==
    ASSUME IInv, NEW t \in Sent, t.kind = "batch", SignedFor(t)
    PROVE  RanOf(t.cmd) = {}
<1>1. t.at = nonce[t.account] /\ t.account \in Accounts /\ nonce[t.account] \in Nat
  BY DEF SignedFor, IInv, Sound, Typed
<1>2. RanOf(t.cmd) # {} => t.at < nonce[t.account]
  BY DEF IInv, RanOnce
<1>. QED BY <1>1, <1>2

(* While its command is alone, a batch reaches the delegate that runs it.    *)
LEMMA AloneReachesDelegate ==
    ASSUME IInv, NEW t \in pending, t.kind = "batch", t.cmd \notin overlapped
    PROVE  CodeFor(t, t.account) = Simple
<1>1. t \in Sent /\ (t.auth # None => t.auth.to = Simple)
  BY DEF Sent, IInv, Sound
<1>2. CASE t.auth = None
  <2>1. delegate[t.account] = Simple
    BY <1>2 DEF IInv, ReadyTx
  <2>. QED BY <1>2, <2>1 DEF CodeFor, Applies
<1>3. CASE t.auth # None
  <2>1. t.auth.account = t.account /\ t.from # t.account /\ t.auth.nonce = count[t.account]
    BY <1>3 DEF IInv, ReadyTx
  <2>2. t.account \in Accounts /\ count[t.account] \in Nat
    BY <1>1 DEF IInv, Sound, Typed
  <2>3. Applies(t)
    BY <1>3, <2>1, <2>2 DEF Applies
  <2>. QED BY <1>1, <1>3, <2>1, <2>3 DEF CodeFor
<1>. QED BY <1>2, <1>3

LEMMA SentMined ==
    ASSUME NEW t \in pending, NEW outcome, pending' = pending \ {t},
           mined' = mined \cup {[tx |-> t, outcome |-> outcome]}
    PROVE  Sent' = Sent
<1> DEFINE m == [tx |-> t, outcome |-> outcome]
<1>1. m.tx = t
  OBVIOUS
<1> HIDE DEF m
<1>2. {n.tx : n \in mined'} = {n.tx : n \in mined} \cup {t}
  <2>1. mined' = mined \cup {m}
    BY DEF m
  <2>. QED BY <1>1, <2>1
<1>. QED BY <1>2 DEF Sent

LEMMA MineNext ==
    ASSUME IInv, NEW t \in pending, Mine(t) PROVE IInv'
<1>1. t \in Sent /\ Sound(t) /\ t.kind # "op"
  BY DEF Sent, IInv, Mine
<1>2. PICK outcome \in Outcomes(t) :
        Effect(t, outcome) /\ mined' = mined \cup {[tx |-> t, outcome |-> outcome]}
  BY DEF Mine
<1>3. pending' = pending \ {t} /\ UNCHANGED <<db, cmd, asked, said, overlapped>>
  BY DEF Mine
<1>4. Sent' = Sent
  BY <1>2, <1>3, SentMined
<1>5. outcome = "done" => t.kind # "none" /\ (t.kind = "batch" => SignedFor(t))
  BY <1>2 DEF Outcomes, BatchOutcomes
<1>6. outcome = "done" => RanOf(t.cmd) = {}
  <2>1. t.kind = "batch" /\ SignedFor(t) => RanOf(t.cmd) = {}
    BY <1>1, SignedForIsUnrun
  <2>2. t.kind \notin {"none", "batch"} => RanOf(t.cmd) = {}
    BY DEF IInv, RanOnce
  <2>. QED BY <1>5, <2>1, <2>2
<1>7. outcome = "nothing" /\ t.calls # {} => t.cmd \in overlapped
  <2>1. ASSUME outcome = "nothing", t.calls # {} PROVE t.kind = "batch"
    BY <1>1, <1>2, <2>1 DEF Outcomes, Sound
  <2>2. ASSUME outcome = "nothing", t.kind = "batch" PROVE CodeFor(t, t.account) # Simple
    BY <1>2, <2>2, BroadcastsAssumption DEF Outcomes, BatchOutcomes
  <2>. QED BY <2>1, <2>2, AloneReachesDelegate
<1>8. count' \in [Accounts -> Nat]
  <2>1. \A a \in Accounts : count[a] \in Nat
    BY DEF IInv, Typed
  <2>2. \A a \in Accounts :
          count[a] + (IF a = t.from THEN 1 ELSE 0)
                   + (IF Applies(t) /\ a = t.auth.account THEN 1 ELSE 0) \in Nat
    BY <2>1
  <2>. QED BY <2>2 DEF Mine
<1>9. Applies(t) => t.auth.to = Simple
  BY <1>1 DEF Applies, Sound
<1>10. delegate' \in [Accounts -> {None, Simple, Other}]
       /\ \A a \in Accounts : delegate[a] = Simple => delegate'[a] = Simple
  BY <1>9 DEF Mine, IInv, Typed
<1>. QED BY <1>1, <1>2, <1>3, <1>4, <1>5, <1>6, <1>7, <1>8, <1>10, ChainNext

LEMMA IncludeOpNext ==
    ASSUME IInv, NEW t \in pending, IncludeOp(t) PROVE IInv'
<1>1. t \in Sent /\ Sound(t) /\ t.kind = "op"
  BY DEF Sent, IInv, IncludeOp
<1>2. PICK outcome \in {"done", "reverted"} :
        Effect(t, outcome) /\ mined' = mined \cup {[tx |-> t, outcome |-> outcome]}
  BY DEF IncludeOp
<1>3. pending' = pending \ {t} /\ UNCHANGED <<db, cmd, asked, said, overlapped>>
  BY DEF IncludeOp
<1>4. Sent' = Sent
  BY <1>2, <1>3, SentMined
<1>5. RanOf(t.cmd) = {}
  BY <1>1 DEF IInv, RanOnce
<1>6. count' \in [Accounts -> Nat] /\ delegate' \in [Accounts -> {None, Simple, Other}]
  <2>1. count \in [Accounts -> Nat] /\ delegate \in [Accounts -> {None, Simple, Other}]
    BY DEF IInv, Typed
  <2>2. PICK n \in {0, 1} : count' = [count EXCEPT ![t.payer] = @ + n]
    BY DEF IncludeOp
  <2>3. delegate' = [delegate EXCEPT ![t.payer] = Other]
    BY DEF IncludeOp
  <2>4. count' \in [Accounts -> Nat]
    <3>1. \A a \in Accounts : count'[a] = count[a] \/ count'[a] = count[a] + n
      BY <2>1, <2>2
    <3>2. \A a \in Accounts : count'[a] \in Nat
      BY <2>1, <2>2, <3>1
    <3>3. count' = [a \in Accounts |-> count'[a]]
      BY <2>1, <2>2
    <3>. QED BY <3>2, <3>3
  <2>5. delegate' \in [Accounts -> {None, Simple, Other}]
    BY <2>1, <2>3
  <2>. QED BY <2>4, <2>5
<1>. QED BY <1>1, <1>2, <1>3, <1>4, <1>5, <1>6, ChainNext

(* A batch that someone else submits leaves its transaction to do nothing.   *)
LEMMA RelayNext ==
    ASSUME IInv, NEW t \in Sent, Relay(t) PROVE IInv'
<1>1. /\ t.kind = "batch" /\ SignedFor(t) /\ Effect(t, "done")
      /\ UNCHANGED <<count, delegate, mined, pending, db, cmd, asked, said, overlapped>>
  BY DEF Relay
<1>2. Sent' = Sent
  BY <1>1 DEF Sent
<1>3. RanOf(t.cmd) = {}
  BY <1>1, SignedForIsUnrun
<1>4. count' \in [Accounts -> Nat] /\ delegate' \in [Accounts -> {None, Simple, Other}]
  BY <1>1 DEF IInv, Typed
<1>5. PICK outcome : outcome = "done"
  OBVIOUS
<1>. QED BY <1>1, <1>2, <1>3, <1>4, <1>5, ChainNext

-----------------------------------------------------------------------------
(* The specification keeps the invariant.                                  *)

LEMMA AtFirst ==
    ASSUME Init PROVE IInv
<1>1. \A q \in Procs : cmd[q] = Idle
  BY DEF Init
<1>2. Sent = {} /\ DOMAIN ran = {} /\ DOMAIN asked = {} /\ Active = {}
  BY <1>1 DEF Init, Sent, EmptyBag, SetToBag, Active
<1>3. Typed
  <2>1. asked \in Seq(Entries) /\ Len(asked) <= MaxCommands
    BY BroadcastsAssumption DEF Init
  <2>2. count \in [Accounts -> Nat] /\ nonce \in [Accounts -> Nat]
        /\ delegate \in [Accounts -> {None, Simple, Other}]
    BY BroadcastsAssumption DEF Init
  <2>. QED BY <2>1, <2>2 DEF Init, Typed, Records
<1>4. OneCarrier /\ RanOnce /\ Outcome /\ Apart /\ Lone /\ ReadyTx /\ DelegationRebuildable
  BY <1>1, <1>2 DEF Init, OneCarrier, RanOnce, Outcome, Apart, Lone, ReadyTx,
                    DelegationRebuildable
<1>5. Told
  <2>1. \A i \in 1 .. MaxCommands : said[i] # TRUE
    BY BroadcastsAssumption DEF Init
  <2>. QED BY <1>2, <2>1 DEF Told, SuccessMeansRun
<1>. QED BY <1>1, <1>2, <1>3, <1>4, <1>5 DEF IInv

LEMMA StepNext ==
    ASSUME IInv, NEW q \in Procs, Step(q) PROVE IInv'
<1>1. CASE Finish(q) \/ Stop(q)
  BY <1>1, FinishNext, StopNext
<1>2. CASE PutKey(q) \/ PersistAndRebuild(q) \/ PutImplementation(q)
  BY <1>2, RecordingSteps
<1>3. CASE \/ CheckDelegate(q) \/ Confirm(q) \/ CheckBalances(q) \/ Simulate(q) \/ Covers(q)
  BY <1>3, PassingSteps
<1>4. CASE Rebuild(q) \/ AuthorizeIfMissing(q) \/ ReadDelegation(q) \/ Authorize(q)
  BY <1>4, RebuildNext, AuthorizeIfMissingNext, ReadDelegationNext, AuthorizeNext
<1>5. CASE ReadNonce(q) \/ FirstNonce(q) \/ Pick(q) \/ Fill(q) \/ Build(q)
  BY <1>5, ReadNonceNext, FirstNonceNext, PickNext, FillNext, BuildNext
<1>6. CASE Send(q) \/ SendOp(q)
  BY <1>6, SendNext, SendOpNext
<1>7. CASE WaitMined(q) \/ AwaitReceipt(q) \/ Receipt(q)
  BY <1>7, WaitingNext
<1>. QED BY <1>1, <1>2, <1>3, <1>4, <1>5, <1>6, <1>7 DEF Step

LEMMA NothingNext ==
    ASSUME IInv, UNCHANGED vars PROVE IInv'
<1>1. UNCHANGED <<count, delegate, nonce, opNonce, held, mined, ran, pending, db, cmd, asked,
                  said, overlapped>>
  BY DEF vars, chain
<1>2. Sent' = Sent /\ \A id : RanOf(id)' = RanOf(id)
  BY <1>1 DEF Sent, RanOf
<1>3. ASSUME NEW c, Running(c) PROVE Running(c)'
  <2>1. Formed(c)' /\ Recorded(c, db')
    BY <1>1, <1>3 DEF Running, Formed, Signed
  <2>2. Placed(c)'
    BY <1>1, <1>2, <1>3
       DEF Running, Placed, AtEarly, AtPicking, AtForeign, AtForeignSigned, AtAuthFilling,
           AtAuthSending, AtAuthorized, AtFilling, AtSending, AtOpSending, AtWaiting, AtEnd,
           Silent, Unsent, Ready, Loaded
  <2>. QED BY <1>1, <2>1, <2>2 DEF Running
<1>4. \A p \in Procs : (cmd[p] = Idle \/ Running(cmd[p]))'
  <2>1. ASSUME NEW p \in Procs, cmd[p] # Idle PROVE Running(cmd[p])'
    <3>1. PICK k : k = cmd[p] /\ k = cmd'[p]
      BY <1>1
    <3>. QED BY <1>3, <2>1, <3>1 DEF IInv
  <2>. QED BY <1>1, <2>1 DEF Idle
<1>5. /\ Typed' /\ (\A t \in Sent : Sound(t))' /\ OneCarrier' /\ RanOnce' /\ Outcome' /\ Apart'
      /\ Lone' /\ ReadyTx' /\ Told' /\ DelegationRebuildable'
  <2>1. Typed' /\ (\A t \in Sent : Sound(t))' /\ OneCarrier' /\ DelegationRebuildable'
    BY <1>1, <1>2 DEF IInv, Typed, Sound, OneCarrier, DelegationRebuildable
  <2>2. RanOnce'
    BY <1>1, <1>2 DEF IInv, RanOnce
  <2>3. Outcome' /\ ReadyTx'
    BY <1>1, <1>2 DEF IInv, Outcome, ReadyTx
  <2>4. Active' = Active
    BY <1>1 DEF Active
  <2>5. Apart' /\ Lone'
    BY <1>1, <2>4 DEF IInv, Apart, Lone
  <2>6. Told'
    BY <1>1, <1>2 DEF IInv, Told, SuccessMeansRun
  <2>. QED BY <2>1, <2>2, <2>3, <2>5, <2>6
<1>. QED BY <1>4, <1>5 DEF IInv

(* The inductive invariant: every command is at one of its points, with what *)
(* it has signed, sent and recorded by then, and no transaction carries the  *)
(* calls of another.                                                         *)
THEOREM PointsKept == Spec => []IInv
<1>1. Init => IInv
  BY AtFirst
<1>2. IInv /\ [Next]_vars => IInv'
  <2> SUFFICES ASSUME IInv, [Next]_vars PROVE IInv'
    OBVIOUS
  <2>1. ASSUME NEW q \in Procs, NEW r \in Commands, Begin(q, r) PROVE IInv'
    BY <2>1, BeginNext
  <2>2. ASSUME NEW q \in Procs, Step(q) PROVE IInv'
    BY <2>2, StepNext
  <2>3. ASSUME NEW t \in pending, Mine(t) \/ IncludeOp(t) PROVE IInv'
    BY <2>3, MineNext, IncludeOpNext
  <2>4. ASSUME NEW t \in Sent, Relay(t) PROVE IInv'
    BY <2>4, RelayNext
  <2>5. CASE UNCHANGED vars
    BY <2>5, NothingNext
  <2>. QED BY <2>1, <2>2, <2>3, <2>4, <2>5 DEF Next
<1>. QED BY <1>1, <1>2, PTL DEF Spec

(* No call of a command takes effect twice: not when its signed batch is     *)
(* submitted again by someone else, nor when the command retries or others   *)
(* of the same account sign at the same delegate nonce.                      *)
THEOREM NoCallTwice == Spec => []CallsRunOnce
<1>1. IInv => CallsRunOnce
  BY DEF IInv, RanOnce, CallsRunOnce, BagToSet
<1>. QED BY <1>1, PointsKept, PTL

(* The calls of a command take effect together or not at all, whatever is    *)
(* reverted, lost or submitted by others: no approval without its deposit.   *)
THEOREM CallsTogether == Spec => []AllOrNothing
<1>1. IInv => AllOrNothing
  BY DEF IInv, RanOnce, AllOrNothing
<1>. QED BY <1>1, PointsKept, PTL

(* A command that reports success, and during which nothing else of the      *)
(* wallet was under way, has had its effect (the executor's excepted, whose  *)
(* receipts are not read).                                                   *)
THEOREM SuccessIsTrue == Spec => []SuccessMeansRun
<1>1. IInv => SuccessMeansRun
  BY DEF IInv, Told
<1>. QED BY <1>1, PointsKept, PTL

(* An executor's authorisation is only ever sent when the records to rebuild *)
(* the account it delegates are complete, and they stay so.                  *)
THEOREM DelegationsRecorded == Spec => []DelegationRebuildable
<1>1. IInv => DelegationRebuildable
  BY DEF IInv
<1>. QED BY <1>1, PointsKept, PTL

-----------------------------------------------------------------------------
(* Folds.  FoldLeft is a function, picked by CHOOSE, on the sets of indices; *)
(* an induction is over a set of numbers that is closed under successors.  *)
OrderOn(S) == OpToRel(<, S)

LEMMA OrderPairs == \A x, y \in Nat : <<x, y>> \in OrderOn(Nat) <=> x < y
BY Zenon DEF OrderOn, OpToRel

LEMMA OrderWellFounded == IsWellFoundedOn(OrderOn(Nat), Nat)
BY NatLessThanWellFounded, Zenon DEF OrderOn

LEMMA LeastElement ==
    ASSUME NEW S \in SUBSET Nat, S # {}
    PROVE  \E m \in S : \A n \in S : m <= n
<1>1. PICK m \in S : \A n \in S : <<n, m>> \notin OrderOn(Nat)
  BY OrderWellFounded, WFMin
<1>2. \A n \in S : ~ (n < m)
  BY <1>1, OrderPairs
<1>. QED BY <1>2

LEMMA GreatestElement ==
    ASSUME NEW k \in Nat, NEW S \in SUBSET (0 .. k), S # {}
    PROVE  \E m \in S : \A n \in S : n <= m
<1> DEFINE T == {k - n : n \in S}
<1>1. T \in SUBSET Nat /\ T # {}
  <2>1. \A n \in S : k - n \in Nat
    OBVIOUS
  <2>2. PICK n \in S : TRUE
    OBVIOUS
  <2>3. k - n \in T
    BY <2>2
  <2>. QED BY <2>1, <2>3, Zenon
<1>2. PICK d \in T : \A e \in T : d <= e
  <2> HIDE DEF T
  <2>. QED BY <1>1, LeastElement
<1>3. PICK m \in S : d = k - m
  OBVIOUS
<1>4. \A n \in S : k - m <= k - n
  BY <1>2, <1>3
<1>. QED BY <1>4

LEMMA UpwardClosed ==
    ASSUME NEW a \in Nat, NEW S \in SUBSET Nat, a \in S,
           \A n \in S : n >= a => n + 1 \in S
    PROVE  \A n \in Nat : n >= a => n \in S
<1> DEFINE T == {n \in Nat : n >= a /\ n \notin S}
<1>1. SUFFICES ASSUME T # {} PROVE FALSE
  OBVIOUS
<1>2. PICK m \in T : \A n \in T : m <= n
  BY <1>1, LeastElement
<1>3. m - 1 \in Nat /\ m - 1 >= a /\ m - 1 \notin T
  BY <1>2
<1>. QED BY <1>2, <1>3

(* FoldLeft goes through the subsets of the indices, from the whole set down. *)
LEMMA Greatest ==
    ASSUME NEW n \in Nat, NEW s \in SUBSET (1 .. n), s # {}
    PROVE  /\ Max(s) \in s /\ \A i \in s : i <= Max(s)
           /\ s \ {Max(s)} \in SUBSET (1 .. n)
<1>1. s \in SUBSET (0 .. n)
  OBVIOUS
<1>2. PICK m \in s : \A i \in s : i <= m
  BY <1>1, GreatestElement
<1>3. \A i \in s : m >= i
  BY <1>2
<1>4. Max(s) = CHOOSE x \in s : \A y \in s : x >= y
  BY DEF Max
<1>5. Max(s) \in s /\ \A y \in s : Max(s) >= y
  BY <1>2, <1>3, <1>4
<1>6. QED
  BY <1>5

(* The greatest of the first indices is the last of them. *)
LEMMA GreatestOfPrefix ==
    ASSUME NEW k \in Nat, k >= 1
    PROVE  Max(1 .. k) = k /\ (1 .. k) \ {k} = 1 .. k - 1
<1>1. k \in 1 .. k /\ 1 .. k # {} /\ 1 .. k \in SUBSET (1 .. k)
  OBVIOUS
<1>2. Max(1 .. k) \in 1 .. k /\ k <= Max(1 .. k)
  BY <1>1, Greatest
<1>3. QED
  BY <1>2

(* it folds base over the sets of the first n indices; h[i] takes index i. *)
Folding(it, n, base, h) ==
    it = [s \in SUBSET (1 .. n) |->
            IF s = {} THEN base ELSE h[Max(s)][it[s \ {Max(s)}]]]

(* There is such a fold, and it stays where h leads: FoldLeft chooses one. *)
LEMMA FoldingExists ==
    ASSUME NEW A, NEW base \in A, NEW n \in Nat, NEW h \in [1 .. n -> [A -> A]]
    PROVE  \E it \in [SUBSET (1 .. n) -> A] : Folding(it, n, base, h)
<1> DEFINE S == {k \in Nat : k <= n => \E it \in [SUBSET (1 .. k) -> A] : Folding(it, k, base, h)}
<1>1. 0 \in S
  <2> DEFINE it == [s \in SUBSET (1 .. 0) |-> base]
  <2>1. it \in [SUBSET (1 .. 0) -> A]
    OBVIOUS
  <2>2. \A s \in SUBSET (1 .. 0) : s = {}
    OBVIOUS
  <2>3. it = [s \in SUBSET (1 .. 0) |->
          IF s = {} THEN base ELSE h[Max(s)][it[s \ {Max(s)}]]]
    BY <2>2
  <2>4. Folding(it, 0, base, h)
    <3> HIDE DEF it
    <3> QED BY <2>3 DEF Folding
  <2>5. QED
    BY <2>1, <2>4
<1>2. ASSUME NEW k \in S, k >= 0 PROVE k + 1 \in S
  <2> SUFFICES ASSUME k + 1 <= n
               PROVE  \E it \in [SUBSET (1 .. k + 1) -> A] : Folding(it, k + 1, base, h)
    <3>1. k + 1 \in Nat
      OBVIOUS
    <3>2. QED
      BY <3>1
  <2>0. k \in Nat /\ k <= n
    <3>1. k \in Nat
      OBVIOUS
    <3>2. QED
      BY <3>1
  <2>1. PICK f \in [SUBSET (1 .. k) -> A] : Folding(f, k, base, h)
    BY <2>0
  <2> DEFINE g == [s \in SUBSET (1 .. k + 1) |->
                     IF k + 1 \in s THEN h[k + 1][f[s \ {k + 1}]] ELSE f[s]]
  <2>2. ASSUME NEW s \in SUBSET (1 .. k + 1)
        PROVE  /\ k + 1 \in s => s \ {k + 1} \in SUBSET (1 .. k)
               /\ k + 1 \notin s => s \in SUBSET (1 .. k)
    OBVIOUS
  <2>3. h[k + 1] \in [A -> A]
    OBVIOUS
  <2>4. g \in [SUBSET (1 .. k + 1) -> A]
    <3>1. ASSUME NEW s \in SUBSET (1 .. k + 1)
          PROVE  (IF k + 1 \in s THEN h[k + 1][f[s \ {k + 1}]] ELSE f[s]) \in A
      BY <2>1, <2>2, <2>3
    <3>2. QED
      BY <3>1
  <2>5. ASSUME NEW s \in SUBSET (1 .. k + 1)
        PROVE  g[s] = IF s = {} THEN base ELSE h[Max(s)][g[s \ {Max(s)}]]
    <3>1. CASE k + 1 \in s
      <4>1. k + 1 \in Nat /\ s # {}
        BY <3>1
      <4>2. Max(s) \in s /\ \A i \in s : i <= Max(s)
        BY <4>1, Greatest
      <4>3. Max(s) = k + 1
        <5>1. k \in Nat /\ Max(s) \in 1 .. k + 1 /\ k + 1 <= Max(s)
          BY <2>0, <3>1, <4>2
        <5>2. QED
          BY <5>1
      <4>4. s \ {k + 1} \in SUBSET (1 .. k + 1) /\ k + 1 \notin s \ {k + 1}
        OBVIOUS
      <4>5. g[s \ {k + 1}] = f[s \ {k + 1}]
        BY <4>4
      <4>6. QED
        BY <3>1, <4>1, <4>3, <4>5
    <3>2. CASE k + 1 \notin s /\ s # {}
      <4>1. s \in SUBSET (1 .. k)
        BY <2>2, <3>2
      <4>2. Max(s) \in s /\ s \ {Max(s)} \in SUBSET (1 .. k)
        BY <3>2, <4>1, Greatest
      <4>3. s \ {Max(s)} \in SUBSET (1 .. k + 1) /\ k + 1 \notin s \ {Max(s)}
        BY <3>2
      <4>4. g[s] = f[s] /\ g[s \ {Max(s)}] = f[s \ {Max(s)}]
        BY <3>2, <4>3
      <4>5. f[s] = h[Max(s)][f[s \ {Max(s)}]]
        BY <2>1, <3>2, <4>1 DEF Folding
      <4>6. QED
        BY <3>2, <4>4, <4>5
    <3>3. CASE s = {}
      BY <2>1, <3>3 DEF Folding
    <3>4. QED
      BY <3>1, <3>2, <3>3
  <2>6. g = [s \in SUBSET (1 .. k + 1) |->
               IF s = {} THEN base ELSE h[Max(s)][g[s \ {Max(s)}]]]
    BY <2>5
  <2>7. Folding(g, k + 1, base, h)
    <3> HIDE DEF g
    <3> QED BY <2>6 DEF Folding
  <2>8. QED
    BY <2>4, <2>7
<1>3. \A k \in Nat : k >= 0 => k \in S
  <2> HIDE DEF S
  <2>1. S \in SUBSET Nat
    BY DEF S
  <2>2. QED
    BY <1>1, <1>2, <2>1, UpwardClosed
<1>4. n \in S
  <2> HIDE DEF S
  <2>1. n >= 0
    OBVIOUS
  <2>2. QED
    BY <1>3, <2>1
<1>5. n <= n
  OBVIOUS
<1>6. QED
  BY <1>4, <1>5

(* it folds base by h as long as that stays within A. *)
Folds(it, n, A, base, h) ==
    /\ it[{}] = base
    /\ \A s \in SUBSET (1 .. n) : s # {} /\ it[s \ {Max(s)}] \in A =>
         it[s] = h[Max(s)][it[s \ {Max(s)}]]

(* A fold goes through the prefixes of the indices, one step each. *)
LEMMA FoldingSteps ==
    ASSUME NEW A, NEW base \in A, NEW n \in Nat, NEW h \in [1 .. n -> [A -> A]], NEW it,
           Folds(it, n, A, base, h)
    PROVE  /\ \A k \in 0 .. n : it[1 .. k] \in A
           /\ \A k \in 1 .. n : it[1 .. k] = h[k][it[1 .. k - 1]]
<1> DEFINE S == {k \in Nat : k <= n => it[1 .. k] \in A}
<1>0. 0 \in S
  <2>1. 1 .. 0 = {}
    OBVIOUS
  <2>2. QED
    BY <2>1 DEF Folds
<1>1. ASSUME NEW k \in 1 .. n, it[1 .. k - 1] \in A
      PROVE  it[1 .. k] = h[k][it[1 .. k - 1]]
  <2>1. k \in Nat /\ k >= 1 /\ 1 .. k \in SUBSET (1 .. n) /\ 1 .. k # {}
    <3>1. k \in Nat /\ k >= 1 /\ k <= n
      OBVIOUS
    <3>2. 1 \in 1 .. k /\ \A i \in 1 .. k : i \in 1 .. n
      BY <3>1
    <3>3. QED
      BY <3>1, <3>2
  <2>2. Max(1 .. k) = k /\ (1 .. k) \ {k} = 1 .. k - 1
    BY <2>1, GreatestOfPrefix
  <2>3. QED
    BY <1>1, <2>1, <2>2 DEF Folds
<1>2. ASSUME NEW k \in S, k >= 0 PROVE k + 1 \in S
  <2>1. k \in Nat /\ k + 1 \in Nat /\ (k + 1) - 1 = k
    OBVIOUS
  <2>2. CASE k + 1 <= n
    <3>1. k <= n /\ k + 1 \in 1 .. n
      BY <2>1, <2>2
    <3>2. it[1 .. k] \in A
      BY <3>1
    <3>3. it[1 .. k + 1] = h[k + 1][it[1 .. k]]
      BY <1>1, <2>1, <3>1, <3>2
    <3>4. h[k + 1] \in [A -> A]
      BY <3>1
    <3>5. QED
      BY <2>1, <3>2, <3>3, <3>4
  <2>3. QED
    BY <2>1, <2>2
<1>3. \A k \in Nat : k >= 0 => k \in S
  <2> HIDE DEF S
  <2>1. S \in SUBSET Nat
    BY DEF S
  <2>2. QED
    BY <1>0, <1>2, <2>1, UpwardClosed
<1>4. \A k \in 0 .. n : it[1 .. k] \in A
  <2>1. \A k \in 0 .. n : k \in Nat /\ k >= 0 /\ k <= n
    OBVIOUS
  <2>2. QED
    BY <1>3, <2>1
<1>5. ASSUME NEW k \in 1 .. n PROVE it[1 .. k] = h[k][it[1 .. k - 1]]
  <2>1. k - 1 \in 0 .. n
    OBVIOUS
  <2>2. QED
    BY <1>1, <1>4, <2>1
<1>6. QED
  BY <1>4, <1>5

(* What a fold ends with. *)
LEMMA FoldingResult ==
    ASSUME NEW A, NEW base \in A, NEW n \in Nat, NEW h \in [1 .. n -> [A -> A]], NEW it,
           Folds(it, n, A, base, h)
    PROVE  it[1 .. n] \in A
<1>1. \A k \in 0 .. n : it[1 .. k] \in A
  BY FoldingSteps
<1>2. n \in 0 .. n
  OBVIOUS
<1>3. QED
  BY <1>1, <1>2

IsTotal(it, ns) ==
    it = [s \in SUBSET DOMAIN ns |-> IF s = {} THEN 0 ELSE it[s \ {Max(s)}] + ns[Max(s)].value]

(* Total adds up the notes one by one. *)
TotalOf(acc, ns) ==
    /\ acc[0] = 0
    /\ \A k \in 1 .. Len(ns) : acc[k] = acc[k - 1] + ns[k].value

(* It does so by accumulating. *)
LEMMA TotalSteps ==
    ASSUME NEW N, \A x \in N : x.value \in Nat, NEW ns \in Seq(N)
    PROVE  \E acc \in [0 .. Len(ns) -> Nat] : TotalOf(acc, ns) /\ Total(ns) = acc[Len(ns)]
<1>1. PICK n \in Nat : n = Len(ns) /\ DOMAIN ns = 1 .. n
  OBVIOUS
<1>2. \A i \in 1 .. n : ns[i].value \in Nat
  BY <1>1
<1> DEFINE h == [i \in 1 .. n |-> [a \in Nat |-> a + ns[i].value]]
<1>3. h \in [1 .. n -> [Nat -> Nat]]
  BY <1>2
<1>4. 0 \in Nat /\ \A i \in 1 .. n : \A a \in Nat : h[i][a] = a + ns[i].value
  OBVIOUS
<1> HIDE DEF h
<1>5. PICK f \in [SUBSET (1 .. n) -> Nat] : Folding(f, n, 0, h)
  BY <1>3, <1>4, FoldingExists
<1>6. \A s \in SUBSET (1 .. n) : s # {} => Max(s) \in 1 .. n /\ s \ {Max(s)} \in SUBSET (1 .. n)
  BY Greatest
<1>7. IsTotal(f, ns)
  BY <1>1, <1>4, <1>5, <1>6 DEF IsTotal, Folding
<1>8. PICK it : IsTotal(it, ns) /\ Total(ns) = it[DOMAIN ns]
  BY <1>7 DEF Total, FoldLeft, MapThenFoldSet, IsTotal
<1>9. Folds(it, n, Nat, 0, h)
  <2>1. it = [s \in SUBSET (1 .. n) |->
                IF s = {} THEN 0 ELSE it[s \ {Max(s)}] + ns[Max(s)].value]
    BY <1>1, <1>8 DEF IsTotal
  <2>2. it[{}] = 0
    BY <2>1
  <2>3. ASSUME NEW s \in SUBSET (1 .. n), s # {}, it[s \ {Max(s)}] \in Nat
        PROVE  it[s] = h[Max(s)][it[s \ {Max(s)}]]
    <3>1. it[s] = it[s \ {Max(s)}] + ns[Max(s)].value
      BY <2>1, <2>3
    <3>2. QED
      BY <1>4, <1>6, <2>3, <3>1
  <2>4. QED
    BY <2>2, <2>3 DEF Folds
<1>10. /\ \A k \in 0 .. n : it[1 .. k] \in Nat
       /\ \A k \in 1 .. n : it[1 .. k] = h[k][it[1 .. k - 1]]
  <2>1. PICK A : A = Nat
    OBVIOUS
  <2>2. 0 \in A /\ h \in [1 .. n -> [A -> A]] /\ Folds(it, n, A, 0, h)
    BY <1>3, <1>9, <2>1
  <2>3. /\ \A k \in 0 .. n : it[1 .. k] \in A
        /\ \A k \in 1 .. n : it[1 .. k] = h[k][it[1 .. k - 1]]
    BY <2>2, FoldingSteps
  <2>. QED BY <2>1, <2>3
<1> DEFINE acc == [k \in 0 .. n |-> it[1 .. k]]
<1>11. acc \in [0 .. n -> Nat] /\ acc[n] = it[1 .. n]
  BY <1>10
<1>12. acc[0] = 0
  <2>1. 1 .. 0 = {}
    OBVIOUS
  <2>2. QED
    BY <1>9, <2>1 DEF Folds
<1>13. ASSUME NEW k \in 1 .. n PROVE acc[k] = acc[k - 1] + ns[k].value
  <2>1. k \in 0 .. n /\ k - 1 \in 0 .. n
    OBVIOUS
  <2>2. acc[k] = it[1 .. k] /\ acc[k - 1] = it[1 .. k - 1] /\ it[1 .. k - 1] \in Nat
    BY <1>10, <2>1
  <2>3. QED
    BY <1>4, <1>10, <2>2
<1> HIDE DEF acc
<1>14. TotalOf(acc, ns)
  BY <1>1, <1>12, <1>13 DEF TotalOf
<1>. QED BY <1>1, <1>8, <1>11, <1>14

(* Sequences over a smaller set are sequences over a larger one. *)
LEMMA SeqOfSubset ==
    ASSUME NEW S, NEW T, S \subseteq T, NEW s \in Seq(S)
    PROVE  s \in Seq(T)
<1>1. \A i \in 1 .. Len(s) : s[i] \in T
  OBVIOUS
<1>2. QED
  BY <1>1

(* Insertion by value. *)
Inserted(sorted, x) ==
    InsertAt(sorted, Cardinality({i \in DOMAIN sorted : sorted[i].value >= x.value}) + 1, x)

(* Insertion makes a sequence of the same notes. *)
LEMMA InsertedIsSequence ==
    ASSUME NEW N, NEW sorted \in Seq(N), NEW x \in N
    PROVE  Inserted(sorted, x) \in Seq(N)
<1>1. PICK n \in Nat : n = Len(sorted) /\ DOMAIN sorted = 1 .. n
  OBVIOUS
<1>2. PICK larger : larger = Cardinality({i \in DOMAIN sorted : sorted[i].value >= x.value})
  OBVIOUS
<1>3. larger \in Nat /\ larger <= n
  <2>1. IsFiniteSet(1 .. n) /\ Cardinality(1 .. n) = n
    <3>1. IsFiniteSet(1 .. n) /\ Cardinality(1 .. n) = IF 1 > n THEN 0 ELSE n - 1 + 1
      BY FS_Interval
    <3>2. QED
      BY <3>1
  <2>2. {i \in DOMAIN sorted : sorted[i].value >= x.value} \subseteq 1 .. n
    BY <1>1
  <2>3. PICK T \in SUBSET (1 .. n) : T = {i \in DOMAIN sorted : sorted[i].value >= x.value}
    BY <2>2
  <2>4. IsFiniteSet(T) /\ Cardinality(T) <= Cardinality(1 .. n) /\ Cardinality(T) \in Nat
    BY <2>1, FS_Subset, FS_CardinalityType
  <2>5. QED
    BY <1>2, <2>1, <2>3, <2>4
<1>4. Inserted(sorted, x) = SubSeq(sorted, 1, (larger + 1) - 1) \o <<x>>
                            \o SubSeq(sorted, larger + 1, Len(sorted))
  BY <1>2 DEF Inserted, InsertAt
<1>5. SubSeq(sorted, 1, (larger + 1) - 1) \in Seq(N)
  <2>1. \A i \in 1 .. (larger + 1) - 1 : sorted[i] \in N
    BY <1>1, <1>3
  <2>2. 1 \in Int /\ (larger + 1) - 1 \in Int
    BY <1>3
  <2>3. QED
    BY <2>1, <2>2, SubSeqProperties
<1>6. SubSeq(sorted, larger + 1, Len(sorted)) \in Seq(N)
  <2>1. \A i \in larger + 1 .. Len(sorted) : sorted[i] \in N
    BY <1>1, <1>3
  <2>2. larger + 1 \in Int /\ Len(sorted) \in Int
    BY <1>1, <1>3
  <2>3. QED
    BY <2>1, <2>2, SubSeqProperties
<1>7. <<x>> \in Seq(N)
  OBVIOUS
<1>8. QED
  BY <1>4, <1>5, <1>6, <1>7

OrderedBy(it, ns) ==
    it = [s \in SUBSET DOMAIN ns |->
            IF s = {} THEN <<>> ELSE Inserted(it[s \ {Max(s)}], ns[Max(s)])]

(* Sorting makes a sequence of the same notes. *)
LEMMA LargestFirstIsSequence ==
    ASSUME NEW N, NEW ns \in Seq(N)
    PROVE  LargestFirst(ns) \in Seq(N)
<1>1. PICK n \in Nat : n = Len(ns) /\ DOMAIN ns = 1 .. n
  OBVIOUS
<1>2. \A i \in 1 .. n : ns[i] \in N
  BY <1>1
<1> DEFINE h == [i \in 1 .. n |-> [a \in Seq(N) |-> Inserted(a, ns[i])]]
<1>3. h \in [1 .. n -> [Seq(N) -> Seq(N)]]
  BY <1>2, InsertedIsSequence
<1>4. <<>> \in Seq(N) /\ \A i \in 1 .. n : \A a \in Seq(N) : h[i][a] = Inserted(a, ns[i])
  OBVIOUS
<1> HIDE DEF h
<1>5. PICK f \in [SUBSET (1 .. n) -> Seq(N)] : Folding(f, n, <<>>, h)
  BY <1>3, <1>4, FoldingExists
<1>6. \A s \in SUBSET (1 .. n) : s # {} => Max(s) \in 1 .. n /\ s \ {Max(s)} \in SUBSET (1 .. n)
  BY Greatest
<1>7. OrderedBy(f, ns)
  <2>1. ASSUME NEW s \in SUBSET (1 .. n)
        PROVE  f[s] = IF s = {} THEN <<>> ELSE Inserted(f[s \ {Max(s)}], ns[Max(s)])
    <3>1. f[s] = IF s = {} THEN <<>> ELSE h[Max(s)][f[s \ {Max(s)}]]
      BY <1>5 DEF Folding
    <3>2. s # {} => Max(s) \in 1 .. n /\ f[s \ {Max(s)}] \in Seq(N)
      BY <1>6
    <3>3. QED
      BY <1>4, <3>1, <3>2
  <2>2. f = [s \in SUBSET (1 .. n) |->
               IF s = {} THEN <<>> ELSE Inserted(f[s \ {Max(s)}], ns[Max(s)])]
    BY <2>1
  <2>3. QED
    BY <1>1, <2>2 DEF OrderedBy
<1>8. PICK it : OrderedBy(it, ns) /\ LargestFirst(ns) = it[DOMAIN ns]
  BY <1>7, Zenon DEF LargestFirst, FoldLeft, MapThenFoldSet, OrderedBy, Inserted
<1>9. Folds(it, n, Seq(N), <<>>, h)
  <2>1. it = [s \in SUBSET (1 .. n) |->
                IF s = {} THEN <<>> ELSE Inserted(it[s \ {Max(s)}], ns[Max(s)])]
    BY <1>1, <1>8 DEF OrderedBy
  <2>2. it[{}] = <<>>
    BY <2>1
  <2>3. ASSUME NEW s \in SUBSET (1 .. n), s # {}, it[s \ {Max(s)}] \in Seq(N)
        PROVE  it[s] = h[Max(s)][it[s \ {Max(s)}]]
    <3>1. it[s] = Inserted(it[s \ {Max(s)}], ns[Max(s)])
      BY <2>1, <2>3
    <3>2. QED
      BY <1>4, <1>6, <2>3, <3>1
  <2>4. QED
    BY <2>2, <2>3 DEF Folds
<1>10. it[1 .. n] \in Seq(N)
  BY <1>3, <1>4, <1>9, FoldingResult
<1>11. QED
  BY <1>1, <1>8, <1>10

(* The notes a set holds, one by one. *)
IsKept(it, ns, set) ==
    it = [s \in SUBSET DOMAIN ns |->
            IF s = {} THEN <<>>
            ELSE IF ns[Max(s)] \in set THEN Append(it[s \ {Max(s)}], ns[Max(s)])
                 ELSE it[s \ {Max(s)}]]

(* What is kept is in the set. *)
LEMMA KeptIsDrawn ==
    ASSUME NEW N, NEW ns \in Seq(N), NEW set
    PROVE  Kept(ns, set) \in Seq(set)
<1>1. PICK n \in Nat : n = Len(ns) /\ DOMAIN ns = 1 .. n
  OBVIOUS
<1> DEFINE A == Seq(set)
           h == [i \in 1 .. n |-> [a \in A |-> IF ns[i] \in set THEN Append(a, ns[i]) ELSE a]]
<1>3. h \in [1 .. n -> [A -> A]]
  <2>1. ASSUME NEW i \in 1 .. n, NEW a \in A
        PROVE  (IF ns[i] \in set THEN Append(a, ns[i]) ELSE a) \in A
    BY AppendProperties
  <2>. QED
    <3> HIDE DEF A
    <3>. QED BY <2>1
<1>4. <<>> \in A /\ \A i \in 1 .. n : \A a \in A :
        h[i][a] = IF ns[i] \in set THEN Append(a, ns[i]) ELSE a
  <2>1. <<>> \in A
    OBVIOUS
  <2>. QED
    <3> HIDE DEF A
    <3>. QED BY <2>1
<1> HIDE DEF h, A
<1>5. PICK f \in [SUBSET (1 .. n) -> A] : Folding(f, n, <<>>, h)
  BY <1>3, <1>4, FoldingExists
<1>6. \A s \in SUBSET (1 .. n) : s # {} => Max(s) \in 1 .. n /\ s \ {Max(s)} \in SUBSET (1 .. n)
  BY Greatest
<1>7. IsKept(f, ns, set)
  <2>1. ASSUME NEW s \in SUBSET (1 .. n)
        PROVE  f[s] = IF s = {} THEN <<>>
                      ELSE IF ns[Max(s)] \in set THEN Append(f[s \ {Max(s)}], ns[Max(s)])
                           ELSE f[s \ {Max(s)}]
    <3>1. f[s] = IF s = {} THEN <<>> ELSE h[Max(s)][f[s \ {Max(s)}]]
      BY <1>5 DEF Folding
    <3>2. s # {} => Max(s) \in 1 .. n /\ f[s \ {Max(s)}] \in A
      BY <1>6
    <3>. QED BY <1>4, <3>1, <3>2
  <2>2. f = [s \in SUBSET (1 .. n) |->
               IF s = {} THEN <<>>
               ELSE IF ns[Max(s)] \in set THEN Append(f[s \ {Max(s)}], ns[Max(s)])
                    ELSE f[s \ {Max(s)}]]
    BY <2>1
  <2>. QED BY <1>1, <2>2 DEF IsKept
<1>8. PICK it : IsKept(it, ns, set) /\ Kept(ns, set) = it[DOMAIN ns]
  BY <1>7 DEF Kept, FoldLeft, MapThenFoldSet, IsKept
<1>9. Folds(it, n, A, <<>>, h)
  <2>1. it = [s \in SUBSET (1 .. n) |->
                IF s = {} THEN <<>>
                ELSE IF ns[Max(s)] \in set THEN Append(it[s \ {Max(s)}], ns[Max(s)])
                     ELSE it[s \ {Max(s)}]]
    BY <1>1, <1>8 DEF IsKept
  <2>2. it[{}] = <<>>
    BY <2>1
  <2>3. ASSUME NEW s \in SUBSET (1 .. n), s # {}, it[s \ {Max(s)}] \in A
        PROVE  it[s] = h[Max(s)][it[s \ {Max(s)}]]
    <3>1. it[s] = IF ns[Max(s)] \in set THEN Append(it[s \ {Max(s)}], ns[Max(s)])
                  ELSE it[s \ {Max(s)}]
      BY <2>1, <2>3
    <3>. QED BY <1>4, <1>6, <2>3, <3>1
  <2>. QED BY <2>2, <2>3 DEF Folds
<1>10. it[1 .. n] \in A
  BY <1>3, <1>4, <1>9, FoldingResult
<1>. QED BY <1>1, <1>8, <1>10 DEF A

-----------------------------------------------------------------------------
(* The notes of a shield.                                                  *)

LEMMA TimesNext == \A j, v \in Nat : j * v \in Nat /\ (j + 1) * v = j * v + v
OBVIOUS

Priced(P) == \A p \in P : p.value \in Nat /\ p.value > 0
Adds(s, t, u, k, x, d) ==
    Len(u) = k /\ (\A i \in 1 .. k : u[i] = x) /\ t = s \o u /\ d = k * x.value

(* A total goes up by each note that is added. *)
LEMMA TotalAdds ==
    ASSUME NEW N, Priced(N), NEW s \in Seq(N), NEW x \in N, NEW k \in Nat,
           NEW u \in Seq(N), NEW t \in Seq(N),
           NEW d \in Nat, Adds(s, t, u, k, x, d)
    PROVE  Total(t) = Total(s) + d /\ Len(t) = Len(s) + k /\ Total(s) \in Nat
<1>0. /\ Len(u) = k /\ \A i \in 1 .. k : u[i] = x
      /\ \A p \in N : p.value \in Nat
      /\ t = s \o u /\ d = k * x.value
  BY DEF Adds, Priced
<1>1. PICK m \in Nat : m = Len(s)
  OBVIOUS
<1>2. PICK v \in Nat : v = x.value
  BY <1>0
<1>3. /\ Len(t) = m + k /\ \A i \in 1 .. m : t[i] = s[i]
      /\ \A i \in 1 .. k : t[m + i] = x
  <2>1. /\ Len(t) = Len(s) + Len(u)
        /\ \A i \in 1 .. Len(s) + Len(u) :
             t[i] = IF i <= Len(s) THEN s[i] ELSE u[i - Len(s)]
    BY <1>0, ConcatProperties
  <2>2. \A i \in 1 .. m + k : t[i] = IF i <= m THEN s[i] ELSE u[i - m]
    BY <1>0, <1>1, <2>1
  <2>3. \A i \in 1 .. m : i \in 1 .. m + k /\ i <= m
    BY <1>1
  <2>4. \A i \in 1 .. k : m + i \in 1 .. m + k /\ ~ (m + i <= m) /\ (m + i) - m = i
    BY <1>1
  <2>5. \A i \in 1 .. k : t[m + i] = x
    BY <1>0, <2>2, <2>4
  <2>. QED BY <1>0, <1>1, <2>1, <2>2, <2>3, <2>5
<1>4. PICK acc \in [0 .. m -> Nat] : TotalOf(acc, s) /\ Total(s) = acc[m]
  BY <1>0, <1>1, TotalSteps
<1>5. PICK n \in Nat : n = m + k
  OBVIOUS
<1>6. PICK sum \in [0 .. n -> Nat] : TotalOf(sum, t) /\ Total(t) = sum[n]
  BY <1>0, <1>3, <1>5, TotalSteps
<1>7. acc[0] = 0 /\ \A i \in 1 .. m : acc[i] = acc[i - 1] + s[i].value
  BY <1>1, <1>4 DEF TotalOf
<1>8. sum[0] = 0 /\ \A i \in 1 .. n : sum[i] = sum[i - 1] + t[i].value
  BY <1>3, <1>5, <1>6 DEF TotalOf
<1> DEFINE S == {i \in Nat : i <= m => sum[i] = acc[i]}
           R == {i \in Nat : i <= k => sum[m + i] = acc[m] + i * v}
<1>9. \A i \in Nat : i >= 0 => i \in S
  <2>1. 0 \in S
    BY <1>7, <1>8
  <2>2. ASSUME NEW i \in S, i >= 0 PROVE i + 1 \in S
    <3>1. SUFFICES ASSUME i + 1 <= m PROVE sum[i + 1] = acc[i + 1]
      OBVIOUS
    <3>2. i \in Nat /\ sum[i] = acc[i] /\ i + 1 \in 1 .. m /\ i + 1 \in 1 .. n /\ (i + 1) - 1 = i
      BY <1>5, <3>1
    <3>3. acc[i + 1] = acc[i] + s[i + 1].value
      BY <1>7, <3>2
    <3>4. sum[i + 1] = sum[i] + t[i + 1].value
      BY <1>8, <3>2
    <3>. QED BY <1>3, <3>2, <3>3, <3>4
  <2>3. S \in SUBSET Nat /\ 0 \in Nat
    OBVIOUS
  <2> HIDE DEF S
  <2>. QED BY <2>1, <2>2, <2>3, UpwardClosed
<1>10. sum[m] = acc[m]
  BY <1>9
<1>11. \A i \in Nat : i >= 0 => i \in R
  <2>1. 0 \in R
    BY <1>2, <1>4, <1>10
  <2>2. ASSUME NEW i \in R, i >= 0 PROVE i + 1 \in R
    <3>1. SUFFICES ASSUME i + 1 <= k PROVE sum[m + (i + 1)] = acc[m] + (i + 1) * v
      OBVIOUS
    <3>2. i \in Nat /\ sum[m + i] = acc[m] + i * v /\ i + 1 \in 1 .. k
      BY <3>1
    <3>3. PICK j \in 1 .. n : j = m + (i + 1) /\ j - 1 = m + i
      BY <1>5, <3>2
    <3>4. sum[j] = sum[j - 1] + t[j].value
      BY <1>8, <3>3
    <3>5. t[j].value = v
      BY <1>2, <1>3, <3>2, <3>3
    <3>6. PICK a \in Nat, b \in Nat : a = i * v /\ b = (i + 1) * v /\ b = a + v
      BY <3>2, TimesNext
    <3>7. sum[j] = acc[m] + b
      <4>1. acc[m] \in Nat /\ sum[j - 1] = acc[m] + a
        BY <1>4, <3>2, <3>3, <3>6
      <4>2. a \in Nat /\ v \in Nat /\ b = a + v
        BY <3>6
      <4>3. sum[j] = sum[j - 1] + v
        BY <3>4, <3>5
      <4>. QED BY ONLY <4>1, <4>2, <4>3
    <3>. QED BY <3>3, <3>6, <3>7
  <2>3. R \in SUBSET Nat /\ 0 \in Nat
    OBVIOUS
  <2> HIDE DEF R
  <2>. QED BY <2>1, <2>2, <2>3, UpwardClosed
<1>12. sum[m + k] = acc[m] + k * v
  <2>1. k \in R
    <3> HIDE DEF R
    <3>. QED BY <1>11
  <2>. QED BY <2>1
<1>13. sum[n] = acc[m] + d
  BY <1>0, <1>2, <1>5, <1>12
<1>14. acc[m] \in Nat
  BY <1>4
<1>. QED BY <1>1, <1>3, <1>4, <1>6, <1>13, <1>14

(* What the greedy split has taken so far. *)
Taken(plan, p) ==
    LET pieces == plan.rest \div p.value
        more   == plan.count + pieces
    IN  IF plan.count > MaxNotes THEN plan
        ELSE [rest   |-> plan.rest - p.value * pieces,
              count  |-> more,
              chosen |-> plan.chosen \o [i \in 1 .. pieces |-> p]]

Plans(P, amount) ==
    {plan \in [rest : Nat, count : Nat, chosen : Seq(P)] :
       /\ Total(plan.chosen) + plan.rest = amount
       /\ Len(plan.chosen) = plan.count}

IsPlan(it, amount, pools) ==
    it = [s \in SUBSET DOMAIN pools |->
            IF s = {} THEN [rest |-> amount, count |-> 0, chosen |-> <<>>]
            ELSE Taken(it[s \ {Max(s)}], pools[Max(s)])]

LEMMA Quotient ==
    ASSUME NEW a \in Nat, NEW b \in Nat, b > 0
    PROVE  a \div b \in Nat /\ b * (a \div b) \in Nat /\ b * (a \div b) <= a
           /\ b * (a \div b) = (a \div b) * b
OBVIOUS

(* What is taken of a pool leaves that much less to split. *)
LEMMA TakenIsPlan ==
    ASSUME NEW P, Priced(P), NEW amount \in Nat, NEW plan \in Plans(P, amount), NEW p \in P
    PROVE  Taken(plan, p) \in Plans(P, amount)
<1>1. /\ plan.rest \in Nat /\ plan.count \in Nat /\ plan.chosen \in Seq(P)
      /\ Total(plan.chosen) + plan.rest = amount /\ Len(plan.chosen) = plan.count
  BY DEF Plans
<1>2. PICK v \in Nat : v = p.value /\ v > 0
  BY DEF Priced
<1>3. PICK n \in Nat : n = plan.rest \div p.value
  BY <1>1, <1>2, Quotient
<1>4. PICK d \in Nat : d = v * n /\ d <= plan.rest /\ d = n * v
  BY <1>1, <1>2, <1>3, Quotient
<1>5. PICK u \in Seq(P), t \in Seq(P) :
        /\ u = [i \in 1 .. n |-> p] /\ Len(u) = n /\ \A i \in 1 .. n : u[i] = p
        /\ t = plan.chosen \o u
  <2>1. PICK u : u = [i \in 1 .. n |-> p]
    OBVIOUS
  <2>2. u \in [1 .. n -> P]
    BY <2>1
  <2>3. u \in Seq(P) /\ Len(u) = n /\ \A i \in 1 .. n : u[i] = p
    BY <2>1, <2>2
  <2>4. plan.chosen \o u \in Seq(P)
    BY <1>1, <2>3, ConcatProperties
  <2>. QED BY <2>1, <2>3, <2>4
<1>6. Total(t) = Total(plan.chosen) + d /\ Len(t) = Len(plan.chosen) + n
      /\ Total(plan.chosen) \in Nat
  <2>1. \A x \in P : x.value \in Nat
    BY DEF Priced
  <2>2. PICK s \in Seq(P) : s = plan.chosen /\ t = s \o u
    BY <1>1, <1>5
  <2>3. d = n * p.value
    BY <1>2, <1>4
  <2>4. Total(t) = Total(s) + d /\ Len(t) = Len(s) + n /\ Total(s) \in Nat
    <3>1. Adds(s, t, u, n, p, d)
      BY <1>5, <2>2, <2>3 DEF Adds
    <3>. QED BY <3>1, TotalAdds
  <2>. QED BY <2>2, <2>4
<1>7. CASE plan.count > MaxNotes
  BY <1>7, Zenon DEF Taken
<1>8. CASE ~ (plan.count > MaxNotes)
  <2>1. Taken(plan, p) = [rest |-> plan.rest - d, count |-> plan.count + n, chosen |-> t]
    BY <1>2, <1>3, <1>4, <1>5, <1>8 DEF Taken
  <2>2. plan.rest - d \in Nat /\ plan.count + n \in Nat /\ Len(t) = plan.count + n
    BY <1>1, <1>4, <1>6
  <2>3. Total(t) + (plan.rest - d) = amount
    BY <1>1, <1>4, <1>6
  <2>4. PICK next : next = [rest |-> plan.rest - d, count |-> plan.count + n, chosen |-> t]
    OBVIOUS
  <2>5. /\ next.rest = plan.rest - d /\ next.count = plan.count + n /\ next.chosen = t
        /\ next \in [rest : Nat, count : Nat, chosen : Seq(P)]
    BY <1>5, <2>2, <2>4
  <2>6. Total(next.chosen) + next.rest = amount /\ Len(next.chosen) = next.count
    BY <2>2, <2>3, <2>5
  <2>7. next \in Plans(P, amount)
    BY <2>5, <2>6 DEF Plans
  <2>. QED BY <2>1, <2>4, <2>7
<1>. QED BY <1>7, <1>8

(* The greedy split makes the amount with at most so many notes, or nothing. *)
LEMMA DepositIsExact ==
    ASSUME NEW P, Priced(P), NEW amount \in Nat, NEW pools \in Seq(P)
    PROVE  /\ DepositPools(amount, pools) \in Seq(P)
           /\ Len(DepositPools(amount, pools)) <= MaxNotes
           /\ DepositPools(amount, pools) # <<>> => Total(DepositPools(amount, pools)) = amount
<1>1. PICK n \in Nat : n = Len(pools) /\ DOMAIN pools = 1 .. n
  OBVIOUS
<1>2. \A i \in 1 .. n : pools[i] \in P
  BY <1>1
<1>3. PICK none : none = [rest |-> amount, count |-> 0, chosen |-> <<>>]
  OBVIOUS
<1>4. PICK A : A = Plans(P, amount)
  OBVIOUS
<1>5. none \in A
  <2>1. Total(<<>>) = 0
    <3>1. <<>> \in Seq(P) /\ Len(<<>>) = 0 /\ \A x \in P : x.value \in Nat
      BY DEF Priced
    <3>2. PICK acc \in [0 .. 0 -> Nat] : TotalOf(acc, <<>>) /\ Total(<<>>) = acc[0]
      BY <3>1, TotalSteps
    <3>. QED BY <3>2 DEF TotalOf
  <2>. QED BY <1>3, <1>4, <2>1 DEF Plans
<1> DEFINE h == [i \in 1 .. n |-> [a \in A |-> Taken(a, pools[i])]]
<1>6. h \in [1 .. n -> [A -> A]]
  BY <1>2, <1>4, TakenIsPlan
<1>7. \A i \in 1 .. n : \A a \in A : h[i][a] = Taken(a, pools[i])
  OBVIOUS
<1> HIDE DEF h
<1>8. PICK f \in [SUBSET (1 .. n) -> A] : Folding(f, n, none, h)
  BY <1>5, <1>6, FoldingExists
<1>9. \A s \in SUBSET (1 .. n) : s # {} => Max(s) \in 1 .. n /\ s \ {Max(s)} \in SUBSET (1 .. n)
  BY Greatest
<1>10. IsPlan(f, amount, pools)
  <2>1. ASSUME NEW s \in SUBSET (1 .. n)
        PROVE  f[s] = IF s = {} THEN none ELSE Taken(f[s \ {Max(s)}], pools[Max(s)])
    <3>1. f[s] = IF s = {} THEN none ELSE h[Max(s)][f[s \ {Max(s)}]]
      BY <1>8 DEF Folding
    <3>2. s # {} => Max(s) \in 1 .. n /\ f[s \ {Max(s)}] \in A
      BY <1>9
    <3>. QED BY <1>7, <3>1, <3>2
  <2>2. f = [s \in SUBSET (1 .. n) |-> IF s = {} THEN none ELSE Taken(f[s \ {Max(s)}], pools[Max(s)])]
    BY <2>1
  <2>. QED BY <1>1, <1>3, <2>2 DEF IsPlan
<1>11. PICK it : /\ IsPlan(it, amount, pools)
                 /\ DepositPools(amount, pools)
                      = IF it[DOMAIN pools].rest = 0 /\ it[DOMAIN pools].count <= MaxNotes
                        THEN it[DOMAIN pools].chosen ELSE <<>>
  BY <1>10, Zenon DEF DepositPools, FoldLeft, MapThenFoldSet, IsPlan, Taken
<1>12. Folds(it, n, A, none, h)
  <2>1. it = [s \in SUBSET (1 .. n) |-> IF s = {} THEN none ELSE Taken(it[s \ {Max(s)}], pools[Max(s)])]
    BY <1>1, <1>3, <1>11 DEF IsPlan
  <2>2. it[{}] = none
    BY <2>1
  <2>3. ASSUME NEW s \in SUBSET (1 .. n), s # {}, it[s \ {Max(s)}] \in A
        PROVE  it[s] = h[Max(s)][it[s \ {Max(s)}]]
    <3>1. it[s] = Taken(it[s \ {Max(s)}], pools[Max(s)])
      BY <2>1, <2>3
    <3>. QED BY <1>7, <1>9, <2>3, <3>1
  <2>. QED BY <2>2, <2>3 DEF Folds
<1>13. PICK plan \in A : plan = it[DOMAIN pools]
  BY <1>1, <1>5, <1>6, <1>12, FoldingResult
<1>14. /\ plan.rest \in Nat /\ plan.count \in Nat /\ plan.chosen \in Seq(P)
       /\ Total(plan.chosen) + plan.rest = amount /\ Len(plan.chosen) = plan.count
  BY <1>4, <1>13 DEF Plans
<1>15. Total(plan.chosen) \in Nat
  <2>1. \A x \in P : x.value \in Nat
    BY DEF Priced
  <2>2. PICK acc \in [0 .. Len(plan.chosen) -> Nat] : Total(plan.chosen) = acc[Len(plan.chosen)]
    BY <1>14, <2>1, TotalSteps
  <2>. QED BY <1>14, <2>2
<1>16. PICK ps : ps = DepositPools(amount, pools)
  OBVIOUS
<1>17. CASE plan.rest = 0 /\ plan.count <= MaxNotes
  <2>1. ps = plan.chosen
    BY <1>11, <1>13, <1>16, <1>17
  <2>. QED BY <1>14, <1>15, <1>16, <1>17, <2>1
<1>18. CASE ~ (plan.rest = 0 /\ plan.count <= MaxNotes)
  <2>1. ps = <<>>
    BY <1>11, <1>13, <1>16, <1>18
  <2>2. <<>> \in Seq(P) /\ Len(<<>>) = 0 /\ 0 <= MaxNotes
    BY DEF MaxNotes
  <2>. QED BY <1>16, <2>1, <2>2
<1>. QED BY <1>17, <1>18

(* The pools of an asset and a policy. *)
PoolsFor(eth, classic, pools) ==
    {p \in Range(pools) : p.eth = eth /\ (classic => p.canonical)}

LEMMA AssetPoolsOf ==
    ASSUME NEW N, NEW pools \in Seq(N), NEW eth, NEW classic
    PROVE  AssetPools(pools, eth, classic) \in Seq(PoolsFor(eth, classic, pools))
<1>1. PICK K : K = PoolsFor(eth, classic, pools)
  OBVIOUS
<1>2. Kept(pools, K) \in Seq(K)
  BY KeptIsDrawn
<1>3. AssetPools(pools, eth, classic) = LargestFirst(Kept(pools, K))
  BY <1>1, Zenon DEF AssetPools, PoolsFor
<1>. QED BY <1>1, <1>2, <1>3, LargestFirstIsSequence

Match(ps, values) == Len(ps) = Len(values) /\ \A i \in DOMAIN ps : ps[i].value = values[i]

(* Named denominations are those of pools, or there are none. *)
LEMMA NamedAreThese ==
    ASSUME NEW P, NEW pools \in Seq(P), NEW V, NEW values \in Seq(V),
           NEW ps, ps = NamedPools(values, pools)
    PROVE  ps \in Seq(P) /\ Len(ps) <= MaxNotes /\ (ps # <<>> => Match(ps, values))
<1> DEFINE Of(v) == Kept(pools, {p \in Range(pools) : p.value = v})
<1>1. ASSUME NEW v, Of(v) # <<>> PROVE Of(v)[1] \in P /\ Of(v)[1].value = v
  <2>1. PICK K : K = {p \in Range(pools) : p.value = v}
    OBVIOUS
  <2>2. Of(v) \in Seq(K)
    BY <2>1, KeptIsDrawn
  <2>3. Of(v)[1] \in K
    <3> HIDE DEF Of
    <3>. QED BY <1>1, <2>2
  <2>4. K \subseteq P
    BY <2>1 DEF Range
  <2> HIDE DEF Of
  <2>. QED BY <2>1, <2>3, <2>4
<1>2. PICK n \in Nat : n = Len(values) /\ DOMAIN values = 1 .. n
  OBVIOUS
<1>4. ps = IF Len(values) <= MaxNotes /\ \A i \in DOMAIN values : Of(values[i]) # <<>>
           THEN [i \in DOMAIN values |-> Of(values[i])[1]] ELSE <<>>
  BY Zenon DEF NamedPools
<1> HIDE DEF Of
<1>5. CASE Len(values) <= MaxNotes /\ \A i \in DOMAIN values : Of(values[i]) # <<>>
  <2>1. ps = [i \in 1 .. n |-> Of(values[i])[1]]
    BY <1>2, <1>4, <1>5
  <2>2. \A i \in 1 .. n : ps[i] \in P /\ ps[i].value = values[i]
    BY <1>1, <1>2, <1>5, <2>1
  <2>3. ps \in Seq(P) /\ Len(ps) = n /\ DOMAIN ps = 1 .. n
    BY <2>1, <2>2
  <2>. QED BY <1>2, <1>5, <2>2, <2>3 DEF Match
<1>6. CASE ~ (Len(values) <= MaxNotes /\ \A i \in DOMAIN values : Of(values[i]) # <<>>)
  <2>1. ps = <<>> /\ <<>> \in Seq(P) /\ Len(<<>>) = 0 /\ 0 <= MaxNotes
    BY <1>4, <1>6 DEF MaxNotes
  <2>. QED BY <2>1
<1>. QED BY <1>5, <1>6

-----------------------------------------------------------------------------
(* What a shield plans, it carries out.                                    *)

(* Pools for what is asked for, of its asset and policy: for the whole amount, *)
(* or those named, or none.                                                *)
Planned(r, ps) ==
    /\ ps \in Seq(PoolsFor(r.eth, r.classic, Pools)) /\ Len(ps) <= MaxNotes
    /\ ps # <<>> =>
         IF r.named = <<>> THEN Total(ps) = r.amount
         ELSE r.amount \in {0, Total(ps)} /\ Match(ps, r.named)

LEMMA PlannedIsExact ==
    ASSUME NEW r \in Commands
    PROVE  Planned(r, PlannedPools(r))
<1>1. PICK P : P = PoolsFor(r.eth, r.classic, Pools)
  OBVIOUS
<1>2. Priced(P)
  BY <1>1, BroadcastsAssumption DEF Priced, PoolsFor
<1>3. PICK pools \in Seq(P) : pools = AssetPools(Pools, r.eth, r.classic)
  BY <1>1, BroadcastsAssumption, AssetPoolsOf
<1>4. r.amount \in Nat /\ r.named \in Seq(Nat)
  BY BroadcastsAssumption
<1>5. PICK whole : whole = DepositPools(r.amount, pools)
  OBVIOUS
<1>6. /\ whole \in Seq(P) /\ Len(whole) <= MaxNotes
      /\ whole # <<>> => Total(whole) = r.amount
  BY <1>2, <1>4, <1>5, DepositIsExact
<1>7. PICK named : named = NamedPools(r.named, pools)
  OBVIOUS
<1>8. /\ named \in Seq(P) /\ Len(named) <= MaxNotes
      /\ named # <<>> => Match(named, r.named)
  BY <1>4, <1>7, NamedAreThese
<1>9. <<>> \in Seq(P) /\ Len(<<>>) <= MaxNotes
  BY DEF MaxNotes
<1>10. PICK ps : ps = PlannedPools(r)
  OBVIOUS
<1>11. CASE r.named = <<>>
  <2>1. ps = whole
    BY <1>3, <1>5, <1>10, <1>11 DEF PlannedPools
  <2>. QED BY <1>1, <1>6, <1>10, <1>11, <2>1 DEF Planned
<1>12. CASE r.named # <<>> /\ r.amount \in {0, Total(named)}
  <2>1. ps = named
    BY <1>3, <1>7, <1>10, <1>12 DEF PlannedPools
  <2>. QED BY <1>1, <1>8, <1>10, <1>12, <2>1 DEF Planned
<1>13. CASE r.named # <<>> /\ r.amount \notin {0, Total(named)}
  <2>1. ps = <<>>
    BY <1>3, <1>7, <1>10, <1>13 DEF PlannedPools
  <2>. QED BY <1>1, <1>9, <1>10, <2>1 DEF Planned
<1>. QED BY <1>11, <1>12, <1>13

Exact(c) ==
    c.kind = "shield" =>
      /\ c.request \in Commands /\ Planned(c.request, c.pools)
      /\ c.calls = Calls(c.request, c.pools)
      /\ c.value = Value(c.request.eth, Total(c.pools))

SamePlan(c, d) ==
    /\ d.kind = c.kind /\ d.request = c.request /\ d.pools = c.pools
    /\ d.calls = c.calls /\ d.value = c.value

LEMMA ExactStays ==
    ASSUME NEW c, Exact(c), NEW d, SamePlan(c, d)
    PROVE  Exact(d)
BY DEF Exact, SamePlan

LEMMA RestSame ==
    ASSUME NEW c, DOMAIN c = Fields, NEW s
    PROVE  SamePlan(c, [c EXCEPT !.todo = s])
BY DEF Fields, SamePlan

LEMMA AfterSame ==
    ASSUME NEW c, DOMAIN c = Fields, NEW f \in {"picked", "auth", "at", "tx"}, NEW v
    PROVE  SamePlan(c, After(c, f, v))
BY DEF Fields, SamePlan, After

(* A step of a command leaves what it planned. *)
LEMMA StepLeavesPlan ==
    ASSUME IInv, NEW q \in Procs, Step(q), NEW c, c = cmd[q]
    PROVE  \E d : cmd' = [cmd EXCEPT ![q] = d] /\ (d = Idle \/ (c # Idle /\ SamePlan(c, d)))
<1>1. CASE Finish(q) \/ Stop(q)
  BY <1>1, Zenon DEF Finish, Stop
<1>2. CASE \E step : At(q, step)
  <2>1. c # Idle /\ DOMAIN c = Fields
    BY <1>2, AtMeansActive, ActiveCommand DEF Formed
  <2>2. CASE \E s : cmd' = [cmd EXCEPT ![q] = [c EXCEPT !.todo = s]]
    BY <2>1, <2>2, RestSame
  <2>3. CASE \E f \in {"picked", "auth", "at", "tx"} : \E v : Advance(q, [c EXCEPT ![f] = v])
    <3>0. PICK f \in {"picked", "auth", "at", "tx"} : \E v : Advance(q, [c EXCEPT ![f] = v])
      BY <2>3
    <3>1. PICK v : Advance(q, [c EXCEPT ![f] = v])
      BY <3>0
    <3>2. f \in Fields \ {"todo"}
      BY DEF Fields
    <3>3. cmd' = [cmd EXCEPT ![q] = After(c, f, v)]
      BY <2>1, <3>1, <3>2, Advanced
    <3>. QED BY <2>1, <3>3, AfterSame
  <2>4. CASE \/ PutKey(q) \/ PersistAndRebuild(q) \/ PutImplementation(q)
    <3>1. cmd' = [cmd EXCEPT ![q] = [c EXCEPT !.todo = Tail(c.todo)]]
      BY <2>4, Zenon DEF PutKey, PersistAndRebuild, PutImplementation, SetDb, Advance, Then
    <3>. QED BY <2>2, <3>1
  <2>5. CASE \/ CheckDelegate(q) \/ Confirm(q) \/ CheckBalances(q) \/ Simulate(q) \/ Covers(q)
             \/ Receipt(q)
    <3>1. cmd' = [cmd EXCEPT ![q] = [c EXCEPT !.todo = Tail(c.todo)]]
      BY <2>5, Zenon DEF CheckDelegate, Confirm, CheckBalances, Simulate, Covers, Receipt, Advance, Then
    <3>. QED BY <2>2, <3>1
  <2>6. CASE AuthorizeIfMissing(q) \/ ReadDelegation(q)
    <3>1. \E s : cmd' = [cmd EXCEPT ![q] = [c EXCEPT !.todo = s]]
      BY <2>6, Zenon DEF AuthorizeIfMissing, ReadDelegation, Then
    <3>. QED BY <2>2, <3>1
  <2>7. CASE SendOp(q)
    <3>1. cmd' = [cmd EXCEPT ![q] = Idle] \/ cmd' = [cmd EXCEPT ![q] = [c EXCEPT !.todo = Tail(c.todo)]]
      BY <2>7, Zenon DEF SendOp, Advance, Then
    <3>. QED BY <2>2, <3>1
  <2>8. CASE Authorize(q) \/ Send(q)
    <3>1. \E v : Advance(q, [c EXCEPT !.auth = v])
      BY <2>8, Zenon DEF Authorize, Send
    <3>. QED BY <2>3, <3>1
  <2>9. CASE ReadNonce(q) \/ FirstNonce(q)
    <3>1. \E v : Advance(q, [c EXCEPT !.at = v])
      BY <2>9, Zenon DEF ReadNonce, FirstNonce
    <3>. QED BY <2>3, <3>1
  <2>10. CASE Pick(q)
    <3>1. \E v : Advance(q, [c EXCEPT !.picked = v])
      BY <2>10, Zenon DEF Pick
    <3>. QED BY <2>3, <3>1
  <2>11. CASE Fill(q) \/ Build(q) \/ WaitMined(q) \/ AwaitReceipt(q)
    <3>1. \E v : Advance(q, [c EXCEPT !.tx = v])
      BY <2>11, Zenon DEF Fill, Build, WaitMined, AwaitReceipt
    <3>. QED BY <2>3, <3>1
  <2>12. CASE Rebuild(q)
    <3>1. PICK e : e = [c EXCEPT !.context = db.key,
                                 !.payer = IF c.kind = "executor" THEN db.key ELSE @]
      OBVIOUS
    <3>2. PICK d : d = [e EXCEPT !.todo = Tail(e.todo)]
      OBVIOUS
    <3>3. cmd' = [cmd EXCEPT ![q] = d]
      BY <2>12, <3>1, <3>2, Zenon DEF Rebuild, Advance, Then
    <3>4. SamePlan(c, d)
      BY <2>1, <3>1, <3>2 DEF SamePlan, Fields
    <3>. QED BY <2>1, <3>3, <3>4
  <2>13. CASE Finish(q) \/ Stop(q)
    BY <1>1, <2>13
  <2>. QED BY <2>4, <2>5, <2>6, <2>7, <2>8, <2>9, <2>10, <2>11, <2>12, <2>13 DEF Step
<1>3. \/ Finish(q) \/ Stop(q) \/ \E step : At(q, step)
  BY DEF Step, PutKey, Rebuild, PersistAndRebuild, PutImplementation, CheckDelegate,
         AuthorizeIfMissing, ReadDelegation, Authorize, ReadNonce, FirstNonce, Pick, Fill, Send,
         WaitMined, AwaitReceipt, Confirm, CheckBalances, Simulate, Covers, Build, SendOp, Receipt
<1>. QED BY <1>1, <1>2, <1>3

(* A shield deposits its amount, neither more nor less, in notes of the      *)
(* asset and of the policy it was asked for, at most so many, or in the      *)
(* notes it was given by name; these deposits are its calls, their total is  *)
(* what it checks and sends, and either all of them have run or none.        *)
ShieldsWhole ==
    \A q \in Procs : cmd[q] # Idle /\ cmd[q].kind = "shield" =>
      LET c == cmd[q]
          r == c.request
      IN  /\ Planned(r, c.pools)
          /\ c.value = Value(r.eth, Total(c.pools))
          /\ asked[c.id].calls = Calls(r, c.pools)
          /\ RanOf(c.id) \in {{}, Calls(r, c.pools)}

PlanInv == \A q \in Procs : cmd[q] # Idle => Exact(cmd[q])

LEMMA BeginPlans ==
    ASSUME NEW q \in Procs, NEW r \in Commands, Begin(q, r)
    PROVE  \E d : cmd' = [cmd EXCEPT ![q] = d] /\ Exact(d)
<1>1. PICK ps : ps = IF r.kind = "shield" THEN PlannedPools(r) ELSE <<>>
  OBVIOUS
<1>2. PICK amount : amount = IF r.kind = "shield" THEN Total(ps) ELSE r.amount
  OBVIOUS
<1>3. PICK calls : calls = Calls(r, ps)
  OBVIOUS
<1>4. PICK d : d = [todo |-> Steps(r, calls), kind |-> r.kind, id |-> Len(asked'), request |-> r,
                    context |-> r.context, payer |-> r.payer, pools |-> ps, calls |-> calls,
                    value |-> Value(r.eth, amount), picked |-> {},
                    auth |-> None, at |-> None, tx |-> None]
  OBVIOUS
<1>5. cmd' = [cmd EXCEPT ![q] = d]
  BY <1>1, <1>2, <1>3, <1>4, Zenon DEF Begin
<1>6. /\ d.kind = r.kind /\ d.request = r /\ d.pools = ps /\ d.calls = calls
      /\ d.value = Value(r.eth, amount)
  BY <1>4
<1>7. Exact(d)
  <2>1. SUFFICES ASSUME r.kind = "shield"
                 PROVE  Planned(r, ps) /\ d.value = Value(r.eth, Total(ps))
    BY <1>3, <1>6 DEF Exact
  <2>2. ps = PlannedPools(r) /\ amount = Total(ps)
    BY <1>1, <1>2, <2>1
  <2>. QED BY <1>6, <2>2, PlannedIsExact
<1>. QED BY <1>5, <1>7

LEMMA PlanNext ==
    ASSUME IInv, PlanInv, [Next]_vars
    PROVE  PlanInv'
<1>1. ASSUME NEW q \in Procs, NEW d, cmd' = [cmd EXCEPT ![q] = d], d = Idle \/ Exact(d)
      PROVE  PlanInv'
  <2>1. \A p \in Procs : cmd'[p] = IF p = q THEN d ELSE cmd[p]
    BY <1>1 DEF IInv, Typed
  <2>2. Idle' = Idle
    BY DEF Idle
  <2>3. ASSUME NEW p \in Procs, cmd'[p] # Idle PROVE Exact(cmd'[p])
    BY <1>1, <2>1, <2>3 DEF PlanInv
  <2>4. \A c : Exact(c)' <=> Exact(c)
    BY DEF Exact, Planned
  <2>. QED BY <2>2, <2>3 DEF PlanInv, Exact
<1>2. ASSUME NEW q \in Procs, NEW r \in Commands, Begin(q, r) PROVE PlanInv'
  BY <1>1, <1>2, BeginPlans
<1>3. ASSUME NEW q \in Procs, Step(q) PROVE PlanInv'
  <2>1. PICK c : c = cmd[q]
    OBVIOUS
  <2>2. PICK d : cmd' = [cmd EXCEPT ![q] = d] /\ (d = Idle \/ (c # Idle /\ SamePlan(c, d)))
    BY <1>3, <2>1, StepLeavesPlan
  <2>3. d = Idle \/ Exact(d)
    BY <2>1, <2>2, ExactStays DEF PlanInv
  <2>. QED BY <1>1, <2>2, <2>3
<1>4. CASE cmd' = cmd
  BY <1>4 DEF PlanInv, Exact
<1>5. ASSUME NEW t, Mine(t) \/ IncludeOp(t) \/ Relay(t) PROVE cmd' = cmd
  BY <1>5, Zenon DEF Mine, IncludeOp, Relay
<1>6. CASE UNCHANGED vars
  <2>1. cmd' = cmd
    BY <1>6 DEF vars
  <2>. QED BY <1>4, <2>1
<1>. QED BY <1>2, <1>3, <1>4, <1>5, <1>6 DEF Next

(* For any pools and any amounts or names: what a shield deposits is what it *)
(* was asked for, whatever overlaps it, is stopped, reverted or resent.      *)
THEOREM ShieldsAreWhole == Spec => []ShieldsWhole
<1>1. Init => PlanInv
  BY DEF Init, PlanInv
<1>2. IInv /\ PlanInv /\ [Next]_vars => PlanInv'
  BY PlanNext
<1>3. IInv /\ PlanInv => ShieldsWhole
  <2> SUFFICES ASSUME IInv, PlanInv, NEW q \in Procs, cmd[q] # Idle, cmd[q].kind = "shield"
               PROVE  LET c == cmd[q]
                          r == c.request
                      IN  /\ Planned(r, c.pools)
                          /\ c.value = Value(r.eth, Total(c.pools))
                          /\ asked[c.id].calls = Calls(r, c.pools)
                          /\ RanOf(c.id) \in {{}, Calls(r, c.pools)}
    BY DEF ShieldsWhole
  <2>1. PICK c : c = cmd[q]
    OBVIOUS
  <2>2. /\ Planned(c.request, c.pools) /\ c.calls = Calls(c.request, c.pools)
        /\ c.value = Value(c.request.eth, Total(c.pools))
    BY <2>1 DEF PlanInv, Exact
  <2>3. c.id \in DOMAIN asked /\ c.calls = asked[c.id].calls
    BY <2>1, ActiveCommand DEF Formed
  <2>4. RanOf(c.id) \in {{}, asked[c.id].calls}
    BY <2>3 DEF IInv, RanOnce
  <2>. QED BY <2>1, <2>2, <2>3, <2>4
<1>. QED BY <1>1, <1>2, <1>3, PointsKept, PTL DEF Spec
=============================================================================
