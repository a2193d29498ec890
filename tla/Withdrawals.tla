---------------------------- MODULE Withdrawals -----------------------------
(***************************************************************************)
(* Spending notes of the pool: `unshield` and `transfer --from tornado`,   *)
(* vault/tornadocash/userop.rs and estimation.rs, and the list of bundlers *)
(* of bundler.rs.                                                          *)
(*                                                                         *)
(* One user operation withdraws some notes to a fresh address and runs     *)
(* calls from it.  Its first note sponsors the gas: the proof of that note *)
(* contains the fee, the fee depends on the gas, and what a final call     *)
(* forwards depends on the fee, so the operation is quoted until it        *)
(* settles.  Bundlers may refuse, lose their answer, share what they       *)
(* accepted, and include it when they like.                                *)
(***************************************************************************)
EXTENDS Amounts

CONSTANTS
    Wallets,    \* the lists a vault may have of its notes: sequences of notes, with
                \* those of a pool that is tracked twice in them twice
    Requests,   \* what the commands ask for, given the wallet
    Gas,        \* what a bundler may estimate: limits for the calls and for the rest
    Bundlers,   \* how many bundlers are configured
    None,       \* no value
    MaxCommands \* bound: the commands run one after the other

ASSUME WithdrawalsAssumption ==
    /\ Bundlers \in Nat \ {0} /\ MaxCommands \in Nat
    /\ \A g \in Gas : g.calls \in Nat /\ g.other \in Nat
    /\ \A w \in Wallets :
         /\ w \in Seq(Range(w))
         /\ \A n \in Range(w) : n.value \in Nat \ {0} /\ n.eth \in BOOLEAN
         /\ \A r \in Requests[w] :
              /\ r.amount \in Nat /\ r.tail \in Nat /\ r.least \in Nat
              /\ r.eth \in BOOLEAN /\ r.kind \in {"transfer", "unshield"}

FeeAttempts == 3   \* FEE_ATTEMPTS
NoteAttempts == 3  \* NOTE_ATTEMPTS

VARIABLES
    wallet,    \* the mined notes of the vault, as it lists them
    spent,     \* the notes whose nullifiers the pools know
    cmd,       \* the command that runs
    commands,  \* how many commands have begun
    mempools,  \* the operations each bundler holds
    landed,    \* the operations included on chain, with what became of them
    seen,      \* history: the notes whose proofs a bundler was given
    reports    \* history: the successes commands reported

vars == <<wallet, spent, cmd, commands, mempools, landed, seen, reports>>
outside == <<wallet, spent, landed, reports>>

Idle == [at |-> "idle"]

-----------------------------------------------------------------------------
(* Fees and calls. *)

EthOf(ns) == OfKind(ns, TRUE)

(* The calls withdraw every note but the sponsor's, then run the tail, which *)
(* spends r.tail altogether, then forward the rest.                          *)
SumOf(r, ns) == IF r.eth THEN Total(EthOf(ns)) ELSE Total(ns) - ns[1].value
Available(r, ns, fee) == SumOf(r, ns) - (IF r.eth THEN fee ELSE 0)
ToForward(r, ns, fee) ==
    IF r.eth THEN Max({Available(r, ns, fee) - r.tail, 0}) ELSE Available(r, ns, fee)
Required(r) == Max({r.least, IF r.eth THEN r.tail ELSE 0})
PaidOut(op) == IF op.eth THEN op.tail + op.forward ELSE 0

Pad(limit) == limit + limit \div 5 + 1
Padded(gas) == [calls |-> Pad(gas.calls), other |-> Pad(gas.other)]
Cost(gas) == gas.calls + gas.other  \* at one unit of ETH for a unit of gas

Raised(gas, proven) ==
    [calls |-> Max({gas.calls, proven.calls}), other |-> Max({gas.other, proven.other})]
FitsAlone(gas, proven, fee) == Cost(proven) <= fee
Fits(gas, proven, fee) == Cost(Raised(gas, proven)) <= fee

-----------------------------------------------------------------------------
(* A command chooses its notes. *)

Held == Kept(wallet, Range(wallet) \ spent)

(* A transfer selects notes that cover the amount and learns the fee later; *)
(* an unshield selects the amount itself.                                   *)
Chosen(r, amount, held) ==
    IF r.kind = "transfer" THEN CoverNotes(amount, held)
    ELSE WithdrawalNotes(amount, held, r.eth)

(* Tokens cannot be transferred from the pool, and the calls after a token *)
(* withdrawal cannot spend ETH.                                            *)
LegalTransfer(r) == r.amount > 0 /\ r.eth
LegalUnshield(r) == r.amount > 0 /\ (~r.eth => r.tail = 0)
Legal(r) == IF r.kind = "transfer" THEN LegalTransfer(r) ELSE LegalUnshield(r)

Sponsored(ns) == ns # <<>> /\ ns[1].paymaster

Withdrawal(r, ns) ==
    [at |-> IF r.kind = "transfer" \/ r.quote THEN "quote" ELSE "confirm",
     id |-> commands + 1, request |-> r, held |-> Held, goal |-> r.amount, notes |-> ns,
     attempt |-> 1, pass |-> 1, forward |-> 0, confirmed |-> FALSE,
     op |-> None, accepted |-> None]

Begin(r) ==
    /\ cmd = Idle /\ commands < MaxCommands /\ Legal(r)
    /\ LET ns == Chosen(r, r.amount, Held)
       IN  cmd' = IF Sponsored(ns) THEN Withdrawal(r, ns) ELSE Idle
    /\ commands' = commands + 1
    /\ UNCHANGED <<wallet, spent, mempools, landed, seen, reports>>

At(step) == cmd.at = step
NothingSent == UNCHANGED <<commands, mempools, seen>> /\ UNCHANGED outside

(* An unshield asks before it quotes, a transfer once it has a quote. *)
Confirm ==
    /\ At("confirm")
    /\ cmd' = [cmd EXCEPT !.confirmed = TRUE,
                          !.at = IF cmd.request.kind = "transfer" THEN "prove" ELSE "quote"]
    /\ NothingSent

(* Declined, an error of the network, or the end of the process. *)
Stop == cmd # Idle /\ cmd' = Idle /\ NothingSent

-----------------------------------------------------------------------------
(* Quoting: each pass measures the gas of the calls of the pass before. *)

(* Tokens are quoted with the real proofs of the notes but the sponsor's. *)
OtherNotes == Range(Tail(cmd.notes))
SeenWhateverQuoted == seen \cup OtherNotes
SeenInQuote == IF cmd.request.eth THEN seen ELSE seen \cup OtherNotes

Operation(gas) ==
    LET r == cmd.request
    IN  [id |-> cmd.id, eth |-> r.eth, notes |-> cmd.notes, gas |-> gas, fee |-> Cost(gas),
         tail |-> r.tail, forward |-> cmd.forward]

Quoting(gas) ==
    /\ At("quote")
    /\ seen' = SeenInQuote
    /\ UNCHANGED <<commands, mempools>> /\ UNCHANGED outside

IsShort(fee) ==
    \/ Available(cmd.request, cmd.notes, fee) < 0
    \/ Available(cmd.request, cmd.notes, fee) < Required(cmd.request)

(* A transfer selects again, now for the fee as well. *)
Reselect(gas) ==
    LET fee   == Cost(gas)
        again == CoverNotes(cmd.request.amount + fee, cmd.held)
    IN  /\ Quoting(gas) /\ IsShort(fee)
        /\ cmd' = IF /\ cmd.request.kind = "transfer" /\ cmd.attempt < NoteAttempts
                     /\ Sponsored(again)
                  THEN [cmd EXCEPT !.notes = again, !.goal = cmd.request.amount + fee,
                                   !.attempt = @ + 1, !.pass = 1]
                  ELSE Idle

IsSettledOnce(fee) == ~cmd.request.forward \/ cmd.pass > 1
IsSettled(fee) ==
    \/ ~cmd.request.forward
    \/ /\ cmd.pass > 1 /\ cmd.forward = ToForward(cmd.request, cmd.notes, fee)

AfterQuote(r) ==
    CASE r.quote -> "quoted" [] ~r.quote /\ r.kind = "transfer" -> "confirm" [] OTHER -> "prove"

Settle(gas) ==
    /\ Quoting(gas) /\ ~IsShort(Cost(gas)) /\ IsSettled(Cost(gas))
    /\ cmd' = [cmd EXCEPT !.op = Operation(gas), !.at = AfterQuote(cmd.request)]

Requote(gas) ==
    /\ Quoting(gas) /\ ~IsShort(Cost(gas)) /\ ~IsSettled(Cost(gas))
    /\ cmd' = IF cmd.pass = FeeAttempts THEN Idle
              ELSE [cmd EXCEPT !.forward = ToForward(cmd.request, cmd.notes, Cost(gas)),
                               !.pass = @ + 1]

(* The first bundler that answers estimates the gas. *)
Estimates == {Padded(gas) : gas \in Gas}
Quote == \E gas \in Estimates : Reselect(gas) \/ Settle(gas) \/ Requote(gas)

-----------------------------------------------------------------------------
(* Submitting: prove the notes, estimate once more, send. *)

Prove(gas) ==
    /\ At("prove")
    /\ seen' = seen \cup Range(cmd.notes)
    /\ cmd' = IF Fits(cmd.op.gas, gas, cmd.op.fee)
              THEN [cmd EXCEPT !.op.gas = Raised(@, gas), !.at = "send", !.pass = 1]
              ELSE Idle
    /\ UNCHANGED <<commands, mempools>> /\ UNCHANGED outside

Accepts(b) == mempools' = [mempools EXCEPT ![b] = @ \cup {cmd.op}]
RecordFirst(b) == cmd' = [cmd EXCEPT !.accepted = 1, !.at = "wait"]
Record(b) == cmd' = [cmd EXCEPT !.accepted = b, !.at = "wait"]
NextBundler ==
    cmd' = IF cmd.pass = Bundlers THEN Idle ELSE [cmd EXCEPT !.pass = @ + 1]

(* Send to one bundler of the list.  It may take the operation and its answer *)
(* be lost; one that has it already says so, and that counts.                 *)
Send ==
    /\ At("send")
    /\ LET b == cmd.pass
       IN  \/ cmd.op \notin mempools[b] /\ Accepts(b) /\ Record(b)
           \/ cmd.op \in mempools[b] /\ Record(b) /\ UNCHANGED mempools
           \/ Accepts(b) /\ NextBundler
           \/ NextBundler /\ UNCHANGED mempools
    /\ UNCHANGED <<commands, seen>> /\ UNCHANGED outside

(* Only the bundler that accepted the operation is asked for its receipt. *)
Holds(b) == cmd.op \in mempools[b]
Outcome(op) == CHOOSE l \in landed : l.op = op

Reported(cost) ==
    reports' = reports \cup {[request |-> cmd.request, op |-> cmd.op, cost |-> cost]}

(* The fresh address was empty before the block; it holds the refund and the *)
(* change after it, and anything else that was paid to it.                   *)
SettledGross(sum, paidOut, before, after) ==
    [fee |-> sum - (after - before), change |-> after - before]
Settled(sum, paidOut, before, after) ==
    LET change == after - before
    IN  IF change >= 0 /\ sum - paidOut - change >= 0
        THEN [fee |-> sum - paidOut - change, change |-> change] ELSE None

Measure(l) == Settled(Total(EthOf(l.op.notes)), PaidOut(l.op), 0, l.change + l.extra)

Wait ==
    /\ At("wait") /\ Holds(cmd.accepted) /\ \E l \in landed : l.op = cmd.op
    /\ cmd' = Idle
    /\ LET l == Outcome(cmd.op)
       IN  IF l.ok
           THEN \/ Reported(IF cmd.request.kind = "transfer" THEN Measure(l) ELSE None)
                \/ Reported(None)
           ELSE UNCHANGED reports
    /\ UNCHANGED <<wallet, spent, commands, mempools, landed, seen>>

-----------------------------------------------------------------------------
(* The bundlers and the chain. *)

Gossip(b, c) ==
    /\ ~mempools[b] \subseteq mempools[c]
    /\ mempools' = [mempools EXCEPT ![c] = @ \cup mempools[b]]
    /\ UNCHANGED <<cmd, commands, seen>> /\ UNCHANGED outside

(* The paymaster takes the operation if the sponsor's note is unspent and    *)
(* the fee covers the gas at its limits; it refunds what the gas did not     *)
(* cost.  The calls take effect together, or none does: none if a note is    *)
(* spent, or is withdrawn twice, as one that was listed twice can be.        *)
Include(op) ==
    /\ \A l \in landed : l.op # op
    /\ op.notes[1] \notin spent /\ Cost(op.gas) <= op.fee /\ op.fee <= op.notes[1].value
    /\ \E used \in {1, op.fee}, extra \in {0, 2}, ok \in BOOLEAN :
         /\ ok => IsInjective(op.notes) /\ Range(op.notes) \cap spent = {}
         /\ spent' = spent \cup (IF ok THEN Range(op.notes) ELSE {op.notes[1]})
         /\ landed' = landed \cup
              {[op |-> op, ok |-> ok, used |-> used, extra |-> extra,
                change |-> IF ok THEN Total(EthOf(op.notes)) - PaidOut(op) - used
                           ELSE op.notes[1].value - used]}
    /\ UNCHANGED <<wallet, cmd, commands, mempools, seen, reports>>

-----------------------------------------------------------------------------
Init ==
    /\ wallet \in Wallets
    /\ spent = {} /\ cmd = Idle /\ commands = 0
    /\ mempools = [b \in 1 .. Bundlers |-> {}]
    /\ landed = {} /\ seen = {} /\ reports = {}

Next ==
    \/ \E r \in Requests[wallet] : Begin(r)
    \/ Confirm \/ Stop \/ Quote
    \/ \E gas \in Gas : Prove(gas)
    \/ Send \/ Wait
    \/ \E b, c \in 1 .. Bundlers : Gossip(b, c)
    \/ \E op \in UNION Range(mempools) : Include(op)

Spec == Init /\ [][Next]_vars

-----------------------------------------------------------------------------
(* Properties. *)

Sent == UNION Range(mempools)

(* The notes a command works with are the best there are for the amount, and *)
(* for the fee a transfer has learnt (select_notes prunes its search): the   *)
(* fewest that make an unshield exactly, the least sum that covers a         *)
(* transfer.  One of them, with a paymaster, comes first and sponsors.  None *)
(* is taken more often than the vault lists it, which may be twice.          *)
SelectionLeast ==
    cmd # Idle =>
      LET r  == cmd.request
          ns == cmd.notes
          eth == OfAsset(cmd.held, TRUE)
          of == OfAsset(cmd.held, r.eth)
      IN  /\ ns[1].eth /\ ns[1].paymaster /\ Drawn(ns, cmd.held)
          /\ CASE r.kind = "transfer" -> LeastCover(cmd.goal, of, ns)
               [] r.kind = "unshield" /\ r.eth -> FewestWithSum(cmd.goal, of, ns)
               [] OTHER -> /\ FewestWithSum(cmd.goal, of, Tail(ns))
                           /\ \A n \in Range(eth) : n.paymaster => ns[1].value <= n.value

(* What an operation pays out and its fee never exceed its notes, as it      *)
(* lists them, and a forward leaves nothing behind but the refund, although  *)
(* the fee is only known once the forward is in the calls                    *)
(* (quote_until_settled).                                                    *)
Balanced ==
    \A op \in Sent :
      IF op.eth
      THEN /\ op.fee + op.tail + op.forward <= Total(op.notes)
           /\ op.forward # 0 => op.fee + op.tail + op.forward = Total(op.notes)
      ELSE op.forward \in {0, Total(op.notes) - op.notes[1].value}

(* A signed operation never needs more gas than the fee in its proof covers, *)
(* whatever the proven calls turn out to need (fits).                        *)
GasCovered == \A op \in Sent : Cost(op.gas) <= op.fee

(* Before the user has agreed, no bundler has been given a proof of an ETH   *)
(* note: "a bundler that saw the quote cannot withdraw any note".            *)
QuoteKeepsNotes ==
    [][\A n \in seen' \ seen : n.eth => cmd.confirmed]_vars

(* The bundler a command waits on has the operation, although one before it  *)
(* in the list may have taken it too.                                        *)
FollowedUp == cmd # Idle /\ At("wait") => Holds(cmd.accepted)

(* A reported success has happened once and in full: its notes are spent, no *)
(* one of them counted twice though the vault may have listed it twice, and  *)
(* the fee and the change it reports add up to them and stay within the      *)
(* quote, unless others paid the fresh address in the same block.            *)
ReportHonest ==
    \A rep \in reports :
      LET op == rep.op
      IN  /\ \E l \in landed : l.op = op /\ l.ok
          /\ Range(op.notes) \subseteq spent /\ IsInjective(op.notes)
          /\ rep.cost # None =>
               LET l == Outcome(op)
               IN  /\ rep.cost.fee + rep.cost.change + PaidOut(op) = Total(EthOf(op.notes))
                   /\ rep.cost.fee = l.used - l.extra
                   /\ rep.cost.fee <= op.fee
=============================================================================
