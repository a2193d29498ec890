---------------------------- MODULE TornadoVault ----------------------------
(***************************************************************************)
(* The Tornado vault of crates/core/src/vault/tornadocash: several         *)
(* processes share one database, and each operation (prepare deposits,     *)
(* sync, notes, balance, recover, clear pending) runs under the operation  *)
(* lock as a chain of awaited steps.  Every database write is a step of    *)
(* its own, so that an operation may fail, be cancelled, or die with its   *)
(* process between any two writes.  The chain is the environment: calldata *)
(* that was handed out may be mined at any later time, or never.           *)
(*                                                                         *)
(* A note is identified by its pool and the keychain nonce it is derived   *)
(* from; commitment and nullifier hash are injective in the two.  A leaf   *)
(* index is abstracted to whether there is one.  A pool list is a bag,     *)
(* since nothing depends on the order of a list but its repetitions do     *)
(* matter.  All pools here are on the vault's own chain.                   *)
(***************************************************************************)
EXTENDS Integers, Sequences, FiniteSets

CONSTANTS
    Proc,       \* processes (or vault instances) that share the database
    Pool,       \* the pools of the chain
    Included,   \* the pools the vault's PoolSelection includes
    None,       \* no process, no pool
    MaxNonce,   \* u64::MAX: the counter value that cannot be advanced
    MaxBlock,   \* bound: the chain stops growing at this height
    Requests,   \* the pool lists callers pass, as bags
    Gap,        \* unused nonces in a row after which a recovery scan stops
    Lagging,    \* whether an endpoint may answer from behind the chain's head
    History     \* what an earlier installation of the same seed left on chain

Nonce == 0..(MaxNonce - 1)
Deposit == [pool : Pool, nonce : Nonce]
Event == [kind : {"deposit", "withdrawal"}, pool : Pool, nonce : Nonce]
NoteRecord == [nonce : Nonce, mined : BOOLEAN, spent : BOOLEAN]
PoolBag == [Pool -> Nat]
EmptyBag == [p \in Pool |-> 0]

ASSUME ConstantAssumption ==
    /\ None \notin Proc \cup Pool
    /\ Included \subseteq Pool
    /\ MaxNonce \in Nat \ {0}
    /\ MaxBlock \in Nat
    /\ Requests \subseteq PoolBag
    /\ Gap \in Nat \ {0}
    /\ Lagging \in BOOLEAN
    /\ History \in Seq(Event)
    /\ Len(History) <= MaxBlock

(* A half-open block range.  The chain only grows, so a snapshot's range   *)
(* says which events the snapshot holds.                                   *)
Range == [from : Nat, to : Nat]
NoRange == [from |-> 0, to |-> 0]

Deployed == 1   \* the block that deployed every pool

VARIABLES
    chain,      \* the events of the pools, one block each
    exposed,    \* the deposits whose calldata was returned to a caller
    lock,       \* the operation lock of the database
    nextNonce,  \* the database's nextNonce
    tracked,    \* the database's trackedPools
    cursor,     \* each pool's cursor; an absent one reads as its initial value
    chunk,      \* each pool's snapshot chunks, by index
    notes,      \* each pool's notes
    task        \* what each process is doing

db == <<nextNonce, tracked, cursor, chunk, notes>>
vars == <<chain, exposed, lock, nextNonce, tracked, cursor, chunk, notes, task>>

-----------------------------------------------------------------------------
(* Types.                                                                  *)

Control == {"idle", "track", "reserve", "burn", "height", "range", "put",
            "commit", "scan", "mark", "restore", "clear", "return",
            "load_pending", "load_applied", "load_restored", "load_cleared",
            "put_pending", "put_applied", "put_restored", "put_cleared"}
Operation == {"none", "prepare", "sync", "notes", "balance", "recover", "clear"}

Task == [pc : Control, op : Operation,
         pools : PoolBag,               \* the pools the operation is about
         todo : PoolBag,                \* those its current loop has not visited
         pool : Pool \cup {None},        \* the pool its loop is at
         upto : Nat,                    \* exclusive end of the blocks to sync
         snap : Range,                  \* the snapshot the syncer returned
         held : SUBSET NoteRecord,      \* the pool's notes as last read
         nonce : 0..MaxNonce,           \* the counter as last read
         out : SUBSET Deposit,          \* prepared deposits not yet returned
         found : SUBSET Event,          \* what the recovery scan recognised
         only : SUBSET Nonce]           \* the nonces clear_pending may forget

IdleTask == [pc |-> "idle", op |-> "none", pools |-> EmptyBag, todo |-> EmptyBag,
             pool |-> None, upto |-> 0, snap |-> NoRange,
             held |-> {}, nonce |-> 0, out |-> {}, found |-> {}, only |-> {}]

TypeOK ==
    /\ chain \in Seq(Event)
    /\ Len(chain) <= MaxBlock
    /\ exposed \subseteq Deposit
    /\ lock \in Proc \cup {None}
    /\ nextNonce \in 0..MaxNonce
    /\ tracked \in PoolBag
    /\ cursor \in [Pool -> [block : Nat, chunks : Nat]]
    /\ chunk \in [Pool -> [0..MaxBlock -> Range]]
    /\ notes \in [Pool -> SUBSET NoteRecord]
    /\ task \in [Proc -> Task]

Init ==
    /\ chain = History
    /\ exposed = {}
    /\ lock = None
    /\ nextNonce = 0
    /\ tracked = EmptyBag
    /\ cursor = [p \in Pool |-> [block |-> Deployed, chunks |-> 0]]
    /\ chunk = [p \in Pool |-> [i \in 0..MaxBlock |-> NoRange]]
    /\ notes = [p \in Pool |-> {}]
    /\ task = [q \in Proc |-> IdleTask]

-----------------------------------------------------------------------------
(* Helpers.                                                                *)

Height == Len(chain)
Larger(a, b) == IF a >= b THEN a ELSE b

(* The blocks of range r that hold an event of pool p. *)
EventBlocks(p, r) == {b \in 1..Height : r.from <= b /\ b < r.to /\ chain[b].pool = p}
EventsIn(p, r) == {chain[b] : b \in EventBlocks(p, r)}

OnChain(k, p, n) == [kind |-> k, pool |-> p, nonce |-> n] \in {chain[b] : b \in 1..Height}

(* The events of pool p below block b. *)
EventsBelow(p, b) == EventsIn(p, [from |-> Deployed, to |-> b])

(* Mutant: the last chunk is left out. *)
SnapshotEventsButLast(ps) ==
    UNION {UNION {EventsIn(p, chunk[p][i]) : i \in 0..(cursor[p].chunks - 2)} : p \in ps}

(* Every pool's deposits and withdrawals in its committed chunks. *)
SnapshotEvents(ps) ==
    UNION {UNION {EventsIn(p, chunk[p][i]) : i \in 0..(cursor[p].chunks - 1)} : p \in ps}

(* kohaku's recover: the nonces with a deposit in some pool, up to the     *)
(* first Gap nonces in a row without any.                                  *)
Reached(events) ==
    LET used == {e.nonce : e \in {x \in events : x.kind = "deposit"}}
    IN  {n \in used : \A k \in 0..(n - Gap) : \E m \in k..(k + Gap - 1) : m \in used}
Recovered(events) == {e \in events : e.nonce \in Reached(events)}

(* A deposit marks its note mined and a withdrawal marks it spent. *)
Applied(records, events) ==
    {[r EXCEPT !.mined = @ \/ \E e \in events : e.kind = "deposit" /\ e.nonce = r.nonce,
               !.spent = @ \/ \E e \in events : e.kind = "withdrawal" /\ e.nonce = r.nonce]
        : r \in records}

(* The syncer answers from `from` on, at most through the chain's head.    *)
(* An endpoint that is behind answers with less than it was asked for.     *)
SyncedTo(from, end) ==
    IF Lagging THEN from..Larger(from, Height + 1) ELSE {Larger(from, end)}

Support(bag) == {p \in Pool : bag[p] > 0}

-----------------------------------------------------------------------------
(* The operations.  Each takes the operation lock first and gives it back  *)
(* when it returns, fails or is dropped.                                   *)

(* Mutant: an operation does not wait for the lock. *)
StartUnlocked(q, o, first, bag, ns) ==
    /\ task[q].pc = "idle"
    /\ lock' = q
    /\ task' = [task EXCEPT ![q] =
            [IdleTask EXCEPT !.pc = first, !.op = o, !.pools = bag,
                             !.todo = bag, !.only = ns]]
    /\ UNCHANGED <<db, chain, exposed>>

Start(q, o, first, bag, ns) ==
    /\ lock = None
    /\ task[q].pc = "idle"
    /\ lock' = q
    /\ task' = [task EXCEPT ![q] =
            [IdleTask EXCEPT !.pc = first, !.op = o, !.pools = bag,
                             !.todo = bag, !.only = ns]]
    /\ UNCHANGED <<db, chain, exposed>>

(* Mutant: the lock outlives its operation. *)
ReleaseLater(q) ==
    /\ UNCHANGED lock
    /\ task' = [task EXCEPT ![q] = IdleTask]

Release(q) ==
    /\ lock' = IF lock = q THEN None ELSE lock
    /\ task' = [task EXCEPT ![q] = IdleTask]

(* A request that names a pool the selection excludes is refused before    *)
(* the lock.                                                               *)
Allowed(bag) == Support(bag) \subseteq Included

PrepareDeposits(q) ==
    \E bag \in Requests : Allowed(bag) /\ Start(q, "prepare", "track", bag, {})

Sync(q) ==
    \E bag \in Requests : Allowed(bag) /\ Start(q, "sync", "height", bag, {})

Recover(q) ==
    \E bag \in Requests : Allowed(bag) /\ Start(q, "recover", "track", bag, {})

Notes(q) ==
    Start(q, "notes", "height",
          [p \in Pool |-> IF p \in Included THEN tracked[p] ELSE 0], {})

(* The tracked pools of one asset, each listed once. *)
Balance(q) ==
    \E asset \in SUBSET Pool :
        Start(q, "balance", "height",
              [p \in Pool |-> IF p \in asset /\ tracked[p] > 0 THEN 1 ELSE 0], {})

ClearPending(q) ==
    \E ns \in {Nonce} \cup {{n} : n \in Nonce} :
        Start(q, "clear", "height", tracked, ns)

(* The body of a loop ends, and with it the scope of its local values. *)
Leave(q, next) ==
    [task[q] EXCEPT !.pc = next, !.pool = None, !.snap = NoRange, !.held = {}, !.nonce = 0]

(* Mutant: an error between the reservation and the record gives the nonce back. *)
AbortRollsBack(q) ==
    /\ task[q].pc # "idle"
    /\ Release(q)
    /\ nextNonce' = IF task[q].pc \in {"load_pending", "put_pending"}
                    THEN task[q].nonce ELSE nextNonce
    /\ UNCHANGED <<tracked, cursor, chunk, notes, chain, exposed>>

(* An error, a cancelled future, or the end of the process. *)
Abort(q) ==
    /\ task[q].pc # "idle"
    /\ Release(q)
    /\ UNCHANGED <<db, chain, exposed>>

(* Adds the pools that are not tracked yet, as often as the list names them. *)
Track(q) ==
    /\ task[q].pc = "track"
    /\ tracked' = [p \in Pool |->
            IF tracked[p] = 0 THEN task[q].pools[p] ELSE tracked[p]]
    /\ task' = [task EXCEPT ![q].pc =
            IF task[q].op = "prepare" THEN "reserve" ELSE "height"]
    /\ UNCHANGED <<chain, exposed, lock, nextNonce, cursor, chunk, notes>>

-----------------------------------------------------------------------------
(* deposit_note: reserve a nonce, then record the pending note.            *)

ReserveNonce(q) == \E p \in Support(task[q].todo) :
    /\ task[q].pc = "reserve"
    /\ nextNonce < MaxNonce
    /\ task' = [task EXCEPT ![q].todo[p] = @ - 1, ![q].pool = p,
                            ![q].nonce = nextNonce, ![q].pc = "burn"]
    /\ UNCHANGED <<db, chain, exposed, lock>>

(* NonceExhausted: the counter is left alone. *)
Exhausted(q) ==
    /\ task[q].pc = "reserve"
    /\ Support(task[q].todo) # {}
    /\ nextNonce = MaxNonce
    /\ Release(q)
    /\ UNCHANGED <<db, chain, exposed>>

(* Mutant: the reservation is only kept in memory. *)
BurnUnsaved(q) ==
    /\ task[q].pc = "burn"
    /\ task' = [task EXCEPT ![q].pc = "load_pending"]
    /\ UNCHANGED <<db, chain, exposed, lock>>

BurnNonce(q) ==
    /\ task[q].pc = "burn"
    /\ nextNonce' = task[q].nonce + 1
    /\ task' = [task EXCEPT ![q].pc = "load_pending"]
    /\ UNCHANGED <<chain, exposed, lock, tracked, cursor, chunk, notes>>

(* Every read of a pool's notes, and the write that follows it. *)
AfterLoad == [load_pending |-> "put_pending", load_applied |-> "put_applied",
              load_restored |-> "put_restored", load_cleared |-> "put_cleared"]

LoadNotes(q) ==
    /\ task[q].pc \in DOMAIN AfterLoad
    /\ task' = [task EXCEPT ![q].held = notes[task[q].pool],
                            ![q].pc = AfterLoad[task[q].pc]]
    /\ UNCHANGED <<db, chain, exposed, lock>>

PutNotes(q, records) ==
    /\ notes' = [notes EXCEPT ![task[q].pool] = records]
    /\ UNCHANGED <<chain, exposed, lock, nextNonce, tracked, cursor, chunk>>

(* Mutant: the pending record takes the place of the pool's list. *)
PutPendingAlone(q) ==
    LET t == task[q] IN
    /\ t.pc = "put_pending"
    /\ PutNotes(q, {[nonce |-> t.nonce, mined |-> FALSE, spent |-> FALSE]})
    /\ task' = [task EXCEPT ![q] = [Leave(q, "reserve") EXCEPT
            !.out = @ \cup {[pool |-> t.pool, nonce |-> t.nonce]}]]

PutPending(q) ==
    LET t == task[q] IN
    /\ t.pc = "put_pending"
    /\ PutNotes(q, t.held \cup {[nonce |-> t.nonce, mined |-> FALSE, spent |-> FALSE]})
    /\ task' = [task EXCEPT ![q] = [Leave(q, "reserve") EXCEPT
            !.out = @ \cup {[pool |-> t.pool, nonce |-> t.nonce]}]]

ReturnCalls(q) ==
    /\ task[q].pc = "reserve"
    /\ Support(task[q].todo) = {}
    /\ exposed' = exposed \cup task[q].out
    /\ Release(q)
    /\ UNCHANGED <<db, chain>>

-----------------------------------------------------------------------------
(* sync_unlocked and sync_pool: the cursor advances last, so an interrupted *)
(* sync is redone from the same block.                                     *)

ReadHeight(q) == \E h \in IF Lagging THEN 0..Height ELSE {Height} :
    /\ task[q].pc = "height"
    /\ task' = [task EXCEPT ![q].upto = h + 1, ![q].pc = "range"]
    /\ UNCHANGED <<db, chain, exposed, lock>>

SyncPool(q) == \E p \in Support(task[q].todo) :
    /\ task[q].pc = "range"
    /\ \E to \in SyncedTo(cursor[p].block, task[q].upto) :
          task' = [task EXCEPT ![q].todo[p] = @ - 1, ![q].pool = p, ![q].pc = "put",
                               ![q].snap = [from |-> cursor[p].block, to |-> to]]
    /\ UNCHANGED <<db, chain, exposed, lock>>

(* Mutant: the cursor moves with the snapshot, before the notes are written. *)
PutSnapshotWithCursor(q) ==
    LET p == task[q].pool
        s == task[q].snap IN
    /\ task[q].pc = "put"
    /\ chunk' = [chunk EXCEPT ![p][cursor[p].chunks] = s]
    /\ cursor' = [cursor EXCEPT ![p].block = s.to]
    /\ task' = [task EXCEPT ![q].pc = "load_applied"]
    /\ UNCHANGED <<chain, exposed, lock, nextNonce, tracked, notes>>

(* An empty snapshot is not stored. *)
PutSnapshot(q) ==
    LET p == task[q].pool
        s == task[q].snap IN
    /\ task[q].pc = "put"
    /\ chunk' = IF EventBlocks(p, s) = {} THEN chunk
                ELSE [chunk EXCEPT ![p][cursor[p].chunks] = s]
    /\ task' = [task EXCEPT ![q].pc = "load_applied"]
    /\ UNCHANGED <<chain, exposed, lock, nextNonce, tracked, cursor, notes>>

PutApplied(q) ==
    LET t == task[q] IN
    /\ t.pc = "put_applied"
    /\ PutNotes(q, Applied(t.held, EventsIn(t.pool, t.snap)))
    /\ task' = [task EXCEPT ![q].pc = "commit"]

(* Mutant: the cursor moves to what was asked for, not to what was answered. *)
CommitRequested(q) ==
    LET p == task[q].pool
        s == task[q].snap IN
    /\ task[q].pc = "commit"
    /\ cursor' = [cursor EXCEPT ![p] =
            [block |-> task[q].upto,
             chunks |-> @.chunks + IF EventBlocks(p, s) = {} THEN 0 ELSE 1]]
    /\ task' = [task EXCEPT ![q] = Leave(q, "range")]
    /\ UNCHANGED <<chain, exposed, lock, nextNonce, tracked, chunk, notes>>

CommitSnapshot(q) ==
    LET p == task[q].pool
        s == task[q].snap IN
    /\ task[q].pc = "commit"
    /\ cursor' = [cursor EXCEPT ![p] =
            [block |-> s.to,
             chunks |-> @.chunks + IF EventBlocks(p, s) = {} THEN 0 ELSE 1]]
    /\ task' = [task EXCEPT ![q] = Leave(q, "range")]
    /\ UNCHANGED <<chain, exposed, lock, nextNonce, tracked, chunk, notes>>

(* Every pool is synced: the operation goes on to its own part, if any. *)
Synced(q) ==
    /\ task[q].pc = "range"
    /\ Support(task[q].todo) = {}
    /\ task' = [task EXCEPT
            ![q].pc = CASE task[q].op = "clear" -> "clear"
                        [] task[q].op = "recover" -> "scan"
                        [] OTHER -> "return",
            ![q].todo = task[q].pools,
            ![q].upto = 0]
    /\ UNCHANGED <<db, chain, exposed, lock>>

-----------------------------------------------------------------------------
(* recover_with_gap: scan the committed snapshots, publish the counter,    *)
(* and only then write the records.                                        *)

Scan(q) ==
    LET ps == Support(task[q].pools) IN
    /\ task[q].pc = "scan"
    /\ task' = [task EXCEPT ![q].found = Recovered(SnapshotEvents(ps)),
                            ![q].nonce = nextNonce, ![q].pc = "mark"]
    /\ UNCHANGED <<db, chain, exposed, lock>>

(* The counter moves to one more than the largest recovered nonce, unless  *)
(* it is already past it.                                                  *)
IsRecoveredNext(m, t) ==
    /\ m >= t.nonce
    /\ \A e \in t.found : e.nonce < m
    /\ m = t.nonce \/ \E e \in t.found : m = e.nonce + 1

(* Mutant: the records are written first. *)
PublishNothing(q) ==
    /\ task[q].pc = "mark"
    /\ task' = [task EXCEPT ![q] = Leave(q, "restore")]
    /\ UNCHANGED <<db, chain, exposed, lock>>

PublishMark(q) ==
    /\ task[q].pc = "mark"
    /\ \E m \in 0..MaxNonce : IsRecoveredNext(m, task[q]) /\ nextNonce' = m
    /\ task' = [task EXCEPT ![q] = Leave(q, "restore")]
    /\ UNCHANGED <<chain, exposed, lock, tracked, cursor, chunk, notes>>

(* The loops of recover and clear_pending over their pools. *)
NextPool(q) == \E p \in Support(task[q].todo) :
    /\ task[q].pc \in {"restore", "clear"}
    /\ task' = [task EXCEPT ![q].todo[p] = @ - 1, ![q].pool = p,
            ![q].pc = IF task[q].pc = "clear" THEN "load_cleared" ELSE "load_restored"]
    /\ UNCHANGED <<db, chain, exposed, lock>>

(* Mutant: a recovered record starts unspent. *)
RestoredUnspent(t) ==
    LET ns == {e.nonce : e \in {x \in t.found : x.pool = t.pool /\ x.kind = "deposit"}}
    IN  {r \in t.held : r.nonce \notin ns} \cup
        {[nonce |-> n, mined |-> TRUE, spent |-> FALSE] : n \in ns}

(* A recovered record replaces the one with its commitment. *)
Restored(t) ==
    LET ns == {e.nonce : e \in {x \in t.found : x.pool = t.pool /\ x.kind = "deposit"}}
    IN  {r \in t.held : r.nonce \notin ns} \cup
        {[nonce |-> n, mined |-> TRUE,
          spent |-> [kind |-> "withdrawal", pool |-> t.pool, nonce |-> n] \in t.found]
            : n \in ns}

PutRestored(q) ==
    /\ task[q].pc = "put_restored"
    /\ PutNotes(q, Restored(task[q]))
    /\ task' = [task EXCEPT ![q] = Leave(q, "restore")]

(* Mutant: whatever was asked about is forgotten unless it is spent. *)
RetainedSpent(t) == {r \in t.held : r.spent \/ r.nonce \notin t.only}

(* clear_pending keeps what is mined, what is spent and what was not asked *)
(* about.                                                                  *)
Retained(t) == {r \in t.held : r.mined \/ r.spent \/ r.nonce \notin t.only}

PutCleared(q) ==
    /\ task[q].pc = "put_cleared"
    /\ PutNotes(q, Retained(task[q]))
    /\ task' = [task EXCEPT ![q] = Leave(q, "clear")]

LoopEnds(q) ==
    /\ task[q].pc \in {"restore", "clear"}
    /\ Support(task[q].todo) = {}
    /\ task' = [task EXCEPT ![q].pc = "return"]
    /\ UNCHANGED <<db, chain, exposed, lock>>

Return(q) ==
    /\ task[q].pc = "return"
    /\ Release(q)
    /\ UNCHANGED <<db, chain, exposed>>

-----------------------------------------------------------------------------
(* The chain.  A pool accepts a commitment once and a nullifier once.      *)

Mine(k, p, n) ==
    /\ Height < MaxBlock
    /\ ~ OnChain(k, p, n)
    /\ chain' = Append(chain, [kind |-> k, pool |-> p, nonce |-> n])
    /\ UNCHANGED <<db, exposed, lock, task>>

MineDeposit == \E d \in exposed : Mine("deposit", d.pool, d.nonce)

MineWithdrawal ==
    \E d \in Deposit : /\ OnChain("deposit", d.pool, d.nonce)
                       /\ Mine("withdrawal", d.pool, d.nonce)

-----------------------------------------------------------------------------
Begin(q) == PrepareDeposits(q) \/ Sync(q) \/ Recover(q) \/ Notes(q)
            \/ Balance(q) \/ ClearPending(q)

(* The steps of an operation that has begun. *)
Step(q) ==
    \/ Track(q)
    \/ ReserveNonce(q) \/ Exhausted(q) \/ BurnNonce(q)
    \/ LoadNotes(q)
    \/ PutPending(q) \/ ReturnCalls(q)
    \/ ReadHeight(q) \/ SyncPool(q) \/ PutSnapshot(q) \/ PutApplied(q)
    \/ CommitSnapshot(q) \/ Synced(q)
    \/ Scan(q) \/ PublishMark(q) \/ NextPool(q) \/ PutRestored(q)
    \/ PutCleared(q) \/ LoopEnds(q) \/ Return(q)

Next ==
    \/ \E q \in Proc : Begin(q) \/ Step(q) \/ Abort(q)
    \/ MineDeposit
    \/ MineWithdrawal

Spec == Init /\ [][Next]_vars

(* An operation that waits for an endpoint: for the height of the chain, or *)
(* for the events of a pool.                                               *)
Awaits(q) ==
    \/ task[q].pc = "height"
    \/ task[q].pc = "range" /\ Support(task[q].todo) # {}

(* Between two requests an operation goes on by itself, or ends with an     *)
(* Abort.  No fairness for the answer to a request: the client it is sent   *)
(* with has no timeout (network/http.rs:18, network/alloy.rs:166), so       *)
(* nothing in the code bounds the wait.                                     *)
FairSpec == Spec /\ \A q \in Proc : WF_vars(~ Awaits(q) /\ Step(q))

(* What the endpoints are asked for: an answer in the end, be it an error,  *)
(* which is an Abort.                                                       *)
EndpointsAnswer == \A q \in Proc : WF_vars(Awaits(q) /\ Step(q))

-----------------------------------------------------------------------------
(* Properties.                                                             *)

Record(p, n) == {r \in notes[p] : r.nonce = n}

(* mod.rs:631 "Reserve the nonce before deriving the note to avoid         *)
(* re-using a nonce": over any interleaving of processes, failures and     *)
(* restarts, two deposits that callers hold, or are about to be given,     *)
(* never share a nonce, whatever their pools.                              *)
NoNonceReuse ==
    /\ \A d, e \in exposed : d.nonce = e.nonce => d = e
    /\ \A q \in Proc : \A d \in task[q].out :
        /\ \A e \in task[q].out : d.nonce = e.nonce => d = e
        /\ \A e \in exposed : d.nonce # e.nonce
        /\ \A r \in Proc \ {q} : \A e \in task[r].out : d.nonce # e.nonce

(* mod.rs:307 "an interrupted rescan cannot leave newly discovered notes   *)
(* ahead of the counter", nor can an interrupted preparation: every        *)
(* recorded or exposed note was derived from a nonce below the counter.    *)
RecordsBelowCounter ==
    /\ \A p \in Pool : \A r \in notes[p] : r.nonce < nextNonce
    /\ \A d \in exposed : d.nonce < nextNonce

(* mod.rs:402 "Nonces are persisted before derivation and are never rolled *)
(* back on error", and a recovery never rewinds the counter either.        *)
CounterNeverRewinds == [][nextNonce' >= nextNonce]_vars

(* docs/cli.md: "the pending record is saved before any calldata is        *)
(* returned".  When a caller gets a deposit's calldata, its record is in   *)
(* the database.                                                           *)
RecordedBeforeExposed ==
    [][\A d \in exposed' \ exposed : \E r \in notes[d.pool] : r.nonce = d.nonce]_vars

(* The committed chunks of a pool cover its blocks up to the cursor: an    *)
(* event below the cursor is in exactly one of them, however often a sync  *)
(* was cut short, and they are in chain order, so a Merkle tree spliced    *)
(* from them has every leaf once and at its index.                         *)
ChunksHoldEventsOnce ==
    \A p \in Pool :
        /\ \A b \in EventBlocks(p, [from |-> Deployed, to |-> cursor[p].block]) :
            \E i \in 0..(cursor[p].chunks - 1) :
                /\ b \in EventBlocks(p, chunk[p][i])
                /\ \A j \in 0..(cursor[p].chunks - 1) :
                      b \in EventBlocks(p, chunk[p][j]) => i = j
        /\ \A i \in 0..(cursor[p].chunks - 1) :
            /\ chunk[p][i].to <= cursor[p].block
            /\ \A j \in 0..(i - 1) : chunk[p][j].to <= chunk[p][i].from

(* Once the cursor has passed a note's deposit or withdrawal, the note's   *)
(* record says so: the notes are written before the cursor moves, and the  *)
(* cursor never skips an event the notes have not seen.  And a record      *)
(* never claims more than the chain holds: a note is shown as spendable    *)
(* only when its deposit was mined in its own pool, and as spent only when *)
(* it was withdrawn.                                                       *)
NotesAgreeWithCursor ==
    \A p \in Pool :
        /\ \A e \in EventsBelow(p, cursor[p].block) : \A r \in Record(p, e.nonce) :
              IF e.kind = "deposit" THEN r.mined ELSE r.spent
        /\ \A r \in notes[p] :
              /\ r.mined => OnChain("deposit", p, r.nonce)
              /\ r.spent => OnChain("withdrawal", p, r.nonce)

(* A record disappears only if no block up to its pool's cursor holds its  *)
(* deposit: clear_pending forgets no note that the vault could have known  *)
(* to be mined, and nothing else forgets a record.                         *)
OnlyUnminedForgotten ==
    [][\A p \in Pool : \A r \in notes[p] :
          \/ \E s \in notes'[p] : s.nonce = r.nonce
          \/ [kind |-> "deposit", pool |-> p, nonce |-> r.nonce]
                \notin EventsBelow(p, cursor[p].block)]_vars

(* No step takes back that a note was mined, or that it was spent, as long *)
(* as endpoints never answer from behind blocks they have shown.           *)
MarksNeverLost ==
    [][\A p \in Pool : \A r \in notes[p] :
          r.mined => \E s \in notes'[p] :
                        s.nonce = r.nonce /\ s.mined /\ (r.spent => s.spent)]_vars

(* When recover returns, every deposit up to the cursors of its pools that *)
(* the gap limit reaches has a record that shows it mined, spent if it was *)
(* withdrawn, and lies below the counter.                                  *)
RecoveryComplete ==
    \A q \in Proc : task[q].pc = "return" /\ task[q].op = "recover" =>
        LET seen == UNION {EventsBelow(p, cursor[p].block) : p \in Support(task[q].pools)}
        IN  \A e \in Recovered(seen) : \E r \in Record(e.pool, e.nonce) :
                r.mined /\ (e.kind = "withdrawal" => r.spent) /\ r.nonce < nextNonce

(* mod.rs:422 "Returns a list of every note": each note once. *)
NotesListedOnce ==
    \A q \in Proc : task[q].pc = "return" /\ task[q].op = "notes" =>
        \A p \in Pool : task[q].pools[p] > 1 => notes[p] = {}

(* Whoever is inside an operation holds the lock: the reads and writes of  *)
(* two operations on the database never interleave.                        *)
LockProtectsTasks == \A q \in Proc : task[q].pc # "idle" => lock = q

(* An operation that has begun gives the lock back or comes to wait for an  *)
(* endpoint, and if every endpoint answers it ends and gives the lock back. *)
(* One that never answers keeps the operation, and with it the lock of      *)
(* every process, for ever (mod.rs:254 awaits the height under the lock).   *)
OperationsEnd ==
    /\ \A q \in Proc : lock = q ~> lock # q \/ Awaits(q)
    /\ EndpointsAnswer => \A q \in Proc : lock = q ~> lock # q

-----------------------------------------------------------------------------
(* What callers may rely on: nonces go up and deposits get fresh ones. *)
Ledger == INSTANCE NonceLedger WITH next <- nextNonce

LedgerSpec == Ledger!Spec
=============================================================================
