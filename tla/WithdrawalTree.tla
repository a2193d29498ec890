---------------------------- MODULE WithdrawalTree ----------------------------
(***************************************************************************)
(* withdrawal_inputs of the Tornado vault: each call syncs the note's pool *)
(* under the operation lock and then takes a Merkle proof from the vault's *)
(* cache of trees, which has a lock of its own.  Several tasks call it on  *)
(* one vault, and another process syncs the same database in between.      *)
(*                                                                         *)
(* A chunk is the sequence of its leaves, a tree the sequence of leaves it *)
(* was spliced from.  The pending chunk is left out: it cannot be read     *)
(* before the cursor counts it (TornadoVault has it).                      *)
(***************************************************************************)
EXTENDS ChainedSyncer, SequencesExt

CONSTANTS None      \* no caller, no tree

ASSUME NoneAssumption == None \notin Caller

VARIABLES
    cursor,     \* the exclusive end of the synced blocks
    chunks,     \* the committed snapshot chunks
    lock,       \* the operation lock
    trees,      \* who holds the lock of the tree cache
    cache,      \* the pool's cached tree
    task        \* each caller's withdrawal

vars == <<height, read, cursor, chunks, lock, trees, cache, task>>

Leaves == Seq(1..MaxBlock)

Task == [pc : {"idle", "lock", "height", "sync", "drop", "commit", "tree", "build", "done"},
         leaf : 0..MaxBlock,            \* the leaf index of the note to withdraw
         seen : Nat,                    \* the cursor when its sync began
         tree : Leaves]                 \* the tree it built or took its proof from
Idle == [pc |-> "idle", leaf |-> 0, seen |-> 0, tree |-> <<>>]

TypeOK ==
    /\ SyncerTypeOK
    /\ cursor \in 1..(MaxBlock + 1)
    /\ chunks \in Seq(Leaves)
    /\ lock \in Caller \cup {None}
    /\ trees \in Caller \cup {None}
    /\ cache \in Leaves \cup {None}
    /\ task \in [Caller -> Task]

Init ==
    /\ SyncerInit
    /\ cursor = Deployed
    /\ chunks = <<>>
    /\ lock = None
    /\ trees = None
    /\ cache = None
    /\ task = [q \in Caller |-> Idle]

-----------------------------------------------------------------------------
Goto(q, pc) == task' = [task EXCEPT ![q].pc = pc]

(* The note is mined, so its deposit is somewhere on chain. *)
WithdrawalInputs(q) == \E leaf \in 1..height :
    /\ task[q].pc = "idle"
    /\ task' = [task EXCEPT ![q] = [Idle EXCEPT !.pc = "lock", !.leaf = leaf]]
    /\ UNCHANGED <<height, read, cursor, chunks, lock, trees, cache>>

TakeLock(q) ==
    /\ task[q].pc = "lock"
    /\ lock = None
    /\ lock' = q
    /\ task' = [task EXCEPT ![q].pc = "height", ![q].seen = cursor]
    /\ UNCHANGED <<height, read, cursor, chunks, trees, cache>>

BeginSync(q) == \E h \in 0..height :
    /\ task[q].pc = "height"
    /\ read' = [read EXCEPT ![q] = Call([from |-> cursor, to |-> h + 1])]
    /\ Goto(q, "sync")
    /\ UNCHANGED <<height, cursor, chunks, lock, trees, cache>>

SyncPool(q) ==
    /\ task[q].pc = "sync"
    /\ SyncerStep(q)
    /\ UNCHANGED <<cursor, chunks, lock, trees, cache, task>>

PutSnapshot(q) ==
    /\ task[q].pc = "sync"
    /\ read[q].pc = "answer"
    /\ Goto(q, "drop")
    /\ UNCHANGED <<height, read, cursor, chunks, lock, trees, cache>>

(* Mutant: the cached tree is kept. *)
DropNothing(q) ==
    /\ task[q].pc = "drop"
    /\ trees = None
    /\ Goto(q, "commit")
    /\ UNCHANGED <<height, read, cursor, chunks, lock, trees, cache>>

DropTree(q) ==
    /\ task[q].pc = "drop"
    /\ trees = None
    /\ cache' = None
    /\ Goto(q, "commit")
    /\ UNCHANGED <<height, read, cursor, chunks, lock, trees>>

(* Mutant: the cursor moves to what was asked for. *)
CommitAsked(q) ==
    LET r == read[q] IN
    /\ task[q].pc = "commit"
    /\ cursor' = Larger(r.asked.to, cursor)
    /\ chunks' = IF r.events = <<>> THEN chunks ELSE Append(chunks, r.events)
    /\ lock' = None
    /\ read' = [read EXCEPT ![q] = Off]
    /\ task' = [task EXCEPT ![q].pc = "tree"]
    /\ UNCHANGED <<height, trees, cache>>

(* The cursor moves, and the sync gives the operation lock back. *)
Commit(q) ==
    LET r == read[q] IN
    /\ task[q].pc = "commit"
    /\ cursor' = r.answer.to
    /\ chunks' = IF r.events = <<>> THEN chunks ELSE Append(chunks, r.events)
    /\ lock' = None
    /\ read' = [read EXCEPT ![q] = Off]
    /\ task' = [task EXCEPT ![q].pc = "tree"]
    /\ UNCHANGED <<height, trees, cache>>

(* The tree of the cache, or else one spliced from the committed chunks    *)
(* while the cache stays locked.                                           *)
FindTree(q) ==
    /\ task[q].pc = "tree"
    /\ trees = None
    /\ IF cache = None
       THEN /\ trees' = q
            /\ task' = [task EXCEPT ![q].pc = "build", ![q].tree = FlattenSeq(chunks)]
       ELSE /\ UNCHANGED trees
            /\ task' = [task EXCEPT ![q].pc = "done", ![q].tree = cache]
    /\ UNCHANGED <<height, read, cursor, chunks, lock, cache>>

InsertTree(q) ==
    /\ task[q].pc = "build"
    /\ cache' = task[q].tree
    /\ trees' = None
    /\ Goto(q, "done")
    /\ UNCHANGED <<height, read, cursor, chunks, lock>>

(* With a proof, or with an error when the tree has no such leaf. *)
Return(q) ==
    /\ task[q].pc = "done"
    /\ task' = [task EXCEPT ![q] = Idle]
    /\ UNCHANGED <<height, read, cursor, chunks, lock, trees, cache>>

(* An error or a dropped future; both locks are given back. *)
Abort(q) ==
    /\ task[q].pc # "idle"
    /\ lock' = IF lock = q THEN None ELSE lock
    /\ trees' = IF trees = q THEN None ELSE trees
    /\ read' = [read EXCEPT ![q] = Off]
    /\ task' = [task EXCEPT ![q] = Idle]
    /\ UNCHANGED <<height, cursor, chunks, cache>>

(* Another process syncs the pool.  This vault's cache is not its own. *)
SyncElsewhere == \E to \in (cursor + 1)..(height + 1) :
    /\ lock = None
    /\ cursor' = to
    /\ chunks' = Append(chunks, EventsOf([from |-> cursor, to |-> to]))
    /\ UNCHANGED <<height, read, lock, trees, cache, task>>

Next ==
    \/ \E q \in Caller :
        \/ WithdrawalInputs(q) \/ TakeLock(q) \/ BeginSync(q) \/ SyncPool(q)
        \/ PutSnapshot(q) \/ DropTree(q) \/ Commit(q)
        \/ FindTree(q) \/ InsertTree(q) \/ Return(q) \/ Abort(q)
    \/ SyncElsewhere
    \/ Grow /\ UNCHANGED <<cursor, chunks, lock, trees, cache, task>>

Spec == Init /\ [][Next]_vars

-----------------------------------------------------------------------------
(* A tree in the cache is the pool's own tree as of some committed cursor: *)
(* its leaves are the pool's first ones, in order, none missing and none   *)
(* twice.  Otherwise its root was never a root of the pool.                *)
TreeIsPrefix ==
    cache # None => /\ cache = EventsOf([from |-> Deployed, to |-> Deployed + Len(cache)])
                    /\ Len(cache) < cursor

(* A proof is taken from a tree that holds every leaf that was committed   *)
(* when the call's own sync began, whatever other tasks and processes do:  *)
(* a note that an earlier sync had shown is always found.                  *)
ProofCoversEarlierSyncs ==
    \A q \in Caller : task[q].pc = "done" => task[q].seen <= Len(task[q].tree) + 1
=============================================================================
