------------------------ MODULE TornadoVaultProofs ------------------------
(***************************************************************************)
(* Theorems of TornadoVault, for every set of processes and pools, every   *)
(* bound and every history.                                                *)
(***************************************************************************)
EXTENDS TornadoVault, TLAPS

-----------------------------------------------------------------------------
(* Types.                                                                  *)

LEMMA IdleTaskType == IdleTask \in Task
  BY ConstantAssumption DEF IdleTask, Task, Control, Operation, PoolBag, EmptyBag,
     Range, NoRange, Nonce, NoteRecord, Deposit, Event

LEMMA BagTypes ==
  /\ EmptyBag \in PoolBag
  /\ \A bag \in PoolBag : Support(bag) \subseteq Pool
  /\ \A bag \in PoolBag, p \in Pool : bag[p] \in Nat
  BY DEF EmptyBag, PoolBag, Support

(* Leaving a loop body keeps a task a task. *)
LEMMA LeaveType ==
  ASSUME task \in [Proc -> Task], NEW q \in Proc, NEW c \in Control
  PROVE  Leave(q, c) \in Task
  <1>1. task[q] \in Task
    OBVIOUS
  <1>2. NoRange \in Range /\ 0 \in 0..MaxNonce /\ {} \in SUBSET NoteRecord
    BY ConstantAssumption DEF Range, NoRange
  <1>3. QED
    BY <1>1, <1>2 DEF Leave, Task

(* What a syncer, a scan and a rewrite of the notes produce. *)
LEMMA EventTypes ==
  ASSUME chain \in Seq(Event), NEW p, NEW r
  PROVE  /\ EventsIn(p, r) \subseteq Event
         /\ EventBlocks(p, r) \subseteq 1..Len(chain)
  BY DEF EventsIn, EventBlocks, Height

LEMMA ScanType ==
  ASSUME chain \in Seq(Event), NEW ps
  PROVE  Recovered(SnapshotEvents(ps)) \subseteq Event
  <1>1. SnapshotEvents(ps) \subseteq Event
    BY EventTypes DEF SnapshotEvents
  <1>2. QED
    BY <1>1 DEF Recovered

LEMMA RecordTypes ==
  ASSUME NEW records \in SUBSET NoteRecord, NEW events
  PROVE  Applied(records, events) \subseteq NoteRecord
  <1>1. SUFFICES ASSUME NEW r \in records
                 PROVE  [r EXCEPT !.mined = @ \/ \E e \in events : e.kind = "deposit" /\ e.nonce = r.nonce,
                                  !.spent = @ \/ \E e \in events : e.kind = "withdrawal" /\ e.nonce = r.nonce]
                          \in NoteRecord
    BY DEF Applied
  <1>2. r \in NoteRecord
    OBVIOUS
  <1>3. QED
    BY <1>2 DEF NoteRecord

LEMMA RestoredType ==
  ASSUME NEW t \in Task
  PROVE  Restored(t) \subseteq NoteRecord
  <1>1. t.held \subseteq NoteRecord /\ t.found \subseteq Event
    BY DEF Task
  <1> DEFINE ns == {e.nonce : e \in {x \in t.found : x.pool = t.pool /\ x.kind = "deposit"}}
             was(n) == [kind |-> "withdrawal", pool |-> t.pool, nonce |-> n] \in t.found
             new(n) == [nonce |-> n, mined |-> TRUE, spent |-> was(n)]
  <1>2. ns \subseteq Nonce
    BY <1>1 DEF Event
  <1>3. \A n : was(n) \in BOOLEAN
    OBVIOUS
  <1>4. \A n \in Nonce : new(n) \in NoteRecord
    <2> HIDE DEF was
    <2> QED BY <1>3 DEF NoteRecord
  <1>5. Restored(t) = {r \in t.held : r.nonce \notin ns} \cup {new(n) : n \in ns}
    BY DEF Restored
  <1>6. QED
    <2> HIDE DEF ns, new
    <2> QED BY <1>1, <1>2, <1>4, <1>5

LEMMA SyncedToType ==
  ASSUME chain \in Seq(Event), NEW from \in Nat, NEW end \in Nat
  PROVE  SyncedTo(from, end) \subseteq Nat
  BY DEF SyncedTo, Larger, Height

(* What a task holds at each point.  Inside a loop body it is at a pool,   *)
(* and while it reserves a nonce that nonce can still be advanced.  TypeOK *)
(* is not inductive without it.                                            *)
Reserving == {"burn", "load_pending", "put_pending"}
Body == Reserving \cup {"put", "commit", "load_applied", "load_restored", "load_cleared",
                       "put_applied", "put_restored", "put_cleared"}

Shape(t) ==
    /\ t.pc \in Body => t.pool \in Pool
    /\ t.pc \in Reserving => t.nonce < MaxNonce

TypeInv == TypeOK /\ \A q \in Proc : Shape(task[q])

(* A step that gives a task a new value of the right type and shape. *)
LEMMA TaskStep ==
  ASSUME TypeInv, NEW q \in Proc, NEW t \in Task, Shape(t),
         task' = [task EXCEPT ![q] = t]
  PROVE  task' \in [Proc -> Task] /\ \A r \in Proc : Shape(task[r])'
  <1>1. task \in [Proc -> Task]
    BY DEF TypeInv, TypeOK
  <1>2. \A r \in Proc : task'[r] = IF r = q THEN t ELSE task[r]
    BY <1>1
  <1>3. QED
    BY <1>1, <1>2 DEF TypeInv, Shape

LEMMA IdleShape == Shape(IdleTask)
  BY DEF Shape, IdleTask, Body, Reserving

(* Starting and ending an operation. *)
LEMMA StartType ==
  ASSUME TypeInv, NEW q \in Proc, NEW o \in Operation,
         NEW c \in {"track", "height"},
         NEW bag \in PoolBag, NEW ns \in SUBSET Nonce, Start(q, o, c, bag, ns)
  PROVE  TypeInv'
  <1> DEFINE t == [IdleTask EXCEPT !.pc = c, !.op = o, !.pools = bag,
                                   !.todo = bag, !.only = ns]
  <1>1. t \in Task
    BY IdleTaskType DEF Task, Control
  <1>2. Shape(t)
    BY IdleTaskType DEF Shape, Body, Reserving, Task
  <1>3. task' = [task EXCEPT ![q] = t]
    BY DEF Start
  <1>4. task' \in [Proc -> Task] /\ \A r \in Proc : Shape(task[r])'
    <2> HIDE DEF t
    <2> QED BY <1>1, <1>2, <1>3, TaskStep
  <1>5. QED
    BY <1>4 DEF TypeInv, TypeOK, Start, db

LEMMA ReleaseType ==
  ASSUME TypeInv, NEW q \in Proc, Release(q)
  PROVE  /\ lock' \in Proc \cup {None}
         /\ task' \in [Proc -> Task]
         /\ \A r \in Proc : Shape(task[r])'
  <1>1. task' = [task EXCEPT ![q] = IdleTask]
    BY DEF Release
  <1>2. lock' \in Proc \cup {None}
    BY DEF Release, TypeInv, TypeOK
  <1>3. QED
    BY <1>1, <1>2, IdleTaskType, IdleShape, TaskStep

(* A step that only moves a task to another point outside the loop bodies. *)
LEMMA GotoType ==
  ASSUME TypeInv, NEW q \in Proc, NEW c \in Control, c \notin Body,
         task' = [task EXCEPT ![q].pc = c]
  PROVE  task' \in [Proc -> Task] /\ \A r \in Proc : Shape(task[r])'
  <1>1. task[q] \in Task
    BY DEF TypeInv, TypeOK
  <1>2. [task[q] EXCEPT !.pc = c] \in Task /\ Shape([task[q] EXCEPT !.pc = c])
    BY <1>1 DEF Task, Shape, Body
  <1>3. task' = [task EXCEPT ![q] = [task[q] EXCEPT !.pc = c]]
    OBVIOUS
  <1>4. QED
    BY <1>2, <1>3, TaskStep

LEMMA LeaveStepType ==
  ASSUME TypeInv, NEW q \in Proc, NEW c \in Control, c \notin Body,
         task' = [task EXCEPT ![q] = Leave(q, c)]
  PROVE  task' \in [Proc -> Task] /\ \A r \in Proc : Shape(task[r])'
  <1>1. Leave(q, c) \in Task
    BY LeaveType DEF TypeInv, TypeOK
  <1>2. Leave(q, c).pc = c
    BY DEF Leave, TypeInv, TypeOK, Task
  <1>3. Shape(Leave(q, c))
    BY <1>2 DEF Shape, Body
  <1>4. QED
    BY <1>1, <1>3, TaskStep

(* A step of a loop that takes the next pool from the list. *)
LEMMA NextPoolType ==
  ASSUME task \in [Proc -> Task], NEW q \in Proc, NEW p \in Support(task[q].todo)
  PROVE  /\ p \in Pool
         /\ [task[q].todo EXCEPT ![p] = @ - 1] \in PoolBag
  <1>1. task[q].todo \in PoolBag
    BY DEF Task
  <1>2. p \in Pool /\ task[q].todo[p] \in Nat /\ task[q].todo[p] > 0
    BY <1>1 DEF Support, PoolBag
  <1>3. QED
    BY <1>1, <1>2 DEF PoolBag

LEMMA InitType == Init => TypeInv
  <1>1. ASSUME Init PROVE TypeInv
    <2>1. chain \in Seq(Event) /\ Len(chain) <= MaxBlock
      BY <1>1, ConstantAssumption DEF Init
    <2>2. NoRange \in Range
      BY DEF NoRange, Range
    <2>3. cursor \in [Pool -> [block : Nat, chunks : Nat]]
      BY <1>1 DEF Init, Deployed
    <2>4. task \in [Proc -> Task] /\ \A q \in Proc : Shape(task[q])
      BY <1>1, IdleTaskType, IdleShape DEF Init
    <2>5. QED
      BY <1>1, <2>1, <2>2, <2>3, <2>4, BagTypes, ConstantAssumption
         DEF Init, TypeOK, TypeInv
  <1>2. QED
    BY <1>1

LEMMA BeginType ==
  ASSUME TypeInv, NEW q \in Proc, Begin(q)
  PROVE  TypeInv'
  <1>0. tracked \in PoolBag
    BY DEF TypeInv, TypeOK
  <1>1. CASE PrepareDeposits(q)
    BY <1>1, StartType, ConstantAssumption DEF PrepareDeposits, Operation
  <1>2. CASE Sync(q)
    BY <1>2, StartType, ConstantAssumption DEF Sync, Operation
  <1>3. CASE Recover(q)
    BY <1>3, StartType, ConstantAssumption DEF Recover, Operation
  <1>4. CASE Notes(q)
    <2>1. [p \in Pool |-> IF p \in Included THEN tracked[p] ELSE 0] \in PoolBag
      BY <1>0 DEF PoolBag
    <2>2. QED
      BY <1>4, <2>1, StartType DEF Notes, Operation
  <1>5. CASE Balance(q)
    <2>1. PICK asset \in SUBSET Pool :
            Start(q, "balance", "height",
                  [p \in Pool |-> IF p \in asset /\ tracked[p] > 0 THEN 1 ELSE 0], {})
      BY <1>5 DEF Balance
    <2>2. [p \in Pool |-> IF p \in asset /\ tracked[p] > 0 THEN 1 ELSE 0] \in PoolBag
      BY DEF PoolBag
    <2>3. QED
      BY <2>1, <2>2, StartType DEF Operation
  <1>6. CASE ClearPending(q)
    BY <1>0, <1>6, StartType DEF ClearPending, Operation
  <1>7. QED
    BY <1>1, <1>2, <1>3, <1>4, <1>5, <1>6 DEF Begin

(* The bodies of the loops. *)
LEMMA ReserveType ==
  ASSUME TypeInv, NEW q \in Proc, ReserveNonce(q) \/ NextPool(q) \/ SyncPool(q)
  PROVE  TypeInv'
  <1>0. task \in [Proc -> Task] /\ task[q] \in Task
    BY DEF TypeInv, TypeOK
  <1>1. CASE ReserveNonce(q)
    <2>1. PICK p \in Support(task[q].todo) :
            task' = [task EXCEPT ![q].todo[p] = @ - 1, ![q].pool = p,
                                 ![q].nonce = nextNonce, ![q].pc = "burn"]
      BY <1>1 DEF ReserveNonce
    <2> DEFINE t == [task[q] EXCEPT !.todo = [task[q].todo EXCEPT ![p] = @ - 1],
                                    !.pool = p, !.nonce = nextNonce, !.pc = "burn"]
    <2>2. nextNonce \in 0..MaxNonce /\ nextNonce < MaxNonce
      BY <1>1 DEF ReserveNonce, TypeInv, TypeOK
    <2>3. t \in Task /\ Shape(t)
      BY <1>0, <2>2, NextPoolType DEF Task, Shape, Control
    <2>4. task' = [task EXCEPT ![q] = t]
      BY <1>0, <2>1 DEF Task
    <2>5. task' \in [Proc -> Task] /\ \A r \in Proc : Shape(task[r])'
      <3> HIDE DEF t
      <3> QED BY <2>3, <2>4, TaskStep
    <2>6. QED
      BY <1>1, <2>5 DEF ReserveNonce, db, TypeInv, TypeOK
  <1>2. CASE NextPool(q)
    <2>1. PICK p \in Support(task[q].todo), c \in {"load_cleared", "load_restored"} :
            task' = [task EXCEPT ![q].todo[p] = @ - 1, ![q].pool = p, ![q].pc = c]
      BY <1>2 DEF NextPool
    <2> DEFINE t == [task[q] EXCEPT !.todo = [task[q].todo EXCEPT ![p] = @ - 1],
                                    !.pool = p, !.pc = c]
    <2>2. t \in Task /\ Shape(t)
      BY <1>0, NextPoolType DEF Task, Shape, Control, Reserving
    <2>3. task' = [task EXCEPT ![q] = t]
      BY <1>0, <2>1 DEF Task
    <2>4. task' \in [Proc -> Task] /\ \A r \in Proc : Shape(task[r])'
      <3> HIDE DEF t
      <3> QED BY <2>2, <2>3, TaskStep
    <2>5. QED
      BY <1>2, <2>4 DEF NextPool, db, TypeInv, TypeOK
  <1>3. CASE SyncPool(q)
    <2>0. PICK p \in Support(task[q].todo) :
            \E to \in SyncedTo(cursor[p].block, task[q].upto) :
              task' = [task EXCEPT ![q].todo[p] = @ - 1, ![q].pool = p, ![q].pc = "put",
                                   ![q].snap = [from |-> cursor[p].block, to |-> to]]
      BY <1>3 DEF SyncPool
    <2>1. PICK to \in SyncedTo(cursor[p].block, task[q].upto) :
            task' = [task EXCEPT ![q].todo[p] = @ - 1, ![q].pool = p, ![q].pc = "put",
                                 ![q].snap = [from |-> cursor[p].block, to |-> to]]
      BY <2>0
    <2> DEFINE s == [from |-> cursor[p].block, to |-> to]
               t == [task[q] EXCEPT !.todo = [task[q].todo EXCEPT ![p] = @ - 1],
                                    !.pool = p, !.pc = "put", !.snap = s]
    <2>2. p \in Pool
      BY <1>0, NextPoolType
    <2>3. cursor[p].block \in Nat /\ task[q].upto \in Nat /\ chain \in Seq(Event)
      BY <1>0, <2>2 DEF TypeInv, TypeOK, Task
    <2>4. to \in Nat
      BY <2>3, SyncedToType
    <2>5. s \in Range
      BY <2>3, <2>4 DEF Range
    <2>6. t \in Task /\ Shape(t)
      <3> HIDE DEF s
      <3> QED BY <1>0, <2>2, <2>5, NextPoolType DEF Task, Shape, Control, Reserving
    <2>7. task' = [task EXCEPT ![q] = t]
      BY <1>0, <2>1 DEF Task
    <2>8. task' \in [Proc -> Task] /\ \A r \in Proc : Shape(task[r])'
      <3> HIDE DEF t
      <3> QED BY <2>6, <2>7, TaskStep
    <2>9. QED
      BY <1>3, <2>8 DEF SyncPool, db, TypeInv, TypeOK
  <1>4. QED
    BY <1>1, <1>2, <1>3

(* The writes of a pool's notes. *)
LEMMA NotesType ==
  ASSUME TypeInv, NEW q \in Proc,
         LoadNotes(q) \/ PutPending(q) \/ PutApplied(q) \/ PutRestored(q) \/ PutCleared(q)
  PROVE  TypeInv'
  <1>0. /\ task \in [Proc -> Task] /\ task[q] \in Task /\ Shape(task[q])
        /\ task[q].held \subseteq NoteRecord /\ chain \in Seq(Event)
    BY DEF TypeInv, TypeOK, Task
  <1>1. ASSUME NEW records \in SUBSET NoteRecord, PutNotes(q, records),
               task' \in [Proc -> Task] /\ \A r \in Proc : Shape(task[r])'
        PROVE  TypeInv'
    BY <1>1 DEF PutNotes, TypeInv, TypeOK
  <1>2. CASE LoadNotes(q)
    <2> DEFINE t == [task[q] EXCEPT !.held = notes[task[q].pool],
                                    !.pc = AfterLoad[task[q].pc]]
    <2>1. /\ task[q].pc \in {"load_pending", "load_applied", "load_restored", "load_cleared"}
          /\ AfterLoad[task[q].pc] \in {"put_pending", "put_applied", "put_restored", "put_cleared"}
          /\ AfterLoad[task[q].pc] = "put_pending" <=> task[q].pc = "load_pending"
      BY <1>2 DEF LoadNotes, AfterLoad
    <2>2. task[q].pool \in Pool
      BY <1>0, <2>1 DEF Shape, Body, Reserving
    <2>3. notes[task[q].pool] \in SUBSET NoteRecord
      BY <2>2 DEF TypeInv, TypeOK
    <2>4. AfterLoad[task[q].pc] \in Control
      BY <2>1 DEF Control
    <2>5. t \in Task
      BY <1>0, <2>3, <2>4 DEF Task
    <2>6. Shape(t)
      BY <1>0, <2>1, <2>2 DEF Task, Shape, Reserving, Body
    <2>7. task' = [task EXCEPT ![q] = t]
      BY <1>0, <1>2 DEF LoadNotes, Task
    <2>8. task' \in [Proc -> Task] /\ \A r \in Proc : Shape(task[r])'
      <3> HIDE DEF t
      <3> QED BY <2>5, <2>6, <2>7, TaskStep
    <2>9. QED
      BY <1>2, <2>8 DEF LoadNotes, db, TypeInv, TypeOK
  <1>3. CASE PutPending(q)
    <2> DEFINE d == [pool |-> task[q].pool, nonce |-> task[q].nonce]
               t == [Leave(q, "reserve") EXCEPT !.out = @ \cup {d}]
               r == [nonce |-> task[q].nonce, mined |-> FALSE, spent |-> FALSE]
    <2>1. task[q].pc = "put_pending"
      BY <1>3 DEF PutPending
    <2>2. task[q].pool \in Pool /\ task[q].nonce \in Nonce
      <3>1. task[q].nonce \in 0..MaxNonce /\ MaxNonce \in Nat
        BY <1>0, ConstantAssumption DEF Task
      <3>2. QED
        BY <1>0, <2>1, <3>1 DEF Shape, Body, Reserving, Nonce
    <2>3. d \in Deposit /\ r \in NoteRecord
      BY <2>2 DEF Deposit, NoteRecord
    <2>4. Leave(q, "reserve") \in Task
      BY <1>0, LeaveType DEF Control
    <2>5. t \in Task
      <3> HIDE DEF d
      <3> QED BY <2>3, <2>4 DEF Task
    <2>6. t.pc = "reserve"
      BY <1>0 DEF Leave, Task
    <2>7. Shape(t)
      BY <2>6 DEF Shape, Body, Reserving
    <2>8. task' = [task EXCEPT ![q] = t]
      BY <1>3 DEF PutPending
    <2>9. task' \in [Proc -> Task] /\ \A x \in Proc : Shape(task[x])'
      <3> HIDE DEF t
      <3> QED BY <2>5, <2>7, <2>8, TaskStep
    <2>10. PutNotes(q, task[q].held \cup {r})
      BY <1>3 DEF PutPending
    <2>11. QED
      <3> HIDE DEF r
      <3> QED BY <1>0, <1>1, <2>3, <2>9, <2>10
  <1>4. CASE PutApplied(q)
    <2>1. PutNotes(q, Applied(task[q].held, EventsIn(task[q].pool, task[q].snap)))
      BY <1>4 DEF PutApplied
    <2>2. [task[q] EXCEPT !.pc = "commit"] \in Task /\ Shape([task[q] EXCEPT !.pc = "commit"])
      BY <1>0, <1>4 DEF PutApplied, Task, Shape, Control, Body, Reserving
    <2>3. task' = [task EXCEPT ![q] = [task[q] EXCEPT !.pc = "commit"]]
      BY <1>4 DEF PutApplied
    <2>4. task' \in [Proc -> Task] /\ \A x \in Proc : Shape(task[x])'
      BY <2>2, <2>3, TaskStep
    <2>5. QED
      BY <1>0, <1>1, <2>1, <2>4, RecordTypes
  <1>5. CASE PutRestored(q)
    BY <1>0, <1>1, <1>5, RestoredType, LeaveStepType DEF PutRestored, Control, Body, Reserving
  <1>6. CASE PutCleared(q)
    <2>1. Retained(task[q]) \subseteq NoteRecord
      BY <1>0 DEF Retained
    <2>2. QED
      BY <1>1, <1>6, <2>1, LeaveStepType DEF PutCleared, Control, Body, Reserving
  <1>7. QED
    BY <1>2, <1>3, <1>4, <1>5, <1>6

LEMMA StepType ==
  ASSUME TypeInv, NEW q \in Proc, Step(q)
  PROVE  TypeInv'
  <1>0. /\ task \in [Proc -> Task] /\ task[q] \in Task /\ Shape(task[q])
        /\ TypeOK /\ chain \in Seq(Event)
    BY DEF TypeInv, TypeOK
  <1>1. CASE Track(q)
    <2>1. tracked' \in PoolBag
      <3>1. task[q].pools \in PoolBag
        BY <1>0 DEF Task
      <3>2. QED
        BY <1>0, <1>1, <3>1 DEF Track, TypeOK, PoolBag
    <2>2. task' \in [Proc -> Task] /\ \A r \in Proc : Shape(task[r])'
      BY <1>1, GotoType DEF Track, Control, Body, Reserving
    <2>3. QED
      BY <1>0, <1>1, <2>1, <2>2 DEF Track, TypeInv, TypeOK
  <1>2. CASE ReserveNonce(q) \/ NextPool(q) \/ SyncPool(q)
    BY <1>2, ReserveType
  <1>3. CASE Exhausted(q)
    BY <1>0, <1>3, ReleaseType DEF Exhausted, db, TypeInv, TypeOK
  <1>4. CASE BurnNonce(q)
    <2> DEFINE t == [task[q] EXCEPT !.pc = "load_pending"]
    <2>1. task[q].pc = "burn" /\ task[q].nonce < MaxNonce
      BY <1>0, <1>4 DEF BurnNonce, Shape, Reserving
    <2>2. t \in Task /\ Shape(t)
      BY <1>0, <2>1 DEF Task, Shape, Control, Body, Reserving
    <2>3. task' = [task EXCEPT ![q] = t]
      BY <1>4 DEF BurnNonce
    <2>4. task' \in [Proc -> Task] /\ \A r \in Proc : Shape(task[r])'
      BY <2>2, <2>3, TaskStep
    <2>5. nextNonce' \in 0..MaxNonce
      <3>1. task[q].nonce \in 0..MaxNonce /\ MaxNonce \in Nat
        BY <1>0, ConstantAssumption DEF Task
      <3>2. QED
        BY <1>4, <2>1, <3>1 DEF BurnNonce
    <2>6. QED
      BY <1>0, <1>4, <2>4, <2>5 DEF BurnNonce, TypeInv, TypeOK
  <1>5. CASE LoadNotes(q) \/ PutPending(q) \/ PutApplied(q) \/ PutRestored(q) \/ PutCleared(q)
    BY <1>5, NotesType
  <1>6. CASE ReturnCalls(q)
    <2>1. task[q].out \subseteq Deposit
      BY <1>0 DEF Task
    <2>2. QED
      BY <1>0, <1>6, <2>1, ReleaseType DEF ReturnCalls, db, TypeInv, TypeOK
  <1>7. CASE ReadHeight(q)
    <2>0. Len(chain) \in Nat
      BY <1>0
    <2>1. PICK h \in Nat : task' = [task EXCEPT ![q].upto = h, ![q].pc = "range"]
      <3>1. PICK g \in IF Lagging THEN 0..Height ELSE {Height} :
              task' = [task EXCEPT ![q].upto = g + 1, ![q].pc = "range"]
        BY <1>7 DEF ReadHeight
      <3>2. g + 1 \in Nat
        BY <2>0 DEF Height
      <3>3. QED
        BY <3>1, <3>2
    <2> DEFINE t == [task[q] EXCEPT !.upto = h, !.pc = "range"]
    <2>2. t \in Task /\ Shape(t)
      BY <1>0 DEF Task, Shape, Control, Body, Reserving
    <2>3. task' = [task EXCEPT ![q] = t]
      BY <1>0, <2>1 DEF Task
    <2>4. task' \in [Proc -> Task] /\ \A r \in Proc : Shape(task[r])'
      BY <2>2, <2>3, TaskStep
    <2>5. QED
      BY <1>0, <1>7, <2>4 DEF ReadHeight, db, TypeInv, TypeOK
  <1>8. CASE PutSnapshot(q)
    <2>1. task[q].snap \in Range
      BY <1>0 DEF Task
    <2>2. chunk' \in [Pool -> [0..MaxBlock -> Range]]
      BY <1>0, <1>8, <2>1 DEF PutSnapshot, TypeOK
    <2> DEFINE t == [task[q] EXCEPT !.pc = "load_applied"]
    <2>3. t \in Task /\ Shape(t)
      BY <1>0, <1>8 DEF PutSnapshot, Task, Shape, Control, Body, Reserving
    <2>4. task' = [task EXCEPT ![q] = t]
      BY <1>8 DEF PutSnapshot
    <2>5. task' \in [Proc -> Task] /\ \A r \in Proc : Shape(task[r])'
      BY <2>3, <2>4, TaskStep
    <2>6. QED
      BY <1>0, <1>8, <2>2, <2>5 DEF PutSnapshot, TypeInv, TypeOK
  <1>9. CASE CommitSnapshot(q)
    <2>1. task[q].snap.to \in Nat
      BY <1>0 DEF Task, Range
    <2>2. cursor' \in [Pool -> [block : Nat, chunks : Nat]]
      <3> DEFINE p == task[q].pool
                 n == cursor[p].chunks + IF EventBlocks(p, task[q].snap) = {} THEN 0 ELSE 1
      <3>1. p \in Pool
        BY <1>0, <1>9 DEF CommitSnapshot, Shape, Body
      <3>2. cursor \in [Pool -> [block : Nat, chunks : Nat]]
        BY <1>0 DEF TypeOK
      <3>3. n \in Nat
        BY <3>1, <3>2
      <3>4. cursor' = [cursor EXCEPT ![p] = [block |-> task[q].snap.to, chunks |-> n]]
        BY <1>9 DEF CommitSnapshot
      <3>5. QED
        <4> HIDE DEF n, p
        <4> QED BY <2>1, <3>2, <3>3, <3>4
    <2>3. task' \in [Proc -> Task] /\ \A r \in Proc : Shape(task[r])'
      BY <1>9, LeaveStepType DEF CommitSnapshot, Control, Body, Reserving
    <2>4. QED
      BY <1>0, <1>9, <2>2, <2>3 DEF CommitSnapshot, TypeInv, TypeOK
  <1>10. CASE Synced(q)
    <2>1. PICK c \in {"clear", "scan", "return"} :
            task' = [task EXCEPT ![q].pc = c, ![q].todo = task[q].pools, ![q].upto = 0]
      BY <1>10 DEF Synced
    <2> DEFINE t == [task[q] EXCEPT !.pc = c, !.todo = task[q].pools, !.upto = 0]
    <2>2. t \in Task /\ Shape(t)
      BY <1>0 DEF Task, Shape, Control, Body, Reserving
    <2>3. task' = [task EXCEPT ![q] = t]
      BY <1>0, <2>1 DEF Task
    <2>4. task' \in [Proc -> Task] /\ \A r \in Proc : Shape(task[r])'
      BY <2>2, <2>3, TaskStep
    <2>5. QED
      BY <1>0, <1>10, <2>4 DEF Synced, db, TypeInv, TypeOK
  <1>11. CASE Scan(q)
    <2> DEFINE f == Recovered(SnapshotEvents(Support(task[q].pools)))
               t == [task[q] EXCEPT !.found = f, !.nonce = nextNonce, !.pc = "mark"]
    <2>1. f \in SUBSET Event /\ nextNonce \in 0..MaxNonce
      BY <1>0, ScanType DEF TypeOK
    <2>2. task' = [task EXCEPT ![q] = t]
      BY <1>0, <1>11 DEF Scan, Task
    <2>3. t \in Task /\ Shape(t)
      <3> HIDE DEF f
      <3> QED BY <1>0, <2>1 DEF Task, Shape, Control, Body, Reserving
    <2>4. task' \in [Proc -> Task] /\ \A r \in Proc : Shape(task[r])'
      <3> HIDE DEF t
      <3> QED BY <2>2, <2>3, TaskStep
    <2>5. QED
      BY <1>0, <1>11, <2>4 DEF Scan, db, TypeInv, TypeOK
  <1>12. CASE PublishMark(q)
    <2>1. task' \in [Proc -> Task] /\ \A r \in Proc : Shape(task[r])'
      BY <1>12, LeaveStepType DEF PublishMark, Control, Body, Reserving
    <2>2. QED
      BY <1>0, <1>12, <2>1 DEF PublishMark, TypeInv, TypeOK
  <1>13. CASE LoopEnds(q)
    <2>1. task' \in [Proc -> Task] /\ \A r \in Proc : Shape(task[r])'
      BY <1>13, GotoType DEF LoopEnds, Control, Body, Reserving
    <2>2. QED
      BY <1>0, <1>13, <2>1 DEF LoopEnds, db, TypeInv, TypeOK
  <1>14. CASE Return(q)
    BY <1>0, <1>14, ReleaseType DEF Return, db, TypeInv, TypeOK
  <1>15. QED
    BY <1>1, <1>2, <1>3, <1>4, <1>5, <1>6, <1>7, <1>8, <1>9, <1>10, <1>11,
       <1>12, <1>13, <1>14 DEF Step

LEMMA MineType ==
  ASSUME TypeInv, NEW k \in {"deposit", "withdrawal"}, NEW d \in Deposit,
         Mine(k, d.pool, d.nonce)
  PROVE  TypeInv'
  <1>1. [kind |-> k, pool |-> d.pool, nonce |-> d.nonce] \in Event
    BY DEF Event, Deposit
  <1>2. chain' \in Seq(Event) /\ Len(chain') <= MaxBlock
    BY <1>1, ConstantAssumption DEF Mine, Height, TypeInv, TypeOK
  <1>3. QED
    BY <1>2 DEF Mine, db, TypeInv, TypeOK, Shape

LEMMA NextType == TypeInv /\ [Next]_vars => TypeInv'
  <1> SUFFICES ASSUME TypeInv, [Next]_vars PROVE TypeInv'
    OBVIOUS
  <1>1. ASSUME NEW q \in Proc, Begin(q) PROVE TypeInv'
    BY <1>1, BeginType
  <1>2. ASSUME NEW q \in Proc, Step(q) PROVE TypeInv'
    BY <1>2, StepType
  <1>3. ASSUME NEW q \in Proc, Abort(q) PROVE TypeInv'
    BY <1>3, ReleaseType DEF Abort, db, TypeInv, TypeOK
  <1>4. CASE MineDeposit
    <2>1. exposed \subseteq Deposit
      BY DEF TypeInv, TypeOK
    <2>2. QED
      BY <1>4, <2>1, MineType DEF MineDeposit
  <1>5. CASE MineWithdrawal
    BY <1>5, MineType DEF MineWithdrawal
  <1>6. CASE UNCHANGED vars
    BY <1>6 DEF vars, TypeInv, TypeOK, Shape
  <1>7. QED
    BY <1>1, <1>2, <1>3, <1>4, <1>5, <1>6 DEF Next

(* The types of the variables, over every operation, failure and block. *)
THEOREM TypeCorrect == Spec => []TypeOK
  <1>1. TypeInv => TypeOK
    BY DEF TypeInv
  <1>2. QED
    BY InitType, NextType, <1>1, PTL DEF Spec

THEOREM TypeInvariant == Spec => []TypeInv
  BY InitType, NextType, PTL DEF Spec

-----------------------------------------------------------------------------
(* Nonces.  NoNonceReuse and RecordsBelowCounter are not inductive: they   *)
(* also need what a task has read and not yet written to agree with the    *)
(* counter, which it does because nobody else works without the lock.      *)

NonceShape(t) ==
    /\ t.pc = "idle" => t.out = {} /\ t.held = {}
    /\ \A d \in t.out : d.nonce < nextNonce
    /\ \A r \in t.held : r.nonce < nextNonce
    /\ t.pc \in {"burn", "mark"} => t.nonce = nextNonce
    /\ t.pc \in {"load_pending", "put_pending"} =>
          /\ t.nonce < nextNonce
          /\ \A d \in exposed \cup t.out : d.nonce < t.nonce
    /\ t.pc \in {"restore", "load_restored", "put_restored"} =>
          \A e \in t.found : e.nonce < nextNonce

NonceInv ==
    /\ LockProtectsTasks
    /\ RecordsBelowCounter
    /\ NoNonceReuse
    /\ \A q \in Proc : NonceShape(task[q])

LEMMA IdleNonces == NonceShape(IdleTask)
  BY DEF NonceShape, IdleTask

LEMMA InitNonces == Init => NonceInv
  <1>1. ASSUME Init PROVE NonceInv
    <2>1. \A q \in Proc : task[q] = IdleTask
      BY <1>1 DEF Init
    <2>2. IdleTask.pc = "idle" /\ IdleTask.out = {}
      BY DEF IdleTask
    <2>3. LockProtectsTasks /\ NoNonceReuse /\ RecordsBelowCounter
      BY <1>1, <2>1, <2>2 DEF Init, LockProtectsTasks, NoNonceReuse, RecordsBelowCounter
    <2>4. QED
      BY <2>1, <2>3, IdleNonces DEF NonceInv
  <1>2. QED
    BY <1>1

(* While a process works, every other process is idle and holds nothing. *)
LEMMA OthersIdle ==
  ASSUME NonceInv, NEW q \in Proc, task[q].pc # "idle", NEW r \in Proc \ {q}
  PROVE  lock = q /\ task[r].pc = "idle" /\ task[r].out = {} /\ task[r].held = {}
  BY DEF NonceInv, LockProtectsTasks, NonceShape

(* A step of a process that changes only what it holds in memory. *)
LEMMA LocalStep ==
  ASSUME TypeInv, NonceInv, NEW q \in Proc, task[q].pc # "idle",
         NEW t \in Task, task' = [task EXCEPT ![q] = t], t.pc # "idle",
         t.out = task[q].out, NonceShape(t),
         UNCHANGED <<lock, nextNonce, exposed, notes>>
  PROVE  NonceInv'
  <1>1. \A r \in Proc : task'[r] = IF r = q THEN t ELSE task[r]
    BY DEF TypeInv, TypeOK
  <1>2. LockProtectsTasks'
    BY <1>1 DEF NonceInv, LockProtectsTasks
  <1>3. RecordsBelowCounter'
    BY DEF NonceInv, RecordsBelowCounter
  <1>4. \A r \in Proc : task'[r].out = task[r].out
    BY <1>1
  <1>5. NoNonceReuse'
    BY <1>4 DEF NonceInv, NoNonceReuse
  <1>6. \A r \in Proc : NonceShape(task[r])'
    BY <1>1 DEF NonceInv, NonceShape
  <1>7. QED
    BY <1>2, <1>3, <1>5, <1>6 DEF NonceInv

(* The end of an operation. *)
LEMMA ReleaseStep ==
  ASSUME TypeInv, NonceInv, NEW q \in Proc, task[q].pc # "idle", Release(q),
         UNCHANGED <<nextNonce, exposed, notes>>
  PROVE  NonceInv'
  <1>1. \A r \in Proc : task'[r].pc = "idle" /\ task'[r].out = {}
    BY OthersIdle DEF Release, TypeInv, TypeOK, IdleTask
  <1>2. \A r \in Proc : task'[r] = IF r = q THEN IdleTask ELSE task[r]
    BY DEF Release, TypeInv, TypeOK
  <1>3. LockProtectsTasks' /\ RecordsBelowCounter' /\ NoNonceReuse'
    BY <1>1 DEF NonceInv, LockProtectsTasks, RecordsBelowCounter, NoNonceReuse
  <1>4. \A r \in Proc : NonceShape(task[r])'
    BY <1>2, IdleNonces DEF NonceInv, NonceShape
  <1>5. QED
    BY <1>3, <1>4 DEF NonceInv

LEMMA StartStep ==
  ASSUME TypeInv, NonceInv, NEW q \in Proc, NEW o, NEW c \in {"track", "height"},
         NEW bag, NEW ns, Start(q, o, c, bag, ns)
  PROVE  NonceInv'
  <1> DEFINE t == [IdleTask EXCEPT !.pc = c, !.op = o, !.pools = bag,
                                   !.todo = bag, !.only = ns]
  <1>1. \A r \in Proc : task[r].pc = "idle"
    BY ConstantAssumption DEF Start, NonceInv, LockProtectsTasks
  <1>2. \A r \in Proc : task'[r] = IF r = q THEN t ELSE task[r]
    BY DEF Start, TypeInv, TypeOK
  <1>3. t.pc = c /\ t.out = {} /\ t.held = {}
    BY DEF IdleTask
  <1>4. LockProtectsTasks'
    BY <1>1, <1>2 DEF Start, LockProtectsTasks
  <1>5. UNCHANGED <<nextNonce, exposed, notes>>
    BY DEF Start, db
  <1>6. \A r \in Proc : task'[r].out = {}
    <2> HIDE DEF t
    <2> QED BY <1>1, <1>2, <1>3 DEF NonceInv, NonceShape
  <1>7. RecordsBelowCounter' /\ NoNonceReuse'
    BY <1>5, <1>6 DEF NonceInv, RecordsBelowCounter, NoNonceReuse
  <1>8. \A r \in Proc : NonceShape(task[r])'
    <2> HIDE DEF t
    <2> QED BY <1>1, <1>2, <1>3, <1>5 DEF NonceInv, NonceShape
  <1>9. QED
    BY <1>4, <1>7, <1>8 DEF NonceInv

LEMMA BeginNonces ==
  ASSUME TypeInv, NonceInv, NEW q \in Proc, Begin(q)
  PROVE  NonceInv'
  BY StartStep DEF Begin, PrepareDeposits, Sync, Recover, Notes, Balance, ClearPending

(* The counter moves up while its process alone holds the lock. *)
LEMMA CounterStep ==
  ASSUME TypeInv, NonceInv, NEW q \in Proc, task[q].pc # "idle",
         NEW t \in Task, task' = [task EXCEPT ![q] = t], t.pc # "idle",
         t.out = task[q].out, nextNonce' \in Nat, nextNonce' >= nextNonce,
         NonceShape(t)', UNCHANGED <<lock, exposed, notes>>
  PROVE  NonceInv'
  <1>1. \A r \in Proc : task'[r] = IF r = q THEN t ELSE task[r]
    BY DEF TypeInv, TypeOK
  <1>2. LockProtectsTasks'
    BY <1>1 DEF NonceInv, LockProtectsTasks
  <1>3. /\ nextNonce \in Nat
        /\ \A p \in Pool : \A r \in notes[p] : r.nonce \in Nat
        /\ \A d \in exposed : d.nonce \in Nat
    BY ConstantAssumption DEF TypeInv, TypeOK, NoteRecord, Deposit, Nonce
  <1>4. RecordsBelowCounter'
    BY <1>3 DEF NonceInv, RecordsBelowCounter
  <1>5. \A r \in Proc : task'[r].out = task[r].out
    BY <1>1
  <1>6. NoNonceReuse'
    BY <1>5 DEF NonceInv, NoNonceReuse
  <1>7. ASSUME NEW r \in Proc \ {q} PROVE NonceShape(task[r])'
    <2>1. task'[r] = task[r] /\ task[r].pc = "idle" /\ task[r].out = {} /\ task[r].held = {}
      BY <1>1, OthersIdle
    <2>2. QED
      BY <2>1 DEF NonceShape
  <1>8. NonceShape(task[q])'
    BY <1>1 DEF NonceShape
  <1>9. QED
    BY <1>2, <1>4, <1>6, <1>7, <1>8 DEF NonceInv

(* A pool's notes are written, and the deposits in ds join those that are  *)
(* about to be returned.                                                   *)
LEMMA WriteStep ==
  ASSUME TypeInv, NonceInv, NEW q \in Proc, task[q].pc # "idle",
         NEW t \in Task, task' = [task EXCEPT ![q] = t], t.pc # "idle",
         NEW records, PutNotes(q, records), \A r \in records : r.nonce < nextNonce,
         NEW ds, t.out = task[q].out \cup ds,
         \A d \in ds : /\ d.nonce < nextNonce
                       /\ \A e \in exposed \cup task[q].out : e.nonce # d.nonce
                       /\ \A e \in ds : d = e,
         NonceShape(t)
  PROVE  NonceInv'
  <1>1. \A r \in Proc : task'[r] = IF r = q THEN t ELSE task[r]
    BY DEF TypeInv, TypeOK
  <1>2. UNCHANGED <<lock, nextNonce, exposed>>
    BY DEF PutNotes
  <1>3. LockProtectsTasks'
    BY <1>1, <1>2 DEF NonceInv, LockProtectsTasks
  <1>4. \A p \in Pool : notes'[p] = records \/ notes'[p] = notes[p]
    BY DEF PutNotes, TypeInv, TypeOK
  <1>5. RecordsBelowCounter'
    BY <1>2, <1>4 DEF NonceInv, RecordsBelowCounter
  <1>6. \A r \in Proc \ {q} : task'[r].out = {}
    BY <1>1, OthersIdle
  <1>7. task'[q].out = task[q].out \cup ds
    BY <1>1
  <1>8. NoNonceReuse'
    BY <1>2, <1>6, <1>7 DEF NonceInv, NoNonceReuse
  <1>9. \A r \in Proc : NonceShape(task[r])'
    BY <1>1, <1>2 DEF NonceInv, NonceShape
  <1>10. QED
    BY <1>3, <1>5, <1>8, <1>9 DEF NonceInv

(* What a step makes of its task is a task again. *)
LEMMA StepValue ==
  ASSUME TypeInv, NEW q \in Proc, Step(q)
  PROVE  \E t \in Task : t = task'[q]
  BY StepType DEF TypeInv, TypeOK

(* deposit_note: the nonce that was read is still the counter when it is   *)
(* burned, so it is above every nonce that was handed out.                 *)
LEMMA BurnNonces ==
  ASSUME TypeInv, NonceInv, NEW q \in Proc, ReserveNonce(q) \/ BurnNonce(q)
  PROVE  NonceInv'
  <1>0. /\ task \in [Proc -> Task] /\ task[q] \in Task /\ NonceShape(task[q])
        /\ nextNonce \in Nat /\ MaxNonce \in Nat
    BY ConstantAssumption DEF TypeInv, TypeOK, NonceInv
  <1>1. PICK t \in Task : t = task'[q]
    BY StepValue DEF Step
  <1>2. CASE ReserveNonce(q)
    <2>1. /\ task' = [task EXCEPT ![q] = t]
          /\ t.pc = "burn" /\ t.nonce = nextNonce
          /\ t.out = task[q].out /\ t.held = task[q].held
      <3>1. PICK p \in Support(task[q].todo) :
              task' = [task EXCEPT ![q].todo[p] = @ - 1, ![q].pool = p,
                                   ![q].nonce = nextNonce, ![q].pc = "burn"]
        BY <1>2 DEF ReserveNonce
      <3>2. /\ task' = [task EXCEPT ![q] = task'[q]]
            /\ task'[q].pc = "burn" /\ task'[q].nonce = nextNonce
            /\ task'[q].out = task[q].out /\ task'[q].held = task[q].held
        BY <1>0, <3>1 DEF Task
      <3>3. QED
        BY <1>1, <3>2
    <2>2. NonceShape(t)
      BY <1>0, <2>1 DEF NonceShape
    <2>3. task[q].pc # "idle" /\ UNCHANGED <<lock, nextNonce, exposed, notes>>
      BY <1>2 DEF ReserveNonce, db
    <2>4. QED
      BY <2>1, <2>2, <2>3, LocalStep
  <1>3. CASE BurnNonce(q)
    <2>1. /\ task' = [task EXCEPT ![q] = t]
          /\ t.pc = "load_pending" /\ t.nonce = task[q].nonce
          /\ t.out = task[q].out /\ t.held = task[q].held
      BY <1>0, <1>1, <1>3 DEF BurnNonce, Task
    <2>2. task[q].pc = "burn" /\ task[q].nonce = nextNonce /\ nextNonce' = nextNonce + 1
      BY <1>0, <1>3 DEF BurnNonce, NonceShape
    <2>3. \A d \in exposed \cup t.out : d.nonce \in Nat /\ d.nonce < nextNonce
      <3>1. \A d \in exposed \cup t.out : d.nonce < nextNonce
        BY <1>0, <2>1 DEF NonceInv, RecordsBelowCounter, NonceShape
      <3>2. exposed \cup t.out \subseteq Deposit
        BY <1>0, <2>1 DEF TypeInv, TypeOK, Task
      <3>3. QED
        BY <3>1, <3>2, ConstantAssumption DEF Deposit, Nonce
    <2>4. \A r \in t.held : r.nonce \in Nat /\ r.nonce < nextNonce
      <3>1. t.held \subseteq NoteRecord
        BY <1>0 DEF Task
      <3>2. QED
        BY <1>0, <2>1, <3>1, ConstantAssumption DEF NonceShape, NoteRecord, Nonce
    <2>5. UNCHANGED <<lock, exposed, notes>>
      BY <1>3 DEF BurnNonce
    <2>6. NonceShape(t)'
      BY <1>0, <2>1, <2>2, <2>3, <2>4, <2>5 DEF NonceShape
    <2>7. nextNonce' \in Nat /\ nextNonce' >= nextNonce
      BY <1>0, <2>2
    <2>8. task[q].pc # "idle" /\ t.pc # "idle"
      BY <2>1, <2>2
    <2>9. QED
      BY <2>1, <2>5, <2>6, <2>7, <2>8, CounterStep
  <1>4. QED
    BY <1>2, <1>3

LEMMA ReturnNonces ==
  ASSUME TypeInv, NonceInv, NEW q \in Proc, ReturnCalls(q)
  PROVE  NonceInv'
  <1>1. task[q].pc # "idle" /\ NonceShape(task[q])
    BY DEF ReturnCalls, NonceInv
  <1>2. /\ \A r \in Proc : task'[r].pc = "idle" /\ task'[r].out = {}
        /\ \A r \in Proc : NonceShape(task'[r])
    <2>1. \A r \in Proc : task'[r] = IF r = q THEN IdleTask ELSE task[r]
      BY DEF ReturnCalls, Release, TypeInv, TypeOK
    <2>2. QED
      BY <1>1, <2>1, OthersIdle, IdleNonces DEF IdleTask, NonceInv
  <1>3. exposed' = exposed \cup task[q].out /\ UNCHANGED <<nextNonce, notes>>
    BY DEF ReturnCalls, db
  <1>4. LockProtectsTasks' /\ RecordsBelowCounter' /\ NoNonceReuse'
    <2>1. RecordsBelowCounter'
      BY <1>1, <1>3 DEF NonceInv, RecordsBelowCounter, NonceShape
    <2>2. NoNonceReuse'
      BY <1>2, <1>3 DEF NonceInv, NoNonceReuse
    <2>3. QED
      BY <1>2, <2>1, <2>2 DEF LockProtectsTasks
  <1>5. \A r \in Proc : NonceShape(task[r])'
    BY <1>2, <1>3 DEF NonceShape
  <1>6. QED
    BY <1>4, <1>5 DEF NonceInv

(* Every write of a pool's notes.  A pending record has the nonce that was *)
(* just burned; a restored one lies below the counter recover published.   *)
LEMMA WriteNonces ==
  ASSUME TypeInv, NonceInv, NEW q \in Proc,
         PutPending(q) \/ PutApplied(q) \/ PutRestored(q) \/ PutCleared(q)
  PROVE  NonceInv'
  <1>0. /\ task \in [Proc -> Task] /\ task[q] \in Task /\ NonceShape(task[q])
        /\ nextNonce \in Nat /\ MaxNonce \in Nat
        /\ \A r \in task[q].held : r.nonce < nextNonce
    BY ConstantAssumption DEF TypeInv, TypeOK, NonceInv, NonceShape
  <1>1. PICK t \in Task : t = task'[q]
    BY StepValue DEF Step
  <1>2. CASE PutPending(q)
    <2> DEFINE d == [pool |-> task[q].pool, nonce |-> task[q].nonce]
               ds == {d}
               r == [nonce |-> task[q].nonce, mined |-> FALSE, spent |-> FALSE]
    <2>1. /\ task' = [task EXCEPT ![q] = t]
          /\ t = [Leave(q, "reserve") EXCEPT !.out = task[q].out \cup {d}]
      BY <1>0, <1>1, <1>2 DEF PutPending, Leave, Task
    <2>2. t.pc = "reserve" /\ t.held = {} /\ t.out = task[q].out \cup {d}
      BY <1>0, <2>1 DEF Leave, Task
    <2>3. /\ task[q].pc = "put_pending"
          /\ task[q].nonce < nextNonce
          /\ \A e \in exposed \cup task[q].out : e.nonce < task[q].nonce
      BY <1>0, <1>2 DEF PutPending, NonceShape
    <2>4. task[q].nonce \in Nat
      BY <1>0 DEF Task
    <2>5. \A e \in exposed \cup task[q].out : e.nonce # d.nonce
      BY <2>3, <2>4
    <2>6. NonceShape(t)
      BY <1>0, <2>2, <2>3 DEF NonceShape
    <2>7. PutNotes(q, task[q].held \cup {r}) /\ r.nonce < nextNonce
      BY <1>2, <2>3 DEF PutPending
    <2>8. \A x \in task[q].held \cup {r} : x.nonce < nextNonce
      <3> HIDE DEF r
      <3> QED BY <1>0, <2>7
    <2>9. d.nonce < nextNonce
      BY <2>3
    <2>10. /\ t.out = task[q].out \cup ds
           /\ \A x \in ds : /\ x.nonce < nextNonce
                            /\ \A e \in exposed \cup task[q].out : e.nonce # x.nonce
                            /\ \A e \in ds : x = e
      BY <2>2, <2>5, <2>9
    <2>11. task[q].pc # "idle" /\ t.pc # "idle"
      BY <2>2, <2>3
    <2>12. QED
      <3> HIDE DEF r, d, ds
      <3> QED BY <2>1, <2>6, <2>7, <2>8, <2>10, <2>11, WriteStep
  <1>3. CASE PutApplied(q)
    <2> DEFINE new == Applied(task[q].held, EventsIn(task[q].pool, task[q].snap))
    <2>1. /\ task' = [task EXCEPT ![q] = t] /\ t.pc = "commit"
          /\ t.held = task[q].held /\ t.out = task[q].out
      BY <1>0, <1>1, <1>3 DEF PutApplied, Task
    <2>2. NonceShape(t)
      BY <1>0, <2>1 DEF NonceShape
    <2>3. \A x \in new : x.nonce < nextNonce
      <3>1. task[q].held \subseteq NoteRecord
        BY <1>0 DEF Task
      <3>2. QED
        BY <1>0, <3>1 DEF Applied, NoteRecord
    <2>4. task[q].pc # "idle" /\ t.pc # "idle" /\ PutNotes(q, new)
      BY <1>3, <2>1 DEF PutApplied
    <2> DEFINE ds == {}
    <2>5. t.out = task[q].out \cup ds
      BY <2>1
    <2>6. \A x \in ds : /\ x.nonce < nextNonce
                        /\ \A e \in exposed \cup task[q].out : e.nonce # x.nonce
                        /\ \A e \in ds : x = e
      OBVIOUS
    <2>7. QED
      <3> HIDE DEF new, ds
      <3> QED BY <2>1, <2>2, <2>3, <2>4, <2>5, <2>6, WriteStep
  <1>4. CASE PutRestored(q)
    <2>1. task' = [task EXCEPT ![q] = t] /\ t = Leave(q, "restore")
      BY <1>0, <1>1, <1>4 DEF PutRestored
    <2>2. t.pc = "restore" /\ t.held = {} /\ t.out = task[q].out /\ t.found = task[q].found
      BY <1>0, <2>1 DEF Leave, Task
    <2>3. task[q].pc = "put_restored" /\ \A e \in task[q].found : e.nonce < nextNonce
      BY <1>0, <1>4 DEF PutRestored, NonceShape
    <2>4. NonceShape(t)
      BY <1>0, <2>2, <2>3 DEF NonceShape
    <2>5. \A x \in Restored(task[q]) : x.nonce < nextNonce
      <3>1. \A x \in Restored(task[q]) :
              x \in task[q].held \/ \E e \in task[q].found : x.nonce = e.nonce
        <4> DEFINE ns == {e.nonce : e \in {x \in task[q].found :
                                x.pool = task[q].pool /\ x.kind = "deposit"}}
                   spent(n) == [kind |-> "withdrawal", pool |-> task[q].pool, nonce |-> n]
                                  \in task[q].found
                   record(n) == [nonce |-> n, mined |-> TRUE, spent |-> spent(n)]
        <4>1. Restored(task[q]) = {r \in task[q].held : r.nonce \notin ns}
                                    \cup {record(n) : n \in ns}
          BY DEF Restored
        <4>2. \A n \in ns : record(n).nonce = n /\ \E e \in task[q].found : n = e.nonce
          OBVIOUS
        <4>3. QED
          <5> HIDE DEF record, ns
          <5> QED BY <4>1, <4>2
      <3>2. QED
        BY <1>0, <2>3, <3>1
    <2>6. PutNotes(q, Restored(task[q])) /\ t.out = task[q].out \cup {}
      BY <1>4, <2>2 DEF PutRestored
    <2>7. QED
      BY <2>1, <2>2, <2>3, <2>4, <2>5, <2>6, WriteStep
  <1>5. CASE PutCleared(q)
    <2>1. task' = [task EXCEPT ![q] = t] /\ t = Leave(q, "clear")
      BY <1>0, <1>1, <1>5 DEF PutCleared
    <2>2. t.pc = "clear" /\ t.held = {} /\ t.out = task[q].out
      BY <1>0, <2>1 DEF Leave, Task
    <2>3. NonceShape(t)
      BY <1>0, <2>2 DEF NonceShape
    <2>4. \A x \in Retained(task[q]) : x.nonce < nextNonce
      BY <1>0 DEF Retained
    <2>5. task[q].pc # "idle" /\ PutNotes(q, Retained(task[q])) /\ t.out = task[q].out \cup {}
      BY <1>5, <2>2 DEF PutCleared
    <2>6. QED
      BY <2>1, <2>2, <2>3, <2>4, <2>5, WriteStep
  <1>6. QED
    BY <1>2, <1>3, <1>4, <1>5

(* The steps that only move a task along.  Of what a task holds, NonceShape *)
(* says nothing more at the control points they lead to.                   *)
Quiet == {"reserve", "height", "range", "put", "load_applied", "commit",
          "clear", "scan", "return", "load_cleared"}

LEMMA QuietStep ==
  ASSUME TypeInv, NonceInv, NEW q \in Proc, task[q].pc # "idle",
         NEW t \in Task, task' = [task EXCEPT ![q] = t], t.pc \in Quiet,
         t.out = task[q].out, t.held \in {task[q].held, {}},
         UNCHANGED <<lock, nextNonce, exposed, notes>>
  PROVE  NonceInv'
  <1>1. NonceShape(t) /\ t.pc # "idle"
    BY DEF Quiet, NonceInv, NonceShape
  <1>2. QED
    BY <1>1, LocalStep

LEMMA QuietNonces ==
  ASSUME TypeInv, NonceInv, NEW q \in Proc,
         \/ Track(q) \/ ReadHeight(q) \/ SyncPool(q) \/ PutSnapshot(q)
         \/ CommitSnapshot(q) \/ Synced(q) \/ LoopEnds(q)
  PROVE  NonceInv'
  <1>0. task \in [Proc -> Task] /\ task[q] \in Task
    BY DEF TypeInv, TypeOK
  <1>1. PICK t \in Task : t = task'[q]
    BY StepValue DEF Step
  <1>2. task[q].pc # "idle" /\ UNCHANGED <<lock, nextNonce, exposed, notes>>
    BY DEF Track, ReadHeight, SyncPool, PutSnapshot, CommitSnapshot, Synced, LoopEnds, db
  <1>3. SUFFICES /\ task' = [task EXCEPT ![q] = t] /\ t.pc \in Quiet
                 /\ t.out = task[q].out /\ t.held \in {task[q].held, {}}
    BY <1>2, QuietStep
  <1>4. CASE Track(q)
    BY <1>0, <1>1, <1>4 DEF Track, Task, Quiet
  <1>5. CASE ReadHeight(q)
    <2>1. PICK h : task' = [task EXCEPT ![q].upto = h + 1, ![q].pc = "range"]
      BY <1>5 DEF ReadHeight
    <2>2. QED
      BY <1>0, <1>1, <2>1 DEF Task, Quiet
  <1>6. CASE SyncPool(q)
    <2>1. PICK p \in Support(task[q].todo) :
            \E s : task' = [task EXCEPT ![q].todo[p] = @ - 1, ![q].pool = p,
                                        ![q].pc = "put", ![q].snap = s]
      BY <1>6 DEF SyncPool
    <2>2. PICK s : task' = [task EXCEPT ![q].todo[p] = @ - 1, ![q].pool = p,
                                        ![q].pc = "put", ![q].snap = s]
      BY <2>1
    <2>3. QED
      BY <1>0, <1>1, <2>2 DEF Task, Quiet
  <1>7. CASE PutSnapshot(q)
    BY <1>0, <1>1, <1>7 DEF PutSnapshot, Task, Quiet
  <1>8. CASE CommitSnapshot(q)
    BY <1>0, <1>1, <1>8 DEF CommitSnapshot, Leave, Task, Quiet
  <1>9. CASE Synced(q)
    BY <1>0, <1>1, <1>9 DEF Synced, Task, Quiet
  <1>10. CASE LoopEnds(q)
    BY <1>0, <1>1, <1>10 DEF LoopEnds, Task, Quiet
  <1>11. QED
    BY <1>4, <1>5, <1>6, <1>7, <1>8, <1>9, <1>10

(* What is read from the database agrees with the counter.                 *)
LEMMA ReadNonces ==
  ASSUME TypeInv, NonceInv, NEW q \in Proc,
         LoadNotes(q) \/ Scan(q) \/ NextPool(q)
  PROVE  NonceInv'
  <1>0. /\ task \in [Proc -> Task] /\ task[q] \in Task /\ NonceShape(task[q])
        /\ Shape(task[q])
    BY DEF TypeInv, TypeOK, NonceInv
  <1>1. PICK t \in Task : t = task'[q]
    BY StepValue DEF Step
  <1>2. task[q].pc # "idle" /\ UNCHANGED <<lock, nextNonce, exposed, notes>>
    BY DEF LoadNotes, AfterLoad, Scan, NextPool, db
  <1>3. SUFFICES /\ task' = [task EXCEPT ![q] = t] /\ t.pc # "idle"
                 /\ t.out = task[q].out /\ NonceShape(t)
    BY <1>2, LocalStep
  <1>4. CASE LoadNotes(q)
    <2>1. /\ task' = [task EXCEPT ![q] = t] /\ t.pc = AfterLoad[task[q].pc]
          /\ t.out = task[q].out /\ t.held = notes[task[q].pool]
          /\ t.nonce = task[q].nonce /\ t.found = task[q].found
      BY <1>0, <1>1, <1>4 DEF LoadNotes, Task
    <2>2. task[q].pc \in {"load_pending", "load_applied", "load_restored", "load_cleared"}
      BY <1>4 DEF LoadNotes, AfterLoad
    <2>3. task[q].pool \in Pool
      BY <1>0, <2>2 DEF Shape, Body, Reserving
    <2>4. \A r \in t.held : r.nonce < nextNonce
      BY <2>1, <2>3 DEF NonceInv, RecordsBelowCounter
    <2>5. /\ t.pc \in {"put_pending", "put_applied", "put_restored", "put_cleared"}
          /\ t.pc = "put_pending" => task[q].pc = "load_pending"
          /\ t.pc = "put_restored" => task[q].pc = "load_restored"
      BY <2>1, <2>2 DEF AfterLoad
    <2>6. NonceShape(t)
      BY <1>0, <2>1, <2>4, <2>5 DEF NonceShape
    <2>7. QED
      BY <2>1, <2>5, <2>6
  <1>5. CASE Scan(q)
    <2>1. /\ task' = [task EXCEPT ![q] = t] /\ t.pc = "mark" /\ t.nonce = nextNonce
          /\ t.out = task[q].out /\ t.held = task[q].held
      BY <1>0, <1>1, <1>5 DEF Scan, Task
    <2>2. NonceShape(t)
      BY <1>0, <2>1 DEF NonceShape
    <2>3. QED
      BY <2>1, <2>2
  <1>6. CASE NextPool(q)
    <2>1. PICK p \in Support(task[q].todo) :
            task' = [task EXCEPT ![q].todo[p] = @ - 1, ![q].pool = p,
                ![q].pc = IF task[q].pc = "clear" THEN "load_cleared" ELSE "load_restored"]
      BY <1>6 DEF NextPool
    <2>2. /\ task' = [task EXCEPT ![q] = t]
          /\ t.pc = IF task[q].pc = "clear" THEN "load_cleared" ELSE "load_restored"
          /\ t.out = task[q].out /\ t.held = task[q].held /\ t.found = task[q].found
      BY <1>0, <1>1, <2>1 DEF Task
    <2>3. task[q].pc \in {"restore", "clear"}
      BY <1>6 DEF NextPool
    <2>4. NonceShape(t)
      BY <1>0, <2>2, <2>3 DEF NonceShape
    <2>5. QED
      BY <2>2, <2>4
  <1>7. QED
    BY <1>4, <1>5, <1>6

(* recover publishes a counter above every nonce it found.                 *)
LEMMA MarkNonces ==
  ASSUME TypeInv, NonceInv, NEW q \in Proc, PublishMark(q)
  PROVE  NonceInv' /\ nextNonce' >= nextNonce
  <1>0. /\ task \in [Proc -> Task] /\ task[q] \in Task /\ NonceShape(task[q])
        /\ nextNonce \in Nat /\ MaxNonce \in Nat
    BY ConstantAssumption DEF TypeInv, TypeOK, NonceInv
  <1>1. PICK t \in Task : t = task'[q]
    BY StepValue DEF Step
  <1>2. /\ task' = [task EXCEPT ![q] = t]
        /\ t.pc = "restore" /\ t.held = {}
        /\ t.out = task[q].out /\ t.found = task[q].found
    BY <1>0, <1>1 DEF PublishMark, Leave, Task
  <1>3. task[q].pc = "mark" /\ task[q].nonce = nextNonce
    BY <1>0 DEF PublishMark, NonceShape
  <1>4. /\ nextNonce' \in Nat /\ nextNonce' >= nextNonce
        /\ \A e \in task[q].found : e.nonce < nextNonce'
    BY <1>0, <1>3 DEF PublishMark, IsRecoveredNext
  <1>5. \A d \in task[q].out : d.nonce < nextNonce'
    <2>1. \A d \in task[q].out : d.nonce < nextNonce /\ d \in Deposit
      BY <1>0 DEF NonceShape, Task
    <2>2. \A d \in task[q].out : d.nonce \in Nat
      BY <2>1, ConstantAssumption DEF Deposit, Nonce
    <2>3. QED
      BY <1>0, <1>4, <2>1, <2>2
  <1>6. NonceShape(t)'
    BY <1>2, <1>4, <1>5 DEF NonceShape
  <1>7. UNCHANGED <<lock, exposed, notes>> /\ t.pc # "idle" /\ task[q].pc # "idle"
    BY <1>2, <1>3 DEF PublishMark
  <1>8. QED
    BY <1>2, <1>4, <1>6, <1>7, CounterStep

LEMMA NextNonces == TypeInv /\ NonceInv /\ [Next]_vars => NonceInv'
  <1> SUFFICES ASSUME TypeInv, NonceInv, [Next]_vars PROVE NonceInv'
    OBVIOUS
  <1>1. ASSUME NEW q \in Proc, Begin(q) PROVE NonceInv'
    BY <1>1, BeginNonces
  <1>2. ASSUME NEW q \in Proc, Step(q) PROVE NonceInv'
    <2>1. CASE Exhausted(q) \/ Return(q)
      BY <2>1, ReleaseStep DEF Exhausted, Return, db
    <2>2. QED
      BY <1>2, <2>1, BurnNonces, ReturnNonces, WriteNonces, QuietNonces, ReadNonces,
         MarkNonces DEF Step
  <1>3. ASSUME NEW q \in Proc, Abort(q) PROVE NonceInv'
    BY <1>3, ReleaseStep DEF Abort, db
  <1>4. CASE MineDeposit \/ MineWithdrawal \/ UNCHANGED vars
    <2>1. UNCHANGED <<exposed, lock, nextNonce, notes, task>>
      BY <1>4 DEF MineDeposit, MineWithdrawal, Mine, db, vars
    <2>2. QED
      BY <2>1 DEF NonceInv, LockProtectsTasks, RecordsBelowCounter, NoNonceReuse, NonceShape
  <1>5. QED
    BY <1>1, <1>2, <1>3, <1>4 DEF Next

LEMMA NonceInvariant == Spec => [](TypeInv /\ NonceInv)
  BY InitType, NextType, InitNonces, NextNonces, PTL DEF Spec

(* No two deposits that callers hold or are about to be given share a      *)
(* nonce.                                                                  *)
THEOREM NonceSafety == Spec => []NoNonceReuse
  <1>1. NonceInv => NoNonceReuse
    BY DEF NonceInv
  <1>2. QED
    BY NonceInvariant, <1>1, PTL

(* Every recorded or exposed note was derived from a nonce below the       *)
(* counter, whatever was interrupted where.                                *)
THEOREM RecordsBelow == Spec => []RecordsBelowCounter
  <1>1. NonceInv => RecordsBelowCounter
    BY DEF NonceInv
  <1>2. QED
    BY NonceInvariant, <1>1, PTL

(* The operation lock keeps two operations from interleaving.              *)
THEOREM LockExclusion == Spec => []LockProtectsTasks
  <1>1. NonceInv => LockProtectsTasks
    BY DEF NonceInv
  <1>2. QED
    BY NonceInvariant, <1>1, PTL

-----------------------------------------------------------------------------
(* The counter, and the abstract ledger.                                   *)

(* A step hands out the deposits that were prepared, or moves the counter  *)
(* up, or touches neither.                                                 *)
LEMMA LedgerStep ==
  ASSUME TypeInv, NonceInv, [Next]_vars
  PROVE  \/ \E q \in Proc : ReturnCalls(q)
         \/ nextNonce' >= nextNonce /\ UNCHANGED exposed
  <1>0. nextNonce \in Nat
    BY ConstantAssumption DEF TypeInv, TypeOK
  <1>1. ASSUME NEW q \in Proc, Begin(q) PROVE UNCHANGED <<nextNonce, exposed>>
    BY <1>1 DEF Begin, PrepareDeposits, Sync, Recover, Notes, Balance, ClearPending, Start, db
  <1>2. ASSUME NEW q \in Proc, Step(q)
        PROVE  \/ ReturnCalls(q)
               \/ nextNonce' >= nextNonce /\ UNCHANGED exposed
    <2>1. CASE PublishMark(q)
      BY <2>1, MarkNonces DEF PublishMark
    <2>2. CASE BurnNonce(q)
      <3>1. task[q].nonce = nextNonce
        BY <2>2 DEF BurnNonce, NonceInv, NonceShape
      <3>2. QED
        BY <1>0, <2>2, <3>1 DEF BurnNonce
    <2>3. CASE Track(q) \/ ReserveNonce(q) \/ Exhausted(q) \/ LoadNotes(q) \/ ReadHeight(q)
               \/ SyncPool(q) \/ PutSnapshot(q) \/ CommitSnapshot(q) \/ Synced(q) \/ Scan(q)
               \/ NextPool(q) \/ LoopEnds(q) \/ Return(q)
      <3>1. UNCHANGED <<nextNonce, exposed>>
        BY <2>3 DEF Track, ReserveNonce, Exhausted, LoadNotes, ReadHeight, SyncPool,
           PutSnapshot, CommitSnapshot, Synced, Scan, NextPool, LoopEnds, Return, db
      <3>2. QED
        BY <1>0, <3>1
    <2>4. CASE PutPending(q) \/ PutApplied(q) \/ PutRestored(q) \/ PutCleared(q)
      <3>1. UNCHANGED <<nextNonce, exposed>>
        BY <2>4 DEF PutPending, PutApplied, PutRestored, PutCleared, PutNotes
      <3>2. QED
        BY <1>0, <3>1
    <2>5. QED
      BY <1>2, <2>1, <2>2, <2>3, <2>4 DEF Step
  <1>3. ASSUME NEW q \in Proc, Abort(q) PROVE UNCHANGED <<nextNonce, exposed>>
    BY <1>3 DEF Abort, db
  <1>4. CASE MineDeposit \/ MineWithdrawal \/ UNCHANGED vars
    <2>1. UNCHANGED <<nextNonce, exposed>>
      BY <1>4 DEF MineDeposit, MineWithdrawal, Mine, db, vars
    <2>2. QED
      BY <1>0, <2>1
  <1>5. QED
    BY <1>0, <1>1, <1>2, <1>3, <1>4 DEF Next

(* No step of any process moves the counter back: an interrupted           *)
(* preparation leaves its nonce burned and a recovery keeps the larger.    *)
THEOREM CounterMonotone == Spec => CounterNeverRewinds
  <1>1. TypeInv /\ NonceInv /\ [Next]_vars => [nextNonce' >= nextNonce]_vars
    <2> SUFFICES ASSUME TypeInv, NonceInv, [Next]_vars PROVE nextNonce' >= nextNonce
      OBVIOUS
    <2>1. nextNonce \in Nat
      BY ConstantAssumption DEF TypeInv, TypeOK
    <2>2. ASSUME NEW q \in Proc, ReturnCalls(q) PROVE nextNonce' = nextNonce
      BY <2>2 DEF ReturnCalls, db
    <2>3. QED
      BY <2>1, <2>2, LedgerStep
  <1>2. QED
    BY NonceInvariant, <1>1, PTL DEF Spec, CounterNeverRewinds

LEMMA HandOutStep ==
  ASSUME TypeInv, NonceInv, NEW q \in Proc, ReturnCalls(q)
  PROVE  Ledger!Next
  <1>1. task[q].out \in SUBSET Deposit
    BY DEF TypeInv, TypeOK, Task
  <1>2. /\ \A d \in task[q].out : d.nonce < nextNonce /\ \A e \in exposed : d.nonce # e.nonce
        /\ \A d, e \in task[q].out : d.nonce = e.nonce => d = e
    BY DEF NonceInv, NonceShape, NoNonceReuse
  <1>3. Ledger!HandOut(task[q].out)
    BY <1>2 DEF ReturnCalls, db, Ledger!HandOut
  <1>4. QED
    BY <1>1, <1>3 DEF Ledger!Next, Deposit, Nonce

(* The vault implements the ledger: with the database's counter as the     *)
(* ledger's, every step of every operation advances it, hands out fresh    *)
(* deposits, or is invisible.                                              *)
THEOREM ImplementsLedger == Spec => LedgerSpec
  <1>1. Init => Ledger!Init
    BY DEF Init, Ledger!Init
  <1>2. TypeInv /\ TypeInv' /\ NonceInv /\ [Next]_vars
          => [Ledger!Next]_<<nextNonce, exposed>>
    <2> SUFFICES ASSUME TypeInv, TypeInv', NonceInv, [Next]_vars
                 PROVE  [Ledger!Next]_<<nextNonce, exposed>>
      OBVIOUS
    <2>1. CASE \E q \in Proc : ReturnCalls(q)
      BY <2>1, HandOutStep
    <2>2. CASE nextNonce' >= nextNonce /\ UNCHANGED exposed
      <3>1. nextNonce \in Nat /\ nextNonce' \in 0..MaxNonce /\ MaxNonce \in Nat
        BY ConstantAssumption DEF TypeInv, TypeOK
      <3>2. CASE nextNonce' = nextNonce
        BY <2>2, <3>2
      <3>3. CASE nextNonce' > nextNonce
        <4>1. Ledger!Advance(nextNonce') /\ nextNonce' \in 1..MaxNonce
          BY <2>2, <3>1, <3>3 DEF Ledger!Advance
        <4>2. QED
          BY <4>1 DEF Ledger!Next
      <3>4. QED
        BY <2>2, <3>1, <3>2, <3>3
    <2>3. QED
      BY <2>1, <2>2, LedgerStep
  <1>3. QED
    BY NonceInvariant, <1>1, <1>2, PTL DEF Spec, LedgerSpec, Ledger!Spec

-----------------------------------------------------------------------------
(* Snapshots and notes: what is committed is what the chain holds, whatever *)
(* was interrupted where.  This builds on the types and the lock: only one  *)
(* task is not idle, so what it has read stays true until it writes.        *)


Preparing == {"reserve"} \cup Reserving
Syncing == {"put", "load_applied", "put_applied", "commit"}
Restoring == {"restore", "load_restored", "put_restored"}
Clearing == {"clear", "load_cleared", "put_cleared"}
Writing == {"put_pending", "put_applied", "put_restored", "put_cleared"}

-----------------------------------------------------------------------------
(* The invariants.                                                         *)

(* Which operation reaches a step, whose loops stay within its pools, and  *)
(* what it has read of the notes when it writes them.                      *)
Flow(q) == LET t == task[q] IN
    /\ t.pc \in {"scan", "mark"} \cup Restoring => t.op = "recover"
    /\ t.pc \in Clearing => t.op = "clear"
    /\ Support(t.todo) \subseteq Support(t.pools)
    /\ t.pc \in {"track", "height", "scan", "mark"} => t.todo = t.pools
    /\ t.pc \in Body => t.pool \in Support(t.pools)
    /\ t.pc \in Writing => t.held = notes[t.pool]
    /\ t.out = {} \/ t.pc \in Preparing
    /\ \A d \in t.out : Record(d.pool, d.nonce) # {}

FlowInv == \A q \in Proc : Flow(q)

(* The chunks below a pool's counter are ranges in chain order, within the *)
(* blocks below its cursor, and leave no event of these out.  Each of them *)
(* has taken a block at least, so the counter never outgrows the chain.    *)
Covered(p) == LET at == cursor[p].block  n == cursor[p].chunks IN
    /\ n < at /\ at <= Height + 1
    /\ \A i \in 0 .. n - 1 : Deployed <= chunk[p][i].from /\ chunk[p][i].to <= at
    /\ \A i, j \in 0 .. n - 1 : j < i => chunk[p][j].to <= chunk[p][i].from
    /\ \A b \in EventBlocks(p, [from |-> Deployed, to |-> at]) :
          \E i \in 0 .. n - 1 : b \in EventBlocks(p, chunk[p][i])

(* A snapshot starts at the cursor and does not pass the chain's head, and *)
(* once it is stored it lies where the cursor will take it in.             *)
Snapped(q) == LET t == task[q] IN
    /\ t.upto <= Height + 1
    /\ t.pc \in Syncing =>
         /\ t.snap.from = cursor[t.pool].block
         /\ t.snap.from <= t.snap.to /\ t.snap.to <= Height + 1
    /\ t.pc \in Syncing \ {"put"} =>
         EventBlocks(t.pool, t.snap) = {} \/ chunk[t.pool][cursor[t.pool].chunks] = t.snap

RangesInv == (\A p \in Pool : Covered(p)) /\ \A q \in Proc : Snapped(q)

(* What a recovery has found is what its pools have committed.             *)
Committed(ps) == UNION {EventsBelow(p, cursor[p].block) : p \in ps}
Found(q) == LET t == task[q] IN
    t.pc \in {"mark"} \cup Restoring \/ (t.pc = "return" /\ t.op = "recover") =>
        t.found = Recovered(Committed(Support(t.pools)))
FoundInv == \A q \in Proc : Found(q)

(* A record never claims more than the chain holds.                        *)
Honest(p) == \A r \in notes[p] :
    /\ r.mined => OnChain("deposit", p, r.nonce)
    /\ r.spent => OnChain("withdrawal", p, r.nonce)
HonestInv == \A p \in Pool : Honest(p)

(* The records of a pool say what a set of events says of their nonces.    *)
Told(p, events) ==
    \A e \in events : \A r \in Record(p, e.nonce) :
        IF e.kind = "deposit" THEN r.mined ELSE r.spent

(* With a fresh seed the chain holds exposed deposits only, the records    *)
(* tell every event below the cursor, and before a commit those of the     *)
(* snapshot too.                                                           *)
ToldInv ==
    /\ \A b \in 1 .. Height : [pool |-> chain[b].pool, nonce |-> chain[b].nonce] \in exposed
    /\ \A p \in Pool : Told(p, EventsBelow(p, cursor[p].block))
    /\ \A q \in Proc : LET t == task[q] IN
         t.pc = "commit" => Told(t.pool, EventsIn(t.pool, t.snap))

(* While endpoints answer from the head: the marks of a pool's records     *)
(* come from blocks below a bound, which a sync reaches and a recovery has *)
(* reached for its pools.                                                  *)
MarkedBelow(p, b) == \A r \in notes[p] :
    /\ r.mined => [kind |-> "deposit", pool |-> p, nonce |-> r.nonce] \in EventsBelow(p, b)
    /\ r.spent => [kind |-> "withdrawal", pool |-> p, nonce |-> r.nonce] \in EventsBelow(p, b)
MarkedFrom(p, at) == \A b \in Nat : at <= b => MarkedBelow(p, b)
Caught(q) == LET t == task[q] IN
    /\ t.pc \in {"range"} \cup Syncing => \A p \in Support(t.pools) :
         /\ MarkedFrom(p, Larger(cursor[p].block, t.upto))
         /\ \/ t.upto <= cursor[p].block
            \/ t.todo[p] > 0
            \/ t.pc \in Syncing /\ t.pool = p
    /\ t.pc \in Syncing => t.snap.to = Larger(t.snap.from, t.upto)
    /\ t.pc \in {"scan", "mark"} \cup Restoring => \A p \in Support(t.pools) :
         MarkedFrom(p, cursor[p].block)
CaughtInv == \A q \in Proc : Caught(q)

(* A withdrawal follows its deposit.                                       *)
Deposited(events) == \A b \in 1 .. Len(events) : events[b].kind = "withdrawal" =>
    \E a \in 1 .. b - 1 : /\ events[a].kind = "deposit" /\ events[a].pool = events[b].pool
                          /\ events[a].nonce = events[b].nonce

(* A recovery has restored the pools its loop has left.                    *)
Restores(p, found) == \A e \in found : e.pool = p =>
    \E r \in Record(p, e.nonce) : r.mined /\ (e.kind = "withdrawal" => r.spent)
Resumed(q) == LET t == task[q] IN
    /\ t.pc \in Restoring => \A p \in Support(t.pools) :
         Restores(p, t.found) \/ t.todo[p] > 0 \/ (t.pc # "restore" /\ t.pool = p)
    /\ t.pc = "return" /\ t.op = "recover" => \A p \in Support(t.pools) : Restores(p, t.found)
RestoredInv == \A q \in Proc : Resumed(q)

-----------------------------------------------------------------------------
(* What each step does.                                                    *)

Others(q) == \A r \in Proc \ {q} : task'[r] = task[r]

(* Where an operation goes on when every pool is synced. *)
AfterSync(op) == CASE op = "clear" -> "clear"
                   [] op = "recover" -> "scan"
                   [] OTHER -> "return"

Ending(q) == Exhausted(q) \/ ReturnCalls(q) \/ Return(q) \/ Abort(q)

(* The steps that touch neither the chain nor what the database knows of it. *)
LEMMA BeginEffect ==
  ASSUME TypeInv, NEW q \in Proc, Begin(q)
  PROVE  /\ Others(q) /\ lock = None /\ task[q].pc = "idle"
         /\ task'[q].pc \in {"track", "height"} /\ task'[q].todo = task'[q].pools
         /\ task'[q].upto = 0 /\ task'[q].out = {}
         /\ UNCHANGED <<chain, exposed, db>>
  <1>0. task \in [Proc -> Task]
    BY DEF TypeInv, TypeOK
  <1>1. ASSUME NEW o, NEW c \in {"track", "height"}, NEW bag, NEW ns, Start(q, o, c, bag, ns)
        PROVE  /\ Others(q) /\ lock = None /\ task[q].pc = "idle"
               /\ task'[q].pc \in {"track", "height"} /\ task'[q].todo = task'[q].pools
               /\ task'[q].upto = 0 /\ task'[q].out = {}
               /\ UNCHANGED <<chain, exposed, db>>
    BY <1>0, <1>1 DEF Start, Others, IdleTask
  <1>2. QED
    BY <1>1 DEF Begin, PrepareDeposits, Sync, Recover, Notes, Balance, ClearPending

LEMMA EndingEffect ==
  ASSUME TypeInv, NEW q \in Proc, Ending(q)
  PROVE  /\ Others(q) /\ task[q].pc # "idle" /\ task'[q] = IdleTask
         /\ UNCHANGED <<chain, db>>
  <1>0. task \in [Proc -> Task]
    BY DEF TypeInv, TypeOK
  <1>1. QED
    BY <1>0 DEF Ending, Exhausted, ReturnCalls, Return, Abort, Release, Others

LEMMA TrackEffect ==
  ASSUME TypeInv, NEW q \in Proc, Track(q)
  PROVE  /\ Others(q) /\ task[q].pc = "track"
         /\ task'[q].pc = (IF task[q].op = "prepare" THEN "reserve" ELSE "height")
         /\ task'[q].op = task[q].op /\ task'[q].pools = task[q].pools
         /\ task'[q].todo = task[q].todo /\ task'[q].pool = task[q].pool
         /\ task'[q].upto = task[q].upto /\ task'[q].snap = task[q].snap
         /\ task'[q].held = task[q].held /\ task'[q].out = task[q].out
         /\ task'[q].found = task[q].found
         /\ UNCHANGED <<chain, exposed, lock, nextNonce, cursor, chunk, notes>>
  <1>0. task \in [Proc -> Task] /\ task[q] \in Task
    BY DEF TypeInv, TypeOK
  <1>1. /\ Others(q) /\ task'[q].pc = (IF task[q].op = "prepare" THEN "reserve" ELSE "height")
        /\ task'[q].op = task[q].op /\ task'[q].pools = task[q].pools
        /\ task'[q].todo = task[q].todo /\ task'[q].pool = task[q].pool
        /\ task'[q].upto = task[q].upto /\ task'[q].snap = task[q].snap
        /\ task'[q].held = task[q].held /\ task'[q].out = task[q].out
        /\ task'[q].found = task[q].found
    BY <1>0 DEF Track, Others, Task
  <1>2. QED
    BY <1>1 DEF Track, db

LEMMA ReserveNonceEffect ==
  ASSUME TypeInv, NEW q \in Proc, ReserveNonce(q)
  PROVE  /\ Others(q) /\ task[q].pc = "reserve"
         /\ task'[q].pc = "burn" /\ task'[q].op = task[q].op
         /\ task'[q].pools = task[q].pools
         /\ task'[q].upto = task[q].upto /\ task'[q].snap = task[q].snap
         /\ task'[q].held = task[q].held /\ task'[q].out = task[q].out
         /\ task'[q].found = task[q].found
         /\ \E p \in Support(task[q].todo) :
               task'[q].todo = [task[q].todo EXCEPT ![p] = @ - 1] /\ task'[q].pool = p
         /\ UNCHANGED <<chain, exposed, lock, nextNonce, tracked, cursor, chunk, notes>>
  <1>0. task \in [Proc -> Task] /\ task[q] \in Task
    BY DEF TypeInv, TypeOK
  <1>1. PICK p \in Support(task[q].todo) :
          task' = [task EXCEPT ![q].todo[p] = @ - 1, ![q].pool = p,
                               ![q].nonce = nextNonce, ![q].pc = "burn"]
    BY DEF ReserveNonce
  <1>2. /\ Others(q) /\ task'[q].pc = "burn" /\ task'[q].op = task[q].op
        /\ task'[q].pools = task[q].pools /\ task'[q].todo = [task[q].todo EXCEPT ![p] = @ - 1]
        /\ task'[q].pool = p /\ task'[q].upto = task[q].upto /\ task'[q].snap = task[q].snap
        /\ task'[q].held = task[q].held /\ task'[q].out = task[q].out
        /\ task'[q].found = task[q].found
    BY <1>0, <1>1 DEF Others, Task
  <1>3. QED
    BY <1>1, <1>2 DEF ReserveNonce, db

LEMMA BurnNonceEffect ==
  ASSUME TypeInv, NEW q \in Proc, BurnNonce(q)
  PROVE  /\ Others(q) /\ task[q].pc = "burn"
         /\ task'[q].pc = "load_pending" /\ task'[q].op = task[q].op
         /\ task'[q].pools = task[q].pools /\ task'[q].todo = task[q].todo
         /\ task'[q].pool = task[q].pool /\ task'[q].upto = task[q].upto
         /\ task'[q].snap = task[q].snap /\ task'[q].held = task[q].held
         /\ task'[q].out = task[q].out /\ task'[q].found = task[q].found
         /\ UNCHANGED <<chain, exposed, lock, tracked, cursor, chunk, notes>>
  <1>0. task \in [Proc -> Task] /\ task[q] \in Task
    BY DEF TypeInv, TypeOK
  <1>1. /\ Others(q) /\ task'[q].pc = "load_pending" /\ task'[q].op = task[q].op
        /\ task'[q].pools = task[q].pools /\ task'[q].todo = task[q].todo
        /\ task'[q].pool = task[q].pool /\ task'[q].upto = task[q].upto
        /\ task'[q].snap = task[q].snap /\ task'[q].held = task[q].held
        /\ task'[q].out = task[q].out /\ task'[q].found = task[q].found
    BY <1>0 DEF BurnNonce, Others, Task
  <1>2. QED
    BY <1>1 DEF BurnNonce, db

LEMMA LoadNotesEffect ==
  ASSUME TypeInv, NEW q \in Proc, LoadNotes(q)
  PROVE  /\ Others(q) /\ task[q].pc \in DOMAIN AfterLoad
         /\ task'[q].pc = AfterLoad[task[q].pc] /\ task'[q].op = task[q].op
         /\ task'[q].pools = task[q].pools /\ task'[q].todo = task[q].todo
         /\ task'[q].pool = task[q].pool /\ task'[q].upto = task[q].upto
         /\ task'[q].snap = task[q].snap /\ task'[q].held = notes[task[q].pool]
         /\ task'[q].out = task[q].out /\ task'[q].found = task[q].found
         /\ UNCHANGED <<chain, exposed, lock, nextNonce, tracked, cursor, chunk, notes>>
  <1>0. task \in [Proc -> Task] /\ task[q] \in Task
    BY DEF TypeInv, TypeOK
  <1>1. /\ Others(q) /\ task'[q].pc = AfterLoad[task[q].pc] /\ task'[q].op = task[q].op
        /\ task'[q].pools = task[q].pools /\ task'[q].todo = task[q].todo
        /\ task'[q].pool = task[q].pool /\ task'[q].upto = task[q].upto
        /\ task'[q].snap = task[q].snap /\ task'[q].held = notes[task[q].pool]
        /\ task'[q].out = task[q].out /\ task'[q].found = task[q].found
    BY <1>0 DEF LoadNotes, Others, Task
  <1>2. QED
    BY <1>1 DEF LoadNotes, db

LEMMA PutPendingEffect ==
  ASSUME TypeInv, NEW q \in Proc, PutPending(q)
  PROVE  /\ Others(q) /\ task[q].pc = "put_pending"
         /\ PutNotes(q, task[q].held \cup {[nonce |-> task[q].nonce, mined |-> FALSE, spent |-> FALSE]})
         /\ task'[q].pc = "reserve" /\ task'[q].op = task[q].op
         /\ task'[q].pools = task[q].pools /\ task'[q].todo = task[q].todo
         /\ task'[q].pool = None /\ task'[q].upto = task[q].upto /\ task'[q].snap = NoRange
         /\ task'[q].held = {}
         /\ task'[q].out = task[q].out \cup {[pool |-> task[q].pool, nonce |-> task[q].nonce]}
         /\ task'[q].found = task[q].found
         /\ UNCHANGED <<chain, exposed, lock, nextNonce, tracked, cursor, chunk>>
  <1>0. task \in [Proc -> Task] /\ task[q] \in Task
    BY DEF TypeInv, TypeOK
  <1>1. /\ Others(q) /\ task'[q].pc = "reserve" /\ task'[q].op = task[q].op
        /\ task'[q].pools = task[q].pools /\ task'[q].todo = task[q].todo
        /\ task'[q].pool = None /\ task'[q].upto = task[q].upto /\ task'[q].snap = NoRange
        /\ task'[q].held = {}
        /\ task'[q].out = task[q].out \cup {[pool |-> task[q].pool, nonce |-> task[q].nonce]}
        /\ task'[q].found = task[q].found
    BY <1>0 DEF PutPending, Others, Leave, Task
  <1>2. QED
    BY <1>1 DEF PutPending, PutNotes

LEMMA ReadHeightEffect ==
  ASSUME TypeInv, NEW q \in Proc, ReadHeight(q)
  PROVE  /\ Others(q) /\ task[q].pc = "height" /\ task'[q].pc = "range"
         /\ task'[q].op = task[q].op /\ task'[q].pools = task[q].pools
         /\ task'[q].todo = task[q].todo /\ task'[q].pool = task[q].pool
         /\ task'[q].snap = task[q].snap /\ task'[q].held = task[q].held
         /\ task'[q].out = task[q].out /\ task'[q].found = task[q].found
         /\ \E h \in IF Lagging THEN 0..Height ELSE {Height} : task'[q].upto = h + 1
         /\ UNCHANGED <<chain, exposed, lock, nextNonce, tracked, cursor, chunk, notes>>
  <1>0. task \in [Proc -> Task] /\ task[q] \in Task
    BY DEF TypeInv, TypeOK
  <1>1. PICK h \in IF Lagging THEN 0..Height ELSE {Height} :
          task' = [task EXCEPT ![q].upto = h + 1, ![q].pc = "range"]
    BY DEF ReadHeight
  <1>2. /\ Others(q) /\ task'[q].pc = "range" /\ task'[q].op = task[q].op
        /\ task'[q].pools = task[q].pools /\ task'[q].todo = task[q].todo
        /\ task'[q].pool = task[q].pool /\ task'[q].upto = h + 1 /\ task'[q].snap = task[q].snap
        /\ task'[q].held = task[q].held /\ task'[q].out = task[q].out
        /\ task'[q].found = task[q].found
    BY <1>0, <1>1 DEF Others, Task
  <1>3. QED
    BY <1>1, <1>2 DEF ReadHeight, db

LEMMA SyncPoolEffect ==
  ASSUME TypeInv, NEW q \in Proc, SyncPool(q)
  PROVE  /\ Others(q) /\ task[q].pc = "range" /\ task'[q].pc = "put"
         /\ \E p \in Support(task[q].todo) :
              /\ task'[q].todo = [task[q].todo EXCEPT ![p] = @ - 1] /\ task'[q].pool = p
              /\ task'[q].snap.from = cursor[p].block
              /\ task'[q].snap.to \in SyncedTo(cursor[p].block, task[q].upto)
         /\ task'[q].op = task[q].op /\ task'[q].pools = task[q].pools
         /\ task'[q].upto = task[q].upto /\ task'[q].held = task[q].held
         /\ task'[q].out = task[q].out /\ task'[q].found = task[q].found
         /\ UNCHANGED <<chain, exposed, lock, nextNonce, tracked, cursor, chunk, notes>>
  <1>0. task \in [Proc -> Task] /\ task[q] \in Task
    BY DEF TypeInv, TypeOK
  <1>1. PICK p \in Support(task[q].todo) : \E to \in SyncedTo(cursor[p].block, task[q].upto) :
          task' = [task EXCEPT ![q].todo[p] = @ - 1, ![q].pool = p, ![q].pc = "put",
                               ![q].snap = [from |-> cursor[p].block, to |-> to]]
    BY DEF SyncPool
  <1>2. PICK to \in SyncedTo(cursor[p].block, task[q].upto) :
          task' = [task EXCEPT ![q].todo[p] = @ - 1, ![q].pool = p, ![q].pc = "put",
                               ![q].snap = [from |-> cursor[p].block, to |-> to]]
    BY <1>1
  <1>3. /\ Others(q) /\ task'[q].pc = "put" /\ task'[q].op = task[q].op
        /\ task'[q].todo = [task[q].todo EXCEPT ![p] = @ - 1] /\ task'[q].pool = p
        /\ task'[q].snap = [from |-> cursor[p].block, to |-> to]
        /\ task'[q].pools = task[q].pools /\ task'[q].found = task[q].found
        /\ task'[q].upto = task[q].upto /\ task'[q].held = task[q].held
        /\ task'[q].out = task[q].out
    BY <1>0, <1>2 DEF Others, Task
  <1>4. task'[q].snap.from = cursor[p].block /\ task'[q].snap.to = to
    BY <1>3
  <1>5. task[q].pc = "range" /\ UNCHANGED <<chain, exposed, lock, db>>
    BY DEF SyncPool
  <1>6. QED
    BY <1>3, <1>4, <1>5 DEF db

LEMMA PutSnapshotEffect ==
  ASSUME TypeInv, NEW q \in Proc, PutSnapshot(q)
  PROVE  /\ Others(q) /\ task[q].pc = "put"
         /\ chunk' = IF EventBlocks(task[q].pool, task[q].snap) = {} THEN chunk
                     ELSE [chunk EXCEPT ![task[q].pool][cursor[task[q].pool].chunks] = task[q].snap]
         /\ task'[q].pc = "load_applied" /\ task'[q].op = task[q].op
         /\ task'[q].pools = task[q].pools /\ task'[q].todo = task[q].todo
         /\ task'[q].pool = task[q].pool /\ task'[q].upto = task[q].upto
         /\ task'[q].snap = task[q].snap /\ task'[q].held = task[q].held
         /\ task'[q].out = task[q].out /\ task'[q].found = task[q].found
         /\ UNCHANGED <<chain, exposed, lock, nextNonce, tracked, cursor, notes>>
  <1>0. task \in [Proc -> Task] /\ task[q] \in Task
    BY DEF TypeInv, TypeOK
  <1>1. /\ Others(q) /\ task'[q].pc = "load_applied" /\ task'[q].op = task[q].op
        /\ task'[q].pools = task[q].pools /\ task'[q].todo = task[q].todo
        /\ task'[q].pool = task[q].pool /\ task'[q].upto = task[q].upto
        /\ task'[q].snap = task[q].snap /\ task'[q].held = task[q].held
        /\ task'[q].out = task[q].out /\ task'[q].found = task[q].found
    BY <1>0 DEF PutSnapshot, Others, Task
  <1>2. QED
    BY <1>1 DEF PutSnapshot, db

LEMMA PutAppliedEffect ==
  ASSUME TypeInv, NEW q \in Proc, PutApplied(q)
  PROVE  /\ Others(q) /\ task[q].pc = "put_applied"
         /\ PutNotes(q, Applied(task[q].held, EventsIn(task[q].pool, task[q].snap)))
         /\ task'[q].pc = "commit" /\ task'[q].op = task[q].op /\ task'[q].pools = task[q].pools
         /\ task'[q].todo = task[q].todo /\ task'[q].pool = task[q].pool
         /\ task'[q].upto = task[q].upto /\ task'[q].snap = task[q].snap
         /\ task'[q].held = task[q].held /\ task'[q].out = task[q].out
         /\ task'[q].found = task[q].found
         /\ UNCHANGED <<chain, exposed, lock, nextNonce, tracked, cursor, chunk>>
  <1>0. task \in [Proc -> Task] /\ task[q] \in Task
    BY DEF TypeInv, TypeOK
  <1>1. /\ Others(q) /\ task'[q].pc = "commit" /\ task'[q].op = task[q].op
        /\ task'[q].pools = task[q].pools /\ task'[q].todo = task[q].todo
        /\ task'[q].pool = task[q].pool /\ task'[q].upto = task[q].upto
        /\ task'[q].snap = task[q].snap /\ task'[q].held = task[q].held
        /\ task'[q].out = task[q].out /\ task'[q].found = task[q].found
    BY <1>0 DEF PutApplied, Others, Task
  <1>2. QED
    BY <1>1 DEF PutApplied, PutNotes

LEMMA CommitSnapshotEffect ==
  ASSUME TypeInv, NEW q \in Proc, CommitSnapshot(q)
  PROVE  /\ Others(q) /\ task[q].pc = "commit"
         /\ cursor' = [cursor EXCEPT ![task[q].pool] =
              [block |-> task[q].snap.to,
               chunks |-> @.chunks + IF EventBlocks(task[q].pool, task[q].snap) = {} THEN 0 ELSE 1]]
         /\ task'[q].pc = "range" /\ task'[q].op = task[q].op /\ task'[q].pools = task[q].pools
         /\ task'[q].todo = task[q].todo /\ task'[q].pool = None /\ task'[q].upto = task[q].upto
         /\ task'[q].snap = NoRange /\ task'[q].held = {} /\ task'[q].out = task[q].out
         /\ task'[q].found = task[q].found
         /\ UNCHANGED <<chain, exposed, lock, nextNonce, tracked, chunk, notes>>
  <1>0. task \in [Proc -> Task] /\ task[q] \in Task
    BY DEF TypeInv, TypeOK
  <1>1. /\ Others(q) /\ task'[q].pc = "range" /\ task'[q].op = task[q].op
        /\ task'[q].pools = task[q].pools /\ task'[q].todo = task[q].todo
        /\ task'[q].pool = None /\ task'[q].upto = task[q].upto /\ task'[q].snap = NoRange
        /\ task'[q].held = {} /\ task'[q].out = task[q].out /\ task'[q].found = task[q].found
    BY <1>0 DEF CommitSnapshot, Others, Leave, Task
  <1>2. QED
    BY <1>1 DEF CommitSnapshot, db

LEMMA SyncedEffect ==
  ASSUME TypeInv, NEW q \in Proc, Synced(q)
  PROVE  /\ Others(q) /\ task[q].pc = "range" /\ Support(task[q].todo) = {}
         /\ task'[q].pc = AfterSync(task[q].op) /\ task'[q].op = task[q].op
         /\ task'[q].pools = task[q].pools /\ task'[q].todo = task[q].pools
         /\ task'[q].pool = task[q].pool /\ task'[q].upto = 0 /\ task'[q].snap = task[q].snap
         /\ task'[q].held = task[q].held /\ task'[q].out = task[q].out
         /\ task'[q].found = task[q].found
         /\ UNCHANGED <<chain, exposed, lock, nextNonce, tracked, cursor, chunk, notes>>
  <1>0. task \in [Proc -> Task] /\ task[q] \in Task
    BY DEF TypeInv, TypeOK
  <1>1. /\ Others(q) /\ task'[q].pc = AfterSync(task[q].op) /\ task'[q].op = task[q].op
        /\ task'[q].pools = task[q].pools /\ task'[q].todo = task[q].pools
        /\ task'[q].pool = task[q].pool /\ task'[q].upto = 0 /\ task'[q].snap = task[q].snap
        /\ task'[q].held = task[q].held /\ task'[q].out = task[q].out
        /\ task'[q].found = task[q].found
    BY <1>0 DEF Synced, AfterSync, Others, Task
  <1>2. QED
    BY <1>1 DEF Synced, db

LEMMA ScanEffect ==
  ASSUME TypeInv, NEW q \in Proc, Scan(q)
  PROVE  /\ Others(q) /\ task[q].pc = "scan"
         /\ task'[q].pc = "mark" /\ task'[q].op = task[q].op /\ task'[q].pools = task[q].pools
         /\ task'[q].todo = task[q].todo /\ task'[q].pool = task[q].pool
         /\ task'[q].upto = task[q].upto /\ task'[q].snap = task[q].snap
         /\ task'[q].held = task[q].held /\ task'[q].out = task[q].out
         /\ task'[q].found = Recovered(SnapshotEvents(Support(task[q].pools)))
         /\ UNCHANGED <<chain, exposed, lock, nextNonce, tracked, cursor, chunk, notes>>
  <1>0. task \in [Proc -> Task] /\ task[q] \in Task
    BY DEF TypeInv, TypeOK
  <1>1. /\ Others(q) /\ task'[q].pc = "mark" /\ task'[q].op = task[q].op
        /\ task'[q].pools = task[q].pools /\ task'[q].todo = task[q].todo
        /\ task'[q].pool = task[q].pool /\ task'[q].upto = task[q].upto
        /\ task'[q].snap = task[q].snap /\ task'[q].held = task[q].held
        /\ task'[q].out = task[q].out
        /\ task'[q].found = Recovered(SnapshotEvents(Support(task[q].pools)))
    BY <1>0 DEF Scan, Others, Task
  <1>2. QED
    BY <1>1 DEF Scan, db

LEMMA PublishMarkEffect ==
  ASSUME TypeInv, NEW q \in Proc, PublishMark(q)
  PROVE  /\ Others(q) /\ task[q].pc = "mark"
         /\ task'[q].pc = "restore" /\ task'[q].op = task[q].op
         /\ task'[q].pools = task[q].pools /\ task'[q].todo = task[q].todo
         /\ task'[q].pool = None /\ task'[q].upto = task[q].upto /\ task'[q].snap = NoRange
         /\ task'[q].held = {} /\ task'[q].out = task[q].out /\ task'[q].found = task[q].found
         /\ UNCHANGED <<chain, exposed, lock, tracked, cursor, chunk, notes>>
  <1>0. task \in [Proc -> Task] /\ task[q] \in Task
    BY DEF TypeInv, TypeOK
  <1>1. /\ Others(q) /\ task'[q].pc = "restore" /\ task'[q].op = task[q].op
        /\ task'[q].pools = task[q].pools /\ task'[q].todo = task[q].todo
        /\ task'[q].pool = None /\ task'[q].upto = task[q].upto /\ task'[q].snap = NoRange
        /\ task'[q].held = {} /\ task'[q].out = task[q].out /\ task'[q].found = task[q].found
    BY <1>0 DEF PublishMark, Others, Leave, Task
  <1>2. QED
    BY <1>1 DEF PublishMark, db

LEMMA NextPoolEffect ==
  ASSUME TypeInv, NEW q \in Proc, NextPool(q)
  PROVE  /\ Others(q) /\ task[q].pc \in {"restore", "clear"}
         /\ task'[q].pc = (IF task[q].pc = "clear" THEN "load_cleared" ELSE "load_restored")
         /\ task'[q].op = task[q].op /\ task'[q].pools = task[q].pools
         /\ task'[q].upto = task[q].upto /\ task'[q].snap = task[q].snap
         /\ task'[q].held = task[q].held /\ task'[q].out = task[q].out
         /\ task'[q].found = task[q].found
         /\ \E p \in Support(task[q].todo) :
               task'[q].todo = [task[q].todo EXCEPT ![p] = @ - 1] /\ task'[q].pool = p
         /\ UNCHANGED <<chain, exposed, lock, nextNonce, tracked, cursor, chunk, notes>>
  <1>0. task \in [Proc -> Task] /\ task[q] \in Task
    BY DEF TypeInv, TypeOK
  <1>1. PICK p \in Support(task[q].todo) :
          task' = [task EXCEPT ![q].todo[p] = @ - 1, ![q].pool = p,
                ![q].pc = IF task[q].pc = "clear" THEN "load_cleared" ELSE "load_restored"]
    BY DEF NextPool
  <1>2. /\ Others(q)
        /\ task'[q].pc = (IF task[q].pc = "clear" THEN "load_cleared" ELSE "load_restored")
        /\ task'[q].op = task[q].op /\ task'[q].pools = task[q].pools
        /\ task'[q].todo = [task[q].todo EXCEPT ![p] = @ - 1] /\ task'[q].pool = p
        /\ task'[q].upto = task[q].upto /\ task'[q].snap = task[q].snap
        /\ task'[q].held = task[q].held /\ task'[q].out = task[q].out
        /\ task'[q].found = task[q].found
    BY <1>0, <1>1 DEF Others, Task
  <1>3. QED
    BY <1>1, <1>2 DEF NextPool, db

LEMMA PutRestoredEffect ==
  ASSUME TypeInv, NEW q \in Proc, PutRestored(q)
  PROVE  /\ Others(q) /\ task[q].pc = "put_restored" /\ PutNotes(q, Restored(task[q]))
         /\ task'[q].pc = "restore" /\ task'[q].op = task[q].op
         /\ task'[q].pools = task[q].pools /\ task'[q].todo = task[q].todo
         /\ task'[q].pool = None /\ task'[q].upto = task[q].upto /\ task'[q].snap = NoRange
         /\ task'[q].held = {} /\ task'[q].out = task[q].out /\ task'[q].found = task[q].found
         /\ UNCHANGED <<chain, exposed, lock, nextNonce, tracked, cursor, chunk>>
  <1>0. task \in [Proc -> Task] /\ task[q] \in Task
    BY DEF TypeInv, TypeOK
  <1>1. /\ Others(q) /\ task'[q].pc = "restore" /\ task'[q].op = task[q].op
        /\ task'[q].pools = task[q].pools /\ task'[q].todo = task[q].todo
        /\ task'[q].pool = None /\ task'[q].upto = task[q].upto /\ task'[q].snap = NoRange
        /\ task'[q].held = {} /\ task'[q].out = task[q].out /\ task'[q].found = task[q].found
    BY <1>0 DEF PutRestored, Others, Leave, Task
  <1>2. QED
    BY <1>1 DEF PutRestored, PutNotes

LEMMA PutClearedEffect ==
  ASSUME TypeInv, NEW q \in Proc, PutCleared(q)
  PROVE  /\ Others(q) /\ task[q].pc = "put_cleared" /\ PutNotes(q, Retained(task[q]))
         /\ task'[q].pc = "clear" /\ task'[q].op = task[q].op /\ task'[q].pools = task[q].pools
         /\ task'[q].todo = task[q].todo /\ task'[q].pool = None /\ task'[q].upto = task[q].upto
         /\ task'[q].snap = NoRange /\ task'[q].held = {} /\ task'[q].out = task[q].out
         /\ task'[q].found = task[q].found
         /\ UNCHANGED <<chain, exposed, lock, nextNonce, tracked, cursor, chunk>>
  <1>0. task \in [Proc -> Task] /\ task[q] \in Task
    BY DEF TypeInv, TypeOK
  <1>1. /\ Others(q) /\ task'[q].pc = "clear" /\ task'[q].op = task[q].op
        /\ task'[q].pools = task[q].pools /\ task'[q].todo = task[q].todo
        /\ task'[q].pool = None /\ task'[q].upto = task[q].upto /\ task'[q].snap = NoRange
        /\ task'[q].held = {} /\ task'[q].out = task[q].out /\ task'[q].found = task[q].found
    BY <1>0 DEF PutCleared, Others, Leave, Task
  <1>2. QED
    BY <1>1 DEF PutCleared, PutNotes

LEMMA LoopEndsEffect ==
  ASSUME TypeInv, NEW q \in Proc, LoopEnds(q)
  PROVE  /\ Others(q) /\ task[q].pc \in {"restore", "clear"} /\ Support(task[q].todo) = {}
         /\ task'[q].pc = "return" /\ task'[q].op = task[q].op /\ task'[q].pools = task[q].pools
         /\ task'[q].todo = task[q].todo /\ task'[q].pool = task[q].pool
         /\ task'[q].upto = task[q].upto /\ task'[q].snap = task[q].snap
         /\ task'[q].held = task[q].held /\ task'[q].out = task[q].out
         /\ task'[q].found = task[q].found
         /\ UNCHANGED <<chain, exposed, lock, nextNonce, tracked, cursor, chunk, notes>>
  <1>0. task \in [Proc -> Task] /\ task[q] \in Task
    BY DEF TypeInv, TypeOK
  <1>1. /\ Others(q) /\ task'[q].pc = "return" /\ task'[q].op = task[q].op
        /\ task'[q].pools = task[q].pools /\ task'[q].todo = task[q].todo
        /\ task'[q].pool = task[q].pool /\ task'[q].upto = task[q].upto
        /\ task'[q].snap = task[q].snap /\ task'[q].held = task[q].held
        /\ task'[q].out = task[q].out /\ task'[q].found = task[q].found
    BY <1>0 DEF LoopEnds, Others, Task
  <1>2. QED
    BY <1>1 DEF LoopEnds, db

-----------------------------------------------------------------------------
(* Nobody else works while a process does.                                 *)

LEMMA Working ==
  ASSUME TypeInv, NonceInv, NEW q \in Proc, task[q].pc # "idle", Others(q)
  PROVE  \A r \in Proc \ {q} :
           task[r].pc = "idle" /\ task[r].out = {} /\ task'[r] = task[r]
  BY OthersIdle DEF Others

LEMMA AllIdle ==
  ASSUME NonceInv, lock = None
  PROVE  \A r \in Proc : task[r].pc = "idle"
  BY ConstantAssumption DEF NonceInv, LockProtectsTasks

LEMMA IdleFields ==
  /\ IdleTask.pc = "idle" /\ IdleTask.out = {} /\ IdleTask.upto = 0
  /\ IdleTask.todo = IdleTask.pools /\ IdleTask.snap = NoRange
  BY DEF IdleTask

(* A loop takes a pool from its list, and the others stay as they are. *)
LEMMA TodoStep ==
  ASSUME NEW bag \in PoolBag, NEW p \in Support(bag)
  PROVE  /\ p \in Pool /\ bag[p] \in Nat /\ bag[p] > 0
         /\ Support([bag EXCEPT ![p] = @ - 1]) \subseteq Support(bag)
         /\ \A x \in Pool : x # p => [bag EXCEPT ![p] = @ - 1][x] = bag[x]
  BY DEF PoolBag, Support

(* What a step of a process says of the notes it writes. *)
LEMMA NotesWritten ==
  ASSUME TypeInv, NEW q \in Proc, NEW records, PutNotes(q, records), task[q].pool \in Pool
  PROVE  /\ notes'[task[q].pool] = records
         /\ \A p \in Pool : p # task[q].pool => notes'[p] = notes[p]
         /\ UNCHANGED <<chain, exposed, lock, nextNonce, tracked, cursor, chunk>>
  BY DEF PutNotes, TypeInv, TypeOK

-----------------------------------------------------------------------------
(* Which operation reaches a step, and what it has prepared.               *)

LEMMA InitFlow == Init => FlowInv
  <1>1. ASSUME Init, NEW q \in Proc PROVE Flow(q)
    <2>1. task[q] = IdleTask
      BY <1>1 DEF Init
    <2>2. QED
      BY <2>1, IdleFields DEF Flow, Restoring, Clearing, Body, Reserving, Writing
  <1>2. QED
    BY <1>1 DEF FlowInv

LEMMA FlowOfIdle ==
  ASSUME NEW q \in Proc, task[q].pc = "idle", task[q].out = {},
         Support(task[q].todo) \subseteq Support(task[q].pools)
  PROVE  Flow(q)
  BY DEF Flow, Restoring, Clearing, Body, Reserving, Writing

LEMMA OthersFlow ==
  ASSUME TypeInv, NonceInv, FlowInv, NEW q \in Proc, task[q].pc # "idle", Others(q), Flow(q)'
  PROVE  FlowInv'
  <1>1. ASSUME NEW r \in Proc \ {q} PROVE Flow(r)'
    <2>1. task[r].pc = "idle" /\ task[r].out = {} /\ task'[r] = task[r]
      BY Working
    <2>2. Support(task[r].todo) \subseteq Support(task[r].pools)
      BY DEF FlowInv, Flow
    <2>3. QED
      BY <2>1, <2>2 DEF Flow, Restoring, Clearing, Body, Reserving, Writing, Support
  <1>2. QED
    BY <1>1 DEF FlowInv

LEMMA StepFlow ==
  ASSUME TypeInv, NonceInv, FlowInv, NEW q \in Proc, Step(q), ~Ending(q)
  PROVE  FlowInv'
  <1>0. /\ task[q] \in Task /\ Shape(task[q]) /\ Flow(q)
        /\ task[q].todo \in PoolBag
    BY DEF TypeInv, TypeOK, FlowInv, Task
  <1>s. SUFFICES task[q].pc # "idle" /\ Others(q) /\ Flow(q)'
    BY OthersFlow
  <1> USE DEF Flow, Preparing, Restoring, Clearing, Writing, Body, Reserving
  <1>1. CASE Track(q)
    BY <1>0, <1>1, TrackEffect DEF Support, Record
  <1>2. CASE ReserveNonce(q)
    <2>1. PICK p \in Support(task[q].todo) :
            /\ task'[q].todo = [task[q].todo EXCEPT ![p] = @ - 1]
            /\ task'[q].pool = p
      BY <1>2, ReserveNonceEffect
    <2>2. Support(task'[q].todo) \subseteq Support(task[q].todo)
      BY <1>0, <2>1, TodoStep
    <2>3. QED
      BY <1>0, <1>2, <2>1, <2>2, ReserveNonceEffect DEF Record
  <1>3. CASE BurnNonce(q)
    BY <1>0, <1>3, BurnNonceEffect DEF Support, Record
  <1>4. CASE LoadNotes(q)
    BY <1>0, <1>4, LoadNotesEffect DEF Support, Record, AfterLoad
  <1>5. CASE PutPending(q)
    <2> DEFINE d == [pool |-> task[q].pool, nonce |-> task[q].nonce]
               x == [nonce |-> task[q].nonce, mined |-> FALSE, spent |-> FALSE]
    <2>1. /\ task[q].pc = "put_pending" /\ PutNotes(q, task[q].held \cup {x})
          /\ task'[q].out = task[q].out \cup {d}
      BY <1>5, PutPendingEffect
    <2>2. task[q].pool \in Pool /\ task[q].held = notes[task[q].pool]
      BY <1>0, <2>1 DEF Shape
    <2>3. /\ notes'[task[q].pool] = notes[task[q].pool] \cup {x}
          /\ \A p \in Pool : p # task[q].pool => notes'[p] = notes[p]
      BY <2>1, <2>2, NotesWritten
    <2>4. d.pool = task[q].pool /\ d.nonce = task[q].nonce /\ x.nonce = task[q].nonce
      OBVIOUS
    <2>5. \A e \in task[q].out : e.pool \in Pool
      BY <1>0 DEF Task, Deposit
    <2>6. \A e \in task[q].out \cup {d} : \E r \in notes'[e.pool] : r.nonce = e.nonce
      <3>1. \A e \in task[q].out : \E r \in notes[e.pool] : r.nonce = e.nonce
        BY <1>0 DEF Record
      <3>2. QED
        <4> HIDE DEF d, x
        <4> QED BY <2>2, <2>3, <2>4, <2>5, <3>1
    <2>7. \A e \in task'[q].out : Record(e.pool, e.nonce)' # {}
      <3> HIDE DEF d
      <3> QED BY <2>1, <2>6 DEF Record
    <2>8. QED
      BY <1>0, <1>5, <2>7, PutPendingEffect DEF Support
  <1>6. CASE ReadHeight(q)
    BY <1>0, <1>6, ReadHeightEffect DEF Support, Record
  <1>7. CASE SyncPool(q)
    <2>1. PICK p \in Support(task[q].todo) :
            /\ task'[q].todo = [task[q].todo EXCEPT ![p] = @ - 1]
            /\ task'[q].pool = p
      BY <1>7, SyncPoolEffect
    <2>2. Support(task'[q].todo) \subseteq Support(task[q].todo)
      BY <1>0, <2>1, TodoStep
    <2>3. QED
      BY <1>0, <1>7, <2>1, <2>2, SyncPoolEffect DEF Record
  <1>8. CASE PutSnapshot(q)
    BY <1>0, <1>8, PutSnapshotEffect DEF Support, Record
  <1>9. CASE PutApplied(q)
    BY <1>0, <1>9, PutAppliedEffect DEF Support, Record
  <1>10. CASE CommitSnapshot(q)
    BY <1>0, <1>10, CommitSnapshotEffect DEF Support, Record
  <1>11. CASE Synced(q)
    BY <1>0, <1>11, SyncedEffect DEF Support, Record, AfterSync
  <1>12. CASE Scan(q)
    BY <1>0, <1>12, ScanEffect DEF Support, Record
  <1>13. CASE PublishMark(q)
    BY <1>0, <1>13, PublishMarkEffect DEF Support, Record
  <1>14. CASE NextPool(q)
    <2>1. PICK p \in Support(task[q].todo) :
            /\ task'[q].todo = [task[q].todo EXCEPT ![p] = @ - 1]
            /\ task'[q].pool = p
      BY <1>14, NextPoolEffect
    <2>2. Support(task'[q].todo) \subseteq Support(task[q].todo)
      BY <1>0, <2>1, TodoStep
    <2>3. QED
      BY <1>0, <1>14, <2>1, <2>2, NextPoolEffect DEF Record
  <1>15. CASE PutRestored(q)
    BY <1>0, <1>15, PutRestoredEffect DEF Support, Record
  <1>16. CASE PutCleared(q)
    BY <1>0, <1>16, PutClearedEffect DEF Support, Record
  <1>17. CASE LoopEnds(q)
    BY <1>0, <1>17, LoopEndsEffect DEF Support, Record
  <1>18. QED
    BY <1>1, <1>2, <1>3, <1>4, <1>5, <1>6, <1>7, <1>8, <1>9, <1>10, <1>11, <1>12,
       <1>13, <1>14, <1>15, <1>16, <1>17 DEF Step, Ending

(* The chain grows by a deposit that a caller holds or by the withdrawal   *)
(* of a deposit it has, and no step of the vault changes it.               *)
Grow == MineDeposit \/ MineWithdrawal

LEMMA GrowEffect ==
  ASSUME TypeInv, Grow
  PROVE  /\ \E e \in Event :
              /\ chain' = Append(chain, e) /\ ~ OnChain(e.kind, e.pool, e.nonce)
              /\ IF e.kind = "deposit" THEN [pool |-> e.pool, nonce |-> e.nonce] \in exposed
                 ELSE OnChain("deposit", e.pool, e.nonce)
         /\ UNCHANGED <<db, exposed, lock, task>>
  <1>1. exposed \subseteq Deposit
    BY DEF TypeInv, TypeOK
  <1>2. CASE MineDeposit
    <2>1. PICK d \in exposed : Mine("deposit", d.pool, d.nonce)
      BY <1>2 DEF MineDeposit
    <2> DEFINE e == [kind |-> "deposit", pool |-> d.pool, nonce |-> d.nonce]
    <2>2. e \in Event
      BY <1>1 DEF Event, Deposit
    <2>3. d = [pool |-> d.pool, nonce |-> d.nonce]
      BY <1>1 DEF Deposit
    <2>4. e.kind = "deposit" /\ e.pool = d.pool /\ e.nonce = d.nonce
      OBVIOUS
    <2>5. chain' = Append(chain, e) /\ ~ OnChain("deposit", d.pool, d.nonce)
      BY <2>1 DEF Mine
    <2>6. QED
      <3> HIDE DEF e
      <3> QED BY <2>1, <2>2, <2>3, <2>4, <2>5 DEF Mine
  <1>3. CASE MineWithdrawal
    <2>1. PICK d \in Deposit : /\ OnChain("deposit", d.pool, d.nonce)
                               /\ Mine("withdrawal", d.pool, d.nonce)
      BY <1>3 DEF MineWithdrawal
    <2> DEFINE e == [kind |-> "withdrawal", pool |-> d.pool, nonce |-> d.nonce]
    <2>2. e \in Event
      BY DEF Event, Deposit
    <2>3. e.kind = "withdrawal" /\ e.pool = d.pool /\ e.nonce = d.nonce
      OBVIOUS
    <2>4. chain' = Append(chain, e) /\ ~ OnChain("withdrawal", d.pool, d.nonce)
      BY <2>1 DEF Mine
    <2>5. QED
      <3> HIDE DEF e
      <3> QED BY <2>1, <2>2, <2>3, <2>4 DEF Mine
  <1>4. QED
    BY <1>2, <1>3 DEF Grow

(* Every step is one of five kinds. *)
LEMMA NextCases ==
  ASSUME [Next]_vars
  PROVE  \/ \E q \in Proc : Begin(q)
         \/ \E q \in Proc : Step(q) /\ ~ Ending(q)
         \/ \E q \in Proc : Ending(q)
         \/ Grow
         \/ UNCHANGED vars
  BY DEF Next, Ending, Grow

(* A process begins while nobody works, and ends leaving nobody at work. *)
LEMMA BeginTasks ==
  ASSUME TypeInv, NonceInv, NEW q \in Proc, Begin(q)
  PROVE  \A r \in Proc \ {q} : task[r].pc = "idle" /\ task'[r] = task[r]
  BY BeginEffect, AllIdle DEF Others

LEMMA EndingTasks ==
  ASSUME TypeInv, NonceInv, NEW q \in Proc, Ending(q)
  PROVE  \A r \in Proc : task'[r].pc = "idle" /\ task'[r] \in {task[r], IdleTask}
  BY EndingEffect, Working, IdleFields

LEMMA NextFlow == TypeInv /\ NonceInv /\ FlowInv /\ [Next]_vars => FlowInv'
  <1> SUFFICES ASSUME TypeInv, NonceInv, FlowInv, [Next]_vars PROVE FlowInv'
    OBVIOUS
  <1>1. ASSUME NEW r \in Proc, task'[r].pc = "idle", task'[r].out = {},
               Support(task'[r].todo) \subseteq Support(task'[r].pools)
        PROVE  Flow(r)'
    BY <1>1 DEF Flow, Restoring, Clearing, Body, Reserving, Writing
  <1>2. ASSUME NEW r \in Proc, task[r].pc = "idle"
        PROVE  task[r].out = {} /\ Support(task[r].todo) \subseteq Support(task[r].pools)
    BY <1>2 DEF FlowInv, Flow, NonceInv, NonceShape
  <1>3. ASSUME NEW q \in Proc, Begin(q) PROVE FlowInv'
    <2>1. \A r \in Proc \ {q} : Flow(r)'
      BY <1>1, <1>2, <1>3, BeginTasks
    <2>2. Flow(q)'
      BY <1>3, BeginEffect DEF Flow, Restoring, Clearing, Body, Reserving, Writing
    <2>3. QED
      BY <2>1, <2>2 DEF FlowInv
  <1>4. ASSUME NEW q \in Proc, Ending(q) PROVE FlowInv'
    <2>1. ASSUME NEW r \in Proc PROVE Flow(r)'
      <3>1. CASE r = q
        BY <1>1, <1>4, <3>1, EndingEffect, IdleFields
      <3>2. CASE r # q
        BY <1>1, <1>2, <1>4, <3>2, EndingEffect, Working
      <3>3. QED
        BY <3>1, <3>2
    <2>2. QED
      BY <2>1 DEF FlowInv
  <1>5. CASE Grow
    <2>1. UNCHANGED <<notes, task>>
      BY <1>5, GrowEffect DEF db
    <2>2. QED
      BY <2>1 DEF FlowInv, Flow, Record, Support
  <1>6. CASE UNCHANGED vars
    BY <1>6 DEF vars, FlowInv, Flow, Record, Support
  <1>7. QED
    BY <1>3, <1>4, <1>5, <1>6, NextCases, StepFlow

LEMMA FlowInvariant == Spec => [](TypeInv /\ NonceInv /\ FlowInv)
  BY NonceInvariant, InitFlow, NextFlow, PTL DEF Spec

(* docs/cli.md: "the pending record is saved before any calldata is        *)
(* returned".                                                              *)
THEOREM RecordsComeFirst == Spec => RecordedBeforeExposed
  <1>1. TypeInv /\ NonceInv /\ FlowInv /\ [Next]_vars =>
          [\A d \in exposed' \ exposed : \E r \in notes[d.pool] : r.nonce = d.nonce]_vars
    <2> SUFFICES ASSUME TypeInv, NonceInv, FlowInv, [Next]_vars
                 PROVE  \A d \in exposed' \ exposed : \E r \in notes[d.pool] : r.nonce = d.nonce
      OBVIOUS
    <2>1. ASSUME NEW q \in Proc, ReturnCalls(q)
          PROVE  \A d \in exposed' \ exposed : \E r \in notes[d.pool] : r.nonce = d.nonce
      BY <2>1 DEF ReturnCalls, FlowInv, Flow, Record
    <2>2. QED
      BY <2>1, LedgerStep
  <1>2. QED
    BY FlowInvariant, <1>1, PTL DEF Spec, RecordedBeforeExposed

-----------------------------------------------------------------------------
(* The chunks of a pool.                                                   *)

LEMMA ChainTypes ==
  ASSUME TypeInv
  PROVE  /\ chain \in Seq(Event) /\ Height \in Nat /\ Height <= MaxBlock /\ MaxBlock \in Nat
         /\ \A b \in 1..Height : chain[b] \in Event
         /\ \A p \in Pool : cursor[p].block \in Nat /\ cursor[p].chunks \in Nat
         /\ \A p \in Pool, i \in 0..MaxBlock :
              chunk[p][i].from \in Nat /\ chunk[p][i].to \in Nat
         /\ \A q \in Proc : /\ task[q].snap.from \in Nat /\ task[q].snap.to \in Nat
                            /\ task[q].upto \in Nat
  <1>1. /\ chain \in Seq(Event) /\ Len(chain) <= MaxBlock /\ MaxBlock \in Nat
        /\ cursor \in [Pool -> [block : Nat, chunks : Nat]]
        /\ chunk \in [Pool -> [0..MaxBlock -> Range]]
        /\ task \in [Proc -> Task]
    BY ConstantAssumption DEF TypeInv, TypeOK
  <1>2. \A q \in Proc : task[q].snap \in Range /\ task[q].upto \in Nat
    BY <1>1 DEF Task
  <1>3. \A p \in Pool, i \in 0..MaxBlock : chunk[p][i] \in Range
    BY <1>1
  <1>4. QED
    BY <1>1, <1>2, <1>3 DEF Height, Range

(* A block that the chain gains is above every range that ended within it. *)
LEMMA GrownBlocks ==
  ASSUME TypeInv, Grow
  PROVE  /\ Height' = Height + 1
         /\ \A b \in 1..Height : chain'[b] = chain[b]
         /\ chain'[Height + 1] \in Event
         /\ \A p, r : r.to \in Nat /\ r.to <= Height + 1 => EventBlocks(p, r)' = EventBlocks(p, r)
         /\ \A p, r : r.to \in Nat /\ r.to <= Height + 1 => EventsIn(p, r)' = EventsIn(p, r)
  <1>0. chain \in Seq(Event) /\ Height \in Nat
    BY ChainTypes
  <1>1. PICK e \in Event : chain' = Append(chain, e)
    BY GrowEffect
  <1>2. /\ Height' = Height + 1 /\ chain'[Height + 1] = e
        /\ \A b \in 1..Height : chain'[b] = chain[b]
    BY <1>0, <1>1 DEF Height
  <1>3. ASSUME NEW p, NEW r, r.to \in Nat, r.to <= Height + 1
        PROVE  EventBlocks(p, r)' = EventBlocks(p, r) /\ EventsIn(p, r)' = EventsIn(p, r)
    <2>1. ASSUME NEW b \in 1..(Height + 1), b < r.to PROVE b \in 1..Height
      BY <1>0, <1>3, <2>1
    <2>2. EventBlocks(p, r)' = EventBlocks(p, r)
      BY <1>0, <1>2, <2>1 DEF EventBlocks
    <2>3. \A b \in EventBlocks(p, r) : chain'[b] = chain[b]
      BY <1>2 DEF EventBlocks
    <2>4. QED
      BY <2>2, <2>3 DEF EventsIn
  <1>4. QED
    BY <1>1, <1>2, <1>3

LEMMA InitRanges == Init => RangesInv
  <1> SUFFICES ASSUME Init PROVE RangesInv
    OBVIOUS
  <1>0. Height \in Nat
    BY ConstantAssumption DEF Init, Height
  <1>1. ASSUME NEW p \in Pool PROVE Covered(p)
    <2>1. cursor[p].block = 1 /\ cursor[p].chunks = 0
      BY DEF Init, Deployed
    <2>2. EventBlocks(p, [from |-> Deployed, to |-> 1]) = {}
      BY DEF EventBlocks, Deployed
    <2>3. QED
      BY <1>0, <2>1, <2>2 DEF Covered
  <1>2. ASSUME NEW q \in Proc PROVE Snapped(q)
    <2>1. task[q] = IdleTask
      BY DEF Init
    <2>2. QED
      BY <1>0, <2>1, IdleFields DEF Snapped, Syncing
  <1>3. QED
    BY <1>1, <1>2 DEF RangesInv

(* A step of a process that leaves the chunks alone. *)
LEMMA OthersRanges ==
  ASSUME TypeInv, NonceInv, RangesInv, NEW q \in Proc, task[q].pc # "idle", Others(q),
         UNCHANGED <<chain, cursor, chunk>>, Snapped(q)'
  PROVE  RangesInv'
  <1>1. \A p \in Pool : Covered(p)'
    BY DEF RangesInv, Covered, EventBlocks, Height
  <1>2. ASSUME NEW r \in Proc \ {q} PROVE Snapped(r)'
    <2>1. task[r].pc = "idle" /\ task'[r] = task[r]
      BY Working
    <2>2. task[r].upto <= Height + 1
      BY DEF RangesInv, Snapped
    <2>3. QED
      BY <2>1, <2>2 DEF Snapped, Syncing, Height
  <1>3. QED
    BY <1>1, <1>2 DEF RangesInv

LEMMA SyncRanges ==
  ASSUME TypeInv, NonceInv, FlowInv, RangesInv, NEW q \in Proc, SyncPool(q)
  PROVE  RangesInv'
  <1>1. PICK p \in Support(task[q].todo) :
          /\ task'[q].snap.from = cursor[p].block /\ task'[q].pool = p
          /\ task'[q].snap.to \in SyncedTo(cursor[p].block, task[q].upto)
    BY SyncPoolEffect
  <1>2. p \in Pool /\ Covered(p) /\ Snapped(q)
    BY DEF Support, RangesInv
  <1>3. /\ cursor[p].block \in Nat /\ cursor[p].block <= Height + 1
        /\ task[q].upto \in Nat /\ task[q].upto <= Height + 1 /\ Height \in Nat
    BY <1>2, ChainTypes DEF Covered, Snapped
  <1>4. task'[q].snap.from <= task'[q].snap.to /\ task'[q].snap.to <= Height + 1
    BY <1>1, <1>3 DEF SyncedTo, Larger
  <1>5. Snapped(q)'
    BY <1>1, <1>3, <1>4, SyncPoolEffect DEF Snapped, Syncing, Height
  <1>6. QED
    BY <1>5, OthersRanges, SyncPoolEffect

(* A snapshot is stored at the pool's counter, above the chunks that count. *)
LEMMA StoreRanges ==
  ASSUME TypeInv, NonceInv, FlowInv, RangesInv, NEW q \in Proc, PutSnapshot(q)
  PROVE  RangesInv'
  <1> DEFINE p == task[q].pool
             n == cursor[p].chunks
             s == task[q].snap
  <1>0. task[q].pc = "put" /\ p \in Pool
    BY PutSnapshotEffect DEF TypeInv, Shape, Body
  <1>1. Covered(p) /\ Snapped(q)
    BY <1>0 DEF RangesInv
  <1>2. /\ n \in Nat /\ cursor[p].block \in Nat /\ Height \in Nat /\ MaxBlock \in Nat
        /\ n < cursor[p].block /\ cursor[p].block <= Height + 1 /\ Height <= MaxBlock
    BY <1>0, <1>1, ChainTypes DEF Covered
  <1>3. n \in 0..MaxBlock
    BY <1>2
  <1>4. chunk \in [Pool -> [0..MaxBlock -> Range]]
    BY DEF TypeInv, TypeOK
  <1>5. /\ UNCHANGED <<chain, cursor>>
        /\ chunk' = IF EventBlocks(p, s) = {} THEN chunk ELSE [chunk EXCEPT ![p][n] = s]
    BY PutSnapshotEffect
  <1>6. \A x \in Pool, i \in 0..MaxBlock : ~ (x = p /\ i = n) => chunk'[x][i] = chunk[x][i]
    <2> HIDE DEF n, p, s
    <2> QED BY <1>3, <1>4, <1>5
  <1>7. EventBlocks(p, s) = {} \/ chunk'[p][n] = s
    <2> HIDE DEF n, p, s
    <2> QED BY <1>0, <1>3, <1>4, <1>5
  <1>8. ASSUME NEW x \in Pool PROVE Covered(x)'
    <2>1. /\ cursor[x].chunks \in Nat /\ cursor[x].block \in Nat
          /\ cursor[x].chunks < cursor[x].block /\ cursor[x].block <= Height + 1
      BY ChainTypes DEF RangesInv, Covered
    <2>2. \A i \in 0..cursor[x].chunks - 1 : chunk'[x][i] = chunk[x][i]
      <3>1. ASSUME NEW i \in 0..cursor[x].chunks - 1 PROVE i \in 0..MaxBlock /\ ~ (x = p /\ i = n)
        BY <1>2, <2>1
      <3>2. QED
        <4> HIDE DEF n, p
        <4> QED BY <1>6, <3>1
    <2>3. Covered(x)
      BY DEF RangesInv
    <2>4. cursor' = cursor /\ chain' = chain
      BY <1>5
    <2>5. QED
      <3> HIDE DEF n, p, s
      <3> QED BY <2>1, <2>2, <2>3, <2>4 DEF Covered, EventBlocks, Height
  <1>9. Snapped(q)'
    <2>1. /\ task'[q].pool = p /\ task'[q].snap = s /\ task'[q].upto = task[q].upto
          /\ task'[q].pc = "load_applied"
      BY PutSnapshotEffect
    <2>2. EventBlocks(task[q].pool, task[q].snap)' = EventBlocks(p, s)
      BY <1>5, <2>1 DEF EventBlocks, Height
    <2>3. Height' = Height /\ cursor' = cursor
      BY <1>5 DEF Height
    <2>4. QED
      BY <1>0, <1>1, <1>7, <2>1, <2>2, <2>3 DEF Snapped, Syncing
  <1>10. ASSUME NEW r \in Proc \ {q} PROVE Snapped(r)'
    <2>1. task[r].pc = "idle" /\ task'[r] = task[r]
      BY <1>0, Working, PutSnapshotEffect
    <2>2. task[r].upto <= Height + 1
      BY DEF RangesInv, Snapped
    <2>3. QED
      BY <1>5, <2>1, <2>2 DEF Snapped, Syncing, Height
  <1>11. QED
    BY <1>8, <1>9, <1>10 DEF RangesInv

(* The cursor takes the snapshot in: the chunks that count end where it    *)
(* started, and it leaves out no event up to where it ends.                *)
LEMMA CommitRanges ==
  ASSUME TypeInv, NonceInv, FlowInv, RangesInv, NEW q \in Proc, CommitSnapshot(q)
  PROVE  RangesInv'
  <1>p. PICK p \in Pool : p = task[q].pool
    BY CommitSnapshotEffect DEF TypeInv, Shape, Body
  <1>s. PICK s : s = task[q].snap
    OBVIOUS
  <1> DEFINE n == cursor[p].chunks
             at == cursor[p].block
             k == n + IF EventBlocks(p, s) = {} THEN 0 ELSE 1
  <1>0. task[q].pc = "commit" /\ p \in Pool
    BY CommitSnapshotEffect
  <1>1. Covered(p) /\ Snapped(q)
    BY <1>0 DEF RangesInv
  <1>2. /\ n \in Nat /\ at \in Nat /\ Height \in Nat /\ s.from \in Nat /\ s.to \in Nat
        /\ n < at /\ at <= Height + 1
    BY <1>s, <1>1, ChainTypes DEF Covered
  <1>3. /\ s.from = at /\ at <= s.to /\ s.to <= Height + 1
        /\ EventBlocks(p, s) = {} \/ chunk[p][n] = s
    BY <1>0, <1>p, <1>s, <1>1 DEF Snapped, Syncing
  <1>4. /\ UNCHANGED <<chain, chunk>>
        /\ cursor' = [cursor EXCEPT ![p] = [block |-> s.to, chunks |-> k]]
    BY <1>p, <1>s, CommitSnapshotEffect
  <1>5. /\ cursor'[p].block = s.to /\ cursor'[p].chunks = k
        /\ \A x \in Pool : x # p => cursor'[x] = cursor[x]
    <2>1. cursor \in [Pool -> [block : Nat, chunks : Nat]]
      BY DEF TypeInv, TypeOK
    <2>2. QED
      <3> HIDE DEF k
      <3> QED BY <1>0, <1>4, <2>1
  <1>6. Covered(p)'
    <2>1. \/ EventBlocks(p, s) = {} /\ k = n
          \/ EventBlocks(p, s) # {} /\ k = n + 1 /\ chunk[p][n] = s
      BY <1>2, <1>3
    <2>2. EventBlocks(p, s) # {} => at < s.to
      BY <1>2, <1>3 DEF EventBlocks
    <2>3. k < s.to /\ k \in Nat
      <3> HIDE DEF k, n, at
      <3> QED BY <1>2, <1>3, <2>1, <2>2
    <2>4. \A i \in 0..k - 1 : i \in 0..n - 1 \/ (i = n /\ chunk[p][i] = s)
      <3> HIDE DEF k, n, at
      <3> QED BY <1>2, <2>1
    <2>5. \A i \in 0..n - 1 : Deployed <= chunk[p][i].from /\ chunk[p][i].to <= at
                                /\ chunk[p][i].to \in Nat
      <3>1. \A i \in 0..n - 1 : i \in 0..MaxBlock
        BY <1>2, ChainTypes
      <3>2. QED
        BY <1>0, <1>1, <3>1, ChainTypes DEF Covered
    <2>6. \A i \in 0..k - 1 : Deployed <= chunk[p][i].from /\ chunk[p][i].to <= s.to
      <3> HIDE DEF k, n, at
      <3> QED BY <1>2, <1>3, <2>4, <2>5 DEF Deployed
    <2>7. \A i, j \in 0..k - 1 : j < i => chunk[p][j].to <= chunk[p][i].from
      <3>1. \A i, j \in 0..n - 1 : j < i => chunk[p][j].to <= chunk[p][i].from
        BY <1>1 DEF Covered
      <3>2. QED
        <4> HIDE DEF k, n, at
        <4> QED BY <1>2, <1>3, <2>4, <2>5, <3>1
    <2>8. ASSUME NEW b \in EventBlocks(p, [from |-> Deployed, to |-> s.to])
          PROVE  \E i \in 0..k - 1 : b \in EventBlocks(p, chunk[p][i])
      <3>1. b \in 1..Height /\ b < s.to /\ chain[b].pool = p /\ Deployed <= b
        BY <2>8 DEF EventBlocks
      <3>2. CASE b < at
        <4>1. b \in EventBlocks(p, [from |-> Deployed, to |-> at])
          BY <3>1, <3>2 DEF EventBlocks
        <4>2. PICK i \in 0..n - 1 : b \in EventBlocks(p, chunk[p][i])
          BY <1>1, <4>1 DEF Covered
        <4>3. i \in 0..k - 1
          <5> HIDE DEF k, n, at
          <5> QED BY <1>2, <2>1
        <4>4. QED
          BY <4>2, <4>3
      <3>3. CASE ~ (b < at)
        <4>1. b \in EventBlocks(p, s)
          BY <1>2, <1>3, <3>1, <3>3 DEF EventBlocks
        <4>2. k = n + 1 /\ chunk[p][n] = s /\ n \in 0..k - 1
          <5> HIDE DEF k, n, at
          <5> QED BY <1>2, <2>1, <4>1
        <4>3. QED
          BY <4>1, <4>2
      <3>4. QED
        BY <3>2, <3>3
    <2>9. Height' = Height /\ EventBlocks(p, [from |-> Deployed, to |-> s.to])'
            = EventBlocks(p, [from |-> Deployed, to |-> s.to])
      BY <1>4 DEF EventBlocks, Height
    <2>10. QED
      <3> HIDE DEF k, n, at
      <3> QED BY <1>3, <1>4, <1>5, <2>3, <2>6, <2>7, <2>8, <2>9 DEF Covered, EventBlocks, Height
  <1>7. \A x \in Pool : x # p => Covered(x)'
    <2>1. \A x \in Pool : Covered(x)
      BY DEF RangesInv
    <2>2. QED
      <3> HIDE DEF k
      <3> QED BY <1>4, <1>5, <2>1 DEF Covered, EventBlocks, Height
  <1>8. \A r \in Proc : task'[r].upto <= Height' + 1 /\ task'[r].pc \notin Syncing
    <2>1. \A r \in Proc : task[r].upto <= Height + 1
      BY DEF RangesInv, Snapped
    <2>2. \A r \in Proc \ {q} : task[r].pc = "idle" /\ task'[r] = task[r]
      BY <1>0, Working, CommitSnapshotEffect
    <2>3. Height' = Height
      BY <1>4 DEF Height
    <2>4. QED
      BY <2>1, <2>2, <2>3, CommitSnapshotEffect DEF Syncing
  <1>9. \A r \in Proc : Snapped(r)'
    BY <1>8 DEF Snapped, Syncing
  <1>10. QED
    BY <1>6, <1>7, <1>9 DEF RangesInv

LEMMA StepRanges ==
  ASSUME TypeInv, NonceInv, FlowInv, RangesInv, NEW q \in Proc, Step(q), ~Ending(q)
  PROVE  RangesInv'
  <1>0. Snapped(q)
    BY DEF RangesInv
  <1>k. ASSUME task[q].pc # "idle", Others(q), UNCHANGED <<chain, cursor, chunk>>,
               task'[q].upto <= Height + 1, task'[q].pc \notin Syncing
        PROVE  RangesInv'
    BY <1>k, OthersRanges DEF Snapped, Syncing, Height
  <1>1. CASE Track(q)
    BY <1>0, <1>1, <1>k, TrackEffect DEF Snapped, Syncing
  <1>2. CASE ReserveNonce(q)
    BY <1>0, <1>2, <1>k, ReserveNonceEffect DEF Snapped, Syncing
  <1>3. CASE BurnNonce(q)
    BY <1>0, <1>3, <1>k, BurnNonceEffect DEF Snapped, Syncing
  <1>4. CASE LoadNotes(q)
    <2>1. task'[q].pc = "put_applied" => task[q].pc = "load_applied"
      BY <1>4, LoadNotesEffect DEF AfterLoad
    <2>2. Snapped(q)'
      BY <1>0, <1>4, <2>1, LoadNotesEffect DEF Snapped, Syncing, AfterLoad, EventBlocks, Height
    <2>3. QED
      BY <1>4, <2>2, OthersRanges, LoadNotesEffect DEF AfterLoad
  <1>5. CASE PutPending(q)
    BY <1>0, <1>5, <1>k, PutPendingEffect DEF Snapped, Syncing, PutNotes
  <1>6. CASE ReadHeight(q)
    <2>1. task'[q].upto <= Height + 1
      BY <1>6, ReadHeightEffect, ChainTypes
    <2>2. QED
      BY <1>6, <1>k, <2>1, ReadHeightEffect DEF Syncing
  <1>7. CASE SyncPool(q)
    BY <1>7, SyncRanges
  <1>8. CASE PutSnapshot(q)
    BY <1>8, StoreRanges
  <1>9. CASE PutApplied(q)
    <2>1. task[q].pc = "put_applied" /\ UNCHANGED <<chain, cursor, chunk>>
      BY <1>9, PutAppliedEffect DEF PutNotes
    <2>2. Snapped(q)'
      BY <1>0, <1>9, <2>1, PutAppliedEffect DEF Snapped, Syncing, EventBlocks, Height
    <2>3. QED
      BY <1>9, <2>1, <2>2, OthersRanges, PutAppliedEffect
  <1>10. CASE CommitSnapshot(q)
    BY <1>10, CommitRanges
  <1>11. CASE Synced(q)
    <2>1. task'[q].upto <= Height + 1 /\ task'[q].pc \notin Syncing
      BY <1>11, SyncedEffect, ChainTypes DEF AfterSync, Syncing
    <2>2. QED
      BY <1>11, <1>k, <2>1, SyncedEffect
  <1>12. CASE Scan(q)
    BY <1>0, <1>12, <1>k, ScanEffect DEF Snapped, Syncing
  <1>13. CASE PublishMark(q)
    BY <1>0, <1>13, <1>k, PublishMarkEffect DEF Snapped, Syncing
  <1>14. CASE NextPool(q)
    BY <1>0, <1>14, <1>k, NextPoolEffect DEF Snapped, Syncing
  <1>15. CASE PutRestored(q)
    BY <1>0, <1>15, <1>k, PutRestoredEffect DEF Snapped, Syncing, PutNotes
  <1>16. CASE PutCleared(q)
    BY <1>0, <1>16, <1>k, PutClearedEffect DEF Snapped, Syncing, PutNotes
  <1>17. CASE LoopEnds(q)
    BY <1>0, <1>17, <1>k, LoopEndsEffect DEF Snapped, Syncing
  <1>18. QED
    BY <1>1, <1>2, <1>3, <1>4, <1>5, <1>6, <1>7, <1>8, <1>9, <1>10, <1>11, <1>12,
       <1>13, <1>14, <1>15, <1>16, <1>17 DEF Step, Ending

LEMMA NextRanges ==
  TypeInv /\ NonceInv /\ FlowInv /\ RangesInv /\ [Next]_vars => RangesInv'
  <1> SUFFICES ASSUME TypeInv, NonceInv, FlowInv, RangesInv, [Next]_vars PROVE RangesInv'
    OBVIOUS
  <1>1. ASSUME UNCHANGED <<chain, cursor, chunk>>,
               \A r \in Proc : /\ task'[r].pc \notin Syncing
                               /\ task'[r].upto \in {task[r].upto, 0}
        PROVE  RangesInv'
    <2>1. \A p \in Pool : Covered(p)'
      BY <1>1 DEF RangesInv, Covered, EventBlocks, Height
    <2>2. \A r \in Proc : task[r].upto <= Height + 1 /\ 0 <= Height + 1
      BY ChainTypes DEF RangesInv, Snapped
    <2>3. \A r \in Proc : Snapped(r)'
      BY <1>1, <2>2 DEF Snapped, Syncing, Height
    <2>4. QED
      BY <2>1, <2>3 DEF RangesInv
  <1>2. ASSUME NEW q \in Proc, Begin(q) PROVE RangesInv'
    BY <1>1, <1>2, BeginEffect, BeginTasks DEF db, Syncing
  <1>3. ASSUME NEW q \in Proc, Ending(q) PROVE RangesInv'
    BY <1>1, <1>3, EndingEffect, EndingTasks, IdleFields DEF db, Syncing
  <1>4. CASE Grow
    <2>1. UNCHANGED <<cursor, chunk, task>> /\ Height' = Height + 1
      BY <1>4, GrowEffect, GrownBlocks DEF db
    <2>2. ASSUME NEW p \in Pool PROVE Covered(p)'
      <3> DEFINE at == cursor[p].block
                 n == cursor[p].chunks
      <3>1. /\ n \in Nat /\ at \in Nat /\ n < at /\ at <= Height + 1 /\ Height \in Nat
            /\ Covered(p)
        BY ChainTypes DEF RangesInv, Covered
      <3>2. \A i \in 0..n - 1 : chunk[p][i].to \in Nat /\ chunk[p][i].to <= Height + 1
        <4>1. \A i \in 0..n - 1 : i \in 0..MaxBlock
          BY <3>1, ChainTypes
        <4>2. \A i \in 0..n - 1 : chunk[p][i].to <= at /\ chunk[p][i].to \in Nat
          BY <3>1, <4>1, ChainTypes DEF Covered
        <4>3. QED
          <5> HIDE DEF n, at
          <5> QED BY <3>1, <4>2
      <3>3. \A i \in 0..n - 1 : EventBlocks(p, chunk[p][i])' = EventBlocks(p, chunk[p][i])
        <4>1. \A i \in 0..n - 1 : \A b : b \in EventBlocks(p, chunk[p][i])'
                                      <=> b \in EventBlocks(p, chunk[p][i])
          BY <1>4, <2>1, <3>2, GrownBlocks DEF EventBlocks
        <4>2. QED
          BY <4>1
      <3>4. EventBlocks(p, [from |-> Deployed, to |-> at])'
              = EventBlocks(p, [from |-> Deployed, to |-> at])
        <4> DEFINE r == [from |-> Deployed, to |-> at]
        <4>1. r.to \in Nat /\ r.to <= Height + 1
          BY <3>1
        <4>2. r' = r
          BY <2>1
        <4>3. QED
          BY <1>4, <4>1, <4>2, GrownBlocks DEF EventBlocks
      <3>5. QED
        <4>1. \A b \in EventBlocks(p, [from |-> Deployed, to |-> at])' :
                \E i \in 0..n - 1 : b \in EventBlocks(p, chunk[p][i])'
          BY <3>1, <3>3, <3>4 DEF Covered
        <4>2. at <= Height' + 1
          BY <2>1, <3>1
        <4>3. QED
          BY <2>1, <3>1, <4>1, <4>2 DEF Covered
    <2>3. ASSUME NEW q \in Proc PROVE Snapped(q)'
      <3>1. Snapped(q) /\ task[q].upto \in Nat /\ Height \in Nat /\ task[q].snap.to \in Nat
        BY ChainTypes DEF RangesInv
      <3>2. task[q].pc \in Syncing => task[q].snap.to <= Height + 1
        BY <3>1 DEF Snapped
      <3>3. task[q].pc \in Syncing =>
              EventBlocks(task[q].pool, task[q].snap)' = EventBlocks(task[q].pool, task[q].snap)
        BY <1>4, <2>1, <3>1, <3>2, GrownBlocks DEF EventBlocks
      <3>4. QED
        BY <2>1, <3>1, <3>2, <3>3 DEF Snapped
    <2>4. QED
      BY <2>2, <2>3 DEF RangesInv
  <1>5. CASE UNCHANGED vars
    BY <1>5 DEF vars, RangesInv, Covered, Snapped, EventBlocks, Height
  <1>6. QED
    BY <1>2, <1>3, <1>4, <1>5, NextCases, StepRanges

LEMMA RangesInvariant == Spec => [](TypeInv /\ NonceInv /\ FlowInv /\ RangesInv)
  BY FlowInvariant, InitRanges, NextRanges, PTL DEF Spec

(* An event below a cursor is in exactly one of its pool's chunks, however *)
(* often a sync was cut short, and the chunks are in chain order.          *)
THEOREM ChunksInOrder == Spec => []ChunksHoldEventsOnce
  <1>1. TypeInv /\ RangesInv => ChunksHoldEventsOnce
    <2> SUFFICES ASSUME TypeInv, RangesInv PROVE ChunksHoldEventsOnce
      OBVIOUS
    <2>1. ASSUME NEW p \in Pool
          PROVE  /\ \A i \in 0..cursor[p].chunks - 1 : chunk[p][i].to <= cursor[p].block
                 /\ \A i, j \in 0..cursor[p].chunks - 1 :
                      j < i => chunk[p][j].to <= chunk[p][i].from
                 /\ \A b \in EventBlocks(p, [from |-> Deployed, to |-> cursor[p].block]) :
                      \E i \in 0..cursor[p].chunks - 1 : b \in EventBlocks(p, chunk[p][i])
      BY DEF RangesInv, Covered
    <2>2. ASSUME NEW p \in Pool, NEW i \in 0..cursor[p].chunks - 1,
                 NEW j \in 0..cursor[p].chunks - 1, NEW b,
                 b \in EventBlocks(p, chunk[p][i]), b \in EventBlocks(p, chunk[p][j])
          PROVE  i = j
      <3>1. /\ b \in Nat /\ chunk[p][i].from <= b /\ b < chunk[p][i].to
            /\ chunk[p][j].from <= b /\ b < chunk[p][j].to
        BY <2>2 DEF EventBlocks
      <3>2. i \in 0..MaxBlock /\ j \in 0..MaxBlock
        <4>1. /\ cursor[p].chunks \in Nat /\ cursor[p].block \in Nat /\ Height \in Nat
              /\ cursor[p].chunks < cursor[p].block /\ cursor[p].block <= Height + 1
              /\ Height <= MaxBlock /\ MaxBlock \in Nat
          BY ChainTypes DEF RangesInv, Covered
        <4>2. QED
          BY <2>2, <4>1
      <3>3. /\ chunk[p][i].from \in Nat /\ chunk[p][i].to \in Nat
            /\ chunk[p][j].from \in Nat /\ chunk[p][j].to \in Nat
        BY <2>2, <3>2, ChainTypes
      <3>4. ~ (j < i) /\ ~ (i < j)
        <4>1. /\ j < i => chunk[p][j].to <= chunk[p][i].from
              /\ i < j => chunk[p][i].to <= chunk[p][j].from
          BY <2>1, <2>2
        <4>2. QED
          BY <3>1, <3>3, <4>1
      <3>5. QED
        BY <3>2, <3>4, ChainTypes
    <2>3. \A p \in Pool : \A i \in 0..cursor[p].chunks - 1 : \A j \in 0..i - 1 :
            j \in 0..cursor[p].chunks - 1 /\ j < i
      BY ChainTypes
    <2>4. QED
      BY <2>1, <2>2, <2>3 DEF ChunksHoldEventsOnce
  <1>2. QED
    BY RangesInvariant, <1>1, PTL

-----------------------------------------------------------------------------
(* What a recovery finds.                                                  *)

(* The committed chunks hold what the chain holds below the cursors. *)
LEMMA SnapshotsAreCommitted ==
  ASSUME TypeInv, RangesInv, NEW ps \in SUBSET Pool
  PROVE  SnapshotEvents(ps) = Committed(ps)
  <1>1. ASSUME NEW p \in ps
        PROVE  UNION {EventsIn(p, chunk[p][i]) : i \in 0..cursor[p].chunks - 1}
                 = EventsBelow(p, cursor[p].block)
    <2> DEFINE n == cursor[p].chunks
               at == cursor[p].block
               all == [from |-> Deployed, to |-> at]
    <2>0. Covered(p) /\ p \in Pool
      BY DEF RangesInv
    <2>1. /\ n \in Nat /\ at \in Nat /\ Height \in Nat /\ n < at /\ at <= Height + 1
          /\ Height <= MaxBlock /\ MaxBlock \in Nat
      BY <2>0, ChainTypes DEF Covered
    <2>2. \A i \in 0..n - 1 : i \in 0..MaxBlock
      BY <2>1
    <2>3. \A i \in 0..n - 1 : /\ Deployed <= chunk[p][i].from /\ chunk[p][i].to <= at
                              /\ chunk[p][i].from \in Nat /\ chunk[p][i].to \in Nat
      BY <2>0, <2>2, ChainTypes DEF Covered
    <2>4. all.from = Deployed /\ all.to = at
      OBVIOUS
    <2>5. \A i \in 0..n - 1 : EventBlocks(p, chunk[p][i]) \subseteq EventBlocks(p, all)
      <3> HIDE DEF n, at, all
      <3> QED BY <2>1, <2>3, <2>4 DEF EventBlocks, Deployed
    <2>6. \A b \in EventBlocks(p, all) : \E i \in 0..n - 1 : b \in EventBlocks(p, chunk[p][i])
      BY <2>0 DEF Covered
    <2>7. UNION {EventsIn(p, chunk[p][i]) : i \in 0..n - 1} = EventsIn(p, all)
      <3> HIDE DEF n, all
      <3> QED BY <2>5, <2>6 DEF EventsIn
    <2>8. QED
      BY <2>7 DEF EventsBelow
  <1>2. QED
    BY <1>1 DEF SnapshotEvents, Committed

(* Nothing below a cursor changes while the cursor stays. *)
LEMMA BelowStays ==
  ASSUME TypeInv, RangesInv, UNCHANGED cursor, Grow \/ UNCHANGED chain
  PROVE  /\ \A p \in Pool : EventsBelow(p, cursor[p].block)' = EventsBelow(p, cursor[p].block)
         /\ \A ps \in SUBSET Pool : Committed(ps)' = Committed(ps)
  <1>1. ASSUME NEW p \in Pool
        PROVE  EventsBelow(p, cursor[p].block)' = EventsBelow(p, cursor[p].block)
    <2>1. CASE UNCHANGED chain
      BY <2>1 DEF EventsBelow, EventsIn, EventBlocks, Height
    <2>2. CASE Grow
      <3>1. PICK at \in Nat : at = cursor[p].block /\ at <= Height + 1
        BY ChainTypes DEF RangesInv, Covered
      <3> DEFINE r == [from |-> Deployed, to |-> at]
      <3>2. r.to \in Nat /\ r.to <= Height + 1
        BY <3>1
      <3>3. EventsIn(p, r)' = EventsIn(p, r)
        <4> HIDE DEF r
        <4> QED BY <2>2, <3>2, GrownBlocks
      <3>4. EventsBelow(p, cursor[p].block) = EventsIn(p, r)
        BY <3>1 DEF EventsBelow
      <3>5. EventsBelow(p, cursor[p].block)' = EventsIn(p, r)'
        BY <3>1 DEF EventsBelow, EventsIn, EventBlocks
      <3>6. QED
        BY <3>3, <3>4, <3>5
    <2>3. QED
      BY <2>1, <2>2
  <1>2. ASSUME NEW ps \in SUBSET Pool PROVE Committed(ps)' = Committed(ps)
    <2>1. \A p \in ps : EventsBelow(p, cursor[p].block)' = EventsBelow(p, cursor[p].block)
      BY <1>1
    <2>2. QED
      BY <2>1 DEF Committed
  <1>3. QED
    BY <1>1, <1>2

LEMMA InitFound == Init => FoundInv
  BY IdleFields DEF Init, FoundInv, Found, Restoring

(* A step that keeps the cursors, and of a recovery that is at its second  *)
(* half keeps the pools and what was found.                                *)
LEMMA FoundStays ==
  ASSUME TypeInv, RangesInv, NEW q \in Proc, Found(q),
         UNCHANGED cursor, Grow \/ UNCHANGED chain,
         LET late(t) == t.pc \in {"mark"} \cup Restoring \/ (t.pc = "return" /\ t.op = "recover")
         IN  late(task'[q]) => /\ late(task[q]) /\ task'[q].pools = task[q].pools
                               /\ task'[q].found = task[q].found
  PROVE  Found(q)'
  <1>2. PICK ps \in SUBSET Pool : ps = Support(task[q].pools)
    BY DEF Support
  <1>3. Committed(ps)' = Committed(ps)
    BY BelowStays
  <1>4. task'[q].pools = task[q].pools =>
          Committed(Support(task[q].pools))' = Committed(Support(task[q].pools))
    BY <1>2, <1>3 DEF Committed, Support
  <1>5. QED
    BY <1>4 DEF Found

LEMMA StepFound ==
  ASSUME TypeInv, NonceInv, FlowInv, RangesInv, FoundInv, NEW q \in Proc, Step(q), ~Ending(q)
  PROVE  Found(q)'
  <1>0. Flow(q) /\ Found(q)
    BY DEF FlowInv, FoundInv
  <1>1. CASE Scan(q)
    <2>1. PICK ps \in SUBSET Pool : ps = Support(task[q].pools)
      BY DEF Support
    <2>2. SnapshotEvents(ps) = Committed(ps)
      BY SnapshotsAreCommitted
    <2>3. task'[q].found = Recovered(Committed(ps)) /\ task'[q].pools = task[q].pools
      BY <1>1, <2>1, <2>2, ScanEffect
    <2>4. Committed(ps)' = Committed(ps)
      BY <1>1, ScanEffect DEF Committed, EventsBelow, EventsIn, EventBlocks, Height
    <2>5. Committed(Support(task[q].pools))' = Committed(ps)
      BY <2>1, <2>3, <2>4 DEF Committed, Support
    <2>6. QED
      BY <2>3, <2>5 DEF Found
  <1>2. CASE CommitSnapshot(q)
    BY <1>2, CommitSnapshotEffect DEF Found, Restoring
  <1>3. CASE Synced(q)
    BY <1>3, SyncedEffect DEF Found, Restoring, AfterSync
  <1>4. CASE LoadNotes(q)
    BY <1>0, <1>4, FoundStays, LoadNotesEffect DEF Restoring, AfterLoad
  <1>5. CASE LoopEnds(q)
    BY <1>0, <1>5, FoundStays, LoopEndsEffect DEF Restoring, Flow, Clearing
  <1>6. CASE Track(q) \/ ReserveNonce(q) \/ BurnNonce(q) \/ ReadHeight(q) \/ SyncPool(q)
             \/ PutSnapshot(q)
    <2>1. CASE Track(q) \/ ReserveNonce(q) \/ BurnNonce(q)
      BY <2>1, TrackEffect, ReserveNonceEffect, BurnNonceEffect DEF Found, Restoring
    <2>2. CASE ReadHeight(q) \/ SyncPool(q) \/ PutSnapshot(q)
      BY <2>2, ReadHeightEffect, SyncPoolEffect, PutSnapshotEffect DEF Found, Restoring
    <2>3. QED
      BY <1>6, <2>1, <2>2
  <1>7. CASE PutPending(q) \/ PutApplied(q) \/ PutCleared(q)
    BY <1>7, PutPendingEffect, PutAppliedEffect, PutClearedEffect DEF Found, Restoring
  <1>8. CASE PublishMark(q)
    BY <1>0, <1>8, FoundStays, PublishMarkEffect DEF Restoring
  <1>9. CASE NextPool(q)
    BY <1>0, <1>9, FoundStays, NextPoolEffect DEF Restoring
  <1>10. CASE PutRestored(q)
    BY <1>0, <1>10, FoundStays, PutRestoredEffect DEF Restoring, PutNotes
  <1>11. QED
    BY <1>1, <1>2, <1>3, <1>4, <1>5, <1>6, <1>7, <1>8, <1>9, <1>10 DEF Step, Ending

LEMMA StepsLeaveIdle ==
  ASSUME TypeInv, NonceInv, NEW q \in Proc, Step(q), ~Ending(q)
  PROVE  \A r \in Proc \ {q} : task[r].pc = "idle" /\ task'[r] = task[r]
  <1>1. SUFFICES task[q].pc # "idle" /\ Others(q)
    BY Working
  <1>2. CASE LoadNotes(q)
    BY <1>2, LoadNotesEffect DEF AfterLoad
  <1>3. CASE Track(q) \/ ReserveNonce(q) \/ BurnNonce(q) \/ PutPending(q)
    BY <1>3, TrackEffect, ReserveNonceEffect, BurnNonceEffect, PutPendingEffect
  <1>4. CASE ReadHeight(q) \/ SyncPool(q) \/ PutSnapshot(q) \/ PutApplied(q)
    BY <1>4, ReadHeightEffect, SyncPoolEffect, PutSnapshotEffect, PutAppliedEffect
  <1>5. CASE CommitSnapshot(q) \/ Synced(q) \/ Scan(q) \/ PublishMark(q)
    BY <1>5, CommitSnapshotEffect, SyncedEffect, ScanEffect, PublishMarkEffect
  <1>6. CASE NextPool(q) \/ PutRestored(q) \/ PutCleared(q) \/ LoopEnds(q)
    BY <1>6, NextPoolEffect, PutRestoredEffect, PutClearedEffect, LoopEndsEffect
  <1>7. QED
    BY <1>2, <1>3, <1>4, <1>5, <1>6 DEF Step, Ending

(* A property of tasks that says nothing of idle ones, nor of those that   *)
(* have just begun: what is left to show of a step is that it keeps it for *)
(* the process that takes it.                                              *)
LEMMA NextTasks ==
  ASSUME TypeInv, NonceInv, [Next]_vars
  PROVE  \/ \E q \in Proc : /\ Step(q) /\ ~ Ending(q)
                            /\ \A r \in Proc \ {q} : task'[r].pc = "idle"
         \/ /\ \A r \in Proc : task'[r].pc \in {"idle", "track", "height"}
            /\ UNCHANGED <<chain, db>>
         \/ UNCHANGED <<db, exposed, task>> /\ (Grow \/ UNCHANGED chain)
  <1>1. ASSUME NEW q \in Proc, Begin(q)
        PROVE  /\ \A r \in Proc : task'[r].pc \in {"idle", "track", "height"}
               /\ UNCHANGED <<chain, db>>
    BY <1>1, BeginEffect, BeginTasks
  <1>2. ASSUME NEW q \in Proc, Ending(q)
        PROVE  /\ \A r \in Proc : task'[r].pc \in {"idle", "track", "height"}
               /\ UNCHANGED <<chain, db>>
    BY <1>2, EndingEffect, EndingTasks
  <1>3. Grow \/ UNCHANGED vars => UNCHANGED <<db, exposed, task>> /\ (Grow \/ UNCHANGED chain)
    BY GrowEffect DEF vars, db
  <1>4. ASSUME NEW q \in Proc, Step(q), ~ Ending(q)
        PROVE  \A r \in Proc \ {q} : task'[r].pc = "idle"
    BY <1>4, StepsLeaveIdle
  <1>5. QED
    BY <1>1, <1>2, <1>3, <1>4, NextCases

LEMMA NextFound ==
  TypeInv /\ NonceInv /\ FlowInv /\ RangesInv /\ FoundInv /\ [Next]_vars => FoundInv'
  <1> SUFFICES ASSUME TypeInv, NonceInv, FlowInv, RangesInv, FoundInv, [Next]_vars
               PROVE  FoundInv'
    OBVIOUS
  <1>1. ASSUME NEW r \in Proc, task'[r].pc \in {"idle", "track", "height"} PROVE Found(r)'
    BY <1>1 DEF Found, Restoring
  <1>2. ASSUME UNCHANGED <<db, exposed, task>>, Grow \/ UNCHANGED chain, NEW r \in Proc
        PROVE  Found(r)'
    <2>1. Found(r) /\ UNCHANGED cursor
      BY <1>2 DEF FoundInv, db
    <2>2. QED
      BY <1>2, <2>1, FoundStays
  <1>3. QED
    BY <1>1, <1>2, StepFound, NextTasks DEF FoundInv

-----------------------------------------------------------------------------
(* What the writes of a pool's notes make of its records.                  *)

LEMMA AppliedRecords ==
  ASSUME NEW records \in SUBSET NoteRecord, NEW events
  PROVE  /\ \A x \in Applied(records, events) : \E r \in records :
              /\ x.nonce = r.nonce
              /\ x.mined <=> r.mined \/ \E e \in events : e.kind = "deposit" /\ e.nonce = x.nonce
              /\ x.spent <=> r.spent \/ \E e \in events : e.kind = "withdrawal" /\ e.nonce = x.nonce
         /\ \A r \in records : \E x \in Applied(records, events) :
              x.nonce = r.nonce /\ (r.mined => x.mined) /\ (r.spent => x.spent)
  <1> DEFINE in(k, n) == \E e \in events : e.kind = k /\ e.nonce = n
             new(r) == [r EXCEPT !.mined = @ \/ in("deposit", r.nonce),
                                 !.spent = @ \/ in("withdrawal", r.nonce)]
  <1>1. ASSUME NEW r \in records
        PROVE  /\ new(r).nonce = r.nonce
               /\ new(r).mined <=> r.mined \/ in("deposit", r.nonce)
               /\ new(r).spent <=> r.spent \/ in("withdrawal", r.nonce)
    <2>1. r \in NoteRecord
      OBVIOUS
    <2>2. in("deposit", r.nonce) \in BOOLEAN /\ in("withdrawal", r.nonce) \in BOOLEAN
      OBVIOUS
    <2>3. QED
      <3> HIDE DEF in
      <3> QED BY <2>1, <2>2 DEF NoteRecord
  <1>2. Applied(records, events) = {new(r) : r \in records}
    BY DEF Applied
  <1>3. QED
    <2>1. \A x \in Applied(records, events) : \E r \in records : x = new(r)
      <3> HIDE DEF new
      <3> QED BY <1>2
    <2>2. \A r \in records : new(r) \in Applied(records, events)
      <3> HIDE DEF new
      <3> QED BY <1>2
    <2>3. \A x \in Applied(records, events) : \E r \in records :
            /\ x.nonce = r.nonce
            /\ x.mined <=> r.mined \/ in("deposit", x.nonce)
            /\ x.spent <=> r.spent \/ in("withdrawal", x.nonce)
      <3> HIDE DEF new, in
      <3> QED BY <1>1, <2>1
    <2>4. \A r \in records : \E x \in Applied(records, events) :
            x.nonce = r.nonce /\ (r.mined => x.mined) /\ (r.spent => x.spent)
      <3> HIDE DEF new, in
      <3> QED BY <1>1, <2>2
    <2>5. QED
      BY <2>3, <2>4

LEMMA RestoredRecords ==
  ASSUME NEW t \in Task
  PROVE  LET kept(n) == [kind |-> "deposit", pool |-> t.pool, nonce |-> n] \notin t.found
             left(n) == [kind |-> "withdrawal", pool |-> t.pool, nonce |-> n] \in t.found
         IN  /\ \A x \in Restored(t) :
                  \/ x \in t.held /\ kept(x.nonce)
                  \/ ~ kept(x.nonce) /\ x.mined /\ (x.spent <=> left(x.nonce))
             /\ \A r \in t.held : kept(r.nonce) => r \in Restored(t)
             /\ \A n : ~ kept(n) => \E x \in Restored(t) :
                  x.nonce = n /\ x.mined /\ (x.spent <=> left(n))
  <1> DEFINE kept(n) == [kind |-> "deposit", pool |-> t.pool, nonce |-> n] \notin t.found
             left(n) == [kind |-> "withdrawal", pool |-> t.pool, nonce |-> n] \in t.found
             ns == {e.nonce : e \in {x \in t.found : x.pool = t.pool /\ x.kind = "deposit"}}
             new(n) == [nonce |-> n, mined |-> TRUE, spent |-> left(n)]
  <1>1. t.found \subseteq Event
    BY DEF Task
  <1>2. \A n : n \in ns <=> ~ kept(n)
    <2>1. ASSUME NEW e \in t.found, e.pool = t.pool, e.kind = "deposit"
          PROVE  e = [kind |-> "deposit", pool |-> t.pool, nonce |-> e.nonce]
      BY <1>1, <2>1 DEF Event
    <2>2. ASSUME NEW n, ~ kept(n) PROVE n \in ns
      <3> DEFINE e == [kind |-> "deposit", pool |-> t.pool, nonce |-> n]
      <3>1. e \in t.found /\ e.pool = t.pool /\ e.kind = "deposit" /\ e.nonce = n
        BY <2>2
      <3>2. QED
        <4> HIDE DEF e
        <4> QED BY <3>1
    <2>3. QED
      BY <2>1, <2>2
  <1>3. Restored(t) = {r \in t.held : r.nonce \notin ns} \cup {new(n) : n \in ns}
    BY DEF Restored
  <1>4. \A n : left(n) \in BOOLEAN
    OBVIOUS
  <1>5. \A n : new(n).nonce = n /\ new(n).mined /\ (new(n).spent <=> left(n))
    <2> HIDE DEF left
    <2> QED BY <1>4
  <1>6. QED
    <2>1. \A x \in Restored(t) : \/ x \in t.held /\ x.nonce \notin ns
                                 \/ \E n \in ns : x = new(n)
      <3> HIDE DEF ns, new
      <3> QED BY <1>3
    <2>2. /\ \A r \in t.held : r.nonce \notin ns => r \in Restored(t)
          /\ \A n \in ns : new(n) \in Restored(t)
      <3> HIDE DEF ns, new
      <3> QED BY <1>3
    <2>3. \A x \in Restored(t) :
            \/ x \in t.held /\ kept(x.nonce)
            \/ ~ kept(x.nonce) /\ x.mined /\ (x.spent <=> left(x.nonce))
      <3> HIDE DEF ns, new, kept, left
      <3> QED BY <1>2, <1>5, <2>1
    <2>4. \A r \in t.held : kept(r.nonce) => r \in Restored(t)
      <3> HIDE DEF ns, new, kept, left
      <3> QED BY <1>2, <2>2
    <2>5. \A n : ~ kept(n) => \E x \in Restored(t) :
            x.nonce = n /\ x.mined /\ (x.spent <=> left(n))
      <3> HIDE DEF ns, new, kept, left
      <3> QED BY <1>2, <1>5, <2>2
    <2>6. QED
      BY <2>3, <2>4, <2>5

(* A step of an operation leaves the chain, and the notes but at a write.  *)
LEMMA StepNotes ==
  ASSUME TypeInv, NEW q \in Proc, Step(q), ~Ending(q)
  PROVE  /\ UNCHANGED chain
         /\ \/ UNCHANGED notes
            \/ PutPending(q) \/ PutApplied(q) \/ PutRestored(q) \/ PutCleared(q)
  <1>1. CASE Track(q) \/ ReserveNonce(q) \/ BurnNonce(q) \/ LoadNotes(q)
    BY <1>1, TrackEffect, ReserveNonceEffect, BurnNonceEffect, LoadNotesEffect
  <1>2. CASE ReadHeight(q) \/ SyncPool(q) \/ PutSnapshot(q)
    BY <1>2, ReadHeightEffect, SyncPoolEffect, PutSnapshotEffect
  <1>3. CASE CommitSnapshot(q) \/ Synced(q) \/ Scan(q) \/ PublishMark(q)
    BY <1>3, CommitSnapshotEffect, SyncedEffect, ScanEffect, PublishMarkEffect
  <1>4. CASE NextPool(q) \/ LoopEnds(q)
    BY <1>4, NextPoolEffect, LoopEndsEffect
  <1>5. CASE PutPending(q) \/ PutApplied(q) \/ PutRestored(q) \/ PutCleared(q)
    BY <1>5, PutPendingEffect, PutAppliedEffect, PutRestoredEffect, PutClearedEffect
       DEF PutNotes
  <1>6. QED
    BY <1>1, <1>2, <1>3, <1>4, <1>5 DEF Step, Ending

(* What a write of notes starts from and what it leaves. *)
LEMMA WriteShape ==
  ASSUME TypeInv, FlowInv, NEW q \in Proc, task[q].pc \in Writing
  PROVE  /\ task[q].pool \in Pool /\ task[q].pool \in Support(task[q].pools)
         /\ task[q].held = notes[task[q].pool] /\ task[q].held \subseteq NoteRecord
         /\ task[q] \in Task
  BY DEF TypeInv, TypeOK, Shape, FlowInv, Flow, Writing, Body, Reserving, Task

-----------------------------------------------------------------------------
(* A record never claims more than the chain holds.                        *)

LEMMA EventOnChain ==
  ASSUME TypeInv, NEW p, NEW r, NEW e \in EventsIn(p, r)
  PROVE  e \in Event /\ e.pool = p /\ OnChain(e.kind, p, e.nonce)
  <1>1. PICK b \in 1..Height : e = chain[b] /\ e.pool = p
    BY DEF EventsIn, EventBlocks
  <1>2. e \in Event
    BY <1>1, ChainTypes
  <1>3. e = [kind |-> e.kind, pool |-> p, nonce |-> e.nonce]
    BY <1>1, <1>2 DEF Event
  <1>4. QED
    BY <1>1, <1>2, <1>3 DEF OnChain

LEMMA OnChainStays ==
  ASSUME TypeInv, Grow \/ UNCHANGED chain, NEW k, NEW p, NEW n, OnChain(k, p, n)
  PROVE  OnChain(k, p, n)'
  <1>1. CASE UNCHANGED chain
    BY <1>1 DEF OnChain, Height
  <1>2. CASE Grow
    <2>1. Height \in Nat /\ Height' = Height + 1 /\ \A b \in 1..Height : chain'[b] = chain[b]
      BY <1>2, ChainTypes, GrownBlocks
    <2>2. PICK b \in 1..Height : [kind |-> k, pool |-> p, nonce |-> n] = chain[b]
      BY DEF OnChain
    <2>3. b \in 1..Height' /\ chain'[b] = chain[b]
      BY <2>1
    <2>4. QED
      BY <2>2, <2>3 DEF OnChain
  <1>3. QED
    BY <1>1, <1>2

LEMMA FoundOnChain ==
  ASSUME TypeInv, FoundInv, NEW q \in Proc, task[q].pc \in Restoring, NEW e \in task[q].found
  PROVE  e \in Event /\ OnChain(e.kind, e.pool, e.nonce)
  <1>1. e \in Committed(Support(task[q].pools))
    BY DEF FoundInv, Found, Recovered
  <1>2. PICK p : e \in EventsBelow(p, cursor[p].block)
    BY <1>1 DEF Committed
  <1>3. QED
    BY <1>2, EventOnChain DEF EventsBelow

LEMMA StepHonest ==
  ASSUME TypeInv, NonceInv, FlowInv, RangesInv, FoundInv, HonestInv,
         NEW q \in Proc, Step(q), ~Ending(q)
  PROVE  HonestInv'
  <1>0. UNCHANGED chain
    BY StepNotes
  <1>1. ASSUME UNCHANGED notes PROVE HonestInv'
    BY <1>0, <1>1 DEF HonestInv, Honest, OnChain, Height
  <1>2. ASSUME task[q].pc \in Writing, NEW records, PutNotes(q, records),
               \A x \in records :
                 /\ x.mined => OnChain("deposit", task[q].pool, x.nonce)
                 /\ x.spent => OnChain("withdrawal", task[q].pool, x.nonce)
        PROVE  HonestInv'
    <2>1. /\ notes'[task[q].pool] = records
          /\ \A p \in Pool : p # task[q].pool => notes'[p] = notes[p]
      BY <1>2, WriteShape, NotesWritten
    <2>2. \A p \in Pool : \A r \in notes'[p] :
            /\ r.mined => OnChain("deposit", p, r.nonce)
            /\ r.spent => OnChain("withdrawal", p, r.nonce)
      BY <1>2, <2>1 DEF HonestInv, Honest
    <2>3. \A k, p, n : OnChain(k, p, n) => OnChain(k, p, n)'
      BY <1>0, OnChainStays
    <2>4. QED
      BY <2>2, <2>3 DEF HonestInv, Honest
  <1>3. ASSUME task[q].pc \in Writing
        PROVE  \A r \in task[q].held :
                 /\ r.mined => OnChain("deposit", task[q].pool, r.nonce)
                 /\ r.spent => OnChain("withdrawal", task[q].pool, r.nonce)
    BY <1>3, WriteShape DEF HonestInv, Honest
  <1>4. CASE PutPending(q)
    <2> DEFINE x == [nonce |-> task[q].nonce, mined |-> FALSE, spent |-> FALSE]
    <2>1. task[q].pc \in Writing /\ PutNotes(q, task[q].held \cup {x})
      BY <1>4, PutPendingEffect DEF Writing
    <2>2. ~ x.mined /\ ~ x.spent
      OBVIOUS
    <2>3. QED
      <3> HIDE DEF x
      <3> QED BY <1>2, <1>3, <2>1, <2>2
  <1>5. CASE PutApplied(q)
    <2> DEFINE p == task[q].pool
               events == EventsIn(p, task[q].snap)
    <2>1. task[q].pc \in Writing /\ PutNotes(q, Applied(task[q].held, events))
      BY <1>5, PutAppliedEffect DEF Writing
    <2>2. \A e \in events : OnChain(e.kind, p, e.nonce)
      BY EventOnChain
    <2>3. task[q].held \in SUBSET NoteRecord
      BY <2>1, WriteShape
    <2>4. \A x \in Applied(task[q].held, events) :
            /\ x.mined => OnChain("deposit", p, x.nonce)
            /\ x.spent => OnChain("withdrawal", p, x.nonce)
      <3> HIDE DEF events
      <3> QED BY <1>3, <2>1, <2>2, <2>3, AppliedRecords
    <2>5. QED
      BY <1>2, <2>1, <2>4
  <1>6. CASE PutRestored(q)
    <2>1. task[q].pc \in Writing /\ task[q].pc \in Restoring /\ PutNotes(q, Restored(task[q]))
      BY <1>6, PutRestoredEffect DEF Writing, Restoring
    <2>2. \A k, n : [kind |-> k, pool |-> task[q].pool, nonce |-> n] \in task[q].found
                      => OnChain(k, task[q].pool, n)
      BY <2>1, FoundOnChain
    <2>3. \A x \in Restored(task[q]) :
            /\ x.mined => OnChain("deposit", task[q].pool, x.nonce)
            /\ x.spent => OnChain("withdrawal", task[q].pool, x.nonce)
      <3>1. task[q] \in Task
        BY <2>1, WriteShape
      <3>2. QED
        BY <1>3, <2>1, <2>2, <3>1, RestoredRecords
    <2>4. QED
      BY <1>2, <2>1, <2>3
  <1>7. CASE PutCleared(q)
    <2>1. task[q].pc \in Writing /\ PutNotes(q, Retained(task[q]))
      BY <1>7, PutClearedEffect DEF Writing
    <2>2. Retained(task[q]) \subseteq task[q].held
      BY DEF Retained
    <2>3. QED
      BY <1>2, <1>3, <2>1, <2>2
  <1>8. QED
    BY <1>1, <1>4, <1>5, <1>6, <1>7, StepNotes

LEMMA InitHonest == Init => HonestInv
  BY DEF Init, HonestInv, Honest

LEMMA NextHonest ==
  TypeInv /\ NonceInv /\ FlowInv /\ RangesInv /\ FoundInv /\ HonestInv /\ [Next]_vars
    => HonestInv'
  <1> SUFFICES ASSUME TypeInv, NonceInv, FlowInv, RangesInv, FoundInv, HonestInv, [Next]_vars
               PROVE  HonestInv'
    OBVIOUS
  <1>1. ASSUME UNCHANGED db, Grow \/ UNCHANGED chain PROVE HonestInv'
    <2>1. UNCHANGED notes
      BY <1>1 DEF db
    <2>2. \A k, p, n : OnChain(k, p, n) => OnChain(k, p, n)'
      BY <1>1, OnChainStays
    <2>3. QED
      BY <2>1, <2>2 DEF HonestInv, Honest
  <1>2. QED
    BY <1>1, StepHonest, NextTasks

SafeInv == TypeInv /\ NonceInv /\ FlowInv /\ RangesInv /\ FoundInv /\ HonestInv

LEMMA SafeInvariant == Spec => []SafeInv
  BY RangesInvariant, InitFound, NextFound, InitHonest, NextHonest, PTL DEF Spec, SafeInv

-----------------------------------------------------------------------------
(* With a fresh seed, records tell every event below their pool's cursor.  *)

(* A write that keeps what the records say, and gives nonces that an event *)
(* names no record that says less.                                         *)
LEMMA ToldWrite ==
  ASSUME NEW p, NEW events, Told(p, events),
         \A x \in notes'[p] : \A e \in events : e.nonce = x.nonce =>
           \/ \E r \in notes[p] : r.nonce = x.nonce /\ (r.mined => x.mined) /\ (r.spent => x.spent)
           \/ IF e.kind = "deposit" THEN x.mined ELSE x.spent
  PROVE  \A e \in events : \A x \in Record(p, e.nonce)' :
           IF e.kind = "deposit" THEN x.mined ELSE x.spent
  BY DEF Told, Record

(* The chain's events are of deposits that callers hold. *)
LEMMA ExposedEvents ==
  ASSUME TypeInv, ToldInv, NEW p, NEW r, NEW e \in EventsIn(p, r)
  PROVE  [pool |-> p, nonce |-> e.nonce] \in exposed /\ e.pool = p /\ e \in Event
  <1>1. PICK b \in 1..Height : e = chain[b] /\ e.pool = p
    BY DEF EventsIn, EventBlocks
  <1>2. QED
    BY <1>1, EventOnChain DEF ToldInv

LEMMA InitTold ==
  ASSUME History = <<>>, Init
  PROVE  ToldInv
  <1>1. Height = 0
    BY DEF Init, Height
  <1>2. \A p, r : EventBlocks(p, r) = {}
    BY <1>1 DEF EventBlocks
  <1>3. \A p, b : EventsBelow(p, b) = {}
    BY <1>2 DEF EventsBelow, EventsIn
  <1>4. \A q \in Proc : task[q].pc = "idle"
    BY IdleFields DEF Init
  <1>5. QED
    BY <1>1, <1>3, <1>4 DEF ToldInv, Told

(* The three parts of ToldInv. *)
ChainExposed == \A b \in 1 .. Height : [pool |-> chain[b].pool, nonce |-> chain[b].nonce] \in exposed
BelowTold == \A p \in Pool : Told(p, EventsBelow(p, cursor[p].block))
CommitTold(q) == task[q].pc = "commit" => Told(task[q].pool, EventsIn(task[q].pool, task[q].snap))

LEMMA ToldParts ==
  ToldInv <=> ChainExposed /\ BelowTold /\ \A q \in Proc : CommitTold(q)
  BY DEF ToldInv, ChainExposed, BelowTold, CommitTold

LEMMA NextExposed ==
  ASSUME TypeInv, NonceInv, ToldInv, [Next]_vars
  PROVE  ChainExposed'
  <1>0. ChainExposed /\ Height \in Nat
    BY ToldParts, ChainTypes
  <1>1. exposed \subseteq exposed'
    BY LedgerStep DEF ReturnCalls
  <1>2. CASE Grow
    <2>1. PICK e \in Event :
            /\ chain' = Append(chain, e)
            /\ IF e.kind = "deposit" THEN [pool |-> e.pool, nonce |-> e.nonce] \in exposed
               ELSE OnChain("deposit", e.pool, e.nonce)
      BY <1>2, GrowEffect
    <2>2. [pool |-> e.pool, nonce |-> e.nonce] \in exposed
      <3>1. CASE e.kind = "deposit"
        BY <2>1, <3>1
      <3>2. CASE e.kind # "deposit"
        <4> DEFINE d == [kind |-> "deposit", pool |-> e.pool, nonce |-> e.nonce]
        <4>1. PICK b \in 1..Height : d = chain[b]
          BY <2>1, <3>2 DEF OnChain
        <4>2. d.pool = e.pool /\ d.nonce = e.nonce
          OBVIOUS
        <4>3. QED
          <5> HIDE DEF d
          <5> QED BY <1>0, <4>1, <4>2 DEF ChainExposed
      <3>3. QED
        BY <3>1, <3>2
    <2>3. Height' = Height + 1 /\ \A b \in 1..Height : chain'[b] = chain[b]
      BY <1>2, GrownBlocks
    <2>4. chain'[Height + 1] = e
      BY <2>1, ChainTypes DEF Height
    <2>5. \A b \in 1..(Height + 1) : b \in 1..Height \/ b = Height + 1
      BY <1>0
    <2>6. QED
      BY <1>0, <1>1, <2>2, <2>3, <2>4, <2>5 DEF ChainExposed
  <1>3. ASSUME NEW q \in Proc, Step(q), ~ Ending(q) PROVE UNCHANGED chain
    BY <1>3, StepNotes
  <1>4. CASE UNCHANGED chain
    BY <1>0, <1>1, <1>4 DEF ChainExposed, Height
  <1>5. QED
    BY <1>2, <1>3, <1>4, NextTasks

(* What is below the cursor after a commit was below it, or in the snapshot. *)
LEMMA BelowCommitted ==
  ASSUME TypeInv, RangesInv, NEW q \in Proc, CommitSnapshot(q), NEW p \in Pool
  PROVE  EventsBelow(p, cursor[p].block)' \subseteq EventsBelow(p, cursor[p].block)
           \cup IF p = task[q].pool THEN EventsIn(p, task[q].snap) ELSE {}
  <1>1. /\ task[q].pc = "commit" /\ UNCHANGED chain
        /\ cursor' = [cursor EXCEPT ![task[q].pool] =
              [block |-> task[q].snap.to,
               chunks |-> @.chunks + IF EventBlocks(task[q].pool, task[q].snap) = {} THEN 0 ELSE 1]]
    BY CommitSnapshotEffect
  <1>2. cursor \in [Pool -> [block : Nat, chunks : Nat]]
    BY DEF TypeInv, TypeOK
  <1>3. CASE p # task[q].pool
    <2>1. cursor'[p] = cursor[p]
      BY <1>1, <1>2, <1>3
    <2>2. QED
      BY <1>1, <2>1 DEF EventsBelow, EventsIn, EventBlocks, Height
  <1>4. CASE p = task[q].pool
    <2>1. PICK s : s = task[q].snap
      OBVIOUS
    <2>2. PICK at : at = cursor[p].block
      OBVIOUS
    <2>3. cursor'[p].block = s.to
      BY <1>1, <1>2, <1>4, <2>1
    <2>4. s.from = at /\ at \in Nat /\ s.to \in Nat
      BY <1>1, <2>1, <2>2, <1>4, ChainTypes DEF RangesInv, Snapped, Syncing
    <2> DEFINE old == [from |-> Deployed, to |-> at]
               new == [from |-> Deployed, to |-> s.to]
    <2>5. EventBlocks(p, new) \subseteq EventBlocks(p, old) \cup EventBlocks(p, s)
      <3>1. new.from = Deployed /\ old.from = Deployed /\ old.to = at /\ new.to = s.to
        OBVIOUS
      <3>2. QED
        <4> HIDE DEF old, new
        <4> QED BY <2>4, <3>1 DEF EventBlocks
    <2>6. EventsIn(p, new) \subseteq EventsIn(p, old) \cup EventsIn(p, s)
      <3> HIDE DEF old, new
      <3> QED BY <2>5 DEF EventsIn
    <2>7. EventsBelow(p, cursor[p].block)' = EventsIn(p, new)
      BY <1>1, <2>3 DEF EventsBelow, EventsIn, EventBlocks, Height
    <2>8. EventsBelow(p, cursor[p].block) = EventsIn(p, old)
      BY <2>2 DEF EventsBelow
    <2>9. QED
      BY <1>4, <2>1, <2>6, <2>7, <2>8
  <1>5. QED
    BY <1>3, <1>4

LEMMA StepCursor ==
  ASSUME TypeInv, NEW q \in Proc, Step(q), ~Ending(q)
  PROVE  /\ UNCHANGED cursor \/ CommitSnapshot(q)
         /\ task'[q].pc = "commit" => PutApplied(q)
  <1>1. CASE Track(q) \/ ReserveNonce(q) \/ BurnNonce(q)
    BY <1>1, TrackEffect, ReserveNonceEffect, BurnNonceEffect
  <1>2. CASE ReadHeight(q) \/ SyncPool(q) \/ PutSnapshot(q)
    BY <1>2, ReadHeightEffect, SyncPoolEffect, PutSnapshotEffect
  <1>3. CASE CommitSnapshot(q) \/ Scan(q) \/ PublishMark(q)
    BY <1>3, CommitSnapshotEffect, ScanEffect, PublishMarkEffect
  <1>4. CASE NextPool(q) \/ LoopEnds(q)
    BY <1>4, NextPoolEffect, LoopEndsEffect
  <1>5. CASE PutPending(q) \/ PutApplied(q) \/ PutRestored(q) \/ PutCleared(q)
    BY <1>5, PutPendingEffect, PutAppliedEffect, PutRestoredEffect, PutClearedEffect
       DEF PutNotes
  <1>6. CASE LoadNotes(q)
    BY <1>6, LoadNotesEffect DEF AfterLoad
  <1>7. CASE Synced(q)
    BY <1>7, SyncedEffect DEF AfterSync
  <1>8. QED
    BY <1>1, <1>2, <1>3, <1>4, <1>5, <1>6, <1>7 DEF Step, Ending

(* The records a write leaves tell at least what those it replaces told.   *)
LEMMA WritesTold ==
  ASSUME SafeInv, ToldInv, NEW q \in Proc,
         PutPending(q) \/ PutApplied(q) \/ PutRestored(q) \/ PutCleared(q)
  PROVE  LET p == task[q].pool IN
         \A x \in notes'[p] : \A e \in EventsBelow(p, cursor[p].block) : e.nonce = x.nonce =>
           \/ \E r \in notes[p] : r.nonce = x.nonce /\ (r.mined => x.mined) /\ (r.spent => x.spent)
           \/ IF e.kind = "deposit" THEN x.mined ELSE x.spent
  <1>i. TypeInv /\ NonceInv /\ FlowInv /\ FoundInv /\ RangesInv
    BY DEF SafeInv
  <1>0. task[q].pc \in Writing
    BY <1>i, PutPendingEffect, PutAppliedEffect, PutRestoredEffect, PutClearedEffect DEF Writing
  <1>p. PICK p \in Pool : p = task[q].pool
    BY <1>i, <1>0, WriteShape
  <1>1. /\ task[q].held = notes[p] /\ task[q].held \subseteq NoteRecord /\ task[q] \in Task
        /\ p \in Support(task[q].pools)
    BY <1>i, <1>0, <1>p, WriteShape
  <1>2. ASSUME NEW records, PutNotes(q, records) PROVE notes'[p] = records
    BY <1>i, <1>p, <1>2, NotesWritten
  <1>3. SUFFICES ASSUME NEW x \in notes'[p], NEW e \in EventsBelow(p, cursor[p].block),
                        e.nonce = x.nonce
                 PROVE  \/ \E r \in notes[p] : /\ r.nonce = x.nonce
                                               /\ r.mined => x.mined
                                               /\ r.spent => x.spent
                        \/ IF e.kind = "deposit" THEN x.mined ELSE x.spent
    BY <1>p
  <1>4. CASE x \in notes[p]
    BY <1>4
  <1>5. CASE PutPending(q)
    <2> DEFINE y == [nonce |-> task[q].nonce, mined |-> FALSE, spent |-> FALSE]
    <2>1. /\ task[q].pc = "put_pending" /\ PutNotes(q, task[q].held \cup {y})
          /\ y.nonce = task[q].nonce
      BY <1>i, <1>5, PutPendingEffect
    <2>2. x \in notes[p] \/ x.nonce = task[q].nonce
      <3> HIDE DEF y
      <3> QED BY <1>1, <1>2, <2>1
    <2>3. [pool |-> p, nonce |-> e.nonce] \in exposed
      BY <1>i, ExposedEvents DEF EventsBelow
    <2>4. \A d \in exposed : d.nonce < task[q].nonce
      BY <1>i, <2>1 DEF NonceInv, NonceShape
    <2>5. task[q].nonce \in Nat
      BY <1>1, ConstantAssumption DEF Task
    <2>6. e.nonce < task[q].nonce
      <3> DEFINE d == [pool |-> p, nonce |-> e.nonce]
      <3>1. d.nonce = e.nonce /\ d \in exposed
        BY <2>3
      <3>2. QED
        <4> HIDE DEF d
        <4> QED BY <2>4, <3>1
    <2>7. QED
      BY <1>3, <1>4, <2>2, <2>5, <2>6
  <1>6. CASE PutApplied(q)
    <2>1. PutNotes(q, Applied(task[q].held, EventsIn(task[q].pool, task[q].snap)))
      BY <1>i, <1>6, PutAppliedEffect
    <2>2. x \in Applied(task[q].held, EventsIn(task[q].pool, task[q].snap))
      BY <1>2, <2>1
    <2>3. QED
      BY <1>1, <2>2, AppliedRecords
  <1>7. CASE PutRestored(q)
    <2>1. task[q].pc \in Restoring /\ PutNotes(q, Restored(task[q]))
      BY <1>i, <1>7, PutRestoredEffect DEF Restoring
    <2>2. x \in Restored(task[q])
      BY <1>2, <2>1
    <2> DEFINE kept(n) == [kind |-> "deposit", pool |-> p, nonce |-> n] \notin task[q].found
               left(n) == [kind |-> "withdrawal", pool |-> p, nonce |-> n] \in task[q].found
    <2>3. \/ x \in task[q].held
          \/ ~ kept(x.nonce) /\ x.mined /\ (x.spent <=> left(x.nonce))
      BY <1>p, <1>1, <2>2, RestoredRecords
    <2>4. ASSUME ~ kept(x.nonce), e.kind = "withdrawal" PROVE left(x.nonce)
      <3>1. task[q].found = Recovered(Committed(Support(task[q].pools)))
        BY <1>i, <2>1 DEF FoundInv, Found
      <3>2. e \in Committed(Support(task[q].pools))
        BY <1>1 DEF Committed
      <3>3. x.nonce \in Reached(Committed(Support(task[q].pools)))
        <4> DEFINE d == [kind |-> "deposit", pool |-> p, nonce |-> x.nonce]
        <4>1. d \in task[q].found /\ d.nonce = x.nonce
          BY <2>4
        <4>2. QED
          <5> HIDE DEF d
          <5> QED BY <3>1, <4>1 DEF Recovered
      <3>4. e \in task[q].found
        BY <1>3, <3>1, <3>2, <3>3 DEF Recovered
      <3>5. e = [kind |-> "withdrawal", pool |-> p, nonce |-> x.nonce]
        <4>1. e \in Event /\ e.pool = p
          BY <1>i, EventOnChain DEF EventsBelow
        <4>2. QED
          BY <1>3, <2>4, <4>1 DEF Event
      <3>6. QED
        BY <3>4, <3>5
    <2>5. e.kind \in {"deposit", "withdrawal"}
      BY <1>i, EventOnChain DEF EventsBelow, Event
    <2>6. QED
      <3> HIDE DEF kept, left
      <3> QED BY <1>1, <1>4, <2>3, <2>4, <2>5
  <1>8. CASE PutCleared(q)
    <2>1. PutNotes(q, Retained(task[q]))
      BY <1>i, <1>8, PutClearedEffect
    <2>2. QED
      BY <1>1, <1>2, <1>4, <2>1 DEF Retained
  <1>9. QED
    BY <1>5, <1>6, <1>7, <1>8

LEMMA StepTold ==
  ASSUME SafeInv, ToldInv, NEW q \in Proc, Step(q), ~Ending(q)
  PROVE  BelowTold' /\ CommitTold(q)'
  <1>i. TypeInv /\ NonceInv /\ FlowInv /\ FoundInv /\ RangesInv
    BY DEF SafeInv
  <1>0. UNCHANGED chain /\ BelowTold
    BY <1>i, StepNotes, ToldParts
  <1>1. CASE CommitSnapshot(q)
    <2>1. UNCHANGED notes /\ task[q].pc = "commit"
      BY <1>i, <1>1, CommitSnapshotEffect
    <2>2. ASSUME NEW p \in Pool, NEW e \in EventsBelow(p, cursor[p].block)',
                 NEW x \in notes[p], x.nonce = e.nonce
          PROVE  IF e.kind = "deposit" THEN x.mined ELSE x.spent
      <3>1. \/ e \in EventsBelow(p, cursor[p].block)
            \/ p = task[q].pool /\ e \in EventsIn(task[q].pool, task[q].snap)
        BY <1>i, <1>1, <2>2, BelowCommitted
      <3>2. CASE e \in EventsBelow(p, cursor[p].block)
        BY <1>0, <2>2, <3>2 DEF BelowTold, Told, Record
      <3>3. CASE p = task[q].pool /\ e \in EventsIn(task[q].pool, task[q].snap)
        BY <2>1, <2>2, <3>3, ToldParts DEF CommitTold, Told, Record
      <3>4. QED
        BY <3>1, <3>2, <3>3
    <2>3. BelowTold'
      BY <2>1, <2>2 DEF BelowTold, Told, Record
    <2>4. QED
      BY <1>i, <1>1, <2>3, CommitSnapshotEffect DEF CommitTold
  <1>2. CASE PutPending(q) \/ PutApplied(q) \/ PutRestored(q) \/ PutCleared(q)
    <2>0. task[q].pc \in Writing /\ UNCHANGED cursor
      BY <1>i, <1>2, PutPendingEffect, PutAppliedEffect, PutRestoredEffect, PutClearedEffect
         DEF Writing, PutNotes
    <2>1. PICK p \in Pool : p = task[q].pool
      BY <1>i, <2>0, WriteShape
    <2>2. \A x \in Pool : x # p => notes'[x] = notes[x]
      BY <1>2, <2>1, <1>i, NotesWritten, PutPendingEffect, PutAppliedEffect,
         PutRestoredEffect, PutClearedEffect
    <2>3. PICK events : events = EventsBelow(p, cursor[p].block)
      OBVIOUS
    <2>4. Told(p, events)
      BY <1>0, <2>3 DEF BelowTold
    <2>5. \A e \in events : \A x \in Record(p, e.nonce)' :
            IF e.kind = "deposit" THEN x.mined ELSE x.spent
      <3>1. \A x \in notes'[p] : \A e \in events : e.nonce = x.nonce =>
              \/ \E r \in notes[p] : /\ r.nonce = x.nonce
                                     /\ r.mined => x.mined
                                     /\ r.spent => x.spent
              \/ IF e.kind = "deposit" THEN x.mined ELSE x.spent
        BY <1>2, <2>1, <2>3, WritesTold
      <3>2. QED
        BY <2>4, <3>1, ToldWrite
    <2>6. \A x \in Pool : EventsBelow(x, cursor[x].block)' = EventsBelow(x, cursor[x].block)
      BY <1>0, <1>i, <2>0, BelowStays
    <2>7. ASSUME NEW x \in Pool PROVE Told(x, EventsBelow(x, cursor[x].block))'
      <3>1. CASE x = p
        BY <2>3, <2>5, <2>6, <3>1 DEF Told
      <3>2. CASE x # p
        BY <1>0, <2>2, <2>6, <3>2 DEF BelowTold, Told, Record
      <3>3. QED
        BY <3>1, <3>2
    <2>8. BelowTold'
      BY <2>7 DEF BelowTold
    <2>9. CASE ~ PutApplied(q)
      BY <1>i, <2>8, <2>9, StepCursor DEF CommitTold
    <2>10. CASE PutApplied(q)
      <3>1. PICK new : new = EventsIn(task[q].pool, task[q].snap)
        OBVIOUS
      <3>2. task'[q].pool = p /\ task'[q].snap = task[q].snap
            /\ PutNotes(q, Applied(task[q].held, new))
        BY <1>i, <2>1, <2>10, <3>1, PutAppliedEffect
      <3>3. notes'[p] = Applied(task[q].held, new) /\ task[q].held \in SUBSET NoteRecord
        BY <1>i, <2>0, <2>1, <3>2, NotesWritten, WriteShape
      <3>4. \A e \in new : e.kind \in {"deposit", "withdrawal"}
        BY <1>i, <3>1, EventOnChain DEF Event
      <3>5. \A e \in new : \A x \in notes'[p] : x.nonce = e.nonce =>
              IF e.kind = "deposit" THEN x.mined ELSE x.spent
        <4>1. \A x \in notes'[p] :
                /\ (\E e \in new : e.kind = "deposit" /\ e.nonce = x.nonce) => x.mined
                /\ (\E e \in new : e.kind = "withdrawal" /\ e.nonce = x.nonce) => x.spent
          <5>1. \A x \in Applied(task[q].held, new) :
                  /\ (\E e \in new : e.kind = "deposit" /\ e.nonce = x.nonce) => x.mined
                  /\ (\E e \in new : e.kind = "withdrawal" /\ e.nonce = x.nonce) => x.spent
            <6>1. PICK records \in SUBSET NoteRecord : records = task[q].held
              BY <3>3
            <6>2. \A x \in Applied(records, new) : \E r \in records :
                    /\ x.mined <=> r.mined \/ \E e \in new : e.kind = "deposit" /\ e.nonce = x.nonce
                    /\ x.spent <=> r.spent \/ \E e \in new : e.kind = "withdrawal" /\ e.nonce = x.nonce
              BY AppliedRecords
            <6>3. QED
              BY <6>1, <6>2
          <5>2. QED
            BY <3>3, <5>1
        <4>2. QED
          BY <3>4, <4>1
      <3>6. EventsIn(task[q].pool, task[q].snap)' = new
        BY <1>0, <2>1, <3>1, <3>2 DEF EventsIn, EventBlocks, Height
      <3>7. QED
        BY <2>8, <3>2, <3>5, <3>6 DEF CommitTold, Told, Record
    <2>11. QED
      BY <2>9, <2>10
  <1>3. CASE ~ (PutPending(q) \/ PutApplied(q) \/ PutRestored(q) \/ PutCleared(q))
             /\ ~ CommitSnapshot(q)
    <2>1. UNCHANGED <<cursor, notes>> /\ task'[q].pc # "commit"
      BY <1>i, <1>3, StepNotes, StepCursor
    <2>2. \A x \in Pool : EventsBelow(x, cursor[x].block)' = EventsBelow(x, cursor[x].block)
      BY <1>0, <1>i, <2>1, BelowStays
    <2>3. BelowTold'
      BY <1>0, <2>1, <2>2 DEF BelowTold, Told, Record
    <2>4. QED
      BY <2>1, <2>3 DEF CommitTold
  <1>4. QED
    BY <1>1, <1>2, <1>3

LEMMA NextTold == SafeInv /\ ToldInv /\ [Next]_vars => ToldInv'
  <1> SUFFICES ASSUME SafeInv, ToldInv, [Next]_vars PROVE ToldInv'
    OBVIOUS
  <1>i. TypeInv /\ NonceInv /\ RangesInv
    BY DEF SafeInv
  <1>0. ChainExposed' /\ BelowTold /\ \A q \in Proc : CommitTold(q)
    BY <1>i, NextExposed, ToldParts
  <1>s. SUFFICES BelowTold' /\ \A q \in Proc : CommitTold(q)'
    BY <1>0, ToldParts DEF ToldInv, ChainExposed, BelowTold, CommitTold
  <1>1. ASSUME NEW q \in Proc, Step(q), ~ Ending(q), \A r \in Proc \ {q} : task'[r].pc = "idle"
        PROVE  BelowTold' /\ \A r \in Proc : CommitTold(r)'
    BY <1>1, StepTold DEF CommitTold
  <1>2. ASSUME UNCHANGED <<cursor, notes>>, Grow \/ UNCHANGED chain PROVE BelowTold'
    <2>1. \A x \in Pool : EventsBelow(x, cursor[x].block)' = EventsBelow(x, cursor[x].block)
      BY <1>i, <1>2, BelowStays
    <2>2. QED
      BY <1>0, <1>2, <2>1 DEF BelowTold, Told, Record
  <1>3. ASSUME \A r \in Proc : task'[r].pc \in {"idle", "track", "height"}
        PROVE  \A r \in Proc : CommitTold(r)'
    BY <1>3 DEF CommitTold
  <1>4. ASSUME UNCHANGED <<db, task>>, Grow \/ UNCHANGED chain
        PROVE  \A r \in Proc : CommitTold(r)'
    <2>1. ASSUME NEW r \in Proc, task[r].pc = "commit"
          PROVE  EventsIn(task[r].pool, task[r].snap)' = EventsIn(task[r].pool, task[r].snap)
      <3>1. PICK s, p : s = task[r].snap /\ p = task[r].pool
        OBVIOUS
      <3>2. s.to \in Nat /\ s.to <= Height + 1
        BY <1>i, <2>1, <3>1, ChainTypes DEF RangesInv, Snapped, Syncing
      <3>3. EventsIn(p, s)' = EventsIn(p, s)
        BY <1>i, <1>4, <3>2, GrownBlocks DEF EventsIn, EventBlocks, Height
      <3>4. QED
        BY <1>4, <3>1, <3>3 DEF EventsIn, EventBlocks
    <2>2. QED
      BY <1>0, <1>4, <2>1 DEF CommitTold, Told, Record, db
  <1>5. QED
    BY <1>i, <1>1, <1>2, <1>3, <1>4, NextTasks DEF db

(* The seed is fresh: no earlier installation of it is on the chain. *)
LEMMA ToldInvariant ==
  ASSUME History = <<>>
  PROVE  Spec => [](SafeInv /\ ToldInv)
  BY SafeInvariant, InitTold, NextTold, PTL DEF Spec

(* Once a cursor has passed a note's deposit or withdrawal its record says *)
(* so, and a record never claims more than the chain holds.                *)
THEOREM NotesFollowCursor ==
  ASSUME History = <<>>
  PROVE  Spec => []NotesAgreeWithCursor
  <1>1. SafeInv /\ ToldInv => NotesAgreeWithCursor
    BY DEF SafeInv, HonestInv, Honest, ToldInv, Told, NotesAgreeWithCursor
  <1>2. QED
    BY ToldInvariant, <1>1, PTL

-----------------------------------------------------------------------------
(* What a write may forget.                                                *)

(* A write keeps a record of every nonce, with its marks, unless           *)
(* clear_pending drops one that is neither mined nor spent, or a recovery  *)
(* puts a mined one in its place.                                          *)
LEMMA WritesKeep ==
  ASSUME TypeInv, FlowInv, NEW q \in Proc, NEW p \in Pool, NEW r \in notes[p],
         PutPending(q) \/ PutApplied(q) \/ PutRestored(q) \/ PutCleared(q)
  PROVE  \/ \E s \in notes'[p] : s.nonce = r.nonce /\ (r.mined => s.mined) /\ (r.spent => s.spent)
         \/ PutCleared(q) /\ ~ r.mined /\ ~ r.spent
         \/ /\ PutRestored(q) /\ p = task[q].pool
            /\ [kind |-> "deposit", pool |-> p, nonce |-> r.nonce] \in task[q].found
            /\ \E s \in notes'[p] :
                 /\ s.nonce = r.nonce /\ s.mined
                 /\ s.spent <=> [kind |-> "withdrawal", pool |-> p, nonce |-> r.nonce] \in task[q].found
  <1>0. task[q].pc \in Writing
    BY PutPendingEffect, PutAppliedEffect, PutRestoredEffect, PutClearedEffect DEF Writing
  <1>1. CASE p # task[q].pool
    <2>1. notes'[p] = notes[p]
      BY <1>0, <1>1, WriteShape, NotesWritten, PutPendingEffect, PutAppliedEffect,
         PutRestoredEffect, PutClearedEffect
    <2>2. QED
      BY <2>1
  <1>2. CASE p = task[q].pool
    <2>0. task[q].held = notes[p] /\ task[q].held \in SUBSET NoteRecord /\ task[q] \in Task
      BY <1>0, <1>2, WriteShape
    <2>1. ASSUME NEW records, PutNotes(q, records) PROVE notes'[p] = records
      BY <1>2, <2>1, NotesWritten
    <2>2. CASE PutPending(q)
      <3>1. r \in notes'[p]
        BY <2>0, <2>1, <2>2, PutPendingEffect
      <3>2. QED
        BY <3>1
    <2>3. CASE PutApplied(q)
      <3>1. PICK new : new = EventsIn(task[q].pool, task[q].snap)
        OBVIOUS
      <3>2. notes'[p] = Applied(task[q].held, new)
        BY <2>1, <2>3, <3>1, PutAppliedEffect
      <3>3. \E s \in Applied(task[q].held, new) :
              s.nonce = r.nonce /\ (r.mined => s.mined) /\ (r.spent => s.spent)
        BY <2>0, AppliedRecords
      <3>4. QED
        BY <3>2, <3>3
    <2>4. CASE PutRestored(q)
      <3>1. notes'[p] = Restored(task[q])
        BY <2>1, <2>4, PutRestoredEffect
      <3> DEFINE kept(n) == [kind |-> "deposit", pool |-> task[q].pool, nonce |-> n] \notin task[q].found
                 left(n) == [kind |-> "withdrawal", pool |-> task[q].pool, nonce |-> n] \in task[q].found
      <3>2. /\ kept(r.nonce) => r \in notes'[p]
            /\ ~ kept(r.nonce) => \E s \in notes'[p] :
                 s.nonce = r.nonce /\ s.mined /\ (s.spent <=> left(r.nonce))
        BY <2>0, <3>1, RestoredRecords
      <3>3. /\ left(r.nonce) <=> [kind |-> "withdrawal", pool |-> p, nonce |-> r.nonce] \in task[q].found
            /\ ~ kept(r.nonce) => [kind |-> "deposit", pool |-> p, nonce |-> r.nonce] \in task[q].found
        BY <1>2
      <3>4. QED
        <4> HIDE DEF kept, left
        <4> QED BY <1>2, <2>4, <3>2, <3>3
    <2>5. CASE PutCleared(q)
      <3>1. notes'[p] = Retained(task[q])
        BY <2>1, <2>5, PutClearedEffect
      <3>2. r.mined \/ r.spent => r \in notes'[p]
        BY <2>0, <3>1 DEF Retained
      <3>3. QED
        BY <2>5, <3>2
    <2>6. QED
      BY <2>2, <2>3, <2>4, <2>5
  <1>3. QED
    BY <1>1, <1>2

(* Only a write of the notes takes a record away. *)
LEMMA NotesChange ==
  ASSUME TypeInv, NonceInv, [Next]_vars
  PROVE  \/ UNCHANGED notes
         \/ \E q \in Proc : PutPending(q) \/ PutApplied(q) \/ PutRestored(q) \/ PutCleared(q)
  BY StepNotes, NextTasks DEF db

(* clear_pending forgets no note whose deposit lies below the cursor, and  *)
(* nothing else forgets a record.                                          *)
THEOREM MinedNotesKept ==
  ASSUME History = <<>>
  PROVE  Spec => OnlyUnminedForgotten
  <1>1. SafeInv /\ ToldInv /\ [Next]_vars =>
          [\A p \in Pool : \A r \in notes[p] :
              \/ \E s \in notes'[p] : s.nonce = r.nonce
              \/ [kind |-> "deposit", pool |-> p, nonce |-> r.nonce]
                    \notin EventsBelow(p, cursor[p].block)]_vars
    <2> SUFFICES ASSUME SafeInv, ToldInv, [Next]_vars, NEW p \in Pool, NEW r \in notes[p],
                        ~ \E s \in notes'[p] : s.nonce = r.nonce
                 PROVE  [kind |-> "deposit", pool |-> p, nonce |-> r.nonce]
                           \notin EventsBelow(p, cursor[p].block)
      OBVIOUS
    <2>i. TypeInv /\ NonceInv /\ FlowInv
      BY DEF SafeInv
    <2>1. PICK q \in Proc : PutPending(q) \/ PutApplied(q) \/ PutRestored(q) \/ PutCleared(q)
      BY <2>i, NotesChange
    <2>2. ~ r.mined
      <3>1. \/ \E s \in notes'[p] : s.nonce = r.nonce /\ (r.mined => s.mined) /\ (r.spent => s.spent)
            \/ PutCleared(q) /\ ~ r.mined /\ ~ r.spent
            \/ /\ PutRestored(q) /\ p = task[q].pool
               /\ [kind |-> "deposit", pool |-> p, nonce |-> r.nonce] \in task[q].found
               /\ \E s \in notes'[p] :
                    /\ s.nonce = r.nonce /\ s.mined
                    /\ s.spent <=> [kind |-> "withdrawal", pool |-> p, nonce |-> r.nonce]
                                      \in task[q].found
        BY <2>i, <2>1, WritesKeep
      <3>2. QED
        BY <3>1
    <2>3. \A e \in EventsBelow(p, cursor[p].block) :
            e.kind = "deposit" /\ e.nonce = r.nonce => r.mined
      BY DEF ToldInv, Told, Record
    <2> DEFINE d == [kind |-> "deposit", pool |-> p, nonce |-> r.nonce]
    <2>4. d.kind = "deposit" /\ d.nonce = r.nonce
      OBVIOUS
    <2>5. QED
      <3> HIDE DEF d
      <3> QED BY <2>2, <2>3, <2>4 DEF d
  <1>2. QED
    BY ToldInvariant, <1>1, PTL DEF Spec, OnlyUnminedForgotten

-----------------------------------------------------------------------------
(* While endpoints answer from the head, no mark is ever taken back.       *)

(* A recovery finds all that its pools have committed of a nonce, or none. *)
LEMMA FoundTogether ==
  ASSUME FoundInv, NEW q \in Proc, task[q].pc \in Restoring, NEW p \in Support(task[q].pools),
         NEW e \in EventsBelow(p, cursor[p].block), NEW d \in task[q].found, d.nonce = e.nonce
  PROVE  e \in task[q].found
  <1>1. task[q].found = Recovered(Committed(Support(task[q].pools)))
    BY DEF FoundInv, Found
  <1>2. e \in Committed(Support(task[q].pools))
    BY DEF Committed
  <1>3. QED
    BY <1>1, <1>2 DEF Recovered

LEMMA FoundBelow ==
  ASSUME TypeInv, FoundInv, NEW q \in Proc, task[q].pc \in Restoring, NEW e \in task[q].found
  PROVE  e.pool \in Support(task[q].pools) /\ e \in EventsBelow(e.pool, cursor[e.pool].block)
  <1>1. e \in Committed(Support(task[q].pools))
    BY DEF FoundInv, Found, Recovered
  <1>2. PICK p \in Support(task[q].pools) : e \in EventsBelow(p, cursor[p].block)
    BY <1>1 DEF Committed
  <1>3. e.pool = p
    BY <1>2, EventOnChain DEF EventsBelow
  <1>4. QED
    BY <1>2, <1>3

(* A larger bound leaves no event out, and neither does a longer chain. *)
LEMMA BelowGrows ==
  ASSUME TypeInv, NEW p
  PROVE  /\ \A b, c \in Nat : b <= c => EventsBelow(p, b) \subseteq EventsBelow(p, c)
         /\ Grow => \A b \in Nat : EventsBelow(p, b) \subseteq EventsBelow(p, b)'
  <1>1. ASSUME NEW b \in Nat, NEW c \in Nat, b <= c
        PROVE  EventsBelow(p, b) \subseteq EventsBelow(p, c)
    <2> DEFINE r == [from |-> Deployed, to |-> b]
               s == [from |-> Deployed, to |-> c]
    <2>1. r.from = Deployed /\ s.from = Deployed /\ r.to = b /\ s.to = c /\ Height \in Nat
      BY ChainTypes
    <2>2. EventBlocks(p, r) \subseteq EventBlocks(p, s)
      <3> HIDE DEF r, s
      <3> QED BY <1>1, <2>1 DEF EventBlocks
    <2>3. EventsIn(p, r) \subseteq EventsIn(p, s)
      <3> HIDE DEF r, s
      <3> QED BY <2>2 DEF EventsIn
    <2>4. QED
      BY <2>3 DEF EventsBelow
  <1>2. ASSUME Grow, NEW b \in Nat
        PROVE  EventsBelow(p, b) \subseteq EventsBelow(p, b)'
    <2> DEFINE r == [from |-> Deployed, to |-> b]
    <2>1. Height \in Nat /\ Height' = Height + 1 /\ \A x \in 1..Height : chain'[x] = chain[x]
      BY <1>2, ChainTypes, GrownBlocks
    <2>2. \A x \in EventBlocks(p, r) : x \in EventBlocks(p, r)' /\ chain'[x] = chain[x]
      <3> HIDE DEF r
      <3> QED BY <2>1 DEF EventBlocks
    <2>3. EventsIn(p, r) \subseteq EventsIn(p, r)'
      <3> HIDE DEF r
      <3> QED BY <2>2 DEF EventsIn
    <2>4. QED
      BY <2>3 DEF EventsBelow
  <1>3. QED
    BY <1>1, <1>2

LEMMA MarkedStays ==
  ASSUME TypeInv, Grow \/ UNCHANGED chain, UNCHANGED notes, NEW p
  PROVE  \A b \in Nat : MarkedBelow(p, b) => MarkedBelow(p, b)'
  <1>1. ASSUME NEW b \in Nat, MarkedBelow(p, b) PROVE MarkedBelow(p, b)'
    <2>1. EventsBelow(p, b) \subseteq EventsBelow(p, b)'
      <3>1. CASE Grow
        BY <3>1, BelowGrows
      <3>2. CASE UNCHANGED chain
        BY <3>2 DEF EventsBelow, EventsIn, EventBlocks, Height
      <3>3. QED
        BY <3>1, <3>2
    <2>2. QED
      BY <1>1, <2>1 DEF MarkedBelow
  <1>2. QED
    BY <1>1

(* At the head nothing that a record claims is out of sight. *)
LEMMA MarkedAtHead ==
  ASSUME TypeInv, HonestInv, NEW p \in Pool
  PROVE  MarkedFrom(p, Height + 1)
  <1>1. ASSUME NEW k, NEW n, OnChain(k, p, n)
        PROVE  [kind |-> k, pool |-> p, nonce |-> n] \in EventsBelow(p, Height + 1)
    <2> DEFINE e == [kind |-> k, pool |-> p, nonce |-> n]
               r == [from |-> Deployed, to |-> Height + 1]
    <2>1. PICK b \in 1..Height : e = chain[b]
      BY <1>1 DEF OnChain
    <2>2. e.pool = p /\ r.from = Deployed /\ r.to = Height + 1 /\ Height \in Nat
      BY ChainTypes
    <2>3. b \in EventBlocks(p, r)
      <3> HIDE DEF e, r
      <3> QED BY <2>1, <2>2 DEF EventBlocks, Deployed
    <2>4. e \in EventsIn(p, r)
      <3> HIDE DEF e, r
      <3> QED BY <2>1, <2>3 DEF EventsIn
    <2>5. QED
      BY <2>4 DEF EventsBelow
  <1>2. ASSUME NEW b \in Nat, Height + 1 <= b
        PROVE  EventsBelow(p, Height + 1) \subseteq EventsBelow(p, b)
    <2>1. Height + 1 \in Nat
      BY ChainTypes
    <2>2. QED
      BY <1>2, <2>1, BelowGrows
  <1>3. QED
    BY <1>1, <1>2 DEF HonestInv, Honest, MarkedBelow, MarkedFrom

LEMMA SnapBelow ==
  ASSUME TypeInv, RangesInv, NEW q \in Proc, task[q].pc \in Syncing, NEW b \in Nat,
         task[q].snap.to <= b
  PROVE  EventsIn(task[q].pool, task[q].snap) \subseteq EventsBelow(task[q].pool, b)
  <1>1. PICK p, s : p = task[q].pool /\ s = task[q].snap
    OBVIOUS
  <1> DEFINE r == [from |-> Deployed, to |-> b]
  <1>2. r.from = Deployed /\ r.to = b /\ s.to \in Nat /\ Height \in Nat /\ s.to <= b
    BY <1>1, ChainTypes
  <1>3. EventBlocks(p, s) \subseteq EventBlocks(p, r)
    <2> HIDE DEF r
    <2> QED BY <1>2 DEF EventBlocks, Deployed
  <1>4. EventsIn(p, s) \subseteq EventsIn(p, r)
    <2> HIDE DEF r
    <2> QED BY <1>3 DEF EventsIn
  <1>5. QED
    BY <1>1, <1>4 DEF EventsBelow

(* The writes of a sync and of a recovery mark no more than lies below     *)
(* the bound.                                                              *)
LEMMA WritesMarked ==
  ASSUME SafeInv, NEW q \in Proc, PutApplied(q) \/ PutRestored(q), NEW b \in Nat,
         IF PutApplied(q) THEN task[q].snap.to <= b ELSE cursor[task[q].pool].block <= b,
         NEW p \in Pool, MarkedBelow(p, b)
  PROVE  MarkedBelow(p, b)'
  <1>i. TypeInv /\ FlowInv /\ RangesInv /\ FoundInv
    BY DEF SafeInv
  <1>0. task[q].pc \in Writing /\ UNCHANGED chain
    BY <1>i, PutAppliedEffect, PutRestoredEffect DEF Writing, PutNotes
  <1>1. EventsBelow(p, b)' = EventsBelow(p, b)
    BY <1>0 DEF EventsBelow, EventsIn, EventBlocks, Height
  <1>2. CASE p # task[q].pool
    <2>1. notes'[p] = notes[p]
      BY <1>i, <1>0, <1>2, WriteShape, NotesWritten, PutAppliedEffect, PutRestoredEffect
    <2>2. QED
      BY <1>1, <2>1 DEF MarkedBelow
  <1>3. CASE p = task[q].pool
    <2>0. /\ task[q].held = notes[p] /\ task[q].held \in SUBSET NoteRecord /\ task[q] \in Task
          /\ p \in Support(task[q].pools) /\ cursor[p].block \in Nat
      BY <1>i, <1>0, <1>3, WriteShape, ChainTypes
    <2>1. ASSUME NEW records, PutNotes(q, records) PROVE notes'[p] = records
      BY <1>i, <1>3, <2>1, NotesWritten
    <2>2. CASE PutApplied(q)
      <3>1. PICK new : new = EventsIn(task[q].pool, task[q].snap)
        OBVIOUS
      <3>2. notes'[p] = Applied(task[q].held, new) /\ task[q].pc \in Syncing
        BY <1>i, <2>1, <2>2, <3>1, PutAppliedEffect DEF Syncing
      <3>3. new \subseteq EventsBelow(p, b)
        BY <1>i, <1>3, <2>2, <3>1, <3>2, SnapBelow
      <3>4. \A e \in new : e = [kind |-> e.kind, pool |-> p, nonce |-> e.nonce]
        <4>1. \A e \in new : e \in Event /\ e.pool = p
          BY <1>i, <1>3, <3>1, EventOnChain
        <4>2. QED
          BY <4>1 DEF Event
      <3>5. \A x \in notes'[p] : \E r \in notes[p] :
              /\ x.nonce = r.nonce
              /\ x.mined <=> r.mined \/ \E e \in new : e.kind = "deposit" /\ e.nonce = x.nonce
              /\ x.spent <=> r.spent \/ \E e \in new : e.kind = "withdrawal" /\ e.nonce = x.nonce
        BY <2>0, <3>2, AppliedRecords
      <3>6. ASSUME NEW x \in notes'[p]
            PROVE  /\ x.mined => [kind |-> "deposit", pool |-> p, nonce |-> x.nonce]
                                   \in EventsBelow(p, b)
                   /\ x.spent => [kind |-> "withdrawal", pool |-> p, nonce |-> x.nonce]
                                   \in EventsBelow(p, b)
        <4>1. PICK r \in notes[p] :
              /\ x.nonce = r.nonce
              /\ x.mined <=> r.mined \/ \E e \in new : e.kind = "deposit" /\ e.nonce = x.nonce
              /\ x.spent <=> r.spent \/ \E e \in new : e.kind = "withdrawal" /\ e.nonce = x.nonce
          BY <3>5
        <4>2. \A k : (\E e \in new : e.kind = k /\ e.nonce = x.nonce)
                        => [kind |-> k, pool |-> p, nonce |-> x.nonce] \in EventsBelow(p, b)
          BY <3>3, <3>4
        <4>3. /\ r.mined => [kind |-> "deposit", pool |-> p, nonce |-> x.nonce]
                               \in EventsBelow(p, b)
              /\ r.spent => [kind |-> "withdrawal", pool |-> p, nonce |-> x.nonce]
                               \in EventsBelow(p, b)
          BY <4>1 DEF MarkedBelow
        <4>4. QED
          BY <4>1, <4>2, <4>3
      <3>7. QED
        BY <1>1, <3>6 DEF MarkedBelow
    <2>3. CASE PutRestored(q) /\ ~ PutApplied(q)
      <3>1. notes'[p] = Restored(task[q]) /\ task[q].pc \in Restoring
        BY <1>i, <2>1, <2>3, PutRestoredEffect DEF Restoring
      <3>2. \A k, n : [kind |-> k, pool |-> p, nonce |-> n] \in task[q].found
                        => [kind |-> k, pool |-> p, nonce |-> n] \in EventsBelow(p, b)
        <4>1. EventsBelow(p, cursor[p].block) \subseteq EventsBelow(p, b)
          BY <1>i, <1>3, <2>0, <2>3, BelowGrows
        <4>2. \A e \in task[q].found : e.pool = p => e \in EventsBelow(p, b)
          BY <1>i, <3>1, <4>1, FoundBelow
        <4>3. ASSUME NEW k, NEW n, [kind |-> k, pool |-> p, nonce |-> n] \in task[q].found
              PROVE  [kind |-> k, pool |-> p, nonce |-> n] \in EventsBelow(p, b)
          <5> DEFINE e == [kind |-> k, pool |-> p, nonce |-> n]
          <5>1. e \in task[q].found /\ e.pool = p
            BY <4>3
          <5>2. QED
            <6> HIDE DEF e
            <6> QED BY <4>2, <5>1 DEF e
        <4>4. QED
          BY <4>3
      <3> DEFINE kept(n) == [kind |-> "deposit", pool |-> task[q].pool, nonce |-> n] \notin task[q].found
                 left(n) == [kind |-> "withdrawal", pool |-> task[q].pool, nonce |-> n] \in task[q].found
      <3>3. \A x \in notes'[p] : \/ x \in task[q].held
                                 \/ ~ kept(x.nonce) /\ x.mined /\ (x.spent <=> left(x.nonce))
        BY <2>0, <3>1, RestoredRecords
      <3>4. \A n : /\ ~ kept(n) => [kind |-> "deposit", pool |-> p, nonce |-> n] \in EventsBelow(p, b)
                   /\ left(n) => [kind |-> "withdrawal", pool |-> p, nonce |-> n] \in EventsBelow(p, b)
        BY <1>3, <3>2
      <3>5. \A x \in task[q].held :
              /\ x.mined => [kind |-> "deposit", pool |-> p, nonce |-> x.nonce] \in EventsBelow(p, b)
              /\ x.spent => [kind |-> "withdrawal", pool |-> p, nonce |-> x.nonce] \in EventsBelow(p, b)
        BY <2>0 DEF MarkedBelow
      <3>6. \A x \in notes'[p] :
              /\ x.mined => [kind |-> "deposit", pool |-> p, nonce |-> x.nonce] \in EventsBelow(p, b)
              /\ x.spent => [kind |-> "withdrawal", pool |-> p, nonce |-> x.nonce] \in EventsBelow(p, b)
        <4> HIDE DEF kept, left
        <4> QED BY <3>3, <3>4, <3>5
      <3>7. QED
        BY <1>1, <3>6 DEF MarkedBelow
    <2>4. QED
      BY <2>2, <2>3
  <1>4. QED
    BY <1>2, <1>3

LEMMA StepCaught ==
  ASSUME ~ Lagging, SafeInv, CaughtInv, NEW q \in Proc, Step(q), ~Ending(q)
  PROVE  Caught(q)'
  <1>i. TypeInv /\ NonceInv /\ FlowInv /\ RangesInv /\ FoundInv /\ HonestInv
    BY DEF SafeInv
  <1>0. /\ Caught(q) /\ Flow(q) /\ UNCHANGED chain /\ task[q].todo \in PoolBag
        /\ \A p \in Pool : cursor[p].block \in Nat
        /\ \A bag : Support(bag) \subseteq Pool
    <2>1. Caught(q) /\ Flow(q) /\ UNCHANGED chain
      BY <1>i, StepNotes DEF CaughtInv, FlowInv
    <2>2. task[q] \in Task
      BY <1>i DEF TypeInv, TypeOK
    <2>3. task[q].todo \in PoolBag
      BY <2>2 DEF Task
    <2>4. \A p \in Pool : cursor[p].block \in Nat
      BY <1>i, ChainTypes
    <2>5. \A bag : Support(bag) \subseteq Pool
      BY DEF Support
    <2>6. QED
      BY <2>1, <2>3, <2>4, <2>5
  <1>m. ASSUME UNCHANGED notes, NEW p PROVE \A b \in Nat : MarkedBelow(p, b) => MarkedBelow(p, b)'
    BY <1>i, <1>0, <1>m, MarkedStays
  <1>u. ASSUME task'[q].pc \notin {"range", "scan", "mark"} \cup Syncing \cup Restoring
        PROVE  Caught(q)'
    BY <1>u DEF Caught
  <1>1. CASE Track(q) \/ ReserveNonce(q) \/ BurnNonce(q) \/ PutPending(q) \/ PutCleared(q) \/ LoopEnds(q)
    <2>1. CASE Track(q) \/ ReserveNonce(q) \/ BurnNonce(q)
      BY <1>i, <2>1, <1>u, TrackEffect, ReserveNonceEffect, BurnNonceEffect DEF Syncing, Restoring
    <2>2. CASE PutPending(q) \/ PutCleared(q) \/ LoopEnds(q)
      BY <1>i, <2>2, <1>u, PutPendingEffect, PutClearedEffect, LoopEndsEffect DEF Syncing, Restoring
    <2>3. QED
      BY <1>1, <2>1, <2>2
  <1>2. CASE ReadHeight(q)
    <2>1. task'[q].upto = Height + 1 /\ UNCHANGED <<notes, cursor>>
      BY <1>i, <1>2, ReadHeightEffect
    <2>2. ASSUME NEW p \in Pool, NEW b \in Nat, Larger(cursor[p].block, Height + 1) <= b
          PROVE  MarkedBelow(p, b)'
      <3>1. Height + 1 <= b
        BY <1>i, <1>0, <2>2, ChainTypes DEF Larger
      <3>2. QED
        BY <1>i, <1>m, <2>1, <3>1, MarkedAtHead DEF MarkedFrom
    <2>3. task[q].pc = "height" /\ task'[q].todo = task'[q].pools /\ task'[q].pc = "range"
      BY <1>i, <1>0, <1>2, ReadHeightEffect DEF Flow
    <2>4. \A p \in Support(task'[q].pools) : p \in Pool /\ task'[q].todo[p] > 0
      BY <2>3 DEF Support
    <2>5. \A p \in Pool : MarkedFrom(p, Larger(cursor[p].block, task[q].upto))'
      BY <2>1, <2>2 DEF MarkedFrom
    <2>6. QED
      BY <2>3, <2>4, <2>5 DEF Caught, Syncing, Restoring
  <1>3. CASE SyncPool(q)
    <2>1. PICK p \in Support(task[q].todo) :
            /\ task'[q].todo = [task[q].todo EXCEPT ![p] = @ - 1] /\ task'[q].pool = p
            /\ task'[q].snap.from = cursor[p].block
            /\ task'[q].snap.to \in SyncedTo(cursor[p].block, task[q].upto)
      BY <1>i, <1>3, SyncPoolEffect
    <2>2. /\ task[q].pc = "range" /\ task'[q].pc = "put" /\ task'[q].upto = task[q].upto
          /\ task'[q].pools = task[q].pools /\ UNCHANGED <<cursor, notes>>
      BY <1>i, <1>3, SyncPoolEffect
    <2>3. task'[q].snap.to = Larger(task'[q].snap.from, task'[q].upto)
      BY <2>1, <2>2 DEF SyncedTo
    <2>4. \A x \in Pool : x # p => task'[q].todo[x] = task[q].todo[x]
      BY <1>0, <2>1, TodoStep
    <2>5. \A x \in Support(task[q].pools) :
            \/ task'[q].upto <= cursor'[x].block \/ task'[q].todo[x] > 0
            \/ task'[q].pool = x
      BY <1>0, <2>1, <2>2, <2>4 DEF Caught, Syncing
    <2>6. \A x \in Support(task[q].pools) : MarkedFrom(x, Larger(cursor[x].block, task[q].upto))'
      BY <1>0, <1>m, <2>2 DEF Caught, MarkedFrom
    <2>7. QED
      BY <2>2, <2>3, <2>5, <2>6 DEF Caught, Syncing, Restoring
  <1>4. CASE PutSnapshot(q)
    BY <1>i, <1>0, <1>4, <1>m, PutSnapshotEffect DEF Caught, MarkedFrom, Syncing, Restoring
  <1>5. CASE PutApplied(q)
    <2>1. /\ task[q].pc = "put_applied" /\ task'[q].pc = "commit" /\ UNCHANGED cursor
          /\ task'[q].upto = task[q].upto /\ task'[q].pools = task[q].pools
          /\ task'[q].todo = task[q].todo /\ task'[q].pool = task[q].pool
          /\ task'[q].snap = task[q].snap
      BY <1>i, <1>5, PutAppliedEffect DEF PutNotes
    <2>2. task[q].snap.to = Larger(cursor[task[q].pool].block, task[q].upto)
          /\ task[q].pool \in Pool
      BY <1>i, <1>0, <2>1, WriteShape DEF Caught, Syncing, RangesInv, Snapped, Writing
    <2>3. ASSUME NEW x \in Support(task[q].pools), NEW b \in Nat,
                 Larger(cursor[x].block, task[q].upto) <= b
          PROVE  MarkedBelow(x, b)'
      <3>1. MarkedBelow(x, b) /\ x \in Pool
        BY <1>0, <2>1, <2>3 DEF Caught, MarkedFrom, Syncing
      <3>2. CASE x # task[q].pool
        <4>1. notes'[x] = notes[x]
          BY <1>i, <1>5, <2>2, <3>1, <3>2, NotesWritten, PutAppliedEffect
        <4>2. EventsBelow(x, b)' = EventsBelow(x, b)
          BY <1>0 DEF EventsBelow, EventsIn, EventBlocks, Height
        <4>3. QED
          BY <3>1, <4>1, <4>2 DEF MarkedBelow
      <3>3. CASE x = task[q].pool
        BY <1>5, <2>2, <2>3, <3>1, <3>3, WritesMarked
      <3>4. QED
        BY <3>2, <3>3
    <2>4. \A x \in Support(task[q].pools) : MarkedFrom(x, Larger(cursor[x].block, task[q].upto))'
      BY <2>1, <2>3 DEF MarkedFrom
    <2>5. QED
      BY <1>0, <2>1, <2>4 DEF Caught, Syncing, Restoring
  <1>6. CASE CommitSnapshot(q)
    <2>1. /\ task[q].pc = "commit" /\ task'[q].pc = "range" /\ UNCHANGED notes
          /\ task'[q].upto = task[q].upto /\ task'[q].pools = task[q].pools
          /\ task'[q].todo = task[q].todo
          /\ cursor' = [cursor EXCEPT ![task[q].pool] =
                [block |-> task[q].snap.to,
                 chunks |-> @.chunks + IF EventBlocks(task[q].pool, task[q].snap) = {} THEN 0 ELSE 1]]
      BY <1>i, <1>6, CommitSnapshotEffect
    <2>2. cursor \in [Pool -> [block : Nat, chunks : Nat]]
      BY <1>i DEF TypeInv, TypeOK
    <2>3. \A x \in Pool : IF x = task[q].pool THEN cursor'[x].block = task[q].snap.to
                          ELSE cursor'[x] = cursor[x]
      BY <2>1, <2>2
    <2>4. task[q].snap.to = Larger(cursor[task[q].pool].block, task[q].upto)
          /\ task[q].pool \in Pool /\ task[q].upto \in Nat
      BY <1>i, <1>0, <2>1, ChainTypes
         DEF Caught, Syncing, RangesInv, Snapped, TypeInv, Shape, Body
    <2>5. \A x \in Pool : /\ Larger(cursor'[x].block, task[q].upto) = Larger(cursor[x].block, task[q].upto)
                          /\ x = task[q].pool => task[q].upto <= cursor'[x].block
                          /\ x # task[q].pool => cursor'[x].block = cursor[x].block
      BY <1>0, <2>3, <2>4 DEF Larger
    <2>6. \A x \in Support(task[q].pools) : MarkedFrom(x, Larger(cursor[x].block, task[q].upto))'
      BY <1>0, <1>m, <2>1, <2>5 DEF Caught, MarkedFrom, Syncing
    <2>7. \A x \in Support(task[q].pools) :
            task[q].upto <= cursor'[x].block \/ task[q].todo[x] > 0
      BY <1>0, <2>1, <2>5 DEF Caught, Syncing
    <2>8. QED
      BY <2>1, <2>6, <2>7 DEF Caught, Syncing, Restoring
  <1>7. CASE Synced(q)
    <2>1. /\ task[q].pc = "range" /\ Support(task[q].todo) = {} /\ UNCHANGED <<notes, cursor>>
          /\ task'[q].pools = task[q].pools /\ task'[q].pc = AfterSync(task[q].op)
      BY <1>i, <1>7, SyncedEffect
    <2>2. \A x \in Support(task[q].pools) : /\ MarkedFrom(x, Larger(cursor[x].block, task[q].upto))
                                            /\ task[q].upto <= cursor[x].block
      BY <1>0, <2>1 DEF Caught, Syncing, Support
    <2>3. \A x \in Support(task[q].pools) : Larger(cursor[x].block, task[q].upto) = cursor[x].block
      BY <1>0, <1>i, <2>2, ChainTypes DEF Larger
    <2>4. \A x \in Support(task[q].pools) : MarkedFrom(x, cursor[x].block)'
      BY <1>0, <1>m, <2>1, <2>2, <2>3 DEF MarkedFrom
    <2>5. task'[q].pc \in {"clear", "scan", "return"}
      BY <2>1 DEF AfterSync
    <2>6. QED
      BY <2>1, <2>4, <2>5 DEF Caught, Syncing, Restoring
  <1>8. CASE Scan(q) \/ PublishMark(q) \/ NextPool(q)
    <2>1. /\ UNCHANGED <<notes, cursor>> /\ task'[q].pools = task[q].pools
          /\ task'[q].pc \notin {"range"} \cup Syncing
          /\ \/ task[q].pc \in {"scan", "mark"} \cup Restoring
             \/ task'[q].pc \notin {"scan", "mark"} \cup Restoring
      BY <1>i, <1>8, ScanEffect, PublishMarkEffect, NextPoolEffect DEF Syncing, Restoring
    <2>2. QED
      BY <1>0, <1>m, <2>1 DEF Caught, MarkedFrom
  <1>9. CASE LoadNotes(q)
    <2>1. /\ UNCHANGED <<notes, cursor>> /\ task'[q].pools = task[q].pools
          /\ task'[q].todo = task[q].todo /\ task'[q].pool = task[q].pool
          /\ task'[q].upto = task[q].upto /\ task'[q].snap = task[q].snap
          /\ task'[q].pc \in Syncing => task[q].pc \in Syncing
          /\ task'[q].pc \notin {"range", "scan", "mark"}
          /\ task'[q].pc \in Restoring => task[q].pc \in Restoring
      BY <1>i, <1>9, LoadNotesEffect DEF AfterLoad, Syncing, Restoring
    <2>2. QED
      BY <1>0, <1>m, <2>1 DEF Caught, MarkedFrom
  <1>10. CASE PutRestored(q)
    <2>1. /\ task[q].pc = "put_restored" /\ task'[q].pc = "restore" /\ UNCHANGED cursor
          /\ task'[q].pools = task[q].pools
      BY <1>i, <1>10, PutRestoredEffect DEF PutNotes
    <2>2. task[q].pool \in Pool
      BY <1>i, <2>1, WriteShape DEF Writing
    <2>3. ASSUME NEW x \in Support(task[q].pools), NEW b \in Nat, cursor[x].block <= b
          PROVE  MarkedBelow(x, b)'
      <3>1. MarkedBelow(x, b) /\ x \in Pool
        BY <1>0, <2>1, <2>3 DEF Caught, MarkedFrom, Restoring
      <3>2. CASE x # task[q].pool
        <4>1. notes'[x] = notes[x]
          BY <1>i, <1>10, <2>2, <3>1, <3>2, NotesWritten, PutRestoredEffect
        <4>2. EventsBelow(x, b)' = EventsBelow(x, b)
          BY <1>0 DEF EventsBelow, EventsIn, EventBlocks, Height
        <4>3. QED
          BY <3>1, <4>1, <4>2 DEF MarkedBelow
      <3>3. CASE x = task[q].pool
        <4>1. ~ PutApplied(q)
          BY <1>i, <2>1, PutAppliedEffect
        <4>2. QED
          BY <1>10, <2>3, <3>1, <3>3, <4>1, WritesMarked
      <3>4. QED
        BY <3>2, <3>3
    <2>4. \A x \in Support(task[q].pools) : MarkedFrom(x, cursor[x].block)'
      BY <2>1, <2>3 DEF MarkedFrom
    <2>5. QED
      BY <2>1, <2>4 DEF Caught, Syncing, Restoring
  <1>11. QED
    BY <1>1, <1>2, <1>3, <1>4, <1>5, <1>6, <1>7, <1>8, <1>9, <1>10 DEF Step, Ending

LEMMA InitCaught == Init => CaughtInv
  BY IdleFields DEF Init, CaughtInv, Caught, Syncing, Restoring

LEMMA NextCaught ==
  ASSUME ~ Lagging
  PROVE  SafeInv /\ CaughtInv /\ [Next]_vars => CaughtInv'
  <1> SUFFICES ASSUME SafeInv, CaughtInv, [Next]_vars PROVE CaughtInv'
    OBVIOUS
  <1>i. TypeInv /\ NonceInv
    BY DEF SafeInv
  <1>1. ASSUME NEW r \in Proc, task'[r].pc \in {"idle", "track", "height"} PROVE Caught(r)'
    BY <1>1 DEF Caught, Syncing, Restoring
  <1>2. ASSUME UNCHANGED <<db, exposed, task>>, Grow \/ UNCHANGED chain, NEW r \in Proc
        PROVE  Caught(r)'
    <2>1. Caught(r) /\ UNCHANGED <<cursor, notes, task>>
      BY <1>2 DEF CaughtInv, db
    <2>2. \A p : \A b \in Nat : MarkedBelow(p, b) => MarkedBelow(p, b)'
      BY <1>i, <1>2, <2>1, MarkedStays
    <2>3. QED
      BY <2>1, <2>2 DEF Caught, MarkedFrom, Support, Larger
  <1>3. ASSUME NEW q \in Proc, Step(q), ~ Ending(q) PROVE Caught(q)'
    BY <1>3, StepCaught
  <1>4. QED
    BY <1>i, <1>1, <1>2, <1>3, NextTasks DEF CaughtInv

LEMMA CaughtInvariant ==
  ASSUME ~ Lagging
  PROVE  Spec => [](SafeInv /\ CaughtInv)
  BY SafeInvariant, InitCaught, NextCaught, PTL DEF Spec

(* What a recovery writes over a record: it has found the withdrawal of a  *)
(* note whose record says it is spent, as it has found its deposit.        *)
LEMMA FoundSpent ==
  ASSUME SafeInv, CaughtInv, NEW q \in Proc, PutRestored(q), NEW p \in Pool, p = task[q].pool,
         NEW r \in notes[p], r.spent,
         [kind |-> "deposit", pool |-> p, nonce |-> r.nonce] \in task[q].found
  PROVE  [kind |-> "withdrawal", pool |-> p, nonce |-> r.nonce] \in task[q].found
  <1>i. TypeInv /\ FlowInv /\ FoundInv
    BY DEF SafeInv
  <1>1. task[q].pc = "put_restored" /\ task[q].pc \in Writing /\ task[q].pc \in Restoring
    BY <1>i, PutRestoredEffect DEF Writing, Restoring
  <1>2. p \in Support(task[q].pools) /\ cursor[p].block \in Nat
    BY <1>i, <1>1, WriteShape, ChainTypes
  <1>3. MarkedBelow(p, cursor[p].block)
    BY <1>1, <1>2 DEF CaughtInv, Caught, MarkedFrom
  <1> DEFINE d == [kind |-> "deposit", pool |-> p, nonce |-> r.nonce]
             w == [kind |-> "withdrawal", pool |-> p, nonce |-> r.nonce]
  <1>4. w \in EventsBelow(p, cursor[p].block)
    BY <1>3 DEF MarkedBelow
  <1>5. d \in task[q].found /\ d.nonce = w.nonce
    OBVIOUS
  <1>6. w \in task[q].found
    <2> HIDE DEF d, w
    <2> QED BY <1>i, <1>1, <1>2, <1>4, <1>5, FoundTogether
  <1>7. QED
    BY <1>6

(* No step takes back that a note was mined, or that it was spent, as long *)
(* as endpoints never answer from behind blocks they have shown: a sync    *)
(* adds to the marks, and a recovery that replaces a record has scanned    *)
(* every block the record's marks come from.                               *)
THEOREM MarksKept ==
  ASSUME ~ Lagging
  PROVE  Spec => MarksNeverLost
  <1>1. SafeInv /\ CaughtInv /\ [Next]_vars =>
          [\A p \in Pool : \A r \in notes[p] : r.mined =>
              \E s \in notes'[p] : s.nonce = r.nonce /\ s.mined /\ (r.spent => s.spent)]_vars
    <2> SUFFICES ASSUME SafeInv, CaughtInv, [Next]_vars, NEW p \in Pool, NEW r \in notes[p], r.mined
                 PROVE  \E s \in notes'[p] : s.nonce = r.nonce /\ s.mined /\ (r.spent => s.spent)
      OBVIOUS
    <2>i. TypeInv /\ NonceInv /\ FlowInv
      BY DEF SafeInv
    <2>1. CASE UNCHANGED notes
      BY <2>1
    <2>2. ASSUME NEW q \in Proc,
                 PutPending(q) \/ PutApplied(q) \/ PutRestored(q) \/ PutCleared(q)
          PROVE  \E s \in notes'[p] : s.nonce = r.nonce /\ s.mined /\ (r.spent => s.spent)
      <3> DEFINE d == [kind |-> "deposit", pool |-> p, nonce |-> r.nonce]
                 w == [kind |-> "withdrawal", pool |-> p, nonce |-> r.nonce]
      <3>1. \/ \E s \in notes'[p] : s.nonce = r.nonce /\ (r.mined => s.mined) /\ (r.spent => s.spent)
            \/ PutCleared(q) /\ ~ r.mined /\ ~ r.spent
            \/ /\ PutRestored(q) /\ p = task[q].pool /\ d \in task[q].found
               /\ \E s \in notes'[p] : s.nonce = r.nonce /\ s.mined /\ (s.spent <=> w \in task[q].found)
        BY <2>i, <2>2, WritesKeep
      <3>2. PutRestored(q) /\ p = task[q].pool /\ d \in task[q].found /\ r.spent
              => w \in task[q].found
        BY FoundSpent
      <3>3. QED
        <4> HIDE DEF d, w
        <4> QED BY <3>1, <3>2
    <2>3. QED
      BY <2>i, <2>1, <2>2, NotesChange
  <1>2. QED
    BY CaughtInvariant, <1>1, PTL DEF Spec, MarksNeverLost

-----------------------------------------------------------------------------
(* A recovery restores every note it finds.                                *)

(* The chain never pays a withdrawal whose deposit it does not hold. *)
LEMMA NextDeposited ==
  ASSUME TypeInv, NonceInv, Deposited(chain), [Next]_vars
  PROVE  Deposited(chain)'
  <1>1. CASE UNCHANGED chain
    BY <1>1 DEF Deposited
  <1>2. CASE Grow
    <2>0. Height \in Nat /\ Height = Len(chain) /\ chain \in Seq(Event)
      BY ChainTypes DEF Height
    <2>1. PICK e \in Event :
            /\ chain' = Append(chain, e)
            /\ e.kind # "deposit" => OnChain("deposit", e.pool, e.nonce)
      BY <1>2, GrowEffect
    <2>2. /\ Len(chain') = Height + 1 /\ chain'[Height + 1] = e
          /\ \A b \in 1..Height : chain'[b] = chain[b]
      BY <2>0, <2>1
    <2> DEFINE before(a, x) == /\ chain'[a].kind = "deposit" /\ chain'[a].pool = x.pool
                               /\ chain'[a].nonce = x.nonce
    <2>3. ASSUME NEW b \in 1..Height, chain'[b].kind = "withdrawal"
          PROVE  \E a \in 1..(b - 1) : before(a, chain'[b])
      <3>1. PICK a \in 1..(b - 1) : /\ chain[a].kind = "deposit" /\ chain[a].pool = chain[b].pool
                                    /\ chain[a].nonce = chain[b].nonce
        BY <2>0, <2>2, <2>3 DEF Deposited
      <3>2. a \in 1..Height
        BY <2>0
      <3>3. QED
        BY <2>2, <3>1, <3>2
    <2>4. e.kind = "withdrawal" => \E a \in 1..Height : before(a, e)
      <3>1. SUFFICES ASSUME e.kind = "withdrawal" PROVE \E a \in 1..Height : before(a, e)
        OBVIOUS
      <3>2. PICK a \in 1..Height : [kind |-> "deposit", pool |-> e.pool, nonce |-> e.nonce] = chain[a]
        BY <2>1, <3>1 DEF OnChain
      <3>3. chain[a].kind = "deposit" /\ chain[a].pool = e.pool /\ chain[a].nonce = e.nonce
        BY <3>2
      <3>4. QED
        BY <2>2, <3>3
    <2>5. ASSUME NEW b \in 1..Len(chain'), chain'[b].kind = "withdrawal"
          PROVE  \E a \in 1..(b - 1) : before(a, chain'[b])
      <3>1. CASE b \in 1..Height
        BY <2>3, <2>5, <3>1
      <3>2. CASE b = Height + 1
        <4>1. b - 1 = Height
          BY <2>0, <3>2
        <4>2. QED
          BY <2>2, <2>4, <2>5, <3>2, <4>1
      <3>3. QED
        BY <2>0, <2>2, <3>1, <3>2
    <2>6. QED
      BY <2>5 DEF Deposited
  <1>3. QED
    BY <1>1, <1>2, NextTasks, StepNotes

LEMMA DepositBelow ==
  ASSUME TypeInv, Deposited(chain), NEW p \in Pool, NEW e \in EventsBelow(p, cursor[p].block)
  PROVE  [kind |-> "deposit", pool |-> p, nonce |-> e.nonce] \in EventsBelow(p, cursor[p].block)
  <1> DEFINE r == [from |-> Deployed, to |-> cursor[p].block]
  <1>0. r.from = 1 /\ r.to = cursor[p].block /\ cursor[p].block \in Nat /\ Height \in Nat
        /\ Height = Len(chain)
    BY ChainTypes DEF Deployed, Height
  <1>1. PICK b \in EventBlocks(p, r) : e = chain[b]
    <2> HIDE DEF r
    <2> QED BY DEF EventsBelow, EventsIn, r
  <1>2. b \in 1..Height /\ b < cursor[p].block /\ chain[b].pool = p /\ chain[b] \in Event
    <2>1. b \in 1..Height /\ b < r.to /\ chain[b].pool = p
      <3> HIDE DEF r
      <3> QED BY <1>0, <1>1 DEF EventBlocks
    <2>2. QED
      BY <1>0, <2>1, ChainTypes
  <1>3. PICK a \in 1..b : chain[a].kind = "deposit" /\ chain[a].pool = p /\ chain[a].nonce = e.nonce
    <2>1. CASE e.kind = "deposit"
      BY <1>0, <1>1, <1>2, <2>1
    <2>2. CASE e.kind = "withdrawal"
      <3>1. PICK a \in 1..(b - 1) : /\ chain[a].kind = "deposit" /\ chain[a].pool = chain[b].pool
                                    /\ chain[a].nonce = chain[b].nonce
        BY <1>0, <1>1, <1>2, <2>2 DEF Deposited
      <3>2. a \in 1..b
        BY <1>0, <1>2
      <3>3. QED
        BY <1>1, <1>2, <3>1, <3>2
    <2>3. QED
      BY <1>1, <1>2, <2>1, <2>2 DEF Event
  <1>4. a \in 1..Height /\ a < cursor[p].block /\ 1 <= a
    BY <1>0, <1>2, <1>3
  <1>5. chain[a] = [kind |-> "deposit", pool |-> p, nonce |-> e.nonce]
    BY <1>3, <1>4, ChainTypes DEF Event
  <1>6. a \in EventBlocks(p, r)
    <2> HIDE DEF r
    <2> QED BY <1>0, <1>3, <1>4 DEF EventBlocks
  <1>7. chain[a] \in EventsIn(p, r)
    <2> HIDE DEF r
    <2> QED BY <1>6 DEF EventsIn
  <1>8. QED
    BY <1>5, <1>7 DEF EventsBelow

(* The records a recovery writes for a pool show what it has found there. *)
LEMMA PutRestores ==
  ASSUME SafeInv, Deposited(chain), NEW q \in Proc, PutRestored(q), NEW p \in Pool,
         p = task[q].pool
  PROVE  \A e \in task[q].found : e.pool = p =>
           \E r \in notes'[p] : /\ r.nonce = e.nonce /\ r.mined
                                /\ e.kind = "withdrawal" => r.spent
  <1>i. TypeInv /\ NonceInv /\ FlowInv /\ RangesInv /\ FoundInv
    BY DEF SafeInv
  <1>1. /\ task[q].pc = "put_restored" /\ task[q].pc \in Writing /\ task[q].pc \in Restoring
        /\ PutNotes(q, Restored(task[q]))
    BY <1>i, PutRestoredEffect DEF Writing, Restoring
  <1>2. task[q] \in Task /\ p \in Support(task[q].pools) /\ notes'[p] = Restored(task[q])
    BY <1>i, <1>1, WriteShape, NotesWritten
  <1>3. ASSUME NEW e \in task[q].found, e.pool = p
        PROVE  \E r \in notes'[p] : /\ r.nonce = e.nonce /\ r.mined
                                    /\ e.kind = "withdrawal" => r.spent
    <2> DEFINE d == [kind |-> "deposit", pool |-> p, nonce |-> e.nonce]
               w == [kind |-> "withdrawal", pool |-> p, nonce |-> e.nonce]
    <2>1. e \in EventsBelow(p, cursor[p].block)
      BY <1>i, <1>1, <1>3, FoundBelow
    <2>2. d \in EventsBelow(p, cursor[p].block)
      BY <1>i, <2>1, DepositBelow
    <2>3. e.nonce = d.nonce
      OBVIOUS
    <2>4. d \in task[q].found
      <3> HIDE DEF d
      <3> QED BY <1>i, <1>1, <1>2, <2>2, <2>3, FoundTogether
    <2>5. \E r \in Restored(task[q]) : r.nonce = e.nonce /\ r.mined /\ (r.spent <=> w \in task[q].found)
      BY <1>2, <2>4, RestoredRecords
    <2>6. e.kind = "withdrawal" => w = e
      <3>1. e \in Event
        BY <1>i, <1>1, FoundOnChain
      <3>2. QED
        BY <1>3, <3>1 DEF Event
    <2>7. QED
      <3> HIDE DEF w
      <3> QED BY <1>2, <2>5, <2>6
  <1>4. QED
    BY <1>3

LEMMA StepResumed ==
  ASSUME SafeInv, Deposited(chain), RestoredInv, NEW q \in Proc, Step(q), ~Ending(q)
  PROVE  Resumed(q)'
  <1>i. TypeInv /\ NonceInv /\ FlowInv /\ RangesInv /\ FoundInv
    BY DEF SafeInv
  <1>0. /\ Resumed(q) /\ Flow(q) /\ task[q].todo \in PoolBag
        /\ \A bag : Support(bag) \subseteq Pool
    BY <1>i DEF RestoredInv, FlowInv, TypeInv, TypeOK, Task, Support
  <1>u. ASSUME task'[q].pc \notin {"return"} \cup Restoring PROVE Resumed(q)'
    BY <1>u DEF Resumed
  <1>m. ASSUME UNCHANGED notes, NEW p, NEW found, Restores(p, found) PROVE Restores(p, found)'
    BY <1>m DEF Restores, Record
  <1>1. CASE Track(q) \/ ReserveNonce(q) \/ BurnNonce(q) \/ PutPending(q)
    BY <1>i, <1>1, <1>u, TrackEffect, ReserveNonceEffect, BurnNonceEffect, PutPendingEffect
       DEF Restoring
  <1>2. CASE ReadHeight(q) \/ SyncPool(q) \/ PutSnapshot(q) \/ PutApplied(q)
    BY <1>i, <1>2, <1>u, ReadHeightEffect, SyncPoolEffect, PutSnapshotEffect, PutAppliedEffect
       DEF Restoring
  <1>3. CASE CommitSnapshot(q) \/ Scan(q) \/ PutCleared(q)
    BY <1>i, <1>3, <1>u, CommitSnapshotEffect, ScanEffect, PutClearedEffect DEF Restoring
  <1>4. CASE Synced(q)
    BY <1>i, <1>4, SyncedEffect DEF Resumed, Restoring, AfterSync
  <1>5. CASE PublishMark(q)
    <2>1. /\ task[q].pc = "mark" /\ task'[q].pc = "restore" /\ task'[q].todo = task'[q].pools
      BY <1>i, <1>0, <1>5, PublishMarkEffect DEF Flow
    <2>2. \A p \in Support(task'[q].pools) : task'[q].todo[p] > 0
      BY <2>1 DEF Support
    <2>3. QED
      BY <2>1, <2>2 DEF Resumed
  <1>6. CASE NextPool(q)
    <2>1. PICK p \in Support(task[q].todo) :
            task'[q].todo = [task[q].todo EXCEPT ![p] = @ - 1] /\ task'[q].pool = p
      BY <1>i, <1>6, NextPoolEffect
    <2>2. /\ UNCHANGED notes /\ task'[q].pools = task[q].pools /\ task'[q].found = task[q].found
          /\ \/ task[q].pc = "restore" /\ task'[q].pc = "load_restored"
             \/ task'[q].pc = "load_cleared"
      BY <1>i, <1>6, NextPoolEffect
    <2>3. \A x \in Pool : x # p => task'[q].todo[x] = task[q].todo[x]
      BY <1>0, <2>1, TodoStep
    <2>4. CASE task'[q].pc = "load_cleared"
      BY <1>u, <2>4 DEF Restoring
    <2>5. CASE task[q].pc = "restore" /\ task'[q].pc = "load_restored"
      <3>1. \A x \in Support(task[q].pools) :
              Restores(x, task[q].found)' \/ task'[q].todo[x] > 0 \/ task'[q].pool = x
        <4>1. \A x \in Support(task[q].pools) : Restores(x, task[q].found) \/ task[q].todo[x] > 0
          BY <1>0, <2>5 DEF Resumed, Restoring
        <4>2. ASSUME NEW x \in Support(task[q].pools), Restores(x, task[q].found)
              PROVE  Restores(x, task[q].found)'
          BY <2>2, <4>2 DEF Restores, Record
        <4>3. QED
          BY <1>0, <2>1, <2>3, <4>1, <4>2
      <3>2. QED
        BY <2>2, <2>5, <3>1 DEF Resumed
    <2>6. QED
      BY <2>2, <2>4, <2>5
  <1>7. CASE LoadNotes(q)
    <2>1. /\ UNCHANGED notes /\ task'[q].pools = task[q].pools
          /\ task'[q].found = task[q].found /\ task'[q].todo = task[q].todo
          /\ task'[q].pool = task[q].pool /\ task'[q].pc # "return"
          /\ task'[q].pc \in Restoring => /\ task[q].pc \in Restoring /\ task'[q].pc # "restore"
      BY <1>i, <1>7, LoadNotesEffect DEF AfterLoad, Restoring
    <2>2. QED
      BY <1>0, <2>1 DEF Resumed, Restores, Record
  <1>8. CASE PutRestored(q)
    <2>1. /\ task[q].pc = "put_restored" /\ task'[q].pc = "restore"
          /\ task'[q].pools = task[q].pools /\ task'[q].found = task[q].found
          /\ task'[q].todo = task[q].todo /\ PutNotes(q, Restored(task[q]))
      BY <1>i, <1>8, PutRestoredEffect
    <2>2. task[q].pool \in Pool
      BY <1>i, <2>1, WriteShape DEF Writing
    <2>3. ASSUME NEW x \in Support(task[q].pools)
          PROVE  Restores(x, task[q].found)' \/ task[q].todo[x] > 0
      <3>1. CASE x = task[q].pool
        <4>1. \A e \in task[q].found : e.pool = x =>
                \E r \in notes'[x] : /\ r.nonce = e.nonce /\ r.mined
                                     /\ e.kind = "withdrawal" => r.spent
          BY <1>8, <2>2, <3>1, PutRestores
        <4>2. QED
          BY <2>1, <4>1 DEF Restores, Record
      <3>2. CASE x # task[q].pool
        <4>1. notes'[x] = notes[x]
          BY <1>i, <1>0, <2>1, <2>2, <3>2, NotesWritten
        <4>2. Restores(x, task[q].found) \/ task[q].todo[x] > 0
          BY <1>0, <2>1, <3>2 DEF Resumed, Restoring
        <4>3. QED
          BY <2>1, <4>1, <4>2 DEF Restores, Record
      <3>3. QED
        BY <3>1, <3>2
    <2>4. QED
      BY <2>1, <2>3 DEF Resumed, Restores, Record
  <1>9. CASE LoopEnds(q)
    <2>1. /\ UNCHANGED notes /\ task'[q].pools = task[q].pools /\ task'[q].op = task[q].op
          /\ task'[q].found = task[q].found /\ Support(task[q].todo) = {}
          /\ task'[q].pc = "return" /\ task[q].pc \in {"restore", "clear"}
          /\ task[q].op = "recover" => task[q].pc = "restore"
      BY <1>i, <1>0, <1>9, LoopEndsEffect DEF Flow, Clearing
    <2>2. \A x \in Support(task[q].pools) : ~ task[q].todo[x] > 0
      BY <1>0, <2>1 DEF Support
    <2>3. QED
      BY <1>0, <2>1, <2>2 DEF Resumed, Restoring, Restores, Record
  <1>10. QED
    BY <1>1, <1>2, <1>3, <1>4, <1>5, <1>6, <1>7, <1>8, <1>9 DEF Step, Ending

LEMMA InitRestored == Init => RestoredInv
  BY IdleFields DEF Init, RestoredInv, Resumed, Restoring

LEMMA NextRestored ==
  SafeInv /\ Deposited(chain) /\ RestoredInv /\ [Next]_vars => RestoredInv' /\ Deposited(chain)'
  <1> SUFFICES ASSUME SafeInv, Deposited(chain), RestoredInv, [Next]_vars
               PROVE  RestoredInv' /\ Deposited(chain)'
    OBVIOUS
  <1>i. TypeInv /\ NonceInv
    BY DEF SafeInv
  <1>1. ASSUME NEW r \in Proc, task'[r].pc \in {"idle", "track", "height"} PROVE Resumed(r)'
    BY <1>1 DEF Resumed, Restoring
  <1>2. ASSUME UNCHANGED <<db, exposed, task>>, NEW r \in Proc PROVE Resumed(r)'
    BY <1>2 DEF db, RestoredInv, Resumed, Restores, Record
  <1>3. RestoredInv'
    BY <1>i, <1>1, <1>2, StepResumed, NextTasks DEF RestoredInv
  <1>4. QED
    BY <1>i, <1>3, NextDeposited

(* What the seed had left on chain was deposited before it was withdrawn. *)
LEMMA RestoredInvariant ==
  ASSUME Deposited(History)
  PROVE  Spec => [](SafeInv /\ RestoredInv)
  <1>1. Init => Deposited(chain)
    BY DEF Init
  <1>2. QED
    BY SafeInvariant, InitRestored, NextRestored, <1>1, PTL DEF Spec

(* When recover returns, every deposit up to its pools' cursors that the   *)
(* gap limit reaches has a record, which shows it mined, spent if it was   *)
(* withdrawn, and lies below the counter.                                  *)
THEOREM RecoveriesAreComplete ==
  ASSUME Deposited(History)
  PROVE  Spec => []RecoveryComplete
  <1>1. SafeInv /\ RestoredInv => RecoveryComplete
    <2> SUFFICES ASSUME SafeInv, RestoredInv, NEW q \in Proc,
                        task[q].pc = "return", task[q].op = "recover",
                        NEW e \in Recovered(Committed(Support(task[q].pools)))
                 PROVE  \E r \in Record(e.pool, e.nonce) :
                          r.mined /\ (e.kind = "withdrawal" => r.spent) /\ r.nonce < nextNonce
      BY DEF RecoveryComplete, Committed
    <2>i. TypeInv /\ NonceInv
      BY DEF SafeInv
    <2>1. e \in task[q].found
      BY DEF SafeInv, FoundInv, Found
    <2>2. PICK p \in Support(task[q].pools) : e \in EventsBelow(p, cursor[p].block)
      BY DEF Recovered, Committed
    <2>3. e.pool = p /\ p \in Pool
      BY <2>i, <2>2, EventOnChain DEF EventsBelow, Support
    <2>4. Restores(p, task[q].found)
      BY <2>2 DEF RestoredInv, Resumed
    <2>5. PICK r \in Record(p, e.nonce) : r.mined /\ (e.kind = "withdrawal" => r.spent)
      BY <2>1, <2>3, <2>4 DEF Restores
    <2>6. r.nonce < nextNonce
      BY <2>i, <2>3, <2>5 DEF NonceInv, RecordsBelowCounter, Record
    <2>7. QED
      BY <2>3, <2>5, <2>6
  <1>2. QED
    BY RestoredInvariant, <1>1, PTL

=============================================================================
