-------------------------- MODULE FileDatabaseProofs --------------------------
(***************************************************************************)
(* Proofs about FileDatabase: for any number of processes, values and      *)
(* files, puts made under the operation lock make a record a durable       *)
(* register.                                                               *)
(***************************************************************************)
EXTENDS FileDatabase, TLAPS

(* Only the process that holds the lock is inside an operation. *)
OneWriter == \A q \in Proc : put[q].pc # "idle" => lock = q

(* Every file that may be the record after a power loss is whole and on    *)
(* disk, and is not the one that the temporary name refers to.             *)
WholeFiles ==
    /\ names \in journal
    /\ \A n \in journal : n.file # None =>
        /\ n.file \in flushed
        /\ data[n.file] \in Value
        /\ n.file # names.tmp
        /\ n.file # n.tmp

(* A put under way has its value, and from its first write on its file. *)
Shape == \A q \in Proc :
    /\ put[q].pc # "idle" => put[q].value \in Value
    /\ put[q].pc \in {"write", "flush", "rename", "publish"} => put[q].inode \in Inode

TypeInv == TypeOK /\ Shape

(* What a put knows at each of its steps. *)
Progress(q) ==
    LET t == put[q] IN
    /\ t.pc \in {"write", "flush", "rename"} => t.inode = names.tmp
    /\ t.pc = "write" => data[t.inode] = Empty
    /\ t.pc \in {"flush", "rename"} => data[t.inode] = t.value
    /\ t.pc = "rename" => t.inode \in flushed
    /\ t.pc = "publish" => Get(names) = t.value
    /\ t.pc = "done" => \A n \in journal : Get(n) = t.value

IInv ==
    /\ TypeInv
    /\ OneWriter
    /\ WholeFiles
    /\ \A q \in Proc : Progress(q)
-----------------------------------------------------------------------------
(* A step that leaves the names alone, and touches no file that a power    *)
(* loss may make the record, leaves every reader's view alone.             *)
LEMMA SameView ==
    ASSUME WholeFiles, UNCHANGED <<names, journal>>,
           \A n \in journal : n.file # None => data'[n.file] = data[n.file]
    PROVE  /\ Get(names)' = Get(names)
           /\ \A n \in journal : Get(n)' = Get(n)
BY DEF WholeFiles, Get

LEMMA InitType == Init => TypeInv
BY DEF Init, TypeInv, TypeOK, Shape, Names, Contents, Put, Idle

(* The changes of a put's local state that the steps make.                 *)
Pcs == {"idle", "open", "write", "flush", "rename", "publish", "undo", "done"}

LEMMA GotoType ==
    ASSUME TypeInv, NEW q \in Proc, NEW pc \in Pcs, Goto(q, pc),
           put[q].pc # "idle",
           pc \in {"write", "flush", "rename", "publish"} => put[q].inode \in Inode
    PROVE  put' \in [Proc -> Put] /\ Shape'
<1>1. [put[q] EXCEPT !.pc = pc] \in Put
  BY DEF TypeInv, TypeOK, Put, Pcs
<1>2. put' = [put EXCEPT ![q] = [put[q] EXCEPT !.pc = pc]]
  BY DEF Goto
<1>3. put' \in [Proc -> Put]
  BY <1>1, <1>2 DEF TypeInv, TypeOK
<1>4. Shape'
  BY <1>2 DEF TypeInv, TypeOK, Shape, Put
<1>. QED BY <1>3, <1>4

LEMMA EndsType ==
    ASSUME TypeInv, NEW q \in Proc, Ends(q)
    PROVE  put' \in [Proc -> Put] /\ Shape' /\ lock' \in Proc \cup {None}
<1>1. Idle \in Put
  BY DEF Idle, Put
<1>2. Shape'
  BY DEF TypeInv, TypeOK, Shape, Ends, Idle
<1>. QED BY <1>1, <1>2 DEF TypeInv, TypeOK, Ends

LEMMA RenameType ==
    ASSUME TypeInv, NEW new \in Names, Rename(new)
    PROVE  names' \in Names /\ journal' \in SUBSET Names
BY DEF TypeInv, TypeOK, Rename

(* What a failing or dying put does to the file it was writing. *)
LEMMA CutShortType ==
    ASSUME TypeInv, NEW q \in Proc,
           IF put[q].pc = "write"
           THEN /\ \E c \in {data[put[q].inode], Torn} : data' = [data EXCEPT ![put[q].inode] = c]
                /\ flushed' = flushed \ {put[q].inode}
           ELSE UNCHANGED <<data, flushed>>
    PROVE  data' \in [Inode -> Contents] /\ flushed' \in SUBSET Inode
<1>1. CASE put[q].pc = "write"
  <2>1. put[q].inode \in Inode
    BY <1>1 DEF TypeInv, Shape
  <2>. QED BY <1>1, <2>1 DEF TypeInv, TypeOK, Contents
<1>2. CASE put[q].pc # "write"
  BY <1>2 DEF TypeInv, TypeOK
<1>. QED BY <1>1, <1>2

(* The types are inductive by themselves, locked or not. *)
LEMMA TypeStep == ASSUME TypeInv, [Next]_vars PROVE TypeInv'
<1>1. ASSUME NEW q \in Proc, BeginPut(q) PROVE TypeInv'
  <2>1. PICK v \in Value : put' = [put EXCEPT ![q] = [Idle EXCEPT !.pc = "open", !.value = v]]
    BY <1>1 DEF BeginPut
  <2>2. [Idle EXCEPT !.pc = "open", !.value = v] \in Put
    BY DEF Idle, Put
  <2>3. put' \in [Proc -> Put]
    BY <2>1, <2>2 DEF TypeInv, TypeOK
  <2>4. Shape'
    BY <2>1 DEF TypeInv, TypeOK, Shape, Idle
  <2>. QED BY <1>1, <2>3, <2>4 DEF BeginPut, TakesLock, TypeInv, TypeOK
<1>2. ASSUME NEW q \in Proc, CreateTmp(q) PROVE TypeInv'
  <2>1. PICK i \in Inode :
          /\ IF names.tmp = None THEN Rename([names EXCEPT !.tmp = i]) ELSE UNCHANGED <<names, journal>>
          /\ data' = [data EXCEPT ![i] = Empty]
          /\ flushed' = flushed \ {i}
          /\ put' = [put EXCEPT ![q] = [put[q] EXCEPT !.pc = "write", !.inode = i]]
    BY <1>2 DEF CreateTmp
  <2>2. [put[q] EXCEPT !.pc = "write", !.inode = i] \in Put
    BY DEF TypeInv, TypeOK, Put
  <2>3. put' \in [Proc -> Put]
    BY <2>1, <2>2 DEF TypeInv, TypeOK
  <2>4. [names EXCEPT !.tmp = i] \in Names
    BY DEF TypeInv, TypeOK, Names
  <2>5. names' \in Names /\ journal' \in SUBSET Names
    BY <2>1, <2>4, RenameType DEF TypeInv, TypeOK
  <2>6. put[q].pc # "idle"
    BY <1>2 DEF CreateTmp
  <2>7. Shape'
    BY <2>1, <2>6 DEF TypeInv, TypeOK, Shape, Put
  <2>. QED BY <1>2, <2>1, <2>3, <2>5, <2>7 DEF CreateTmp, TypeInv, TypeOK, Contents
<1>3. ASSUME NEW q \in Proc, WriteAll(q) PROVE TypeInv'
  <2>1. put[q].value \in Value /\ put[q].inode \in Inode
    BY <1>3 DEF WriteAll, TypeInv, Shape
  <2>2. put' \in [Proc -> Put] /\ Shape'
    BY <1>3, <2>1, GotoType DEF WriteAll, Pcs
  <2>3. data' \in [Inode -> Contents]
    BY <1>3, <2>1 DEF WriteAll, Overwritten, TypeInv, TypeOK, Contents
  <2>. QED BY <1>3, <2>2, <2>3 DEF WriteAll, TypeInv, TypeOK
<1>4. ASSUME NEW q \in Proc, SyncAll(q) PROVE TypeInv'
  <2>1. put[q].inode \in Inode
    BY <1>4 DEF SyncAll, TypeInv, Shape
  <2>2. put' \in [Proc -> Put] /\ Shape'
    BY <1>4, <2>1, GotoType DEF SyncAll, Pcs
  <2>. QED BY <1>4, <2>1, <2>2 DEF SyncAll, TypeInv, TypeOK
<1>5. ASSUME NEW q \in Proc, Publish(q) PROVE TypeInv'
  <2>1. put[q].inode \in Inode
    BY <1>5 DEF Publish, TypeInv, Shape
  <2>2. put' \in [Proc -> Put] /\ Shape'
    BY <1>5, <2>1, GotoType DEF Publish, Pcs
  <2>3. [file |-> names.tmp, tmp |-> None] \in Names
    BY DEF TypeInv, TypeOK, Names
  <2>4. names' \in Names /\ journal' \in SUBSET Names
    BY <1>5, <2>3, RenameType DEF Publish
  <2>. QED BY <1>5, <2>2, <2>4 DEF Publish, TypeInv, TypeOK
<1>6. ASSUME NEW q \in Proc, SyncDir(q) PROVE TypeInv'
  <2>1. put' \in [Proc -> Put] /\ Shape'
    BY <1>6, GotoType DEF SyncDir, Pcs
  <2>. QED BY <1>6, <2>1 DEF SyncDir, TypeInv, TypeOK
<1>7. ASSUME NEW q \in Proc, Return(q) PROVE TypeInv'
  <2>1. put' \in [Proc -> Put] /\ Shape' /\ lock' \in Proc \cup {None}
    BY <1>7, EndsType DEF Return
  <2>. QED BY <1>7, <2>1 DEF Return, TypeInv, TypeOK
<1>8. ASSUME NEW q \in Proc, Fail(q) PROVE TypeInv'
  <2>1. put' \in [Proc -> Put] /\ Shape'
    BY <1>8, GotoType DEF Fail, Pcs
  <2>2. data' \in [Inode -> Contents] /\ flushed' \in SUBSET Inode
    BY <1>8, CutShortType DEF Fail
  <2>. QED BY <1>8, <2>1, <2>2 DEF Fail, TypeInv, TypeOK
<1>9. ASSUME NEW q \in Proc, RemoveTmp(q) PROVE TypeInv'
  <2>1. put' \in [Proc -> Put] /\ Shape' /\ lock' \in Proc \cup {None}
    BY <1>9, EndsType DEF RemoveTmp
  <2>2. [names EXCEPT !.tmp = None] \in Names
    BY DEF TypeInv, TypeOK, Names
  <2>3. names' \in Names /\ journal' \in SUBSET Names
    BY <1>9, <2>2, RenameType DEF RemoveTmp, TypeInv, TypeOK
  <2>. QED BY <1>9, <2>1, <2>3 DEF RemoveTmp, TypeInv, TypeOK
<1>10. ASSUME NEW q \in Proc, Delete(q) PROVE TypeInv'
  <2>1. [names EXCEPT !.file = None] \in Names
    BY DEF TypeInv, TypeOK, Names
  <2>2. names' \in Names /\ journal' \in SUBSET Names
    BY <1>10, <2>1, RenameType DEF Delete
  <2>. QED BY <1>10, <2>2 DEF Delete, TypeInv, TypeOK, Shape
<1>11. ASSUME NEW q \in Proc, Kill(q) PROVE TypeInv'
  <2>1. put' \in [Proc -> Put] /\ Shape' /\ lock' \in Proc \cup {None}
    BY <1>11, EndsType DEF Kill
  <2>2. data' \in [Inode -> Contents] /\ flushed' \in SUBSET Inode
    BY <1>11, CutShortType DEF Kill
  <2>. QED BY <1>11, <2>1, <2>2 DEF Kill, TypeInv, TypeOK
<1>12. CASE PowerLoss
  <2>1. Idle \in Put
    BY DEF Idle, Put
  <2>2. put' \in [Proc -> Put] /\ Shape'
    BY <1>12, <2>1 DEF PowerLoss, Shape, Idle
  <2>3. names' \in Names /\ journal' \in SUBSET Names
    BY <1>12 DEF PowerLoss, TypeInv, TypeOK
  <2>4. data' \in [Inode -> Contents]
    BY <1>12 DEF PowerLoss, TypeInv, TypeOK, Contents
  <2>. QED BY <1>12, <2>2, <2>3, <2>4 DEF PowerLoss, TypeInv, TypeOK
<1>13. CASE UNCHANGED vars
  BY <1>13 DEF vars, TypeInv, TypeOK, Shape
<1>. QED BY <1>1, <1>2, <1>3, <1>4, <1>5, <1>6, <1>7, <1>8, <1>9, <1>10, <1>11, <1>12, <1>13 DEF Next

(* The variables keep their types, whatever fails and whoever shares the   *)
(* directory.                                                              *)
THEOREM TypeCorrect == Spec => []TypeOK
<1>1. TypeInv /\ [Next]_vars => TypeInv'
  BY TypeStep
<1>2. TypeInv => TypeOK
  BY DEF TypeInv
<1>. QED BY <1>1, <1>2, InitType, PTL DEF Spec
-----------------------------------------------------------------------------
LEMMA InitIInv == Init => IInv
<1> SUFFICES ASSUME Init PROVE IInv
  OBVIOUS
<1>1. OneWriter
  BY DEF Init, OneWriter, Idle
<1>2. WholeFiles
  BY DEF Init, WholeFiles
<1>3. \A q \in Proc : Progress(q)
  BY DEF Init, Progress, Idle
<1>. QED BY <1>1, <1>2, <1>3, InitType DEF IInv

(* While one process is inside an operation, or nobody is, the others know *)
(* nothing that a step could make false.                                   *)
LEMMA Alone ==
    ASSUME IInv, NEW q \in Proc, put[q].pc # "idle" \/ lock = None,
           \A r \in Proc \ {q} : put'[r] = put[r],
           put'[q].pc # "idle" => lock' = q,
           Progress(q)', TypeInv', WholeFiles'
    PROVE  IInv'
<1>1. \A r \in Proc \ {q} : put'[r].pc = "idle"
  BY FileAssumption DEF IInv, OneWriter
<1>2. OneWriter'
  BY <1>1 DEF OneWriter
<1>3. \A r \in Proc \ {q} : Progress(r)'
  BY <1>1 DEF Progress
<1>. QED BY <1>2, <1>3 DEF IInv

(* A step by q that only moves its put on.                                 *)
LEMMA GotoOthers ==
    ASSUME TypeInv, NEW q \in Proc, NEW pc, Goto(q, pc)
    PROVE  /\ \A r \in Proc \ {q} : put'[r] = put[r]
           /\ put'[q] = [put[q] EXCEPT !.pc = pc]
BY DEF TypeInv, TypeOK, Goto

LEMMA EndsOthers ==
    ASSUME TypeInv, NEW q \in Proc, Ends(q)
    PROVE  /\ \A r \in Proc \ {q} : put'[r] = put[r]
           /\ put'[q].pc = "idle"
           /\ Progress(q)'
BY DEF TypeInv, TypeOK, Ends, Idle, Progress

(* Changing a file that only the temporary name refers to leaves the files *)
(* of the record whole.                                                    *)
LEMMA TmpOnly ==
    ASSUME IInv, NEW i, i = names.tmp, UNCHANGED <<names, journal>>,
           \A j \in Inode \ {i} : data'[j] = data[j] /\ (j \in flushed => j \in flushed')
    PROVE  WholeFiles' /\ \A n \in journal : n.file # None => data'[n.file] = data[n.file]
<1>1. \A n \in journal : n.file # None => n.file \in Inode \ {i}
  BY DEF IInv, WholeFiles, TypeInv, TypeOK, Names
<1>. QED BY <1>1 DEF IInv, WholeFiles

LEMMA CutShort ==
    ASSUME IInv, NEW q \in Proc, UNCHANGED <<names, journal>>,
           IF put[q].pc = "write"
           THEN /\ \E c \in {data[put[q].inode], Torn} : data' = [data EXCEPT ![put[q].inode] = c]
                /\ flushed' = flushed \ {put[q].inode}
           ELSE UNCHANGED <<data, flushed>>
    PROVE  WholeFiles' /\ \A n \in journal : n.file # None => data'[n.file] = data[n.file]
<1>1. CASE put[q].pc = "write"
  <2>1. put[q].inode = names.tmp
    BY <1>1 DEF IInv, Progress
  <2>2. \A j \in Inode \ {put[q].inode} : data'[j] = data[j] /\ (j \in flushed => j \in flushed')
    BY <1>1 DEF IInv, TypeInv, TypeOK
  <2>. QED BY <2>1, <2>2, TmpOnly
<1>2. CASE put[q].pc # "write"
  BY <1>2 DEF IInv, WholeFiles
<1>. QED BY <1>1, <1>2

(* Under the lock, every step preserves the invariant. *)
LEMMA StepIInv == ASSUME Guarded, IInv, [Next]_vars PROVE IInv'
<1> TypeInv /\ TypeInv'
  BY TypeStep DEF IInv
<1>1. ASSUME NEW q \in Proc, BeginPut(q) PROVE IInv'
  <2>1. PICK v \in Value : put' = [put EXCEPT ![q] = [Idle EXCEPT !.pc = "open", !.value = v]]
    BY <1>1 DEF BeginPut
  <2>2. lock = None /\ lock' = q
    BY <1>1 DEF BeginPut, TakesLock
  <2>3. WholeFiles'
    BY <1>1 DEF BeginPut, IInv, WholeFiles
  <2>4. Progress(q)' /\ \A r \in Proc \ {q} : put'[r] = put[r]
    BY <2>1 DEF TypeInv, TypeOK, Idle, Progress
  <2>. QED BY <2>2, <2>3, <2>4, Alone
<1>2. ASSUME NEW q \in Proc, CreateTmp(q) PROVE IInv'
  <2>1. PICK i \in Inode :
          /\ IF names.tmp = None THEN Free(i) ELSE i = names.tmp
          /\ IF names.tmp = None THEN Rename([names EXCEPT !.tmp = i]) ELSE UNCHANGED <<names, journal>>
          /\ data' = [data EXCEPT ![i] = Empty]
          /\ flushed' = flushed \ {i}
          /\ put' = [put EXCEPT ![q] = [put[q] EXCEPT !.pc = "write", !.inode = i]]
    BY <1>2 DEF CreateTmp
  <2>2. put[q].pc = "open" /\ lock' = lock
    BY <1>2 DEF CreateTmp
  <2>3. put'[q].pc = "write" /\ put'[q].inode = i /\ \A r \in Proc \ {q} : put'[r] = put[r]
    BY <2>1 DEF TypeInv, TypeOK, Put
  <2>4. names'.tmp = i /\ names'.file = names.file /\ names' \in journal'
    BY <2>1, FileAssumption DEF TypeInv, TypeOK, Names, Rename, IInv, WholeFiles
  <2>5. data'[i] = Empty
    BY <2>1 DEF TypeInv, TypeOK
  <2>6. Progress(q)'
    BY <2>3, <2>4, <2>5 DEF Progress
  <2>7. \A n \in journal : n.file # None => n.file # i /\ n.file # n.tmp
    BY <2>1 DEF IInv, WholeFiles, Free
  <2>8. \A n \in journal' : n \in journal \/ n = names'
    BY <2>1 DEF Rename
  <2>9. \A n \in journal' : n.file # None =>
           n.file # i /\ n.file # n.tmp /\ n.file \in flushed /\ data[n.file] \in Value /\ n.file \in Inode
    BY <2>4, <2>7, <2>8 DEF IInv, WholeFiles, TypeInv, TypeOK, Names
  <2>10. WholeFiles'
    BY <2>1, <2>4, <2>9 DEF WholeFiles, TypeInv, TypeOK
  <2>. QED BY <2>2, <2>3, <2>6, <2>10, Alone DEF IInv, OneWriter
<1>3. ASSUME NEW q \in Proc, WriteAll(q) PROVE IInv'
  <2>1. put[q].inode = names.tmp /\ put[q].inode \in Inode /\ data[put[q].inode] = Empty
    BY <1>3 DEF WriteAll, IInv, Progress, TypeInv, Shape
  <2>2. data' = [data EXCEPT ![put[q].inode] = put[q].value]
    BY <1>3, <2>1 DEF WriteAll, Overwritten
  <2>3. WholeFiles'
    <3>1. \A j \in Inode \ {put[q].inode} : data'[j] = data[j] /\ (j \in flushed => j \in flushed')
      BY <1>3, <2>2 DEF WriteAll, TypeInv, TypeOK
    <3>. QED BY <1>3, <2>1, <3>1, TmpOnly DEF WriteAll
  <2>4. put'[q] = [put[q] EXCEPT !.pc = "flush"] /\ \A r \in Proc \ {q} : put'[r] = put[r]
    BY <1>3, GotoOthers DEF WriteAll
  <2>5. Progress(q)'
    BY <1>3, <2>1, <2>2, <2>4 DEF WriteAll, Progress, TypeInv, TypeOK, Put
  <2>6. put[q].pc # "idle" /\ lock' = lock
    BY <1>3 DEF WriteAll
  <2>. QED BY <2>3, <2>4, <2>5, <2>6, Alone DEF IInv, OneWriter
<1>4. ASSUME NEW q \in Proc, SyncAll(q) PROVE IInv'
  <2>1. put'[q] = [put[q] EXCEPT !.pc = "rename"] /\ \A r \in Proc \ {q} : put'[r] = put[r]
    BY <1>4, GotoOthers DEF SyncAll
  <2>2. WholeFiles'
    BY <1>4 DEF SyncAll, IInv, WholeFiles
  <2>3. Progress(q)'
    BY <1>4, <2>1 DEF SyncAll, IInv, Progress, TypeInv, TypeOK, Put
  <2>4. put[q].pc # "idle" /\ lock' = lock
    BY <1>4 DEF SyncAll
  <2>. QED BY <2>1, <2>2, <2>3, <2>4, Alone DEF IInv, OneWriter
<1>5. ASSUME NEW q \in Proc, Publish(q) PROVE IInv'
  <2>1. put'[q] = [put[q] EXCEPT !.pc = "publish"] /\ \A r \in Proc \ {q} : put'[r] = put[r]
    BY <1>5, GotoOthers DEF Publish
  <2>2. /\ names.tmp \in Inode
        /\ data[names.tmp] = put[q].value
        /\ names.tmp \in flushed
        /\ put[q].value \in Value
    BY <1>5 DEF Publish, IInv, Progress, TypeInv, Shape
  <2>3. names' = [file |-> names.tmp, tmp |-> None] /\ journal' = journal \cup {names'}
    BY <1>5 DEF Publish, Rename
  <2>4. WholeFiles'
    BY <1>5, <2>2, <2>3 DEF Publish, IInv, WholeFiles
  <2>5. Get(names)' = put[q].value
    BY <1>5, <2>2, <2>3 DEF Publish, Get
  <2>6. Progress(q)'
    BY <2>1, <2>5 DEF Progress, TypeInv, TypeOK, Put
  <2>7. put[q].pc # "idle" /\ lock' = lock
    BY <1>5 DEF Publish
  <2>. QED BY <2>1, <2>4, <2>6, <2>7, Alone DEF IInv, OneWriter
<1>6. ASSUME NEW q \in Proc, SyncDir(q) PROVE IInv'
  <2>1. put'[q] = [put[q] EXCEPT !.pc = "done"] /\ \A r \in Proc \ {q} : put'[r] = put[r]
    BY <1>6, GotoOthers DEF SyncDir
  <2>2. WholeFiles'
    BY <1>6 DEF SyncDir, IInv, WholeFiles
  <2>3. Progress(q)'
    BY <1>6, <2>1 DEF SyncDir, IInv, Progress, Get, TypeInv, TypeOK, Put
  <2>4. put[q].pc # "idle" /\ lock' = lock
    BY <1>6 DEF SyncDir
  <2>. QED BY <2>1, <2>2, <2>3, <2>4, Alone DEF IInv, OneWriter
<1>7. ASSUME NEW q \in Proc, Return(q) PROVE IInv'
  <2>1. WholeFiles'
    BY <1>7 DEF Return, IInv, WholeFiles
  <2>. QED BY <1>7, <2>1, EndsOthers, Alone DEF Return
<1>8. ASSUME NEW q \in Proc, Fail(q) PROVE IInv'
  <2>1. WholeFiles'
    BY <1>8, CutShort DEF Fail
  <2>2. put'[q] = [put[q] EXCEPT !.pc = "undo"] /\ \A r \in Proc \ {q} : put'[r] = put[r]
    BY <1>8, GotoOthers DEF Fail
  <2>3. Progress(q)'
    BY <2>2 DEF Progress, TypeInv, TypeOK, Put
  <2>4. put[q].pc # "idle" /\ lock' = lock
    BY <1>8 DEF Fail
  <2>. QED BY <2>1, <2>2, <2>3, <2>4, Alone DEF IInv, OneWriter
<1>9. ASSUME NEW q \in Proc, RemoveTmp(q) PROVE IInv'
  <2>1. WholeFiles'
    BY <1>9 DEF RemoveTmp, Rename, IInv, WholeFiles, TypeInv, TypeOK, Names
  <2>2. put[q].pc # "idle" /\ Ends(q)
    BY <1>9 DEF RemoveTmp
  <2>. QED BY <2>1, <2>2, EndsOthers, Alone
<1>10. ASSUME NEW q \in Proc, Delete(q) PROVE IInv'
  <2>1. WholeFiles'
    BY <1>10 DEF Delete, Rename, IInv, WholeFiles, TypeInv, TypeOK, Names
  <2>2. \A r \in Proc : put[r].pc = "idle"
    BY <1>10, FileAssumption DEF Delete, IInv, OneWriter
  <2>3. \A r \in Proc : put'[r].pc = "idle"
    BY <1>10, <2>2 DEF Delete
  <2>. QED BY <2>1, <2>3 DEF IInv, OneWriter, Progress
<1>11. ASSUME NEW q \in Proc, Kill(q) PROVE IInv'
  <2>1. WholeFiles'
    BY <1>11, CutShort DEF Kill
  <2>2. put[q].pc # "idle" /\ Ends(q)
    BY <1>11 DEF Kill
  <2>. QED BY <2>1, <2>2, EndsOthers, Alone
<1>12. CASE PowerLoss
  <2>1. PICK n \in journal : names' = n /\ journal' = {n}
    BY <1>12 DEF PowerLoss
  <2>2. n.file # None => data'[n.file] = data[n.file] /\ n.file \in Inode
    BY <1>12 DEF PowerLoss, IInv, WholeFiles, TypeInv, TypeOK, Names
  <2>3. WholeFiles'
    BY <1>12, <2>1, <2>2 DEF PowerLoss, IInv, WholeFiles
  <2>4. \A r \in Proc : put'[r].pc = "idle"
    BY <1>12 DEF PowerLoss, Idle
  <2>. QED BY <2>3, <2>4 DEF IInv, OneWriter, Progress
<1>13. CASE UNCHANGED vars
  <2>1. OneWriter' /\ WholeFiles'
    BY <1>13 DEF vars, IInv, OneWriter, WholeFiles
  <2>2. \A q \in Proc : Progress(q)'
    BY <1>13 DEF vars, IInv, Progress, Get
  <2>. QED BY <2>1, <2>2 DEF IInv
<1>. QED BY <1>1, <1>2, <1>3, <1>4, <1>5, <1>6, <1>7, <1>8, <1>9, <1>10, <1>11, <1>12, <1>13 DEF Next
(* Once put has returned, no power loss brings back what it replaced.      *)
THEOREM PutIsDurable == Guarded => (Spec => []ReturnedIsDurable)
<1>1. IInv => ReturnedIsDurable
  BY DEF IInv, Progress, ReturnedIsDurable
<1>2. ASSUME Guarded PROVE IInv /\ [Next]_vars => IInv'
  BY <1>2, StepIInv
<1>3. CASE Guarded
  BY <1>1, <1>2, <1>3, InitIInv, PTL DEF Spec
<1>4. CASE ~Guarded
  BY <1>4
<1>. QED BY <1>3, <1>4

-----------------------------------------------------------------------------
Kept == {Get(n) : n \in journal}

(* What a reader sees, now and after a power loss, stays as it is.         *)
Unseen == Get(names)' = Get(names) /\ Kept' = Kept

LEMMA UnseenStep ==
    ASSUME WholeFiles, UNCHANGED <<names, journal>>,
           \A n \in journal : n.file # None => data'[n.file] = data[n.file]
    PROVE  Unseen
BY SameView DEF Unseen, Kept

(* A rename that leaves the record's own name alone is not seen.           *)
LEMMA RenameTmpUnseen ==
    ASSUME WholeFiles, NEW new, Rename(new), new.file = names.file,
           \A n \in journal : n.file # None => data'[n.file] = data[n.file]
    PROVE  Unseen
<1>1. \A n \in journal : Get(n)' = Get(n)
  BY DEF Get
<1>2. names \in journal /\ names' = new /\ journal' = journal \cup {new}
  BY DEF WholeFiles, Rename
<1>3. Get(new)' = Get(names)
  BY <1>2 DEF Get
<1>. QED BY <1>1, <1>2, <1>3 DEF Unseen, Kept, Get

(* A rename of the record is a write of the register. *)
LEMMA RenameFileSeen ==
    ASSUME WholeFiles, NEW new, Rename(new), UNCHANGED data
    PROVE  Get(names)' = Get(new) /\ Kept' = Kept \cup {Get(new)}
<1>1. names' = new /\ journal' = journal \cup {new}
  BY DEF Rename
<1>. QED BY <1>1 DEF Get, Kept

LEMMA RegisterStep ==
    ASSUME Guarded, IInv, [Next]_vars
    PROVE  [Register!Next]_<<Get(names), Kept>>
<1> WholeFiles /\ TypeInv /\ TypeOK
  BY DEF IInv, TypeInv
<1> USE DEF Register!Next, Register!Write, Register!Flush, Register!LosePower
<1>1. SUFFICES Unseen \/ Register!Next
  BY DEF Unseen
<1>2. ASSUME NEW q \in Proc, BeginPut(q) \/ SyncAll(q) \/ Return(q) PROVE Unseen
  BY <1>2, UnseenStep DEF BeginPut, SyncAll, Return
<1>3. ASSUME NEW q \in Proc, Fail(q) \/ Kill(q) PROVE Unseen
  BY <1>3, CutShort, UnseenStep DEF Fail, Kill
<1>4. ASSUME NEW q \in Proc, WriteAll(q) PROVE Unseen
  <2>1. put[q].inode = names.tmp
    BY <1>4 DEF WriteAll, IInv, Progress
  <2>2. \A n \in journal : n.file # None => data'[n.file] = data[n.file]
    BY <1>4, <2>1 DEF WriteAll, WholeFiles, TypeOK, Names
  <2>. QED BY <1>4, <2>2, UnseenStep DEF WriteAll
<1>5. ASSUME NEW q \in Proc, CreateTmp(q) PROVE Unseen
  <2>1. PICK i \in Inode :
          /\ IF names.tmp = None THEN Free(i) ELSE i = names.tmp
          /\ IF names.tmp = None THEN Rename([names EXCEPT !.tmp = i]) ELSE UNCHANGED <<names, journal>>
          /\ data' = [data EXCEPT ![i] = Empty]
    BY <1>5 DEF CreateTmp
  <2>2. \A n \in journal : n.file # None => data'[n.file] = data[n.file]
    BY <2>1 DEF WholeFiles, Free, TypeOK, Names
  <2>3. [names EXCEPT !.tmp = i].file = names.file
    BY DEF TypeOK, Names
  <2>. QED BY <2>1, <2>2, <2>3, UnseenStep, RenameTmpUnseen
<1>6. ASSUME NEW q \in Proc, RemoveTmp(q) PROVE Unseen
  <2>1. [names EXCEPT !.tmp = None].file = names.file
    BY DEF TypeOK, Names
  <2>. QED BY <1>6, <2>1, UnseenStep, RenameTmpUnseen DEF RemoveTmp
<1>7. ASSUME NEW q \in Proc, Publish(q) PROVE Register!Next
  <2>1. Get([file |-> names.tmp, tmp |-> None]) \in Value
    BY <1>7 DEF Publish, IInv, Progress, Get, Shape, TypeInv
  <2>2. Rename([file |-> names.tmp, tmp |-> None]) /\ UNCHANGED data
    BY <1>7 DEF Publish
  <2>. QED BY <2>1, <2>2, RenameFileSeen DEF Kept
<1>8. ASSUME NEW q \in Proc, SyncDir(q) PROVE Register!Next
  <2>1. names' = names /\ data' = data /\ journal' = {names}
    BY <1>8 DEF SyncDir
  <2>. QED BY <2>1 DEF Get
<1>9. ASSUME NEW q \in Proc, Delete(q) PROVE Register!Next
  <2>1. Get([names EXCEPT !.file = None]) = None
    BY DEF Get, TypeOK, Names
  <2>2. Rename([names EXCEPT !.file = None]) /\ UNCHANGED data
    BY <1>9 DEF Delete
  <2>. QED BY <2>1, <2>2, RenameFileSeen DEF Kept
<1>10. CASE PowerLoss
  <2>1. PICK n \in journal : names' = n /\ journal' = {n}
    BY <1>10 DEF PowerLoss
  <2>2. Get(n)' = Get(n)
    BY <1>10 DEF PowerLoss, WholeFiles, Get, TypeOK, Names
  <2>3. Get(n) \in Value \cup {None}
    BY DEF Get, WholeFiles
  <2>4. Get(names)' = Get(n) /\ Kept' = {Get(n)} /\ Get(n) \in Kept
    BY <2>1, <2>2 DEF Get, Kept
  <2>. QED BY <2>3, <2>4 DEF Kept
<1>11. CASE UNCHANGED vars
  BY <1>11, UnseenStep DEF vars
<1>. QED BY <1>2, <1>3, <1>4, <1>5, <1>6, <1>7, <1>8, <1>9, <1>10, <1>11 DEF Next

(* Puts made under the operation lock make the record a durable register:  *)
(* readers see a whole value or none, whatever fails and whenever the      *)
(* power is lost.                                                          *)
THEOREM ImplementsRegister == Guarded => (Spec => RegisterSpec)
<1>1. Init => Register!Init
  BY DEF Init, Register!Init, Get
<1>2. ASSUME Guarded PROVE IInv /\ [Next]_vars => IInv' /\ [Register!Next]_<<Get(names), Kept>>
  BY <1>2, StepIInv, RegisterStep
<1>3. CASE Guarded
  BY <1>1, <1>2, <1>3, InitIInv, PTL DEF Spec, RegisterSpec, Register!Spec, Kept
<1>4. CASE ~Guarded
  BY <1>4
<1>. QED BY <1>3, <1>4
=============================================================================
