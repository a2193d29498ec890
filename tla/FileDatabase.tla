---------------------------- MODULE FileDatabase ----------------------------
(***************************************************************************)
(* One record of the file database, database/file.rs: the file named after *)
(* its key, and the file beside it that put writes before it renames it.   *)
(* Both names come from the key alone, so every process that puts the      *)
(* record uses the same two; the names of different keys are different.    *)
(*                                                                         *)
(* An operation may fail at any call, its process may end between any two, *)
(* and the machine may lose power.  Assumed of the file system: names      *)
(* reach the disk in the order in which they changed, the latest when the  *)
(* directory is flushed, and contents that were not flushed may be lost in *)
(* part.                                                                   *)
(***************************************************************************)
EXTENDS Naturals, FiniteSets

CONSTANTS
    Proc,       \* the processes that have the directory open
    Value,      \* the contents callers put
    Inode,      \* the files that exist at once, with or without a name
    MaxJournal, \* bound: the names not yet on disk when an operation starts
    Guarded,    \* whether callers put and delete under the operation lock
    None,       \* no value, no file, no process
    Empty,      \* the contents of a new file
    Torn        \* contents that are no caller's value

ASSUME FileAssumption ==
    /\ Guarded \in BOOLEAN
    /\ None \notin Value \cup Inode \cup Proc
    /\ {Empty, Torn} \cap Value = {}
    /\ None \notin {Empty, Torn}

VARIABLES
    names,      \* what the record's name and the temporary name refer to
    journal,    \* the names a power loss may leave
    data,       \* the contents of each file
    flushed,    \* the files whose contents are on disk
    lock,       \* who holds the operation lock
    put         \* each process's put

vars == <<names, journal, data, flushed, lock, put>>

Names == [file : Inode \cup {None}, tmp : Inode \cup {None}]
Contents == Value \cup {Empty, Torn}

Put == [pc : {"idle", "open", "write", "flush", "rename", "publish", "undo", "done"},
        value : Value \cup {None},
        inode : Inode \cup {None}]      \* the file it has open
Idle == [pc |-> "idle", value |-> None, inode |-> None]

TypeOK ==
    /\ names \in Names
    /\ journal \in SUBSET Names
    /\ data \in [Inode -> Contents]
    /\ flushed \in SUBSET Inode
    /\ lock \in Proc \cup {None}
    /\ put \in [Proc -> Put]

Init ==
    /\ names = [file |-> None, tmp |-> None]
    /\ journal = {names}
    /\ data = [i \in Inode |-> Empty]
    /\ flushed = Inode
    /\ lock = None
    /\ put = [q \in Proc |-> Idle]

-----------------------------------------------------------------------------
Goto(q, pc) == put' = [put EXCEPT ![q].pc = pc]

(* A change of names: the disk has it some time later. *)
Rename(new) ==
    /\ names' = new
    /\ journal' = journal \cup {new}

(* What a file contains when only part of a write has been done. *)
Overwritten(i, v) == IF data[i] = Empty THEN v ELSE Torn

(* A file is gone when no name, on disk or not, and no process holds it. *)
Free(i) ==
    /\ \A n \in journal \cup {names} : i \notin {n.file, n.tmp}
    /\ \A q \in Proc : put[q].inode # i

TakesLock(q) == IF Guarded THEN lock = None /\ lock' = q ELSE UNCHANGED lock

(* What the operation leaves when its process stops caring about it. *)
Ends(q) ==
    /\ lock' = IF lock = q THEN None ELSE lock
    /\ put' = [put EXCEPT ![q] = Idle]

-----------------------------------------------------------------------------
BeginPut(q) == \E v \in Value :
    /\ put[q].pc = "idle" /\ Cardinality(journal) <= MaxJournal
    /\ TakesLock(q)
    /\ put' = [put EXCEPT ![q] = [Idle EXCEPT !.pc = "open", !.value = v]]
    /\ UNCHANGED <<names, journal, data, flushed>>

(* create_private_file: a file that has the temporary name already is      *)
(* truncated, whoever made it.                                             *)
CreateTmp(q) == \E i \in Inode :
    /\ put[q].pc = "open"
    /\ IF names.tmp = None THEN Free(i) ELSE i = names.tmp
    /\ IF names.tmp = None THEN Rename([names EXCEPT !.tmp = i]) ELSE UNCHANGED <<names, journal>>
    /\ data' = [data EXCEPT ![i] = Empty]
    /\ flushed' = flushed \ {i}
    /\ put' = [put EXCEPT ![q] = [@ EXCEPT !.pc = "write", !.inode = i]]
    /\ UNCHANGED lock

(* Over what another process wrote to the same file, a value of another    *)
(* length leaves a mixture.                                                *)
WriteAll(q) ==
    LET t == put[q] IN
    /\ t.pc = "write"
    /\ \E c \in {t.value, Overwritten(t.inode, t.value)} : data' = [data EXCEPT ![t.inode] = c]
    /\ flushed' = flushed \ {t.inode}
    /\ Goto(q, "flush")
    /\ UNCHANGED <<names, journal, lock>>

(* Mutant: the contents are not flushed before the rename. *)
SyncNothing(q) ==
    /\ put[q].pc = "flush"
    /\ Goto(q, "rename")
    /\ UNCHANGED <<names, journal, data, flushed, lock>>

SyncAll(q) ==
    /\ put[q].pc = "flush"
    /\ flushed' = flushed \cup {put[q].inode}
    /\ Goto(q, "rename")
    /\ UNCHANGED <<names, journal, data, lock>>

(* The rename goes by name, and fails if the name is gone. *)
Publish(q) ==
    /\ put[q].pc = "rename"
    /\ names.tmp # None
    /\ Rename([file |-> names.tmp, tmp |-> None])
    /\ Goto(q, "publish")
    /\ UNCHANGED <<data, flushed, lock>>

(* Mutant: the directory is not flushed. *)
SyncNoDir(q) ==
    /\ put[q].pc = "publish"
    /\ Goto(q, "done")
    /\ UNCHANGED <<names, journal, data, flushed, lock>>

SyncDir(q) ==
    /\ put[q].pc = "publish"
    /\ journal' = {names}
    /\ Goto(q, "done")
    /\ UNCHANGED <<names, data, flushed, lock>>

Return(q) ==
    /\ put[q].pc = "done"
    /\ Ends(q)
    /\ UNCHANGED <<names, journal, data, flushed>>

(* A call fails; a write that fails may have been done in part. *)
Fail(q) ==
    LET t == put[q] IN
    /\ t.pc \in {"open", "write", "flush", "rename", "publish"}
    /\ IF t.pc = "write"
       THEN /\ \E c \in {data[t.inode], Torn} : data' = [data EXCEPT ![t.inode] = c]
            /\ flushed' = flushed \ {t.inode}
       ELSE UNCHANGED <<data, flushed>>
    /\ Goto(q, "undo")
    /\ UNCHANGED <<names, journal, lock>>

(* The error path removes the temporary file, whoever made it. *)
RemoveTmp(q) ==
    /\ put[q].pc = "undo"
    /\ \/ Rename([names EXCEPT !.tmp = None])
       \/ UNCHANGED <<names, journal>>
    /\ Ends(q)
    /\ UNCHANGED <<data, flushed>>

(* remove_file, which is not flushed. *)
Delete(q) ==
    /\ put[q].pc = "idle" /\ Cardinality(journal) <= MaxJournal
    /\ Guarded => lock = None
    /\ Rename([names EXCEPT !.file = None])
    /\ UNCHANGED <<data, flushed, lock, put>>

(* The process ends, in the middle of a write perhaps. *)
Kill(q) ==
    LET t == put[q] IN
    /\ t.pc # "idle"
    /\ IF t.pc = "write"
       THEN /\ \E c \in {data[t.inode], Torn} : data' = [data EXCEPT ![t.inode] = c]
            /\ flushed' = flushed \ {t.inode}
       ELSE UNCHANGED <<data, flushed>>
    /\ Ends(q)
    /\ UNCHANGED <<names, journal>>

PowerLoss == \E n \in journal :
    /\ names' = n
    /\ journal' = {n}
    /\ \E lost \in SUBSET (Inode \ flushed) :
          data' = [i \in Inode |-> IF i \in lost THEN Torn ELSE data[i]]
    /\ flushed' = Inode
    /\ lock' = None
    /\ put' = [q \in Proc |-> Idle]

Next ==
    \/ \E q \in Proc :
        \/ BeginPut(q) \/ CreateTmp(q) \/ WriteAll(q) \/ SyncAll(q) \/ Publish(q)
        \/ SyncDir(q) \/ Return(q) \/ Fail(q) \/ RemoveTmp(q) \/ Delete(q) \/ Kill(q)
    \/ PowerLoss

Spec == Init /\ [][Next]_vars

-----------------------------------------------------------------------------
(* get: the contents of the record under some names. *)
Get(n) == IF n.file = None THEN None ELSE data[n.file]

(* Puts under the operation lock make the record a register that never     *)
(* shows part of a value, not even after a process ended or the power was  *)
(* lost at the worst moment.                                               *)
Register == INSTANCE DurableRegister
    WITH value <- Get(names), kept <- {Get(n) : n \in journal}
RegisterSpec == Register!Spec

(* docs/cli.md:71 "The nonce advance is flushed to disk before             *)
(* derivation": once put has returned, no power loss brings back what it   *)
(* replaced.                                                               *)
ReturnedIsDurable ==
    \A q \in Proc : put[q].pc = "done" => \A n \in journal : Get(n) = put[q].value
=============================================================================
