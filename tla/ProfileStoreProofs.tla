------------------------- MODULE ProfileStoreProofs -------------------------
(***************************************************************************)
(* What holds of the keyring and the profile index for any number of       *)
(* commands, phrases, names and indices, however the commands overlap.     *)
(***************************************************************************)
EXTENDS ProfileStore, TLAPS

(* A command has its phrase from the start, and its index when it writes.  *)
Shape == \A q \in Proc :
    /\ cmd[q].pc \in {"check", "read", "store"} => cmd[q].phrase \in Phrase
    /\ cmd[q].pc \in {"reread", "point", "put"} => cmd[q].index \in Index

TypeInv == TypeOK /\ Shape

Distinct(ms) == \A i, j \in 1 .. Len(ms) : ms[i] = ms[j] => i = j

(* No two profiles of a list share their pair or the name they are shown   *)
(* by, and each has its pointer.                                           *)
Unique(ps) == \A p, r \in ps : IF KeyOf(p) = KeyOf(r) THEN p = r ELSE DisplayName(p) # DisplayName(r)
Pointed(ps) == \A p \in ps : KeyOf(p) \in pointers

(* What a command has read, it may write back with its change.             *)
Ready(q) ==
    LET c == cmd[q] IN
    /\ c.pc = "store" => Distinct(c.keyring) /\ ~Stored(c.phrase, c.keyring)
    /\ c.pc \in {"point", "put"} =>
        Unique(c.listed) /\ Pointed(c.listed) /\ UniqueName(Record(c), c.listed)
    /\ c.pc = "put" => KeyOf(Record(c)) \in pointers

ListsInv == Distinct(mnemonics) /\ Unique(profiles) /\ Pointed(profiles)

IInv == TypeInv /\ ListsInv /\ \A q \in Proc : Ready(q)

-----------------------------------------------------------------------------
LEMMA IdleType == Idle \in Command
BY ProfileAssumption DEF Command, Idle, Name

(* A step of one command that leaves the three lists to be checked apart.  *)
LEMMA CommandStep ==
    ASSUME TypeInv, NEW q \in Proc, NEW c \in Command,
           cmd' = [cmd EXCEPT ![q] = c],
           c.pc \in {"check", "read", "store"} => c.phrase \in Phrase,
           c.pc \in {"reread", "point", "put"} => c.index \in Index,
           mnemonics' \in Seq(Phrase), profiles' \in SUBSET Profile, pointers' \in SUBSET Key,
           begun' \in 0 .. MaxCommands, overlapped' \in BOOLEAN
    PROVE  TypeInv'
<1>1. cmd' \in [Proc -> Command]
  BY DEF TypeInv, TypeOK
<1>2. Shape'
  BY DEF TypeInv, TypeOK, Shape
<1>. QED BY <1>1, <1>2 DEF TypeInv, TypeOK

LEMMA GotoIsStep ==
    ASSUME TypeInv, NEW q \in Proc,
           NEW pc \in {"idle", "check", "read", "store", "find", "list", "point", "reread", "put", "stranded"},
           Goto(q, pc)
    PROVE  /\ cmd' = [cmd EXCEPT ![q] = [cmd[q] EXCEPT !.pc = pc]]
           /\ [cmd[q] EXCEPT !.pc = pc] \in Command
BY DEF Goto, TypeInv, TypeOK, Command

LEMMA RecordType ==
    ASSUME NEW c \in Command, c.index \in Index
    PROVE  Record(c) \in Profile /\ KeyOf(Record(c)) \in Key
BY DEF Record, Command, Profile, KeyOf, Key, Index

LEMMA InitType == Init => TypeInv
<1> SUFFICES ASSUME Init PROVE TypeInv
  OBVIOUS
<1>1. cmd \in [Proc -> Command] /\ Shape
  BY IdleType DEF Init, Shape, Idle
<1>2. begun \in 0 .. MaxCommands
  BY ProfileAssumption DEF Init
<1>3. overlapped \in BOOLEAN /\ profiles \in SUBSET Profile /\ pointers \in SUBSET Key
  BY DEF Init
<1>4. mnemonics \in Seq(Phrase)
  BY DEF Init
<1>. QED BY <1>1, <1>2, <1>3, <1>4 DEF TypeInv, TypeOK

LEMMA TypeStep == TypeInv /\ [Next]_vars => TypeInv'
<1> SUFFICES ASSUME TypeInv, [Next]_vars PROVE TypeInv'
  OBVIOUS
<1>0. /\ mnemonics \in Seq(Phrase) /\ profiles \in SUBSET Profile /\ pointers \in SUBSET Key
      /\ begun \in 0 .. MaxCommands /\ overlapped \in BOOLEAN
      /\ \A q \in Proc : cmd[q] \in Command
  BY DEF TypeInv, TypeOK
<1>s. Shape
  BY DEF TypeInv
<1>1. ASSUME NEW q \in Proc, NEW c \in Command, Begins(q, c),
             c.pc \in {"check", "read", "store"} => c.phrase \in Phrase,
             c.pc \in {"reread", "point", "put"} => c.index \in Index
      PROVE  TypeInv'
  <2>1. overlapped' \in BOOLEAN
    BY <1>1, Zenon DEF Begins
  <2>2. begun' \in 0 .. MaxCommands
    BY <1>0, <1>1, ProfileAssumption DEF Begins
  <2>3. /\ mnemonics' \in Seq(Phrase) /\ profiles' \in SUBSET Profile /\ pointers' \in SUBSET Key
        /\ cmd' = [cmd EXCEPT ![q] = c]
    BY <1>0, <1>1 DEF Begins
  <2>. QED BY <1>1, <2>1, <2>2, <2>3, CommandStep
<1>2. ASSUME NEW q \in Proc, NEW c \in Command, cmd' = [cmd EXCEPT ![q] = c],
             mnemonics' \in Seq(Phrase), profiles' \in SUBSET Profile, pointers' \in SUBSET Key,
             UNCHANGED <<begun, overlapped>>,
             c.pc \in {"check", "read", "store"} => c.phrase \in Phrase,
             c.pc \in {"reread", "point", "put"} => c.index \in Index
      PROVE  TypeInv'
  <2>1. overlapped' \in BOOLEAN /\ begun' \in 0 .. MaxCommands
    BY <1>0, <1>2
  <2>. QED BY <1>2, <2>1, CommandStep
<1>a. ASSUME NEW q \in Proc, Ends(q), UNCHANGED <<begun, overlapped>>,
             mnemonics' \in Seq(Phrase), profiles' \in SUBSET Profile, pointers' \in SUBSET Key
      PROVE  TypeInv'
  <2>1. Idle.pc = "idle"
    BY DEF Idle
  <2>. QED BY <1>a, <1>2, <2>1, IdleType DEF Ends
<1>3. ASSUME NEW q \in Proc, Import(q) PROVE TypeInv'
  <2>1. PICK f \in Phrase, i \in 0 .. MaxIndex + 1, n \in Name :
          Begins(q, [Idle EXCEPT !.pc = "check", !.kind = "import", !.phrase = f,
                                 !.mnemonic = Len(mnemonics), !.index = i, !.name = n])
    BY <1>3 DEF Import
  <2> DEFINE c == [Idle EXCEPT !.pc = "check", !.kind = "import", !.phrase = f,
                               !.mnemonic = Len(mnemonics), !.index = i, !.name = n]
  <2>2. i \in Nat /\ Len(mnemonics) \in Nat
    BY <1>0, ProfileAssumption
  <2>3. c \in Command /\ c.pc = "check" /\ c.phrase \in Phrase
    BY <2>2, IdleType DEF Command, Idle
  <2>. QED BY <2>1, <2>3, <1>1
<1>4. ASSUME NEW q \in Proc, CheckCanCreate(q) PROVE TypeInv'
  <2>1. CASE Goto(q, "read")
    <3>1. [cmd[q] EXCEPT !.pc = "read"].phrase \in Phrase /\ [cmd[q] EXCEPT !.pc = "read"].pc = "read"
      BY <1>0, <1>s, <1>4 DEF CheckCanCreate, Shape, Command
    <3>. QED BY <1>0, <1>4, <2>1, <3>1, GotoIsStep, <1>2 DEF CheckCanCreate
  <2>. QED BY <1>0, <1>4, <2>1, <1>a DEF CheckCanCreate
<1>5. ASSUME NEW q \in Proc, ReadKeyring(q) PROVE TypeInv'
  <2>1. CASE ~Stored(cmd[q].phrase, mnemonics)
    <3> DEFINE c == [cmd[q] EXCEPT !.pc = "store", !.keyring = mnemonics]
    <3>1. c \in Command /\ c.pc = "store" /\ c.phrase \in Phrase
      BY <1>0, <1>s, <1>5 DEF ReadKeyring, Shape, Command
    <3>. QED BY <1>0, <1>5, <2>1, <3>1, <1>2 DEF ReadKeyring
  <2>. QED BY <1>0, <1>5, <2>1, <1>a DEF ReadKeyring
<1>6. ASSUME NEW q \in Proc, PutMnemonics(q) PROVE TypeInv'
  <2>1. cmd[q].keyring \in Seq(Phrase) /\ cmd[q].phrase \in Phrase
    BY <1>0, <1>s, <1>6 DEF PutMnemonics, Shape, Command
  <2>2. mnemonics' \in Seq(Phrase)
    BY <1>6, <2>1 DEF PutMnemonics
  <2> DEFINE c == [cmd[q] EXCEPT !.pc = "list", !.mnemonic = Len(cmd[q].keyring), !.keyring = <<>>]
  <2>4. Len(cmd[q].keyring) \in Nat /\ <<>> \in Seq(Phrase)
    BY <2>1
  <2>3. c \in Command /\ c.pc = "list"
    BY <1>0, <2>4 DEF Command
  <2>. QED BY <1>0, <1>6, <2>2, <2>3, <1>2 DEF PutMnemonics
<1>7. ASSUME NEW q \in Proc, Add(q) PROVE TypeInv'
  <2>1. PICK p \in profiles, i \in 0 .. MaxIndex + 1 \cup {None}, n \in Name :
          Begins(q, [Idle EXCEPT !.pc = "find", !.kind = "add",
                                 !.mnemonic = p.mnemonic, !.index = i, !.name = n])
    BY <1>7 DEF Add
  <2> DEFINE c == [Idle EXCEPT !.pc = "find", !.kind = "add",
                               !.mnemonic = p.mnemonic, !.index = i, !.name = n]
  <2>2. i \in Nat \cup {None}
    BY <2>1, ProfileAssumption
  <2>p. p.mnemonic \in Nat
    BY <1>0 DEF Profile
  <2>3. c \in Command /\ c.pc = "find"
    BY <2>2, <2>p, IdleType DEF Command, Idle
  <2>. QED BY <2>1, <2>3, <1>1
<1>8. ASSUME NEW q \in Proc, FindPhrase(q) PROVE TypeInv'
  <2>1. CASE cmd[q].mnemonic < Len(mnemonics)
    <3>1. cmd[q].mnemonic \in Nat
      BY <1>0 DEF Command
    <3>2. mnemonics[cmd[q].mnemonic + 1] \in Phrase
      BY <1>0, <2>1, <3>1
    <3> DEFINE c == [cmd[q] EXCEPT !.pc = "list", !.phrase = mnemonics[cmd[q].mnemonic + 1]]
    <3>3. c \in Command /\ c.pc = "list"
      BY <1>0, <3>2 DEF Command
    <3>. QED BY <1>0, <1>8, <2>1, <3>3, <1>2 DEF FindPhrase
  <2>. QED BY <1>0, <1>8, <2>1, <1>a DEF FindPhrase
<1>9. ASSUME NEW q \in Proc, ListProfiles(q) PROVE TypeInv'
  <2>0. UNCHANGED <<mnemonics, profiles, pointers, begun, overlapped>>
    BY <1>9 DEF ListProfiles
  <2>1. ASSUME NEW i \in Index,
               cmd' = [cmd EXCEPT ![q] = [cmd[q] EXCEPT !.pc = "point", !.index = i, !.listed = profiles]]
        PROVE  TypeInv'
    <3> DEFINE c == [cmd[q] EXCEPT !.pc = "point", !.index = i, !.listed = profiles]
    <3>1. i \in Nat
      BY ProfileAssumption DEF Index
    <3>2. c \in Command /\ c.pc = "point" /\ c.index = i
      BY <1>0, <3>1 DEF Command
    <3>. QED BY <1>0, <2>0, <2>1, <3>2, <1>2
  <2>2. CASE Goto(q, "stranded")
    <3>1. [cmd[q] EXCEPT !.pc = "stranded"].pc = "stranded"
      BY <1>0 DEF Command
    <3>. QED BY <1>0, <2>0, <2>2, <3>1, GotoIsStep, <1>2
  <2> DEFINE r == [Record(cmd[q]) EXCEPT
                     !.index = IF @ = None THEN SmallestUnused(cmd[q].mnemonic, profiles) ELSE @]
  <2>3. \/ r.index \in Index /\ cmd' = [cmd EXCEPT ![q] = [cmd[q] EXCEPT !.pc = "point", !.index = r.index, !.listed = profiles]]
        \/ Goto(q, "stranded")
        \/ Ends(q)
    BY <1>9 DEF ListProfiles
  <2>. QED BY <1>0, <2>0, <2>1, <2>2, <2>3, <1>a
<1>10. ASSUME NEW q \in Proc, PutPointer(q) PROVE TypeInv'
  <2>1. cmd[q].index \in Index
    BY <1>s, <1>10 DEF PutPointer, Shape
  <2>2. pointers' \in SUBSET Key
    BY <1>0, <1>10, <2>1, RecordType DEF PutPointer
  <2> DEFINE c == [cmd[q] EXCEPT !.pc = "put"]
  <2>3. c.pc = "put" /\ c.index \in Index
    BY <1>0, <2>1 DEF Command
  <2>. QED BY <1>0, <1>10, <2>2, <2>3, GotoIsStep, <1>2 DEF PutPointer
<1>11. ASSUME NEW q \in Proc, Rename(q) PROVE TypeInv'
  <2>1. PICK p \in profiles, n \in Name :
          Begins(q, [Idle EXCEPT !.pc = "reread", !.kind = "rename",
                                 !.mnemonic = p.mnemonic, !.index = p.index, !.name = n])
    BY <1>11 DEF Rename
  <2>p. p.index \in Index /\ p.mnemonic \in Nat
    BY <1>0 DEF Profile
  <2>2. p.index \in Nat
    BY <2>p, ProfileAssumption DEF Index
  <2> DEFINE c == [Idle EXCEPT !.pc = "reread", !.kind = "rename",
                               !.mnemonic = p.mnemonic, !.index = p.index, !.name = n]
  <2>3. c \in Command /\ c.pc = "reread" /\ c.index \in Index
    BY <2>p, <2>2, IdleType DEF Command, Idle
  <2>. QED BY <2>1, <2>3, <1>1
<1>12. ASSUME NEW q \in Proc, SetName(q) PROVE TypeInv'
  <2>1. CASE cmd' = [cmd EXCEPT ![q] = [cmd[q] EXCEPT !.pc = "put", !.listed = profiles]]
    <3> DEFINE c == [cmd[q] EXCEPT !.pc = "put", !.listed = profiles]
    <3>1. c \in Command /\ c.pc = "put" /\ c.index \in Index
      BY <1>0, <1>s, <1>12 DEF SetName, Shape, Command
    <3>. QED BY <1>0, <1>12, <2>1, <3>1, <1>2 DEF SetName
  <2>. QED BY <1>0, <1>12, <2>1, <1>a DEF SetName
<1>13. ASSUME NEW q \in Proc, PutProfiles(q) PROVE TypeInv'
  <2>1. cmd[q].index \in Index /\ cmd[q].listed \in SUBSET Profile
    BY <1>0, <1>s, <1>13 DEF PutProfiles, Shape, Command
  <2>2. profiles' \in SUBSET Profile
    BY <1>0, <1>13, <2>1, RecordType DEF PutProfiles
  <2>. QED BY <1>0, <1>13, <2>2, <1>a DEF PutProfiles
<1>14. ASSUME NEW q \in Proc, Stop(q) PROVE TypeInv'
  BY <1>0, <1>14, <1>a DEF Stop
<1>15. CASE UNCHANGED vars
  BY <1>15 DEF vars, TypeInv, TypeOK, Shape
<1>. QED BY <1>3, <1>4, <1>5, <1>6, <1>7, <1>8, <1>9, <1>10, <1>11, <1>12, <1>13, <1>14, <1>15 DEF Next

(* The variables keep their types, whatever commands do together. *)
THEOREM TypeCorrect == Spec => []TypeOK
<1>1. TypeInv => TypeOK
  BY DEF TypeInv
<1>. QED BY <1>1, InitType, TypeStep, PTL DEF Spec

-----------------------------------------------------------------------------
LEMMA InitInv == Init => IInv
BY InitType DEF Init, IInv, ListsInv, Distinct, Unique, Pointed, Ready, Idle

(* Pointers are never taken back, so what other commands are ready to do   *)
(* they stay ready to do.                                                  *)
LEMMA OthersReady ==
    ASSUME IInv, NEW q \in Proc, NEW c, cmd' = [cmd EXCEPT ![q] = c],
           pointers \subseteq pointers', Ready(q)'
    PROVE  \A r \in Proc : Ready(r)'
<1>1. ASSUME NEW r \in Proc, r # q PROVE Ready(r)'
  <2>1. cmd'[r] = cmd[r] /\ Ready(r)
    BY <1>1 DEF IInv, TypeInv, TypeOK
  <2>. QED BY <2>1 DEF Ready, Pointed, Distinct, Unique, Stored, UniqueName
<1>. QED BY <1>1

(* A command that writes no list, and is not ready to write one, ...       *)
LEMMA Harmless ==
    ASSUME IInv, TypeInv', NEW q \in Proc, NEW c, cmd' = [cmd EXCEPT ![q] = c],
           c.pc \notin {"store", "point", "put"}, UNCHANGED <<mnemonics, profiles, pointers>>
    PROVE  IInv'
<1>1. cmd'[q] = c
  BY DEF IInv, TypeInv, TypeOK
<1>2. Ready(q)'
  BY <1>1 DEF Ready
<1>3. ListsInv'
  BY DEF IInv, ListsInv, Distinct, Unique, Pointed
<1>. QED BY <1>2, <1>3, OthersReady DEF IInv

(* ... as when it ends.                                                    *)
LEMMA Ended ==
    ASSUME IInv, TypeInv', NEW q \in Proc, Ends(q), UNCHANGED <<mnemonics, profiles, pointers>>
    PROVE  IInv'
<1>1. Idle.pc = "idle"
  BY DEF Idle
<1>. QED BY <1>1, Harmless DEF Ends

(* A list with one profile added, or put in the place of its namesake.     *)
LEMMA WithOne ==
    ASSUME NEW ps, NEW r, Unique(ps), UniqueName(r, ps)
    PROVE  Unique({p \in ps : KeyOf(p) # KeyOf(r)} \cup {r})
BY DEF Unique, UniqueName

LEMMA Selectable ==
    ASSUME NEW ps, ps \subseteq Profile, Unique(ps), NEW p \in ps
    PROVE  Find(ps, DisplayName(p)) = {p}
<1>1. ASSUME NEW r \in ps, DisplayName(r) = DisplayName(p) PROVE r = p
  BY <1>1 DEF Unique
<1>2. \A r \in ps : r.index \in Nat /\ r.index # None
  BY ProfileAssumption DEF Profile, Index
<1>3. CASE p.name = None
  <2>1. \A r \in ps : r.name # DisplayName(p)
    BY <1>1, <1>2, <1>3 DEF DisplayName
  <2>. QED BY <1>1, <2>1 DEF Find
<1>4. CASE p.name # None
  <2>1. DisplayName(p) = p.name
    BY <1>4 DEF DisplayName
  <2>2. \A r \in ps : r.name = DisplayName(p) => r = p
    BY <1>1, <1>4, <2>1 DEF DisplayName
  <2>. QED BY <2>1, <2>2 DEF Find
<1>. QED BY <1>3, <1>4

LEMMA StepInv == IInv /\ [Next]_vars => IInv'
<1> SUFFICES ASSUME IInv, [Next]_vars PROVE IInv'
  OBVIOUS
<1>t. TypeInv /\ TypeInv'
  BY TypeStep DEF IInv
<1>0. \A q \in Proc : cmd[q] \in Command
  BY <1>t DEF TypeInv, TypeOK
<1>b. ASSUME NEW q \in Proc, NEW c, Begins(q, c), c.pc \in {"check", "find", "reread"} PROVE IInv'
  BY <1>b, <1>t, Harmless DEF Begins
<1>1. ASSUME NEW q \in Proc, Import(q) \/ Add(q) \/ Rename(q) PROVE IInv'
  <2>1. CASE Import(q)
    <3>1. PICK f \in Phrase, i \in 0 .. MaxIndex + 1, n \in Name :
            Begins(q, [Idle EXCEPT !.pc = "check", !.kind = "import", !.phrase = f,
                                   !.mnemonic = Len(mnemonics), !.index = i, !.name = n])
      BY <2>1 DEF Import
    <3>. QED BY <3>1, <1>b DEF Idle
  <2>2. CASE Add(q)
    <3>1. PICK p \in profiles, i \in 0 .. MaxIndex + 1 \cup {None}, n \in Name :
            Begins(q, [Idle EXCEPT !.pc = "find", !.kind = "add",
                                   !.mnemonic = p.mnemonic, !.index = i, !.name = n])
      BY <2>2 DEF Add
    <3>. QED BY <3>1, <1>b DEF Idle
  <2>3. CASE Rename(q)
    <3>1. PICK p \in profiles, n \in Name :
            Begins(q, [Idle EXCEPT !.pc = "reread", !.kind = "rename",
                                   !.mnemonic = p.mnemonic, !.index = p.index, !.name = n])
      BY <2>3 DEF Rename
    <3>. QED BY <3>1, <1>b DEF Idle
  <2>. QED BY <1>1, <2>1, <2>2, <2>3
<1>2. ASSUME NEW q \in Proc, CheckCanCreate(q) PROVE IInv'
  <2>1. CASE Goto(q, "read")
    <3>1. [cmd[q] EXCEPT !.pc = "read"].pc = "read"
      BY <1>0 DEF Command
    <3>. QED BY <1>2, <1>t, <2>1, <3>1, GotoIsStep, Harmless DEF CheckCanCreate
  <2>. QED BY <1>2, <1>t, <2>1, Ended DEF CheckCanCreate
<1>3. ASSUME NEW q \in Proc, ReadKeyring(q) PROVE IInv'
  <2>1. CASE ~Stored(cmd[q].phrase, mnemonics)
    <3> DEFINE c == [cmd[q] EXCEPT !.pc = "store", !.keyring = mnemonics]
    <3>1. cmd' = [cmd EXCEPT ![q] = c] /\ UNCHANGED <<mnemonics, profiles, pointers>>
      BY <1>3, <2>1 DEF ReadKeyring
    <3>2. cmd'[q].pc = "store" /\ cmd'[q].keyring = mnemonics /\ cmd'[q].phrase = cmd[q].phrase
      BY <1>0, <1>t, <3>1 DEF TypeInv, TypeOK, Command
    <3>3. Ready(q)'
      BY <2>1, <3>2 DEF Ready, IInv, ListsInv, Distinct, Stored
    <3>4. ListsInv'
      BY <3>1 DEF IInv, ListsInv, Distinct, Unique, Pointed
    <3>. QED BY <1>t, <3>1, <3>3, <3>4, OthersReady DEF IInv
  <2>. QED BY <1>3, <1>t, <2>1, Ended DEF ReadKeyring
<1>4. ASSUME NEW q \in Proc, PutMnemonics(q) PROVE IInv'
  <2> DEFINE c == [cmd[q] EXCEPT !.pc = "list", !.mnemonic = Len(cmd[q].keyring), !.keyring = <<>>]
  <2>1. cmd' = [cmd EXCEPT ![q] = c] /\ UNCHANGED <<profiles, pointers>>
    BY <1>4 DEF PutMnemonics
  <2>2. cmd'[q].pc = "list"
    BY <1>0, <1>t, <2>1 DEF TypeInv, TypeOK, Command
  <2>3. Ready(q)'
    BY <2>2 DEF Ready
  <2>4. cmd[q].keyring \in Seq(Phrase) /\ cmd[q].phrase \in Phrase
    BY <1>0, <1>4, <1>t DEF TypeInv, Shape, PutMnemonics, Command
  <2>5. Distinct(cmd[q].keyring) /\ ~Stored(cmd[q].phrase, cmd[q].keyring)
    BY <1>4 DEF PutMnemonics, IInv, Ready
  <2>6. Distinct(mnemonics')
    BY <1>4, <2>4, <2>5 DEF PutMnemonics, Distinct, Stored
  <2>7. ListsInv'
    BY <2>1, <2>6 DEF IInv, ListsInv, Distinct, Unique, Pointed
  <2>. QED BY <1>t, <2>1, <2>3, <2>7, OthersReady DEF IInv
<1>5. ASSUME NEW q \in Proc, FindPhrase(q) PROVE IInv'
  <2>1. CASE cmd[q].mnemonic < Len(mnemonics)
    <3>1. [cmd[q] EXCEPT !.pc = "list", !.phrase = mnemonics[cmd[q].mnemonic + 1]].pc = "list"
      BY <1>0 DEF Command
    <3>. QED BY <1>5, <1>t, <2>1, <3>1, Harmless DEF FindPhrase
  <2>. QED BY <1>5, <1>t, <2>1, Ended DEF FindPhrase
<1>6. ASSUME NEW q \in Proc, ListProfiles(q) PROVE IInv'
  <2>0. UNCHANGED <<mnemonics, profiles, pointers>>
    BY <1>6 DEF ListProfiles
  <2> DEFINE r == [Record(cmd[q]) EXCEPT
                     !.index = IF @ = None THEN SmallestUnused(cmd[q].mnemonic, profiles) ELSE @]
  <2>1. CASE UniqueName(r, profiles)
             /\ cmd' = [cmd EXCEPT ![q] = [cmd[q] EXCEPT !.pc = "point", !.index = r.index, !.listed = profiles]]
    <3>1. cmd'[q] = [cmd[q] EXCEPT !.pc = "point", !.index = r.index, !.listed = profiles]
      BY <1>t, <2>1 DEF TypeInv, TypeOK
    <3>2. cmd'[q].pc = "point" /\ cmd'[q].listed = profiles /\ Record(cmd'[q]) = r
      BY <1>0, <3>1 DEF Command, Record
    <3>3. Ready(q)'
      BY <2>0, <2>1, <3>2 DEF Ready, IInv, ListsInv, Unique, Pointed, UniqueName, Record
    <3>4. ListsInv'
      BY <2>0 DEF IInv, ListsInv, Distinct, Unique, Pointed
    <3>. QED BY <1>t, <2>0, <2>1, <3>3, <3>4, OthersReady DEF IInv
  <2>2. CASE Goto(q, "stranded")
    <3>1. [cmd[q] EXCEPT !.pc = "stranded"].pc = "stranded"
      BY <1>0 DEF Command
    <3>. QED BY <1>t, <2>0, <2>2, <3>1, GotoIsStep, Harmless
  <2>. QED BY <1>6, <1>t, <2>0, <2>1, <2>2, Ended DEF ListProfiles
<1>7. ASSUME NEW q \in Proc, PutPointer(q) PROVE IInv'
  <2> DEFINE c == [cmd[q] EXCEPT !.pc = "put"]
  <2>1. /\ cmd' = [cmd EXCEPT ![q] = c] /\ UNCHANGED <<mnemonics, profiles>>
        /\ pointers' = pointers \cup {KeyOf(Record(cmd[q]))}
    BY <1>7, <1>t, GotoIsStep DEF PutPointer
  <2>2. cmd'[q].pc = "put" /\ cmd'[q].listed = cmd[q].listed /\ Record(cmd'[q]) = Record(cmd[q])
    BY <1>0, <1>t, <2>1 DEF TypeInv, TypeOK, Command, Record
  <2>3. Unique(cmd[q].listed) /\ Pointed(cmd[q].listed) /\ UniqueName(Record(cmd[q]), cmd[q].listed)
    BY <1>7 DEF PutPointer, IInv, Ready
  <2>4. Ready(q)'
    <3>1. Pointed(cmd[q].listed)'
      BY <2>1, <2>2, <2>3 DEF Pointed
    <3>. QED BY <2>1, <2>2, <2>3, <3>1 DEF Ready, Pointed, Unique, UniqueName
  <2>5. ListsInv'
    BY <2>1 DEF IInv, ListsInv, Distinct, Unique, Pointed
  <2>. QED BY <1>t, <2>1, <2>4, <2>5, OthersReady DEF IInv
<1>8. ASSUME NEW q \in Proc, SetName(q) PROVE IInv'
  <2>1. CASE /\ \E p \in profiles : KeyOf(p) = KeyOf(Record(cmd[q]))
             /\ UniqueName(Record(cmd[q]), profiles)
    <3> DEFINE c == [cmd[q] EXCEPT !.pc = "put", !.listed = profiles]
    <3>1. cmd' = [cmd EXCEPT ![q] = c] /\ UNCHANGED <<mnemonics, profiles, pointers>>
      BY <1>8, <2>1 DEF SetName
    <3>2. cmd'[q].pc = "put" /\ cmd'[q].listed = profiles /\ Record(cmd'[q]) = Record(cmd[q])
      BY <1>0, <1>t, <3>1 DEF TypeInv, TypeOK, Command, Record
    <3>3. Ready(q)'
      BY <2>1, <3>1, <3>2 DEF Ready, IInv, ListsInv, Unique, Pointed, UniqueName, Record
    <3>4. ListsInv'
      BY <3>1 DEF IInv, ListsInv, Distinct, Unique, Pointed
    <3>. QED BY <1>t, <3>1, <3>3, <3>4, OthersReady DEF IInv
  <2>. QED BY <1>8, <1>t, <2>1, Ended DEF SetName
<1>9. ASSUME NEW q \in Proc, PutProfiles(q) PROVE IInv'
  <2> DEFINE r == Record(cmd[q])
  <2>1. /\ Unique(cmd[q].listed) /\ Pointed(cmd[q].listed) /\ UniqueName(r, cmd[q].listed)
        /\ KeyOf(r) \in pointers
    BY <1>9 DEF PutProfiles, IInv, Ready
  <2>2. /\ profiles' = {p \in cmd[q].listed : KeyOf(p) # KeyOf(r)} \cup {r}
        /\ cmd' = [cmd EXCEPT ![q] = Idle] /\ UNCHANGED <<mnemonics, pointers>>
    BY <1>9 DEF PutProfiles, Ends
  <2>3. Unique(profiles')
    BY <2>1, <2>2, WithOne
  <2>4. Pointed(profiles)'
    BY <2>1, <2>2 DEF Pointed
  <2>5. ListsInv'
    BY <2>2, <2>3, <2>4 DEF IInv, ListsInv, Distinct, Unique
  <2>6. cmd'[q].pc = "idle"
    BY <1>t, <2>2 DEF TypeInv, TypeOK, Idle
  <2>7. Ready(q)'
    BY <2>6 DEF Ready
  <2>. QED BY <1>t, <2>2, <2>5, <2>7, OthersReady DEF IInv
<1>10. ASSUME NEW q \in Proc, Stop(q) PROVE IInv'
  BY <1>10, <1>t, Ended DEF Stop
<1>11. CASE UNCHANGED vars
  BY <1>t, <1>11 DEF vars, IInv, ListsInv, Distinct, Unique, Pointed, Ready, Stored, UniqueName
<1>. QED BY <1>1, <1>2, <1>3, <1>4, <1>5, <1>6, <1>7, <1>8, <1>9, <1>10, <1>11 DEF Next

(* However many commands run at once, the keyring and the profile index    *)
(* stay lists the wallet can work with.                                    *)
THEOREM ListsStayConsistent == Spec => []ListsConsistent
<1>1. IInv => ListsConsistent
  <2> SUFFICES ASSUME IInv PROVE ListsConsistent
    OBVIOUS
  <2>1. profiles \subseteq Profile /\ Distinct(mnemonics) /\ Unique(profiles) /\ Pointed(profiles)
    BY DEF IInv, TypeInv, TypeOK, ListsInv
  <2>2. \A p \in profiles : Find(profiles, DisplayName(p)) = {p}
    BY <2>1, Selectable
  <2>. QED BY <2>1, <2>2 DEF ListsConsistent, Distinct, Unique, Pointed
<1>. QED BY <1>1, InitInv, StepInv, PTL DEF Spec
-----------------------------------------------------------------------------
(* While commands run one at a time.                                       *)

(* What the only command knows of the stored lists.  An import's checks go *)
(* on to hold when it lists its profile, since the pair it checks is one   *)
(* of a phrase that was not there.                                         *)
Solo(q) ==
    LET c == cmd[q] IN
    /\ c.pc \in {"check", "read", "store"} =>
        c.kind = "import" /\ c.mnemonic = Len(mnemonics)
    /\ c.pc \in {"read", "store"} \/ (c.pc = "list" /\ c.kind = "import") =>
        /\ c.index \in Index
        /\ UniqueName(Record(c), profiles)
        /\ \A p \in profiles : KeyOf(p) # KeyOf(Record(c))
    /\ c.pc = "store" => c.keyring = mnemonics
    /\ c.pc \in {"list", "point", "put"} /\ c.kind # "rename" =>
        c.mnemonic < Len(mnemonics) /\ mnemonics[c.mnemonic + 1] = c.phrase
    /\ c.pc = "find" => c.kind = "add"
    /\ c.pc = "reread" => c.kind = "rename"
    /\ c.pc \in {"list", "point"} => c.kind # "rename"
    /\ c.pc \in {"point", "put"} => c.listed = profiles
    /\ c.pc = "put" => c.mnemonic < Len(mnemonics)
    /\ c.pc # "stranded"

PhrasesThere == \A p \in profiles : p.mnemonic < Len(mnemonics)

SoloInv ==
    ~overlapped =>
        /\ \A q, r \in Proc : cmd[q].pc # "idle" /\ cmd[r].pc # "idle" => q = r
        /\ PhrasesThere
        /\ \A q \in Proc : Solo(q)

LEMMA InitSolo == Init => SoloInv
BY DEF Init, SoloInv, PhrasesThere, Solo, Idle

(* A step of the only command; every other one is idle before and after.   *)
LEMMA SoloStep ==
    ASSUME TypeInv, TypeInv', SoloInv, overlapped' = overlapped, NEW q \in Proc, NEW c,
           cmd[q].pc # "idle", cmd' = [cmd EXCEPT ![q] = c],
           ~overlapped => PhrasesThere' /\ Solo(q)'
    PROVE  SoloInv'
<1>1. SUFFICES ASSUME ~overlapped
               PROVE  /\ \A x, r \in Proc : cmd'[x].pc # "idle" /\ cmd'[r].pc # "idle" => x = r
                      /\ PhrasesThere'
                      /\ \A r \in Proc : Solo(r)'
  BY DEF SoloInv
<1>2. \A r \in Proc \ {q} : cmd'[r] = cmd[r] /\ cmd[r].pc = "idle"
  BY <1>1 DEF SoloInv, TypeInv, TypeOK
<1>3. \A r \in Proc \ {q} : Solo(r)'
  BY <1>2 DEF Solo
<1>. QED BY <1>1, <1>2, <1>3

(* ... that writes no list, ...                                            *)
LEMMA SoloReads ==
    ASSUME TypeInv, TypeInv', SoloInv, NEW q \in Proc, NEW c,
           cmd[q].pc # "idle", cmd' = [cmd EXCEPT ![q] = c],
           ~overlapped => Solo(q)',
           UNCHANGED <<mnemonics, profiles, overlapped>>
    PROVE  SoloInv'
<1>1. ~overlapped => PhrasesThere'
  BY DEF SoloInv, PhrasesThere
<1>. QED BY <1>1, SoloStep

(* ... as when it ends.                                                    *)
LEMMA SoloEnds ==
    ASSUME TypeInv, TypeInv', SoloInv, NEW q \in Proc, cmd[q].pc # "idle", Ends(q),
           UNCHANGED <<mnemonics, profiles, overlapped>>
    PROVE  SoloInv'
<1>1. cmd'[q] = Idle /\ cmd' = [cmd EXCEPT ![q] = Idle]
  BY DEF Ends, TypeInv, TypeOK
<1>2. Solo(q)'
  BY <1>1 DEF Solo, Idle
<1>. QED BY <1>1, <1>2, SoloReads

LEMMA SoloBegins ==
    ASSUME TypeInv, TypeInv', SoloInv, NEW q \in Proc, NEW c, Begins(q, c),
           ~overlapped => Solo(q)'
    PROVE  SoloInv'
<1>1. SUFFICES ASSUME ~overlapped' PROVE SoloInv'
  BY DEF SoloInv
<1>2. ~overlapped /\ \A r \in Proc \ {q} : cmd[r].pc = "idle"
  BY <1>1 DEF Begins
<1>3. \A r \in Proc \ {q} : cmd'[r].pc = "idle"
  BY <1>2 DEF Begins, TypeInv, TypeOK
<1>4. PhrasesThere' /\ Solo(q)'
  BY <1>2 DEF Begins, SoloInv, PhrasesThere
<1>5. \A r \in Proc : Solo(r)'
  BY <1>3, <1>4 DEF Solo
<1>. QED BY <1>3, <1>4, <1>5 DEF SoloInv

LEMMA SoloNext == IInv /\ SoloInv /\ [Next]_vars => SoloInv'
<1> SUFFICES ASSUME IInv, SoloInv, [Next]_vars PROVE SoloInv'
  OBVIOUS
<1>t. TypeInv /\ TypeInv'
  BY TypeStep DEF IInv
<1>0. /\ \A q \in Proc : cmd[q] \in Command
      /\ mnemonics \in Seq(Phrase) /\ Len(mnemonics) \in Nat
      /\ profiles \in SUBSET Profile
  BY <1>t DEF TypeInv, TypeOK
<1>x. \A q \in Proc : \A c : cmd' = [cmd EXCEPT ![q] = c] => cmd'[q] = c
  BY <1>t DEF TypeInv, TypeOK
<1>s. ~overlapped => PhrasesThere /\ \A q \in Proc : Solo(q)
  BY DEF SoloInv
<1>1. ASSUME NEW q \in Proc, Import(q) PROVE SoloInv'
  <2>1. PICK f \in Phrase, i \in 0 .. MaxIndex + 1, n \in Name :
          Begins(q, [Idle EXCEPT !.pc = "check", !.kind = "import", !.phrase = f,
                                 !.mnemonic = Len(mnemonics), !.index = i, !.name = n])
    BY <1>1 DEF Import
  <2> DEFINE c == [Idle EXCEPT !.pc = "check", !.kind = "import", !.phrase = f,
                               !.mnemonic = Len(mnemonics), !.index = i, !.name = n]
  <2>2. c.pc = "check" /\ c.kind = "import" /\ c.mnemonic = Len(mnemonics)
    BY DEF Idle
  <2>3. cmd'[q] = c /\ mnemonics' = mnemonics
    BY <2>1, <1>x DEF Begins
  <2>4. Solo(q)'
    BY <2>2, <2>3 DEF Solo
  <2>. QED BY <1>t, <2>1, <2>4, SoloBegins
<1>2. ASSUME NEW q \in Proc, Add(q) PROVE SoloInv'
  <2>1. PICK p \in profiles, i \in 0 .. MaxIndex + 1 \cup {None}, n \in Name :
          Begins(q, [Idle EXCEPT !.pc = "find", !.kind = "add",
                                 !.mnemonic = p.mnemonic, !.index = i, !.name = n])
    BY <1>2 DEF Add
  <2> DEFINE c == [Idle EXCEPT !.pc = "find", !.kind = "add",
                               !.mnemonic = p.mnemonic, !.index = i, !.name = n]
  <2>2. cmd'[q] = c /\ c.pc = "find" /\ c.kind = "add"
    BY <2>1, <1>x DEF Begins, Idle
  <2>3. Solo(q)'
    BY <2>2 DEF Solo
  <2>. QED BY <1>t, <2>1, <2>3, SoloBegins
<1>3. ASSUME NEW q \in Proc, Rename(q) PROVE SoloInv'
  <2>1. PICK p \in profiles, n \in Name :
          Begins(q, [Idle EXCEPT !.pc = "reread", !.kind = "rename",
                                 !.mnemonic = p.mnemonic, !.index = p.index, !.name = n])
    BY <1>3 DEF Rename
  <2> DEFINE c == [Idle EXCEPT !.pc = "reread", !.kind = "rename",
                               !.mnemonic = p.mnemonic, !.index = p.index, !.name = n]
  <2>2. cmd'[q] = c /\ c.pc = "reread" /\ c.kind = "rename"
    BY <2>1, <1>x DEF Begins, Idle
  <2>3. Solo(q)'
    BY <2>2 DEF Solo
  <2>. QED BY <1>t, <2>1, <2>3, SoloBegins
<1>4. ASSUME NEW q \in Proc, CheckCanCreate(q) PROVE SoloInv'
  <2>1. CASE Goto(q, "read") /\ cmd[q].index \in Index /\ UniqueName(Record(cmd[q]), profiles)
    <3> DEFINE c == [cmd[q] EXCEPT !.pc = "read"]
    <3>1. cmd' = [cmd EXCEPT ![q] = c] /\ cmd'[q] = c
      BY <2>1, <1>t, <1>x, GotoIsStep
    <3>2. /\ c.pc = "read" /\ c.kind = cmd[q].kind /\ c.mnemonic = cmd[q].mnemonic
          /\ c.index = cmd[q].index /\ Record(c) = Record(cmd[q])
      BY <1>0 DEF Command, Record
    <3>3. ASSUME ~overlapped PROVE Solo(q)'
      <4>1. cmd[q].kind = "import" /\ cmd[q].mnemonic = Len(mnemonics)
        BY <1>4, <1>s, <3>3 DEF CheckCanCreate, Solo
      <4>2. \A p \in profiles : p.mnemonic # Record(cmd[q]).mnemonic
        BY <1>0, <1>s, <3>3, <4>1 DEF PhrasesThere, Record, Profile
      <4>3. UNCHANGED <<mnemonics, profiles>>
        BY <1>4 DEF CheckCanCreate
      <4>. QED BY <2>1, <3>1, <3>2, <4>1, <4>2, <4>3 DEF Solo, KeyOf, UniqueName
    <3>. QED BY <1>4, <1>t, <3>1, <3>3, SoloReads DEF CheckCanCreate
  <2>. QED BY <1>4, <1>t, <2>1, SoloEnds DEF CheckCanCreate
<1>5. ASSUME NEW q \in Proc, ReadKeyring(q) PROVE SoloInv'
  <2>1. CASE ~Stored(cmd[q].phrase, mnemonics)
    <3> DEFINE c == [cmd[q] EXCEPT !.pc = "store", !.keyring = mnemonics]
    <3>1. /\ cmd' = [cmd EXCEPT ![q] = c] /\ cmd'[q] = c
          /\ UNCHANGED <<mnemonics, profiles, overlapped>>
      BY <1>5, <2>1, <1>x DEF ReadKeyring
    <3>2. /\ c.pc = "store" /\ c.kind = cmd[q].kind /\ c.mnemonic = cmd[q].mnemonic
          /\ c.index = cmd[q].index /\ c.keyring = mnemonics /\ Record(c) = Record(cmd[q])
      BY <1>0 DEF Command, Record
    <3>3. ASSUME ~overlapped PROVE Solo(q)'
      BY <1>5, <1>s, <3>1, <3>2, <3>3 DEF ReadKeyring, Solo, KeyOf, UniqueName
    <3>. QED BY <1>5, <1>t, <3>1, <3>3, SoloReads DEF ReadKeyring
  <2>. QED BY <1>5, <1>t, <2>1, SoloEnds DEF ReadKeyring
<1>6. ASSUME NEW q \in Proc, PutMnemonics(q) PROVE SoloInv'
  <2> DEFINE c == [cmd[q] EXCEPT !.pc = "list", !.mnemonic = Len(cmd[q].keyring), !.keyring = <<>>]
  <2>1. /\ cmd' = [cmd EXCEPT ![q] = c] /\ cmd'[q] = c /\ UNCHANGED <<profiles, overlapped>>
        /\ cmd[q].pc = "store" /\ mnemonics' = Append(cmd[q].keyring, cmd[q].phrase)
    BY <1>6, <1>x DEF PutMnemonics
  <2>2. /\ c.pc = "list" /\ c.kind = cmd[q].kind /\ c.mnemonic = Len(cmd[q].keyring)
        /\ c.index = cmd[q].index /\ c.phrase = cmd[q].phrase /\ c.name = cmd[q].name
    BY <1>0 DEF Command
  <2>3. ASSUME ~overlapped PROVE PhrasesThere' /\ Solo(q)'
    <3>1. /\ cmd[q].kind = "import" /\ cmd[q].mnemonic = Len(mnemonics)
          /\ cmd[q].keyring = mnemonics /\ cmd[q].index \in Index
          /\ UniqueName(Record(cmd[q]), profiles)
          /\ \A p \in profiles : KeyOf(p) # KeyOf(Record(cmd[q]))
      BY <1>s, <2>1, <2>3 DEF Solo
    <3>2. cmd[q].phrase \in Phrase
      BY <2>1, <1>t DEF TypeInv, Shape
    <3>3. /\ Len(mnemonics') = Len(mnemonics) + 1
          /\ mnemonics'[Len(mnemonics) + 1] = cmd[q].phrase
      BY <1>0, <2>1, <3>1, <3>2
    <3>4. Record(c) = Record(cmd[q])
      BY <2>2, <3>1 DEF Record
    <3>5. PhrasesThere'
      BY <1>0, <1>s, <2>1, <2>3, <3>3 DEF PhrasesThere, Profile
    <3>6. c.mnemonic < Len(mnemonics') /\ mnemonics'[c.mnemonic + 1] = c.phrase
      BY <1>0, <2>2, <3>1, <3>3
    <3>. QED BY <2>1, <2>2, <3>1, <3>4, <3>5, <3>6 DEF Solo, UniqueName
  <2>. QED BY <1>t, <2>1, <2>3, SoloStep
<1>7. ASSUME NEW q \in Proc, FindPhrase(q) PROVE SoloInv'
  <2>1. CASE cmd[q].mnemonic < Len(mnemonics)
    <3> DEFINE c == [cmd[q] EXCEPT !.pc = "list", !.phrase = mnemonics[cmd[q].mnemonic + 1]]
    <3>1. /\ cmd' = [cmd EXCEPT ![q] = c] /\ cmd'[q] = c /\ cmd[q].pc = "find"
          /\ UNCHANGED <<mnemonics, profiles, overlapped>>
      BY <1>7, <2>1, <1>x DEF FindPhrase
    <3>2. /\ c.pc = "list" /\ c.kind = cmd[q].kind /\ c.mnemonic = cmd[q].mnemonic
          /\ c.phrase = mnemonics[cmd[q].mnemonic + 1]
      BY <1>0 DEF Command
    <3>3. ASSUME ~overlapped PROVE Solo(q)'
      <4>1. cmd[q].kind \notin {"rename", "import"}
        BY <1>s, <3>1, <3>3 DEF Solo
      <4>. QED BY <2>1, <3>1, <3>2, <4>1 DEF Solo
    <3>. QED BY <1>t, <3>1, <3>3, SoloReads
  <2>. QED BY <1>7, <1>t, <2>1, SoloEnds DEF FindPhrase
<1>8. ASSUME NEW q \in Proc, ListProfiles(q) PROVE SoloInv'
  <2> DEFINE r == [Record(cmd[q]) EXCEPT
                     !.index = IF @ = None THEN SmallestUnused(cmd[q].mnemonic, profiles) ELSE @]
  <2>0. cmd[q].pc = "list" /\ UNCHANGED <<mnemonics, profiles, overlapped>>
    BY <1>8 DEF ListProfiles
  <2>1. CASE cmd' = [cmd EXCEPT ![q] = [cmd[q] EXCEPT !.pc = "point", !.index = r.index, !.listed = profiles]]
    <3> DEFINE c == [cmd[q] EXCEPT !.pc = "point", !.index = r.index, !.listed = profiles]
    <3>1. cmd'[q] = c
      BY <2>1, <1>x
    <3>2. /\ c.pc = "point" /\ c.kind = cmd[q].kind /\ c.mnemonic = cmd[q].mnemonic
          /\ c.phrase = cmd[q].phrase /\ c.listed = profiles
      BY <1>0 DEF Command
    <3>3. ASSUME ~overlapped PROVE Solo(q)'
      BY <1>s, <2>0, <3>1, <3>2, <3>3 DEF Solo
    <3>. QED BY <1>t, <2>0, <2>1, <3>3, SoloReads
  <2>2. CASE Ends(q)
    BY <1>t, <2>0, <2>2, SoloEnds
  <2>3. CASE /\ ~ (/\ \A p \in profiles : KeyOf(p) # KeyOf(r)
                   /\ r.index \in Index /\ UniqueName(r, profiles))
             /\ cmd[q].kind = "import" /\ Goto(q, "stranded")
    <3>1. ASSUME ~overlapped PROVE FALSE
      <4>1. /\ cmd[q].index \in Index /\ UniqueName(Record(cmd[q]), profiles)
            /\ \A p \in profiles : KeyOf(p) # KeyOf(Record(cmd[q]))
        BY <1>s, <2>0, <2>3, <3>1 DEF Solo
      <4>2. cmd[q].index # None
        BY <4>1, ProfileAssumption DEF Index
      <4>3. r = Record(cmd[q])
        BY <4>2 DEF Record
      <4>. QED BY <2>3, <4>1, <4>3 DEF Record
    <3>. QED BY <2>0, <3>1 DEF SoloInv
  <2>. QED BY <1>8, <2>1, <2>2, <2>3 DEF ListProfiles
<1>9. ASSUME NEW q \in Proc, PutPointer(q) PROVE SoloInv'
  <2> DEFINE c == [cmd[q] EXCEPT !.pc = "put"]
  <2>1. /\ cmd' = [cmd EXCEPT ![q] = c] /\ cmd'[q] = c /\ cmd[q].pc = "point"
        /\ UNCHANGED <<mnemonics, profiles, overlapped>>
    BY <1>9, <1>t, <1>x, GotoIsStep DEF PutPointer
  <2>2. /\ c.pc = "put" /\ c.kind = cmd[q].kind /\ c.mnemonic = cmd[q].mnemonic
        /\ c.phrase = cmd[q].phrase /\ c.listed = cmd[q].listed
    BY <1>0 DEF Command
  <2>3. ASSUME ~overlapped PROVE Solo(q)'
    BY <1>s, <2>1, <2>2, <2>3 DEF Solo
  <2>. QED BY <1>t, <2>1, <2>3, SoloReads
<1>10. ASSUME NEW q \in Proc, SetName(q) PROVE SoloInv'
  <2>1. CASE /\ \E p \in profiles : KeyOf(p) = KeyOf(Record(cmd[q]))
             /\ UniqueName(Record(cmd[q]), profiles)
    <3> DEFINE c == [cmd[q] EXCEPT !.pc = "put", !.listed = profiles]
    <3>1. /\ cmd' = [cmd EXCEPT ![q] = c] /\ cmd'[q] = c /\ cmd[q].pc = "reread"
          /\ UNCHANGED <<mnemonics, profiles, overlapped>>
      BY <1>10, <2>1, <1>x DEF SetName
    <3>2. /\ c.pc = "put" /\ c.kind = cmd[q].kind /\ c.mnemonic = cmd[q].mnemonic
          /\ c.listed = profiles
      BY <1>0 DEF Command
    <3>3. ASSUME ~overlapped PROVE Solo(q)'
      <4>1. cmd[q].mnemonic < Len(mnemonics)
        BY <1>s, <2>1, <3>3 DEF PhrasesThere, KeyOf, Record
      <4>. QED BY <1>s, <3>1, <3>2, <3>3, <4>1 DEF Solo
    <3>. QED BY <1>t, <3>1, <3>3, SoloReads
  <2>. QED BY <1>10, <1>t, <2>1, SoloEnds DEF SetName
<1>11. ASSUME NEW q \in Proc, PutProfiles(q) PROVE SoloInv'
  <2>1. /\ cmd' = [cmd EXCEPT ![q] = Idle] /\ cmd'[q] = Idle /\ cmd[q].pc = "put"
        /\ UNCHANGED <<mnemonics, overlapped>>
        /\ profiles' \subseteq cmd[q].listed \cup {Record(cmd[q])}
    BY <1>11, <1>x DEF PutProfiles, Ends
  <2>2. ASSUME ~overlapped PROVE PhrasesThere' /\ Solo(q)'
    <3>1. cmd[q].mnemonic < Len(mnemonics) /\ cmd[q].listed = profiles
      BY <1>s, <2>1, <2>2 DEF Solo
    <3>2. PhrasesThere'
      BY <1>s, <2>1, <2>2, <3>1 DEF PhrasesThere, Record
    <3>. QED BY <2>1, <3>2 DEF Solo, Idle
  <2>. QED BY <1>t, <2>1, <2>2, SoloStep
<1>12. ASSUME NEW q \in Proc, Stop(q) PROVE SoloInv'
  BY <1>12, <1>t, SoloEnds DEF Stop
<1>13. CASE UNCHANGED vars
  BY <1>13 DEF vars, SoloInv, PhrasesThere, Solo, UniqueName
<1>. QED BY <1>1, <1>2, <1>3, <1>4, <1>5, <1>6, <1>7, <1>8, <1>9, <1>10, <1>11, <1>12, <1>13 DEF Next

LEMMA SoloInvariant == Spec => [](IInv /\ SoloInv)
BY InitInv, StepInv, InitSolo, SoloNext, PTL DEF Spec

(* One command at a time creates its profile on the phrase it stored or    *)
(* found, and the index never refers to a phrase that is not there.        *)
THEOREM PhrasesStayAgreed == Spec => []PhrasesAgree
<1>1. SoloInv => PhrasesAgree
  BY DEF SoloInv, PhrasesThere, Solo, PhrasesAgree, Alone, ProfileOnPhrase
<1>. QED BY <1>1, SoloInvariant, PTL

(* What import checks before it stores its phrase is all that create goes  *)
(* on to check: no phrase is stranded without a profile.                   *)
THEOREM ChecksComeFirst == Spec => []CheckedFirst
<1>1. SoloInv => CheckedFirst
  BY DEF SoloInv, Solo, CheckedFirst, Alone
<1>. QED BY <1>1, SoloInvariant, PTL

(* A step of one command at a time writes back what it read, with its own  *)
(* change: it keeps every phrase at its index and every other profile.     *)
LEMMA StepKeepsOthers ==
    ASSUME IInv, SoloInv, ~overlapped, Next
    PROVE  KeepsOthers
<1>0. mnemonics \in Seq(Phrase) /\ \A q \in Proc : cmd[q] \in Command
  BY DEF IInv, TypeInv, TypeOK
<1>s. \A q \in Proc : Solo(q)
  BY DEF SoloInv
<1>1. ASSUME NEW q \in Proc, PutMnemonics(q) PROVE KeepsOthers
  <2>1. cmd[q].keyring = mnemonics /\ cmd[q].phrase \in Phrase
    BY <1>1, <1>s DEF PutMnemonics, Solo, IInv, TypeInv, Shape
  <2>2. mnemonics' = Append(mnemonics, cmd[q].phrase) /\ profiles' = profiles
    BY <1>1, <2>1 DEF PutMnemonics
  <2>. QED BY <1>0, <2>1, <2>2 DEF KeepsOthers
<1>2. ASSUME NEW q \in Proc, PutProfiles(q) PROVE KeepsOthers
  <2>1. cmd[q].listed = profiles
    BY <1>2, <1>s DEF PutProfiles, Solo
  <2>2. /\ profiles' = {p \in profiles : KeyOf(p) # KeyOf(Record(cmd[q]))} \cup {Record(cmd[q])}
        /\ mnemonics' = mnemonics
    BY <1>2, <2>1 DEF PutProfiles
  <2>. QED BY <1>0, <2>2 DEF KeepsOthers
<1>3. ASSUME UNCHANGED <<mnemonics, profiles>> PROVE KeepsOthers
  BY <1>0, <1>3 DEF KeepsOthers
<1>4. ASSUME NEW q \in Proc,
             \/ Import(q) \/ CheckCanCreate(q) \/ ReadKeyring(q) \/ Add(q) \/ FindPhrase(q)
             \/ ListProfiles(q) \/ PutPointer(q) \/ Rename(q) \/ SetName(q) \/ Stop(q)
      PROVE  UNCHANGED <<mnemonics, profiles>>
  BY <1>4 DEF Import, CheckCanCreate, ReadKeyring, Add, FindPhrase, ListProfiles,
     PutPointer, Rename, SetName, Stop, Begins
<1>. QED BY <1>1, <1>2, <1>3, <1>4 DEF Next

(* While commands run one at a time, killed at any step, no phrase leaves  *)
(* its index and no profile a command is not about is lost or changed.     *)
THEOREM NothingIsLost == Spec => NothingLost
<1>1. IInv /\ SoloInv /\ [Next]_vars => [Alone(KeepsOthers)]_vars
  BY StepKeepsOthers DEF Alone
<1>. QED BY <1>1, SoloInvariant, PTL DEF Spec, NothingLost
=============================================================================
