---------------------------- MODULE ProfileStore ----------------------------
(***************************************************************************)
(* The keyring and the profile index: keyring.rs, profile/index.rs,        *)
(* profile/db.rs and instance/profiles.rs, as the commands `profile new`,  *)
(* `profile import` and `profile rename` use them.                         *)
(*                                                                         *)
(* Each list is one record, read whole and written whole, and no command   *)
(* takes a lock: what a command writes is what it read some steps ago,     *)
(* with its own change.  A command may fail or be killed at any step.      *)
(***************************************************************************)
EXTENDS Naturals, Sequences, FiniteSets

CONSTANTS
    Proc,       \* the commands that may run at once
    Phrase,     \* recovery phrases, as add_mnemonic normalises them
    Label,      \* profile names, other than the standard ones
    MaxIndex,   \* the largest profile index, 2^31 - 1 in the code
    MaxCommands,\* bound: the commands run altogether
    None        \* no name, no index, no phrase

ASSUME ProfileAssumption ==
    /\ MaxIndex \in Nat /\ MaxCommands \in Nat
    /\ None \notin Label \cup Phrase \cup Nat
    /\ Label \cap Nat = {}

VARIABLES
    mnemonics,  \* the keyring: the record of index i is element i + 1
    profiles,   \* the profile index, whose order means nothing
    pointers,   \* the profiles whose own scope holds a pointer
    cmd,        \* the command each process runs
    begun,      \* how many commands have been run
    overlapped  \* history: whether two of them ran at once

vars == <<mnemonics, profiles, pointers, cmd, begun, overlapped>>

(* An index in 0 .. MaxIndex as a name stands for what display_name makes  *)
(* of it, "default" or "profile #1".  A name that reads as a pair of       *)
(* indices is left out: find takes it for the pair.                        *)
Index == 0 .. MaxIndex
Name == Label \cup Index \cup {None}
Key == Nat \X Nat
Profile == [mnemonic : Nat, index : Index, name : Name]
KeyOf(p) == <<p.mnemonic, p.index>>
DisplayName(p) == IF p.name = None THEN p.index ELSE p.name

Command == [pc : {"idle", "check", "read", "store", "find", "list", "point", "reread", "put", "stranded"},
            kind : {"none", "import", "add", "rename"},
            phrase : Phrase \cup {None},
            mnemonic : Nat,
            index : Nat \cup {None},
            name : Name,
            keyring : Seq(Phrase),          \* what it read of mnemonics
            listed : SUBSET Profile]        \* what it read of profiles
Idle == [pc |-> "idle", kind |-> "none", phrase |-> None, mnemonic |-> 0, index |-> None,
         name |-> None, keyring |-> <<>>, listed |-> {}]

TypeOK ==
    /\ mnemonics \in Seq(Phrase)
    /\ profiles \in SUBSET Profile
    /\ pointers \in SUBSET Key
    /\ cmd \in [Proc -> Command]
    /\ begun \in 0 .. MaxCommands
    /\ overlapped \in BOOLEAN

Init ==
    /\ mnemonics = <<>>
    /\ profiles = {}
    /\ pointers = {}
    /\ cmd = [q \in Proc |-> Idle]
    /\ begun = 0
    /\ overlapped = FALSE

-----------------------------------------------------------------------------
Stored(f, ms) == \E i \in 1 .. Len(ms) : ms[i] = f
Record(c) == [mnemonic |-> c.mnemonic, index |-> c.index, name |-> c.name]

(* Mutant: names are compared as they were given. *)
UniqueGivenName(p, ps) ==
    \A r \in ps : KeyOf(r) # KeyOf(p) => r.name = None \/ r.name # p.name

UniqueName(p, ps) ==
    \A r \in ps : KeyOf(r) # KeyOf(p) => DisplayName(r) # DisplayName(p)

SmallestUnused(m, ps) ==
    CHOOSE i \in 0 .. MaxIndex + 1 :
        /\ \A r \in ps : KeyOf(r) # <<m, i>>
        /\ \A j \in 0 .. i - 1 : \E r \in ps : KeyOf(r) = <<m, j>>

(* The profiles a name selects: by their names first, then as displayed.   *)
(* A command that finds more than one, or none, is refused.                *)
Find(ps, name) ==
    LET named == {p \in ps : p.name = name}
        displayed == {p \in ps : DisplayName(p) = name}
    IN  IF named # {} THEN named ELSE displayed

Goto(q, pc) == cmd' = [cmd EXCEPT ![q].pc = pc]
Ends(q) == cmd' = [cmd EXCEPT ![q] = Idle]

Begins(q, c) ==
    /\ cmd[q].pc = "idle" /\ begun < MaxCommands
    /\ begun' = begun + 1
    /\ cmd' = [cmd EXCEPT ![q] = c]
    /\ overlapped' = (overlapped \/ \E r \in Proc \ {q} : cmd[r].pc # "idle")
    /\ UNCHANGED <<mnemonics, profiles, pointers>>

-----------------------------------------------------------------------------
(* import_profile, also of a phrase generate_profile has made. *)
Import(q) == \E f \in Phrase, i \in 0 .. MaxIndex + 1, n \in Name :
    Begins(q, [Idle EXCEPT !.pc = "check", !.kind = "import", !.phrase = f,
                           !.mnemonic = Len(mnemonics), !.index = i, !.name = n])

(* Mutant: only the index is checked ahead. *)
CheckIndexOnly(q) ==
    /\ cmd[q].pc = "check"
    /\ IF cmd[q].index \in Index THEN Goto(q, "read") ELSE Ends(q)
    /\ UNCHANGED <<mnemonics, profiles, pointers, begun, overlapped>>

CheckCanCreate(q) ==
    /\ cmd[q].pc = "check"
    /\ IF cmd[q].index \in Index /\ UniqueName(Record(cmd[q]), profiles)
       THEN Goto(q, "read")
       ELSE Ends(q)
    /\ UNCHANGED <<mnemonics, profiles, pointers, begun, overlapped>>

ReadKeyring(q) ==
    /\ cmd[q].pc = "read"
    /\ IF Stored(cmd[q].phrase, mnemonics)
       THEN Ends(q)
       ELSE cmd' = [cmd EXCEPT ![q] = [@ EXCEPT !.pc = "store", !.keyring = mnemonics]]
    /\ UNCHANGED <<mnemonics, profiles, pointers, begun, overlapped>>

(* Mutant: indices count from 1. *)
StoreFromOne(q) ==
    LET c == cmd[q] IN
    /\ c.pc = "store"
    /\ mnemonics' = Append(c.keyring, c.phrase)
    /\ cmd' = [cmd EXCEPT ![q] = [@ EXCEPT !.pc = "list", !.mnemonic = Len(c.keyring) + 1, !.keyring = <<>>]]
    /\ UNCHANGED <<profiles, pointers, begun, overlapped>>

(* Mutant: the new phrase goes in front. *)
StoreFirst(q) ==
    LET c == cmd[q] IN
    /\ c.pc = "store"
    /\ mnemonics' = <<c.phrase>> \o c.keyring
    /\ cmd' = [cmd EXCEPT ![q] = [@ EXCEPT !.pc = "list", !.mnemonic = 0, !.keyring = <<>>]]
    /\ UNCHANGED <<profiles, pointers, begun, overlapped>>

PutMnemonics(q) ==
    LET c == cmd[q] IN
    /\ c.pc = "store"
    /\ mnemonics' = Append(c.keyring, c.phrase)
    /\ cmd' = [cmd EXCEPT ![q] = [@ EXCEPT !.pc = "list", !.mnemonic = Len(c.keyring), !.keyring = <<>>]]
    /\ UNCHANGED <<profiles, pointers, begun, overlapped>>

(* add_profile, on the phrase of a listed profile. *)
Add(q) == \E p \in profiles, i \in 0 .. MaxIndex + 1 \cup {None}, n \in Name :
    Begins(q, [Idle EXCEPT !.pc = "find", !.kind = "add",
                           !.mnemonic = p.mnemonic, !.index = i, !.name = n])

FindPhrase(q) ==
    LET c == cmd[q] IN
    /\ c.pc = "find"
    /\ IF c.mnemonic < Len(mnemonics)
       THEN cmd' = [cmd EXCEPT ![q] = [@ EXCEPT !.pc = "list", !.phrase = mnemonics[c.mnemonic + 1]]]
       ELSE Ends(q)
    /\ UNCHANGED <<mnemonics, profiles, pointers, begun, overlapped>>

(* create: an import it refuses leaves its phrase behind. *)
ListProfiles(q) ==
    LET c == cmd[q]
        r == [Record(c) EXCEPT !.index = IF @ = None THEN SmallestUnused(c.mnemonic, profiles) ELSE @]
    IN
    /\ c.pc = "list"
    /\ IF /\ \A p \in profiles : KeyOf(p) # KeyOf(r)
          /\ r.index \in Index
          /\ UniqueName(r, profiles)
       THEN cmd' = [cmd EXCEPT ![q] = [@ EXCEPT !.pc = "point", !.index = r.index, !.listed = profiles]]
       ELSE IF c.kind = "import" THEN Goto(q, "stranded") ELSE Ends(q)
    /\ UNCHANGED <<mnemonics, profiles, pointers, begun, overlapped>>

PutPointer(q) ==
    /\ cmd[q].pc = "point"
    /\ pointers' = pointers \cup {KeyOf(Record(cmd[q]))}
    /\ Goto(q, "put")
    /\ UNCHANGED <<mnemonics, profiles, begun, overlapped>>

(* rename, by any selector that names a profile. *)
Rename(q) == \E p \in profiles, n \in Name :
    Begins(q, [Idle EXCEPT !.pc = "reread", !.kind = "rename",
                           !.mnemonic = p.mnemonic, !.index = p.index, !.name = n])

SetName(q) ==
    LET c == cmd[q] IN
    /\ c.pc = "reread"
    /\ IF /\ \E p \in profiles : KeyOf(p) = KeyOf(Record(c))
          /\ UniqueName(Record(c), profiles)
       THEN cmd' = [cmd EXCEPT ![q] = [@ EXCEPT !.pc = "put", !.listed = profiles]]
       ELSE Ends(q)
    /\ UNCHANGED <<mnemonics, profiles, pointers, begun, overlapped>>

PutProfiles(q) ==
    LET r == Record(cmd[q]) IN
    /\ cmd[q].pc = "put"
    /\ profiles' = {p \in cmd[q].listed : KeyOf(p) # KeyOf(r)} \cup {r}
    /\ Ends(q)
    /\ UNCHANGED <<mnemonics, pointers, begun, overlapped>>

(* A refused command returns; any other one may fail, or be killed. *)
Stop(q) ==
    /\ cmd[q].pc # "idle"
    /\ Ends(q)
    /\ UNCHANGED <<mnemonics, profiles, pointers, begun, overlapped>>

Next == \E q \in Proc :
    \/ Import(q) \/ CheckCanCreate(q) \/ ReadKeyring(q) \/ PutMnemonics(q)
    \/ Add(q) \/ FindPhrase(q)
    \/ ListProfiles(q) \/ PutPointer(q)
    \/ Rename(q) \/ SetName(q) \/ PutProfiles(q)
    \/ Stop(q)

Spec == Init /\ [][Next]_vars

-----------------------------------------------------------------------------
(* However commands overlap, the stored lists stay lists the wallet can    *)
(* work with: no phrase is stored twice (keyring.rs:48), no two profiles   *)
(* share a pair (index.rs:102), each has its pointer (index.rs:115), and   *)
(* the name a profile is shown by selects it and no other (index.rs:44).   *)
ListsConsistent ==
    /\ \A i, j \in 1 .. Len(mnemonics) : mnemonics[i] = mnemonics[j] => i = j
    /\ \A p \in profiles :
        /\ KeyOf(p) \in pointers
        /\ \A r \in profiles : KeyOf(p) = KeyOf(r) => p = r
        /\ Find(profiles, DisplayName(p)) = {p}

(* profiles.rs:134 "Stores `phrase` and creates exactly one profile on     *)
(* it": no other phrase takes its index before the profile is listed.      *)
ProfileOnPhrase ==
    \A q \in Proc : cmd[q].pc \in {"list", "point", "put"} /\ cmd[q].kind # "rename" =>
        /\ cmd[q].mnemonic < Len(mnemonics)
        /\ mnemonics[cmd[q].mnemonic + 1] = cmd[q].phrase

Alone(P) == ~overlapped => P

(* While commands run one at a time, killed at any step: a profile is      *)
(* created on the phrase its command stored or found, and the profile      *)
(* index never refers to a phrase that is not there.                       *)
PhrasesAgree == Alone(ProfileOnPhrase /\ \A p \in profiles : p.mnemonic < Len(mnemonics))

(* While commands run one at a time, no step takes a phrase from its       *)
(* index, drops a profile, or changes one the command is not about.        *)
KeepsOthers ==
    /\ \A i \in 1 .. Len(mnemonics) : i <= Len(mnemonics') /\ mnemonics'[i] = mnemonics[i]
    /\ \A p \in profiles : \/ p \in profiles'
                           \/ \E q \in Proc, r \in profiles' :
                                KeyOf(Record(cmd[q])) = KeyOf(p) /\ KeyOf(r) = KeyOf(p)
NothingLost == [][Alone(KeepsOthers)]_vars

(* profiles.rs:136 "a profile that cannot be created stores no phrase":    *)
(* while commands run one at a time, what import checks before it stores   *)
(* the phrase is all that create goes on to check.                         *)
CheckedFirst == Alone(\A q \in Proc : cmd[q].pc # "stranded")
=============================================================================
