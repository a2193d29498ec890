--------------------------- MODULE FreshAccounts ---------------------------
(***************************************************************************)
(* The standard addresses of one profile: instance/address.rs,             *)
(* instance/vaults.rs and mnemonic/scan.rs, as `next-fresh-address`,       *)
(* `unshield`, `transfer --from tornado`, `profile import` and             *)
(* `profile rescan` use them.                                              *)
(*                                                                         *)
(* A withdrawal from the pool lands on a fresh address.  Two of them on    *)
(* one address link each other, so the profile counts the addresses it     *)
(* has handed out, apart from the address vaults it lists.  Address n is   *)
(* written n.  A command may fail or be stopped at any step.               *)
(***************************************************************************)
EXTENDS Integers, FiniteSetsExt

CONSTANTS
    Proc,       \* the commands that may run at once
    MaxIndex,   \* MAX_INDEX, 1000
    Batch,      \* BATCH_SIZE, 10
    MaxCommands \* bound: the commands run altogether

ASSUME AccountsAssumption ==
    /\ MaxIndex \in Nat \ {0} /\ Batch \in Nat \ {0} /\ MaxCommands \in Nat
    /\ MaxIndex % Batch = 0

VARIABLES
    active,      \* the addresses with a nonce, code or a balance on chain
    nextAddress, \* the first index that is not recorded as handed out
    vaults,      \* how many address vaults the profile lists for each index
    given,       \* history: how many uses an index was handed out to
    submitted,   \* history: the indices an operation was submitted from
    cut,         \* history: indices whose command stopped between submitting and storing
    unstored,    \* history: indices of which the command said they were not stored
    cmd,         \* the command each process runs
    begun        \* how many commands have been run

vars == <<active, nextAddress, vaults, given, submitted, cut, unstored, cmd, begun>>

Index == 0 .. MaxIndex - 1
BatchOf(i) == {j \in Index : j \div Batch = i \div Batch}
Spending == {"unshield", "transfer"}
Kinds == Spending \cup {"peek", "fresh", "rescan", "import", "new"}
NoVaults == [i \in Index |-> 0]
Listed == {i \in Index : vaults[i] > 0}

Command == [pc : {"idle", "look", "readNext", "putNext", "submit", "scan", "filter", "readVaults",
                  "putVaults", "done"},
            kind : Kinds,
            index : 0 .. MaxIndex,  \* the address it looks at, or has taken
            current : 0 .. MaxIndex,\* what it read of nextAddress
            found : SUBSET Index,   \* the used addresses its scan has met
            todo : SUBSET Index,    \* the addresses it is to add, in order
            records : [Index -> Nat],\* what it read of vaults
            warned : BOOLEAN,       \* whether keep_fresh failed
            seen : SUBSET Index]    \* history: active when it began
New(kind) ==
    [pc |-> "idle", kind |-> kind, index |-> 0, current |-> 0, found |-> {}, todo |-> {},
     records |-> NoVaults, warned |-> FALSE, seen |-> active]

\* The types of the variables.
TypeOK ==
    /\ active \in SUBSET Index
    /\ nextAddress \in 0 .. MaxIndex
    /\ vaults \in [Index -> Nat]
    /\ given \in [Index -> Nat]
    /\ submitted \in SUBSET Index
    /\ cut \in SUBSET Index
    /\ unstored \in SUBSET Index
    /\ cmd \in [Proc -> Command]
    /\ begun \in 0 .. MaxCommands

Init ==
    /\ active \in SUBSET Index
    /\ nextAddress = 0
    /\ vaults = NoVaults
    /\ given = [i \in Index |-> 0]
    /\ submitted = {} /\ cut = {} /\ unstored = {}
    /\ cmd = [p \in Proc |-> New("peek")]
    /\ begun = 0

Profile == <<nextAddress, vaults>>
History == <<given, submitted, cut, unstored>>
At(p, pc) == cmd[p].pc = pc
Become(p, c) == cmd' = [cmd EXCEPT ![p] = c]
Goto(p, pc) == Become(p, [cmd[p] EXCEPT !.pc = pc])

(* What follows a handed out address: a transfer stores it and submits, an *)
(* unshield submits and stores it.                                         *)
AfterLook(kind) ==
    CASE kind = "peek" -> "done"
      [] kind \in {"fresh", "transfer"} -> "readNext"
      [] kind = "unshield" -> "submit"
AfterKeep(kind) == IF kind = "transfer" THEN "submit" ELSE "done"
AfterCommitUnlisted(kind) == IF kind = "fresh" THEN "done" ELSE AfterKeep(kind)
AfterCommit(kind) == IF kind = "fresh" THEN "done" ELSE "filter"
AfterSubmit(kind) == IF kind = "unshield" THEN "readNext" ELSE "done"

(* A new phrase has never been used and is not scanned; an imported one, or *)
(* one of another profile, is.                                             *)
Entry(kind) ==
    CASE kind \in {"import", "rescan"} -> [New(kind) EXCEPT !.pc = "scan"]
      [] kind = "new" -> [New(kind) EXCEPT !.pc = "readVaults", !.todo = {0}]
      [] OTHER -> [New(kind) EXCEPT !.pc = "look", !.index = nextAddress]

(* A peek stands for every command that takes an address and stores none:  *)
(* a quote, a dry run, a declined confirmation.  The first command of a    *)
(* profile adds its address vaults, unless it stopped.                     *)
Begin(p) ==
    /\ cmd[p].pc \in {"idle", "done"} /\ begun < MaxCommands
    /\ begun' = begun + 1
    /\ \E kind \in Kinds :
         /\ kind \in {"import", "new"} => begun = 0
         /\ Become(p, Entry(kind))
    /\ UNCHANGED <<active, Profile, History>>

(* The loop of fresh_address; an index past the last one is an error.      *)
Look(p) ==
    /\ At(p, "look") /\ cmd[p].index < MaxIndex
    /\ Become(p, IF cmd[p].index \in active
                 THEN [cmd[p] EXCEPT !.index = @ + 1]
                 ELSE [cmd[p] EXCEPT !.pc = AfterLook(cmd[p].kind)])
    /\ UNCHANGED <<active, Profile, History, begun>>

(* commit_fresh_address.  An address that `next-fresh-address` prints is   *)
(* handed out once it is stored.                                           *)
ReadNext(p) ==
    /\ At(p, "readNext")
    /\ Become(p, [cmd[p] EXCEPT !.pc = "putNext", !.current = nextAddress])
    /\ UNCHANGED <<active, Profile, History, begun>>

CommittedIndex(index) == index
Committed(index) == index + 1
PutNext(p) == LET c == cmd[p] IN
    /\ At(p, "putNext")
    /\ nextAddress' = IF Committed(c.index) > c.current THEN Committed(c.index) ELSE nextAddress
    /\ given' = IF c.kind = "fresh" THEN [given EXCEPT ![c.index] = @ + 1] ELSE given
    /\ Goto(p, AfterCommit(c.kind))
    /\ UNCHANGED <<active, vaults, submitted, cut, unstored, begun>>

(* One user operation from the fresh address.                              *)
Submit(p) == LET i == cmd[p].index IN
    /\ At(p, "submit")
    /\ given' = [given EXCEPT ![i] = @ + 1]
    /\ submitted' = submitted \cup {i}
    /\ Goto(p, AfterSubmit(cmd[p].kind))
    /\ UNCHANGED <<active, Profile, cut, unstored, begun>>

(* scan_with.  The addresses it returns run from the first one through the *)
(* last used one, the unused ones between them included; where it met no   *)
(* used one, or an import could not scan, address 0 is added.              *)
AddressesBeforeLast(found) == IF found = {} THEN {0} ELSE 0 .. Max(found) - 1
AddressesToAdd(found) == IF found = {} THEN {0} ELSE 0 .. Max(found)
Scanned(p, found) ==
    [cmd[p] EXCEPT !.found = found, !.todo = AddressesToAdd(found),
                   !.pc = IF cmd[p].kind = "rescan" THEN "filter" ELSE "readVaults"]
ScanStep(p) == LET c == cmd[p]  found == c.found \cup ({c.index} \cap active) IN
    /\ At(p, "scan") /\ c.index < MaxIndex
    /\ Become(p, IF (c.index + 1) % Batch = 0 /\ found \cap BatchOf(c.index) = {}
                 THEN Scanned(p, found)
                 ELSE [c EXCEPT !.index = @ + 1, !.found = found])
    /\ UNCHANGED <<active, Profile, History, begun>>
ScanFails(p) ==
    /\ At(p, "scan") /\ cmd[p].kind = "import"
    /\ Become(p, Scanned(p, {}))
    /\ UNCHANGED <<active, Profile, History, begun>>

(* add_address_vaults: an address that has a vault is filtered out, except *)
(* by an import, and each of the others is appended to the list as it is   *)
(* then.  The address of a vault is stored in the vault's own scope before *)
(* the vault is listed.                                                    *)
Everything(todo) == todo
NotYetStored(todo) == todo \ Listed
NotYetStoredBy(p) == IF cmd[p].kind \in Spending THEN {cmd[p].index} ELSE cmd[p].todo
Filter(p) ==
    /\ At(p, "filter")
    /\ Become(p, [cmd[p] EXCEPT !.pc = "readVaults", !.todo = NotYetStored(NotYetStoredBy(p))])
    /\ UNCHANGED <<active, Profile, History, begun>>

ReadVaults(p) ==
    /\ At(p, "readVaults")
    /\ IF cmd[p].todo = {} THEN Goto(p, AfterKeep(cmd[p].kind))
       ELSE Become(p, [cmd[p] EXCEPT !.pc = "putVaults", !.records = vaults])
    /\ UNCHANGED <<active, Profile, History, begun>>
PutVaults(p) == LET i == Min(cmd[p].todo) IN
    /\ At(p, "putVaults")
    /\ vaults' = [cmd[p].records EXCEPT ![i] = @ + 1]
    /\ Become(p, [cmd[p] EXCEPT !.pc = "readVaults", !.todo = @ \ {i}])
    /\ UNCHANGED <<active, nextAddress, History, begun>>

(* keep_fresh warns of an error and goes on.                               *)
Keeps(p) == cmd[p].kind \in Spending
            /\ cmd[p].pc \in {"readNext", "putNext", "filter", "readVaults", "putVaults"}
KeepFails(p) == LET c == cmd[p] IN
    /\ Keeps(p)
    /\ unstored' = unstored \cup (IF c.pc \in {"readNext", "putNext"} THEN {c.index} ELSE {})
    /\ Become(p, [c EXCEPT !.pc = AfterKeep(c.kind), !.warned = TRUE])
    /\ UNCHANGED <<active, Profile, given, submitted, cut, begun>>

(* Anything else that fails ends the command, as its process may.          *)
Stop(p) == LET c == cmd[p] IN
    /\ c.pc \notin {"idle", "done"}
    /\ cut' = cut \cup (IF c.kind = "unshield" /\ c.pc \in {"readNext", "putNext"}
                        THEN {c.index} ELSE {})
    /\ Goto(p, "idle")
    /\ UNCHANGED <<active, Profile, given, submitted, unstored, begun>>

(* An operation lands, or anyone sends to an address.                      *)
Activity(i) ==
    /\ active' = active \cup {i}
    /\ UNCHANGED <<Profile, History, cmd, begun>>

Next ==
    \/ \E p \in Proc :
         \/ Begin(p) \/ Look(p) \/ ReadNext(p) \/ PutNext(p) \/ Submit(p)
         \/ ScanStep(p) \/ ScanFails(p) \/ Filter(p) \/ ReadVaults(p) \/ PutVaults(p)
         \/ KeepFails(p) \/ Stop(p)
    \/ \E i \in Index : Activity(i)

Spec == Init /\ [][Next]_vars

(***************************************************************************)
(* What the addresses promise, while one command runs at a time.           *)
(***************************************************************************)

\* No address is handed out to two uses: neither printed twice, nor printed
\* and withdrawn to, nor the target of two withdrawals, which would link them
\* (address.rs, fresh_address).  Excepted are an unshield that stopped after
\* it had submitted, and an address of which the command said that it was not
\* stored.
NotReused == \A i \in Index : given[i] > 1 => i \in cut \cup unstored

\* No standard address has two address vaults: its funds would be counted
\* twice (vaults.rs, not_yet_stored).
OneVaultEach == \A i \in Index : vaults[i] <= 1

\* A rescan that ends lists every address that was in use when it began and
\* that no unused batch comes before (scan.rs, scan_with).
RescanComplete ==
    \A p \in Proc : cmd[p].kind = "rescan" /\ At(p, "done") =>
        \A i \in cmd[p].seen :
            (\A j \in 0 .. i : cmd[p].seen \cap BatchOf(j) # {}) => i \in Listed

\* A spending command that ends without a warning has recorded its address as
\* handed out and listed it (spend.rs, keep_fresh).
SpentIsKept ==
    \A p \in Proc : cmd[p].kind \in Spending /\ At(p, "done") /\ ~cmd[p].warned =>
        cmd[p].index < nextAddress /\ cmd[p].index \in Listed

\* docs/cli.md:90 says that `unshield` and `transfer --from tornado` store the
\* fresh address before submission.
StoredBeforeSubmission == \A i \in submitted : i < nextAddress \/ i \in unstored
=============================================================================
