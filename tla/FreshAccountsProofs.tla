------------------------ MODULE FreshAccountsProofs ------------------------
(***************************************************************************)
(* What holds of a profile's standard addresses for any number of them,    *)
(* any batch size and any number of commands: their types however the      *)
(* commands overlap, and the promises of FreshAccounts while one command   *)
(* runs at a time.                                                         *)
(***************************************************************************)
EXTENDS FreshAccounts, WellFoundedInduction, TLAPS

-----------------------------------------------------------------------------
(* Sets of natural numbers have least elements, bounded ones have greatest. *)
OrderOn(S) == OpToRel(<, S)

LEMMA OrderPairs == \A x, y \in Nat : <<x, y>> \in OrderOn(Nat) <=> x < y
BY Zenon DEF OrderOn, OpToRel

LEMMA OrderWellFounded == IsWellFoundedOn(OrderOn(Nat), Nat)
BY NatLessThanWellFounded, Zenon DEF OrderOn

LEMMA LeastElement ==
    ASSUME NEW S \in SUBSET Nat, S # {}
    PROVE  \E m \in S : \A n \in S : m <= n
<1>1. PICK m \in S : \A n \in S : <<n, m>> \notin OrderOn(Nat)
  BY OrderWellFounded, WFMin
<1>2. \A n \in S : ~ (n < m)
  BY <1>1, OrderPairs
<1>. QED BY <1>2

LEMMA GreatestElement ==
    ASSUME NEW k \in Nat, NEW S \in SUBSET (0 .. k), S # {}
    PROVE  \E m \in S : \A n \in S : n <= m
<1> DEFINE T == {k - n : n \in S}
<1>1. T \in SUBSET Nat /\ T # {}
  <2>1. \A n \in S : k - n \in Nat
    OBVIOUS
  <2>2. PICK n \in S : TRUE
    OBVIOUS
  <2>3. k - n \in T
    BY <2>2
  <2>. QED BY <2>1, <2>3, Zenon
<1>2. PICK d \in T : \A e \in T : d <= e
  <2> HIDE DEF T
  <2>. QED BY <1>1, LeastElement
<1>3. PICK m \in S : d = k - m
  OBVIOUS
<1>4. \A n \in S : k - m <= k - n
  BY <1>2, <1>3
<1>. QED BY <1>4

-----------------------------------------------------------------------------
(* The kinds of command that reach a step, and what they have by then.     *)
Formed(c) ==
    /\ c.pc = "look" => c.kind \in Spending \cup {"peek", "fresh"}
    /\ c.pc \in {"readNext", "putNext"} => c.kind \in Spending \cup {"fresh"} /\ c.index \in Index
    /\ c.pc = "submit" => c.kind \in Spending /\ c.index \in Index
    /\ c.pc = "scan" => c.kind \in {"import", "rescan"}
    /\ c.pc = "filter" => c.kind \in Spending \cup {"rescan"}
    /\ c.pc \in {"readVaults", "putVaults"} => c.kind \in Spending \cup {"rescan", "import", "new"}
    /\ c.pc \in {"filter", "readVaults", "putVaults"} /\ c.kind \in Spending => c.index \in Index
    /\ c.pc = "putVaults" => c.todo # {}

Shape == \A p \in Proc : Formed(cmd[p])

TypeInv == TypeOK /\ Shape

-----------------------------------------------------------------------------
(* Least and greatest addresses.                                           *)

LEMMA MaxIsGreatest ==
    ASSUME NEW S \in SUBSET Index, S # {}
    PROVE  Max(S) \in S /\ \A i \in S : i <= Max(S)
<1>1. MaxIndex - 1 \in Nat
  BY AccountsAssumption
<1>2. \E m \in S : \A i \in S : i <= m
  BY <1>1, GreatestElement DEF Index
<1>3. \E m \in S : \A i \in S : m >= i
  BY <1>2, AccountsAssumption DEF Index
<1>. QED BY <1>3, AccountsAssumption DEF Max, Index

LEMMA MinIsLeast ==
    ASSUME NEW S \in SUBSET Index, S # {}
    PROVE  Min(S) \in S
<1>1. S \in SUBSET Nat
  BY AccountsAssumption DEF Index
<1>2. \E m \in S : \A i \in S : m <= i
  BY <1>1, LeastElement
<1>. QED BY <1>2 DEF Min

(* The scan adds addresses of the profile, every used one it met included. *)
LEMMA AddedAddresses ==
    ASSUME NEW found \in SUBSET Index
    PROVE  AddressesToAdd(found) \in SUBSET Index /\ found \subseteq AddressesToAdd(found)
<1>1. CASE found = {}
  BY <1>1, AccountsAssumption DEF AddressesToAdd, Index
<1>2. CASE found # {}
  <2>1. Max(found) \in Index /\ \A i \in found : i <= Max(found)
    BY <1>2, MaxIsGreatest
  <2>2. 0 .. Max(found) \in SUBSET Index /\ found \subseteq 0 .. Max(found)
    BY <2>1, AccountsAssumption DEF Index
  <2>. QED BY <1>2, <2>2 DEF AddressesToAdd
<1>. QED BY <1>1, <1>2

(* An address that ends a batch is the last of it.                         *)
LEMMA BatchEnds ==
    ASSUME NEW i \in Index, NEW j \in BatchOf(i), (i + 1) % Batch = 0
    PROVE  j <= i
<1>1. i \in Nat /\ j \in Nat /\ Batch \in Nat \ {0} /\ j \div Batch = i \div Batch
  BY AccountsAssumption DEF Index, BatchOf
<1> DEFINE k == i \div Batch
<1>2. k \in Int /\ i = Batch * k + (i % Batch) /\ j = Batch * k + (j % Batch)
  BY <1>1
<1>3. i % Batch \in 0 .. Batch - 1 /\ j % Batch \in 0 .. Batch - 1
  BY <1>1
<1>. QED BY <1>1, <1>2, <1>3

-----------------------------------------------------------------------------
(* What each step does to the command that takes it.                       *)

LEMMA CommandTypes ==
    ASSUME TypeInv, NEW p \in Proc
    PROVE  /\ cmd[p] \in Command
           /\ \A c : cmd' = [cmd EXCEPT ![p] = c] => cmd'[p] = c
BY DEF TypeInv, TypeOK

(* Typed updates of a command.                                             *)
LEMMA TodoUpdate ==
    ASSUME NEW c \in Command, NEW todo \in SUBSET Index,
           NEW d, d = [c EXCEPT !.pc = "readVaults", !.todo = todo]
    PROVE  d \in Command
BY DEF Command

LEMMA LookUpdate ==
    ASSUME NEW c \in Command, NEW index \in 0 .. MaxIndex,
           NEW d, d = [c EXCEPT !.pc = "look", !.index = index]
    PROVE  d \in Command
BY DEF Command

LEMMA GotoEffect ==
    ASSUME TypeInv, NEW p \in Proc,
           NEW pc \in {"idle", "look", "readNext", "putNext", "submit", "scan", "filter",
                       "readVaults", "putVaults", "done"},
           Goto(p, pc)
    PROVE  /\ cmd' = [cmd EXCEPT ![p] = cmd'[p]] /\ cmd'[p] \in Command
           /\ cmd'[p].pc = pc /\ cmd'[p].kind = cmd[p].kind /\ cmd'[p].index = cmd[p].index
           /\ cmd'[p].todo = cmd[p].todo /\ cmd'[p].warned = cmd[p].warned
           /\ cmd'[p].seen = cmd[p].seen
<1>1. cmd' = [cmd EXCEPT ![p] = [cmd[p] EXCEPT !.pc = pc]]
  BY DEF Goto, Become
<1>2. cmd'[p] = [cmd[p] EXCEPT !.pc = pc] /\ cmd[p] \in Command
  BY <1>1, CommandTypes
<1>3. /\ cmd'[p] \in Command
      /\ cmd'[p].pc = pc /\ cmd'[p].kind = cmd[p].kind /\ cmd'[p].index = cmd[p].index
      /\ cmd'[p].todo = cmd[p].todo /\ cmd'[p].warned = cmd[p].warned
      /\ cmd'[p].seen = cmd[p].seen
  BY <1>2 DEF Command
<1>. QED BY <1>1, <1>2, <1>3

LEMMA NewType ==
    ASSUME TypeInv, NEW kind \in Kinds
    PROVE  New(kind) \in Command
<1>1. active \in SUBSET Index /\ NoVaults \in [Index -> Nat] /\ 0 \in 0 .. MaxIndex
  BY AccountsAssumption DEF TypeInv, TypeOK, NoVaults
<1>. QED BY <1>1 DEF New, Command

LEMMA BeginEffect ==
    ASSUME TypeInv, NEW p \in Proc, Begin(p)
    PROVE  /\ cmd' = [cmd EXCEPT ![p] = cmd'[p]] /\ cmd'[p] \in Command
           /\ cmd[p].pc \in {"idle", "done"}
           /\ begun < MaxCommands /\ begun' = begun + 1
           /\ cmd'[p].kind \in {"import", "new"} => begun = 0
           /\ cmd'[p].seen = active /\ cmd'[p].found = {}
           /\ \/ /\ cmd'[p].pc = "scan" /\ cmd'[p].kind \in {"import", "rescan"}
                 /\ cmd'[p].index = 0
              \/ /\ cmd'[p].pc = "readVaults" /\ cmd'[p].kind = "new" /\ cmd'[p].todo = {0}
              \/ /\ cmd'[p].pc = "look" /\ cmd'[p].kind \in Spending \cup {"peek", "fresh"}
                 /\ cmd'[p].index = nextAddress
<1>1. PICK kind \in Kinds :
        (kind \in {"import", "new"} => begun = 0) /\ cmd' = [cmd EXCEPT ![p] = Entry(kind)]
  BY DEF Begin, Become
<1>2. cmd'[p] = Entry(kind)
  BY <1>1, CommandTypes
<1>3. New(kind) \in Command /\ New(kind).kind = kind /\ New(kind).index = 0
      /\ New(kind).found = {} /\ New(kind).seen = active
  BY NewType DEF New
<1>4. nextAddress \in 0 .. MaxIndex /\ {0} \in SUBSET Index
  BY AccountsAssumption DEF TypeInv, TypeOK, Index
<1>5. CASE kind \in {"import", "rescan"}
  <2>1. Entry(kind) = [New(kind) EXCEPT !.pc = "scan"]
    BY <1>5 DEF Entry
  <2>2. /\ cmd'[p] \in Command /\ cmd'[p].pc = "scan" /\ cmd'[p].kind = kind
        /\ cmd'[p].seen = active /\ cmd'[p].found = {} /\ cmd'[p].index = 0
    BY <1>2, <1>3, <2>1 DEF Command
  <2>. QED BY <1>1, <1>2, <1>5, <2>2 DEF Begin
<1>6. CASE kind = "new"
  <2>1. Entry(kind) = [New(kind) EXCEPT !.pc = "readVaults", !.todo = {0}]
    BY <1>6 DEF Entry
  <2>2. cmd'[p] \in Command
    BY <1>2, <1>3, <1>4, <2>1, TodoUpdate
  <2>3. /\ cmd'[p].pc = "readVaults" /\ cmd'[p].kind = kind
        /\ cmd'[p].seen = active /\ cmd'[p].found = {} /\ cmd'[p].todo = {0}
    BY <1>2, <1>3, <2>1 DEF Command
  <2>. QED BY <1>1, <1>2, <1>6, <2>2, <2>3 DEF Begin
<1>7. CASE kind \in Spending \cup {"peek", "fresh"}
  <2>1. Entry(kind) = [New(kind) EXCEPT !.pc = "look", !.index = nextAddress]
    BY <1>7 DEF Entry, Spending
  <2>2. cmd'[p] \in Command
    BY <1>2, <1>3, <1>4, <2>1, LookUpdate
  <2>3. /\ cmd'[p].pc = "look" /\ cmd'[p].kind = kind
        /\ cmd'[p].seen = active /\ cmd'[p].found = {} /\ cmd'[p].index = nextAddress
    BY <1>2, <1>3, <2>1 DEF Command
  <2>. QED BY <1>1, <1>2, <1>7, <2>2, <2>3 DEF Begin, Spending
<1>. QED BY <1>5, <1>6, <1>7 DEF Kinds

LEMMA LookEffect ==
    ASSUME TypeInv, NEW p \in Proc, Look(p)
    PROVE  /\ cmd' = [cmd EXCEPT ![p] = cmd'[p]] /\ cmd'[p] \in Command
           /\ cmd[p].pc = "look" /\ cmd[p].index \in Index
           /\ cmd[p].kind \in Spending \cup {"peek", "fresh"}
           /\ cmd'[p].kind = cmd[p].kind /\ cmd'[p].seen = cmd[p].seen
           /\ \/ cmd'[p].pc = "look" /\ cmd'[p].index = cmd[p].index + 1 /\ cmd[p].index \in active
              \/ cmd'[p].pc = AfterLook(cmd[p].kind) /\ cmd'[p].index = cmd[p].index
<1>1. cmd[p] \in Command /\ cmd[p].pc = "look" /\ cmd[p].index \in Index
      /\ cmd[p].kind \in Spending \cup {"peek", "fresh"}
  BY CommandTypes, AccountsAssumption DEF Look, At, TypeInv, Shape, Formed, Command, Index
<1>2. CASE cmd[p].index \in active
  <2>1. cmd' = [cmd EXCEPT ![p] = [cmd[p] EXCEPT !.index = @ + 1]]
    BY <1>2 DEF Look, Become
  <2>2. cmd'[p] = [cmd[p] EXCEPT !.index = @ + 1]
    BY <2>1, CommandTypes
  <2>3. cmd[p].index + 1 \in 0 .. MaxIndex
    BY <1>1, AccountsAssumption DEF Index
  <2>4. /\ cmd'[p] \in Command /\ cmd'[p].pc = "look" /\ cmd'[p].kind = cmd[p].kind
        /\ cmd'[p].seen = cmd[p].seen /\ cmd'[p].index = cmd[p].index + 1
    BY <1>1, <2>2, <2>3 DEF Command
  <2>. QED BY <1>1, <1>2, <2>1, <2>2, <2>4
<1>3. CASE cmd[p].index \notin active
  <2>1. cmd' = [cmd EXCEPT ![p] = [cmd[p] EXCEPT !.pc = AfterLook(cmd[p].kind)]]
    BY <1>3 DEF Look, Become
  <2>2. cmd'[p] = [cmd[p] EXCEPT !.pc = AfterLook(cmd[p].kind)]
    BY <2>1, CommandTypes
  <2>3. AfterLook(cmd[p].kind) \in {"done", "readNext", "submit"}
    BY <1>1 DEF AfterLook, Spending
  <2>4. /\ cmd'[p] \in Command /\ cmd'[p].pc = AfterLook(cmd[p].kind)
        /\ cmd'[p].kind = cmd[p].kind
        /\ cmd'[p].seen = cmd[p].seen /\ cmd'[p].index = cmd[p].index
    BY <1>1, <2>2, <2>3 DEF Command
  <2>. QED BY <1>1, <2>1, <2>2, <2>4
<1>. QED BY <1>2, <1>3

LEMMA ReadNextEffect ==
    ASSUME TypeInv, NEW p \in Proc, ReadNext(p)
    PROVE  /\ cmd' = [cmd EXCEPT ![p] = cmd'[p]] /\ cmd'[p] \in Command
           /\ cmd[p].pc = "readNext" /\ cmd'[p].pc = "putNext" /\ cmd'[p].current = nextAddress
           /\ cmd'[p].kind = cmd[p].kind /\ cmd'[p].index = cmd[p].index
           /\ cmd'[p].seen = cmd[p].seen
<1>1. cmd' = [cmd EXCEPT ![p] = [cmd[p] EXCEPT !.pc = "putNext", !.current = nextAddress]]
  BY DEF ReadNext, Become
<1>2. cmd'[p] = [cmd[p] EXCEPT !.pc = "putNext", !.current = nextAddress] /\ cmd[p] \in Command
  BY <1>1, CommandTypes
<1>3. nextAddress \in 0 .. MaxIndex
  BY DEF TypeInv, TypeOK
<1>4. /\ cmd'[p] \in Command /\ cmd'[p].pc = "putNext" /\ cmd'[p].current = nextAddress
      /\ cmd'[p].kind = cmd[p].kind /\ cmd'[p].index = cmd[p].index
      /\ cmd'[p].seen = cmd[p].seen
  BY <1>2, <1>3 DEF Command
<1>. QED BY <1>1, <1>2, <1>4 DEF ReadNext, At

LEMMA PutNextEffect ==
    ASSUME TypeInv, NEW p \in Proc, PutNext(p)
    PROVE  /\ cmd' = [cmd EXCEPT ![p] = cmd'[p]] /\ cmd'[p] \in Command
           /\ cmd[p].pc = "putNext" /\ cmd[p].index \in Index
           /\ cmd[p].kind \in Spending \cup {"fresh"}
           /\ cmd'[p].pc = (IF cmd[p].kind = "fresh" THEN "done" ELSE "filter")
           /\ cmd'[p].kind = cmd[p].kind /\ cmd'[p].index = cmd[p].index
           /\ cmd'[p].warned = cmd[p].warned /\ cmd'[p].seen = cmd[p].seen
           /\ nextAddress' = (IF cmd[p].index + 1 > cmd[p].current
                              THEN cmd[p].index + 1 ELSE nextAddress)
           /\ nextAddress' \in 0 .. MaxIndex
           /\ given' = (IF cmd[p].kind = "fresh" THEN [given EXCEPT ![cmd[p].index] = @ + 1]
                        ELSE given)
<1>1. cmd[p].pc = "putNext" /\ cmd[p].index \in Index /\ cmd[p].kind \in Spending \cup {"fresh"}
  BY DEF PutNext, At, TypeInv, Shape, Formed
<1>2. Goto(p, AfterCommit(cmd[p].kind)) /\ AfterCommit(cmd[p].kind) \in {"done", "filter"}
  BY DEF PutNext, AfterCommit
<1>3. nextAddress' \in 0 .. MaxIndex
  <2>1. nextAddress \in 0 .. MaxIndex /\ cmd[p].index + 1 \in 0 .. MaxIndex
    BY <1>1, AccountsAssumption DEF TypeInv, TypeOK, Index
  <2>. QED BY <2>1 DEF PutNext, Committed
<1>. QED BY <1>1, <1>2, <1>3, GotoEffect DEF PutNext, Committed, AfterCommit

LEMMA SubmitEffect ==
    ASSUME TypeInv, NEW p \in Proc, Submit(p)
    PROVE  /\ cmd' = [cmd EXCEPT ![p] = cmd'[p]] /\ cmd'[p] \in Command
           /\ cmd[p].pc = "submit" /\ cmd[p].index \in Index /\ cmd[p].kind \in Spending
           /\ cmd'[p].pc = (IF cmd[p].kind = "unshield" THEN "readNext" ELSE "done")
           /\ cmd'[p].kind = cmd[p].kind /\ cmd'[p].index = cmd[p].index
           /\ cmd'[p].warned = cmd[p].warned /\ cmd'[p].seen = cmd[p].seen
           /\ given' = [given EXCEPT ![cmd[p].index] = @ + 1]
<1>1. cmd[p].pc = "submit" /\ cmd[p].index \in Index /\ cmd[p].kind \in Spending
  BY DEF Submit, At, TypeInv, Shape, Formed
<1>2. Goto(p, AfterSubmit(cmd[p].kind)) /\ AfterSubmit(cmd[p].kind) \in {"readNext", "done"}
  BY DEF Submit, AfterSubmit
<1>. QED BY <1>1, <1>2, GotoEffect DEF Submit, AfterSubmit

LEMMA ScannedEffect ==
    ASSUME TypeInv, NEW p \in Proc, At(p, "scan"), NEW found \in SUBSET Index,
           Become(p, Scanned(p, found))
    PROVE  /\ cmd' = [cmd EXCEPT ![p] = cmd'[p]] /\ cmd'[p] \in Command
           /\ cmd[p].kind \in {"import", "rescan"} /\ cmd'[p].kind = cmd[p].kind
           /\ cmd'[p].pc = (IF cmd[p].kind = "rescan" THEN "filter" ELSE "readVaults")
           /\ cmd'[p].todo = AddressesToAdd(found) /\ cmd'[p].seen = cmd[p].seen
<1>1. cmd' = [cmd EXCEPT ![p] = Scanned(p, found)] /\ cmd'[p] = Scanned(p, found)
      /\ cmd[p] \in Command
  BY CommandTypes DEF Become
<1>2. cmd[p].kind \in {"import", "rescan"}
  BY DEF At, TypeInv, Shape, Formed
<1>3. AddressesToAdd(found) \in SUBSET Index
  BY AddedAddresses
<1> DEFINE todo == AddressesToAdd(found)
<1>4. /\ todo \in SUBSET Index /\ cmd[p] \in Command
      /\ cmd'[p] = [cmd[p] EXCEPT !.found = found, !.todo = todo,
                                     !.pc = IF cmd[p].kind = "rescan" THEN "filter" ELSE "readVaults"]
  BY <1>1, <1>3 DEF Scanned
<1> HIDE DEF todo
<1>5. CASE cmd[p].kind = "rescan"
  <2>1. cmd'[p] = [cmd[p] EXCEPT !.found = found, !.todo = todo, !.pc = "filter"]
    BY <1>5, <1>4
  <2>2. cmd'[p] \in Command /\ cmd'[p].kind = cmd[p].kind /\ cmd'[p].todo = todo
        /\ cmd'[p].seen = cmd[p].seen /\ cmd'[p].pc = "filter"
    BY <1>4, <2>1 DEF Command
  <2>. QED BY <1>1, <1>2, <1>5, <2>2 DEF todo
<1>6. CASE cmd[p].kind # "rescan"
  <2>1. cmd'[p] = [cmd[p] EXCEPT !.found = found, !.todo = todo, !.pc = "readVaults"]
    BY <1>6, <1>4
  <2>2. cmd'[p] \in Command /\ cmd'[p].kind = cmd[p].kind /\ cmd'[p].todo = todo
        /\ cmd'[p].seen = cmd[p].seen /\ cmd'[p].pc = "readVaults"
    BY <1>4, <2>1 DEF Command
  <2>. QED BY <1>1, <1>2, <1>6, <2>2 DEF todo
<1>. QED BY <1>5, <1>6

LEMMA ScanStepEffect ==
    ASSUME TypeInv, NEW p \in Proc, ScanStep(p)
    PROVE  /\ cmd' = [cmd EXCEPT ![p] = cmd'[p]] /\ cmd'[p] \in Command
           /\ cmd[p].pc = "scan" /\ cmd[p].index \in Index
           /\ cmd[p].kind \in {"import", "rescan"} /\ cmd'[p].kind = cmd[p].kind
           /\ cmd'[p].seen = cmd[p].seen
           /\ LET found == cmd[p].found \cup ({cmd[p].index} \cap active) IN
              \/ /\ (cmd[p].index + 1) % Batch = 0 /\ found \cap BatchOf(cmd[p].index) = {}
                 /\ found \in SUBSET Index /\ cmd'[p].todo = AddressesToAdd(found)
                 /\ cmd'[p].pc = (IF cmd[p].kind = "rescan" THEN "filter" ELSE "readVaults")
              \/ /\ cmd'[p].pc = "scan" /\ cmd'[p].index = cmd[p].index + 1
                 /\ cmd'[p].found = found
<1> DEFINE found == cmd[p].found \cup ({cmd[p].index} \cap active)
<1>1. cmd[p] \in Command /\ cmd[p].pc = "scan" /\ cmd[p].index \in Index
      /\ cmd[p].kind \in {"import", "rescan"} /\ At(p, "scan")
  BY CommandTypes, AccountsAssumption DEF ScanStep, At, TypeInv, Shape, Formed, Command, Index
<1>2. found \in SUBSET Index
  BY <1>1 DEF Command
<1>3. CASE (cmd[p].index + 1) % Batch = 0 /\ found \cap BatchOf(cmd[p].index) = {}
  <2>1. Become(p, Scanned(p, found))
    BY <1>3 DEF ScanStep
  <2> HIDE DEF found
  <2>. QED BY <1>1, <1>2, <1>3, <2>1, ScannedEffect DEF found
<1>4. CASE ~ ((cmd[p].index + 1) % Batch = 0 /\ found \cap BatchOf(cmd[p].index) = {})
  <2>1. cmd' = [cmd EXCEPT ![p] = [cmd[p] EXCEPT !.index = @ + 1, !.found = found]]
    BY <1>4 DEF ScanStep, Become
  <2> HIDE DEF found
  <2>2. cmd'[p] = [cmd[p] EXCEPT !.index = @ + 1, !.found = found]
    BY <2>1, CommandTypes
  <2>3. cmd[p].index + 1 \in 0 .. MaxIndex
    BY <1>1, AccountsAssumption DEF Index
  <2>4. /\ cmd'[p] \in Command /\ cmd'[p].pc = "scan" /\ cmd'[p].kind = cmd[p].kind
        /\ cmd'[p].seen = cmd[p].seen /\ cmd'[p].index = cmd[p].index + 1
        /\ cmd'[p].found = found
    BY <1>1, <1>2, <2>2, <2>3 DEF Command
  <2>. QED BY <1>1, <2>1, <2>2, <2>4 DEF found
<1>. QED BY <1>3, <1>4

LEMMA ScanFailsEffect ==
    ASSUME TypeInv, NEW p \in Proc, ScanFails(p)
    PROVE  /\ cmd' = [cmd EXCEPT ![p] = cmd'[p]] /\ cmd'[p] \in Command
           /\ cmd[p].pc = "scan" /\ cmd[p].kind = "import"
           /\ cmd'[p].pc = "readVaults" /\ cmd'[p].kind = "import"
           /\ cmd'[p].seen = cmd[p].seen
<1>1. At(p, "scan") /\ cmd[p].kind = "import" /\ Become(p, Scanned(p, {}))
  BY DEF ScanFails
<1>2. cmd[p].pc = "scan" /\ {} \in SUBSET Index
  BY <1>1 DEF At
<1>. QED BY <1>1, <1>2, ScannedEffect

LEMMA FilterEffect ==
    ASSUME TypeInv, NEW p \in Proc, Filter(p)
    PROVE  /\ cmd' = [cmd EXCEPT ![p] = cmd'[p]] /\ cmd'[p] \in Command
           /\ cmd[p].pc = "filter" /\ cmd'[p].pc = "readVaults"
           /\ cmd[p].kind \in Spending \cup {"rescan"}
           /\ cmd[p].kind \in Spending => cmd[p].index \in Index
           /\ cmd'[p].kind = cmd[p].kind /\ cmd'[p].index = cmd[p].index
           /\ cmd'[p].warned = cmd[p].warned /\ cmd'[p].seen = cmd[p].seen
           /\ cmd'[p].todo = (IF cmd[p].kind \in Spending THEN {cmd[p].index} ELSE cmd[p].todo)
                             \ Listed
<1> DEFINE todo == (IF cmd[p].kind \in Spending THEN {cmd[p].index} ELSE cmd[p].todo) \ Listed
<1>1. /\ cmd[p] \in Command /\ cmd[p].pc = "filter" /\ cmd[p].kind \in Spending \cup {"rescan"}
      /\ cmd[p].kind \in Spending => cmd[p].index \in Index
  BY CommandTypes DEF Filter, At, TypeInv, Shape, Formed
<1>2. cmd' = [cmd EXCEPT ![p] = [cmd[p] EXCEPT !.pc = "readVaults", !.todo = todo]]
  BY DEF Filter, Become, NotYetStored, NotYetStoredBy
<1>3. cmd'[p] = [cmd[p] EXCEPT !.pc = "readVaults", !.todo = todo]
  <2> HIDE DEF todo
  <2>. QED BY <1>2, CommandTypes
<1>4. todo \in SUBSET Index
  BY <1>1 DEF Command
<1> HIDE DEF todo
<1>5. /\ cmd'[p] \in Command /\ cmd'[p].pc = "readVaults" /\ cmd'[p].todo = todo
      /\ cmd'[p].kind = cmd[p].kind /\ cmd'[p].index = cmd[p].index
      /\ cmd'[p].warned = cmd[p].warned /\ cmd'[p].seen = cmd[p].seen
  BY <1>1, <1>3, <1>4 DEF Command
<1>. QED BY <1>1, <1>2, <1>3, <1>5 DEF todo

LEMMA ReadVaultsEffect ==
    ASSUME TypeInv, NEW p \in Proc, ReadVaults(p)
    PROVE  /\ cmd' = [cmd EXCEPT ![p] = cmd'[p]] /\ cmd'[p] \in Command
           /\ cmd[p].pc = "readVaults"
           /\ cmd[p].kind \in Spending \cup {"rescan", "import", "new"}
           /\ cmd[p].kind \in Spending => cmd[p].index \in Index
           /\ cmd'[p].kind = cmd[p].kind /\ cmd'[p].index = cmd[p].index
           /\ cmd'[p].warned = cmd[p].warned /\ cmd'[p].seen = cmd[p].seen
           /\ cmd'[p].todo = cmd[p].todo
           /\ \/ cmd[p].todo = {} /\ cmd'[p].pc = AfterKeep(cmd[p].kind)
              \/ cmd[p].todo # {} /\ cmd'[p].pc = "putVaults" /\ cmd'[p].records = vaults
<1>1. /\ cmd[p] \in Command /\ cmd[p].pc = "readVaults"
      /\ cmd[p].kind \in Spending \cup {"rescan", "import", "new"}
      /\ cmd[p].kind \in Spending => cmd[p].index \in Index
  BY CommandTypes DEF ReadVaults, At, TypeInv, Shape, Formed
<1>2. CASE cmd[p].todo = {}
  <2>1. Goto(p, AfterKeep(cmd[p].kind)) /\ AfterKeep(cmd[p].kind) \in {"submit", "done"}
    BY <1>2 DEF ReadVaults, AfterKeep
  <2>. QED BY <1>1, <1>2, <2>1, GotoEffect
<1>3. CASE cmd[p].todo # {}
  <2>1. cmd' = [cmd EXCEPT ![p] = [cmd[p] EXCEPT !.pc = "putVaults", !.records = vaults]]
    BY <1>3 DEF ReadVaults, Become
  <2>2. cmd'[p] = [cmd[p] EXCEPT !.pc = "putVaults", !.records = vaults]
    BY <2>1, CommandTypes
  <2>3. vaults \in [Index -> Nat]
    BY DEF TypeInv, TypeOK
  <2>4. /\ cmd'[p] \in Command /\ cmd'[p].pc = "putVaults" /\ cmd'[p].records = vaults
        /\ cmd'[p].kind = cmd[p].kind /\ cmd'[p].index = cmd[p].index
        /\ cmd'[p].warned = cmd[p].warned /\ cmd'[p].seen = cmd[p].seen
        /\ cmd'[p].todo = cmd[p].todo
    BY <1>1, <2>2, <2>3 DEF Command
  <2>. QED BY <1>1, <1>3, <2>1, <2>2, <2>4
<1>. QED BY <1>2, <1>3

LEMMA PutVaultsEffect ==
    ASSUME TypeInv, NEW p \in Proc, PutVaults(p)
    PROVE  /\ cmd' = [cmd EXCEPT ![p] = cmd'[p]] /\ cmd'[p] \in Command
           /\ cmd[p].pc = "putVaults" /\ cmd'[p].pc = "readVaults"
           /\ cmd[p].kind \in Spending \cup {"rescan", "import", "new"}
           /\ cmd[p].kind \in Spending => cmd[p].index \in Index
           /\ cmd'[p].kind = cmd[p].kind /\ cmd'[p].index = cmd[p].index
           /\ cmd'[p].warned = cmd[p].warned /\ cmd'[p].seen = cmd[p].seen
           /\ cmd[p].todo \in SUBSET Index /\ cmd[p].records \in [Index -> Nat]
           /\ \E i \in cmd[p].todo :
                /\ cmd'[p].todo = cmd[p].todo \ {i}
                /\ vaults' = [cmd[p].records EXCEPT ![i] = @ + 1]
<1> DEFINE i == Min(cmd[p].todo)
<1>1. /\ cmd[p] \in Command /\ cmd[p].pc = "putVaults"
      /\ cmd[p].kind \in Spending \cup {"rescan", "import", "new"}
      /\ cmd[p].kind \in Spending => cmd[p].index \in Index
      /\ cmd[p].todo # {}
  BY CommandTypes DEF PutVaults, At, TypeInv, Shape, Formed
<1>2. /\ cmd' = [cmd EXCEPT ![p] = [cmd[p] EXCEPT !.pc = "readVaults", !.todo = @ \ {i}]]
      /\ vaults' = [cmd[p].records EXCEPT ![i] = @ + 1]
  BY DEF PutVaults, Become
<1>3. cmd[p].todo \in SUBSET Index /\ cmd[p].records \in [Index -> Nat]
  BY <1>1 DEF Command
<1>4. i \in cmd[p].todo
  BY <1>1, <1>3, MinIsLeast
<1> HIDE DEF i
<1>5. cmd'[p] = [cmd[p] EXCEPT !.pc = "readVaults", !.todo = @ \ {i}]
  BY <1>2, CommandTypes
<1>6. /\ cmd'[p] \in Command /\ cmd'[p].pc = "readVaults" /\ cmd'[p].todo = cmd[p].todo \ {i}
      /\ cmd'[p].kind = cmd[p].kind /\ cmd'[p].index = cmd[p].index
      /\ cmd'[p].warned = cmd[p].warned /\ cmd'[p].seen = cmd[p].seen
  BY <1>1, <1>3, <1>5 DEF Command
<1>. QED BY <1>1, <1>2, <1>3, <1>4, <1>5, <1>6

LEMMA KeepFailsEffect ==
    ASSUME TypeInv, NEW p \in Proc, KeepFails(p)
    PROVE  /\ cmd' = [cmd EXCEPT ![p] = cmd'[p]] /\ cmd'[p] \in Command
           /\ cmd[p].kind \in Spending /\ cmd[p].index \in Index
           /\ cmd[p].pc \in {"readNext", "putNext", "filter", "readVaults", "putVaults"}
           /\ cmd'[p].pc = AfterKeep(cmd[p].kind) /\ cmd'[p].warned
           /\ cmd'[p].kind = cmd[p].kind /\ cmd'[p].index = cmd[p].index
           /\ cmd'[p].seen = cmd[p].seen
           /\ unstored' = unstored \cup (IF cmd[p].pc \in {"readNext", "putNext"}
                                         THEN {cmd[p].index} ELSE {})
<1>1. /\ cmd[p] \in Command /\ cmd[p].kind \in Spending /\ cmd[p].index \in Index
      /\ cmd[p].pc \in {"readNext", "putNext", "filter", "readVaults", "putVaults"}
  BY CommandTypes DEF KeepFails, Keeps, TypeInv, Shape, Formed
<1>2. cmd' = [cmd EXCEPT ![p] = [cmd[p] EXCEPT !.pc = AfterKeep(cmd[p].kind), !.warned = TRUE]]
  BY DEF KeepFails, Become
<1>3. cmd'[p] = [cmd[p] EXCEPT !.pc = AfterKeep(cmd[p].kind), !.warned = TRUE]
  BY <1>2, CommandTypes
<1>4. AfterKeep(cmd[p].kind) \in {"submit", "done"}
  BY DEF AfterKeep
<1>5. /\ cmd'[p] \in Command /\ cmd'[p].pc = AfterKeep(cmd[p].kind) /\ cmd'[p].warned = TRUE
      /\ cmd'[p].kind = cmd[p].kind /\ cmd'[p].index = cmd[p].index
      /\ cmd'[p].seen = cmd[p].seen
  BY <1>1, <1>3, <1>4 DEF Command
<1>. QED BY <1>1, <1>2, <1>3, <1>5 DEF KeepFails

LEMMA StopEffect ==
    ASSUME TypeInv, NEW p \in Proc, Stop(p)
    PROVE  /\ cmd' = [cmd EXCEPT ![p] = cmd'[p]] /\ cmd'[p] \in Command
           /\ cmd[p].pc \notin {"idle", "done"} /\ cmd'[p].pc = "idle"
           /\ cmd'[p].seen = cmd[p].seen
           /\ cut' = cut \cup (IF cmd[p].kind = "unshield" /\ cmd[p].pc \in {"readNext", "putNext"}
                               THEN {cmd[p].index} ELSE {})
BY GotoEffect DEF Stop

-----------------------------------------------------------------------------
(* Types.                                                                  *)

LEMMA InitType == Init => TypeInv
<1> SUFFICES ASSUME Init PROVE TypeInv
  OBVIOUS
<1>1. 0 \in 0 .. MaxIndex /\ 0 \in 0 .. MaxCommands /\ NoVaults \in [Index -> Nat]
  BY AccountsAssumption DEF NoVaults
<1>2. New("peek") \in Command /\ New("peek").pc = "idle"
  BY <1>1 DEF Init, New, Command, Kinds
<1>3. cmd \in [Proc -> Command] /\ Shape
  BY <1>2 DEF Init, Shape, Formed
<1>. QED BY <1>1, <1>3 DEF Init, TypeInv, TypeOK

LEMMA CommandStep ==
    ASSUME TypeInv, NEW p \in Proc, cmd' = [cmd EXCEPT ![p] = cmd'[p]],
           cmd'[p] \in Command, Formed(cmd'[p]),
           nextAddress' \in 0 .. MaxIndex, vaults' \in [Index -> Nat],
           given' \in [Index -> Nat], submitted' \in SUBSET Index, cut' \in SUBSET Index,
           unstored' \in SUBSET Index, begun' \in 0 .. MaxCommands, active' = active
    PROVE  TypeInv'
<1>1. cmd' \in [Proc -> Command] /\ \A q \in Proc : q = p \/ cmd'[q] = cmd[q]
  BY DEF TypeInv, TypeOK
<1>2. Shape'
  <2>1. ASSUME NEW q \in Proc PROVE Formed(cmd'[q])
    BY <1>1 DEF TypeInv, Shape
  <2>. QED BY <2>1 DEF Shape, Formed
<1>. QED BY <1>1, <1>2 DEF TypeInv, TypeOK

LEMMA TypeStep == TypeInv /\ [Next]_vars => TypeInv'
<1> SUFFICES ASSUME TypeInv, [Next]_vars PROVE TypeInv'
  OBVIOUS
<1>0. /\ nextAddress \in 0 .. MaxIndex /\ vaults \in [Index -> Nat] /\ given \in [Index -> Nat]
      /\ submitted \in SUBSET Index /\ cut \in SUBSET Index /\ unstored \in SUBSET Index
      /\ begun \in 0 .. MaxCommands
  BY DEF TypeInv, TypeOK
<1>u. ASSUME UNCHANGED <<active, Profile, History, begun>>
      PROVE  /\ nextAddress' \in 0 .. MaxIndex /\ vaults' \in [Index -> Nat]
             /\ given' \in [Index -> Nat] /\ submitted' \in SUBSET Index
             /\ cut' \in SUBSET Index /\ unstored' \in SUBSET Index
             /\ begun' \in 0 .. MaxCommands /\ active' = active
  BY <1>0, <1>u DEF Profile, History
<1>1. ASSUME NEW p \in Proc, Begin(p) PROVE TypeInv'
  <2>1. Formed(cmd'[p])
    BY <1>1, BeginEffect DEF Formed, Spending
  <2>2. begun' \in 0 .. MaxCommands
    BY <1>0, <1>1, BeginEffect, AccountsAssumption
  <2>3. UNCHANGED <<active, nextAddress, vaults, given, submitted, cut, unstored>>
    BY <1>1 DEF Begin, Profile, History
  <2>. QED BY <1>0, <1>1, <2>1, <2>2, <2>3, BeginEffect, CommandStep
<1>2. ASSUME NEW p \in Proc, Look(p) PROVE TypeInv'
  <2>1. Formed(cmd'[p])
    BY <1>2, LookEffect DEF Formed, AfterLook, Spending
  <2>. QED BY <1>2, <1>u, <2>1, LookEffect, CommandStep DEF Look
<1>3. ASSUME NEW p \in Proc, ReadNext(p) PROVE TypeInv'
  <2>0. cmd[p].kind \in Spending \cup {"fresh"} /\ cmd[p].index \in Index
    BY <1>3 DEF ReadNext, At, TypeInv, Shape, Formed
  <2>1. Formed(cmd'[p])
    BY <1>3, <2>0, ReadNextEffect DEF Formed
  <2>. QED BY <1>3, <1>u, <2>1, ReadNextEffect, CommandStep DEF ReadNext
<1>4. ASSUME NEW p \in Proc, PutNext(p) PROVE TypeInv'
  <2>1. Formed(cmd'[p])
    BY <1>4, PutNextEffect DEF Formed
  <2>2. given' \in [Index -> Nat]
    BY <1>0, <1>4, PutNextEffect
  <2>3. UNCHANGED <<active, vaults, submitted, cut, unstored, begun>>
    BY <1>4 DEF PutNext
  <2>. QED BY <1>0, <1>4, <2>1, <2>2, <2>3, PutNextEffect, CommandStep
<1>5. ASSUME NEW p \in Proc, Submit(p) PROVE TypeInv'
  <2>1. Formed(cmd'[p])
    BY <1>5, SubmitEffect DEF Formed
  <2>2. given' \in [Index -> Nat]
    BY <1>0, <1>5, SubmitEffect
  <2>4. submitted' \in SUBSET Index
    BY <1>0, <1>5, SubmitEffect DEF Submit
  <2>3. UNCHANGED <<active, nextAddress, vaults, cut, unstored, begun>>
    BY <1>5 DEF Submit, Profile
  <2>. QED BY <1>0, <1>5, <2>1, <2>2, <2>3, <2>4, SubmitEffect, CommandStep
<1>6. ASSUME NEW p \in Proc, ScanStep(p) PROVE TypeInv'
  <2>1. Formed(cmd'[p])
    BY <1>6, ScanStepEffect DEF Formed, Spending
  <2>. QED BY <1>6, <1>u, <2>1, ScanStepEffect, CommandStep DEF ScanStep
<1>7. ASSUME NEW p \in Proc, ScanFails(p) PROVE TypeInv'
  <2>1. Formed(cmd'[p])
    BY <1>7, ScanFailsEffect DEF Formed, Spending
  <2>. QED BY <1>7, <1>u, <2>1, ScanFailsEffect, CommandStep DEF ScanFails
<1>8. ASSUME NEW p \in Proc, Filter(p) PROVE TypeInv'
  <2>1. Formed(cmd'[p])
    BY <1>8, FilterEffect DEF Formed
  <2>. QED BY <1>8, <1>u, <2>1, FilterEffect, CommandStep DEF Filter
<1>9. ASSUME NEW p \in Proc, ReadVaults(p) PROVE TypeInv'
  <2>1. Formed(cmd'[p])
    BY <1>9, ReadVaultsEffect DEF Formed, AfterKeep, Spending
  <2>. QED BY <1>9, <1>u, <2>1, ReadVaultsEffect, CommandStep DEF ReadVaults
<1>10. ASSUME NEW p \in Proc, PutVaults(p) PROVE TypeInv'
  <2>1. Formed(cmd'[p])
    BY <1>10, PutVaultsEffect DEF Formed
  <2>2. vaults' \in [Index -> Nat]
    BY <1>10, PutVaultsEffect
  <2>3. UNCHANGED <<active, nextAddress, given, submitted, cut, unstored, begun>>
    BY <1>10 DEF PutVaults, History
  <2>. QED BY <1>0, <1>10, <2>1, <2>2, <2>3, PutVaultsEffect, CommandStep
<1>11. ASSUME NEW p \in Proc, KeepFails(p) PROVE TypeInv'
  <2>1. Formed(cmd'[p])
    BY <1>11, KeepFailsEffect DEF Formed, AfterKeep, Spending
  <2>2. unstored' \in SUBSET Index
    BY <1>0, <1>11, KeepFailsEffect
  <2>3. UNCHANGED <<active, nextAddress, vaults, given, submitted, cut, begun>>
    BY <1>11 DEF KeepFails, Profile
  <2>. QED BY <1>0, <1>11, <2>1, <2>2, <2>3, KeepFailsEffect, CommandStep
<1>12. ASSUME NEW p \in Proc, Stop(p) PROVE TypeInv'
  <2>1. Formed(cmd'[p])
    BY <1>12, StopEffect DEF Formed
  <2>2. cut' \in SUBSET Index
    BY <1>0, <1>12, StopEffect DEF TypeInv, Shape, Formed
  <2>3. UNCHANGED <<active, nextAddress, vaults, given, submitted, unstored, begun>>
    BY <1>12 DEF Stop, Profile
  <2>. QED BY <1>0, <1>12, <2>1, <2>2, <2>3, StopEffect, CommandStep
<1>13. ASSUME NEW i \in Index, Activity(i) PROVE TypeInv'
  BY <1>13 DEF Activity, Profile, History, TypeInv, TypeOK, Shape, Formed
<1>14. CASE UNCHANGED vars
  BY <1>14 DEF vars, TypeInv, TypeOK, Shape, Formed
<1>. QED BY <1>1, <1>2, <1>3, <1>4, <1>5, <1>6, <1>7, <1>8, <1>9, <1>10, <1>11, <1>12, <1>13, <1>14 DEF Next

(* Every variable keeps its type, however many commands overlap: an index  *)
(* that is looked up, stored, scanned or listed is one of the profile's.   *)
THEOREM TypeCorrect == Spec => []TypeOK
BY InitType, TypeStep, PTL DEF Spec, TypeInv
-----------------------------------------------------------------------------
(* One command at a time.                                                  *)

Alone == \A p, q \in Proc : p = q

(* Whether the command is still to use the fresh address it has taken.     *)
ToUse(c) ==
    \/ c.pc = "submit"
    \/ c.pc \in {"readNext", "putNext"} /\ c.kind \in {"fresh", "transfer"}
    \/ c.pc \in {"filter", "readVaults", "putVaults"} /\ c.kind = "transfer"

Unused(i) == given[i] = 0 \/ i \in cut \cup unstored

(* An address that is not recorded as handed out has no use yet, except    *)
(* that of an unshield that is about to record it.                         *)
Uses(p) == LET c == cmd[p] IN
    /\ \A i \in Index :
         \/ i < nextAddress \/ Unused(i)
         \/ c.kind = "unshield" /\ c.pc \in {"readNext", "putNext"} /\ c.index = i
    /\ c.pc = "look" => nextAddress <= c.index
    /\ c.pc = "putNext" => c.current = nextAddress
    /\ ToUse(c) => Unused(c.index)
    /\ c.kind = "transfer" /\ c.pc \in {"filter", "readVaults", "putVaults", "submit"} =>
         c.index < nextAddress \/ c.index \in unstored

(* What a command is to add is not listed yet, and the list it writes back *)
(* is the one that is stored.                                              *)
Adds(p) == LET c == cmd[p] IN
    /\ begun = 0 => vaults = NoVaults /\ c.pc = "idle"
    /\ c.pc = "scan" /\ c.kind = "import" => vaults = NoVaults
    /\ c.pc \in {"readVaults", "putVaults"} => \A i \in c.todo : vaults[i] = 0
    /\ c.pc = "putVaults" => c.records = vaults

(* The addresses in use that no unused batch comes before.                 *)
Near(seen) == {i \in seen : \A j \in 0 .. i : seen \cap BatchOf(j) # {}}

(* A rescan has met every address in use below its index, and carries on   *)
(* the near ones until they are listed.                                    *)
Covers(p) == LET c == cmd[p] IN
    /\ c.seen \subseteq active
    /\ c.pc = "scan" => \A i \in c.seen : i < c.index => i \in c.found
    /\ c.kind = "rescan" =>
         /\ c.pc = "filter" => Near(c.seen) \subseteq c.todo
         /\ c.pc \in {"readVaults", "putVaults"} => Near(c.seen) \subseteq Listed \cup c.todo
         /\ c.pc = "done" => Near(c.seen) \subseteq Listed

(* A withdrawal that has not warned has recorded its address before it     *)
(* lists it, and a transfer both before it submits.                        *)
Kept(p) == LET c == cmd[p] IN c.kind \in Spending /\ ~c.warned =>
    /\ \/ c.pc \in {"filter", "readVaults", "putVaults", "done"}
       \/ c.pc = "submit" /\ c.kind = "transfer"
       => c.index < nextAddress
    /\ c.pc \in {"readVaults", "putVaults"} => c.index \in Listed \cup c.todo
    /\ \/ c.pc = "done"
       \/ c.pc = "submit" /\ c.kind = "transfer"
       => c.index \in Listed

UsesInv == NotReused /\ \A p \in Proc : Uses(p)
VaultsInv == OneVaultEach /\ \A p \in Proc : Adds(p)
ScanInv == \A p \in Proc : Covers(p)
KeptInv == \A p \in Proc : Kept(p)

LEMMA UsesNext ==
    ASSUME Alone, TypeInv, UsesInv, [Next]_vars
    PROVE  UsesInv'
<1>0. /\ nextAddress \in Nat /\ vaults \in [Index -> Nat] /\ given \in [Index -> Nat]
      /\ Index \subseteq Nat /\ \A i \in Index : i \in Nat
  BY AccountsAssumption DEF TypeInv, TypeOK, Index
<1>a. ASSUME NEW p \in Proc, NotReused' /\ Uses(p)' PROVE UsesInv'
  BY <1>a DEF Alone, UsesInv
<1>1. ASSUME NEW p \in Proc, Begin(p) PROVE UsesInv'
  <2>1. NotReused' /\ Uses(p)'
    BY <1>0, <1>1, BeginEffect DEF Begin, Profile, History, UsesInv, NotReused, Uses, Unused, ToUse, Spending
  <2>. QED BY <1>a, <2>1
<1>2. ASSUME NEW p \in Proc, Look(p) PROVE UsesInv'
  <2>1. UNCHANGED <<nextAddress, given, cut, unstored>>
    BY <1>2 DEF Look, Profile, History
  <2>2. NotReused'
    BY <2>1 DEF UsesInv, NotReused
  <2>3. cmd[p].pc = "look" /\ nextAddress <= cmd[p].index /\ cmd[p].index \in Index
    BY <1>2, LookEffect DEF UsesInv, Uses
  <2>n. nextAddress \in Nat /\ cmd[p].index \in Nat
    BY <1>0, <2>3
  <2>4. \A i \in Index : i < nextAddress \/ Unused(i)
    BY <2>3 DEF UsesInv, Uses
  <2>5. CASE cmd'[p].pc = "look" /\ cmd'[p].index = cmd[p].index + 1
    <3>1. nextAddress <= cmd[p].index + 1
      BY <2>n, <2>3
    <3>2. Uses(p)'
      BY <2>1, <2>4, <2>5, <3>1 DEF Uses, Unused, ToUse
    <3>. QED BY <1>a, <2>2, <3>2
  <2>6. CASE cmd'[p].pc = AfterLook(cmd[p].kind) /\ cmd'[p].index = cmd[p].index
    <3>1. /\ cmd'[p].pc \in {"done", "readNext", "submit"}
          /\ cmd'[p].pc = "submit" => cmd'[p].kind = "unshield"
      BY <1>2, <2>6, LookEffect DEF AfterLook, Spending
    <3>2. Unused(cmd[p].index)
      BY <2>n, <2>3, <2>4
    <3>3. Uses(p)'
      <4>1. \A i \in Index : i < nextAddress' \/ Unused(i)'
        BY <2>1, <2>4 DEF Unused
      <4>2. given'[cmd[p].index] = 0 \/ cmd[p].index \in cut' \cup unstored'
        BY <2>1, <3>2 DEF Unused
      <4>. QED BY <2>6, <3>1, <4>1, <4>2 DEF Uses, ToUse, Unused
    <3>. QED BY <1>a, <2>2, <3>3
  <2>. QED BY <1>2, <2>5, <2>6, LookEffect
<1>3. ASSUME NEW p \in Proc, ReadNext(p) PROVE UsesInv'
  <2>1. NotReused' /\ Uses(p)'
    BY <1>0, <1>3, ReadNextEffect DEF ReadNext, Profile, History, UsesInv, NotReused, Uses, Unused, ToUse
  <2>. QED BY <1>a, <2>1
<1>4. ASSUME NEW p \in Proc, PutNext(p) PROVE UsesInv'
  <2> DEFINE i == cmd[p].index
  <2>1. cmd[p].current = nextAddress /\ i \in Index /\ UNCHANGED <<cut, unstored>>
    BY <1>4, PutNextEffect DEF UsesInv, Uses, PutNext
  <2>2. i < nextAddress' /\ nextAddress <= nextAddress' /\ nextAddress' \in Nat
    <3>1. nextAddress' = IF i + 1 > nextAddress THEN i + 1 ELSE nextAddress
      BY <1>4, <2>1, PutNextEffect
    <3>2. nextAddress \in Nat /\ i \in Nat
      BY <1>0, <2>1
    <3> HIDE DEF i
    <3>. QED BY <3>1, <3>2
  <2>3. ToUse(cmd[p]) => Unused(i)
    BY DEF UsesInv, Uses
  <2>4. \A j \in Index : j = i \/ given'[j] = given[j]
    BY <1>0, <1>4, <2>1, PutNextEffect
  <2>5. NotReused'
    <3>1. CASE cmd[p].kind = "fresh"
      <4>1. Unused(i) /\ given'[i] = given[i] + 1
        BY <1>0, <1>4, <2>1, <2>3, <3>1, PutNextEffect DEF ToUse
      <4>2. given'[i] > 1 => i \in cut' \cup unstored'
        BY <2>1, <4>1 DEF Unused
      <4>. QED BY <2>1, <2>4, <4>2 DEF UsesInv, NotReused
    <3>2. CASE cmd[p].kind # "fresh"
      BY <1>4, <2>1, <3>2, PutNextEffect DEF UsesInv, NotReused
    <3>. QED BY <3>1, <3>2
  <2>6. \A j \in Index : j < nextAddress' \/ Unused(j)'
    <3> SUFFICES ASSUME NEW j \in Index, j # i, ~ (j < nextAddress') PROVE Unused(j)'
      BY <2>2
    <3>1. ~ (j < nextAddress)
      BY <1>0, <2>2
    <3>2. Unused(j)
      BY <3>1 DEF UsesInv, Uses
    <3>. QED BY <2>1, <2>4, <3>2 DEF Unused
  <2>7. cmd[p].kind = "transfer" => Unused(i)'
    BY <1>4, <2>1, <2>3, PutNextEffect DEF ToUse, Unused
  <2>8. /\ cmd'[p].pc \in {"done", "filter"} /\ cmd'[p].index = i
        /\ cmd'[p].kind = cmd[p].kind
    BY <1>4, PutNextEffect
  <2>9. Uses(p)'
    BY <2>2, <2>6, <2>7, <2>8 DEF Uses, ToUse
  <2>. QED BY <1>a, <2>5, <2>9
<1>5. ASSUME NEW p \in Proc, Submit(p) PROVE UsesInv'
  <2> DEFINE i == cmd[p].index
  <2>1. /\ i \in Index /\ Unused(i) /\ UNCHANGED <<nextAddress, cut, unstored>>
        /\ given'[i] = given[i] + 1 /\ \A j \in Index : j = i \/ given'[j] = given[j]
    BY <1>0, <1>5, SubmitEffect DEF UsesInv, Uses, ToUse, Submit, Profile
  <2>2. NotReused'
    <3>1. given'[i] > 1 => i \in cut' \cup unstored'
      BY <2>1 DEF Unused
    <3>. QED BY <2>1, <3>1 DEF UsesInv, NotReused
  <2>3. \A j \in Index : j = i \/ j < nextAddress' \/ Unused(j)'
    <3>1. \A j \in Index : j = i \/ j < nextAddress \/ Unused(j)
      BY <1>5, SubmitEffect DEF UsesInv, Uses
    <3>. QED BY <2>1, <3>1 DEF Unused
  <2>4. CASE cmd[p].kind = "unshield"
    <3>1. cmd'[p].pc = "readNext" /\ cmd'[p].kind = "unshield" /\ cmd'[p].index = i
      BY <1>5, <2>4, SubmitEffect
    <3>2. Uses(p)'
      BY <2>3, <3>1 DEF Uses, ToUse
    <3>. QED BY <1>a, <2>2, <3>2
  <2>5. CASE cmd[p].kind = "transfer"
    <3>1. cmd'[p].pc = "done" /\ (i < nextAddress \/ i \in unstored)
      BY <1>5, <2>5, SubmitEffect DEF UsesInv, Uses
    <3>2. \A j \in Index : j < nextAddress' \/ Unused(j)'
      BY <2>1, <2>3, <3>1 DEF Unused
    <3>3. Uses(p)'
      BY <3>1, <3>2 DEF Uses, ToUse
    <3>. QED BY <1>a, <2>2, <3>3
  <2>. QED BY <1>5, <2>4, <2>5, SubmitEffect DEF Spending
<1>6. ASSUME NEW p \in Proc, ScanStep(p) PROVE UsesInv'
  <2>1. NotReused' /\ Uses(p)'
    BY <1>0, <1>6, ScanStepEffect DEF ScanStep, Profile, History, UsesInv, NotReused, Uses, Unused, ToUse
  <2>. QED BY <1>a, <2>1
<1>7. ASSUME NEW p \in Proc, ScanFails(p) PROVE UsesInv'
  <2>1. NotReused' /\ Uses(p)'
    BY <1>0, <1>7, ScanFailsEffect DEF ScanFails, Profile, History, UsesInv, NotReused, Uses, Unused, ToUse
  <2>. QED BY <1>a, <2>1
<1>8. ASSUME NEW p \in Proc, Filter(p) PROVE UsesInv'
  <2>1. NotReused' /\ Uses(p)'
    BY <1>0, <1>8, FilterEffect DEF Filter, Profile, History, UsesInv, NotReused, Uses, Unused, ToUse
  <2>. QED BY <1>a, <2>1
<1>9. ASSUME NEW p \in Proc, ReadVaults(p) PROVE UsesInv'
  <2>1. NotReused' /\ Uses(p)'
    BY <1>0, <1>9, ReadVaultsEffect DEF ReadVaults, Profile, History, UsesInv, NotReused, Uses, Unused, ToUse, AfterKeep, Spending
  <2>. QED BY <1>a, <2>1
<1>10. ASSUME NEW p \in Proc, PutVaults(p) PROVE UsesInv'
  <2>1. NotReused' /\ Uses(p)'
    BY <1>0, <1>10, PutVaultsEffect DEF PutVaults, Profile, History, UsesInv, NotReused, Uses, Unused, ToUse
  <2>. QED BY <1>a, <2>1
<1>11. ASSUME NEW p \in Proc, KeepFails(p) PROVE UsesInv'
  <2>1. NotReused' /\ Uses(p)'
    BY <1>0, <1>11, KeepFailsEffect DEF KeepFails, Profile, History, UsesInv, NotReused, Uses, Unused, ToUse, AfterKeep, Spending
  <2>. QED BY <1>a, <2>1
<1>12. ASSUME NEW p \in Proc, Stop(p) PROVE UsesInv'
  <2>1. NotReused' /\ Uses(p)'
    BY <1>0, <1>12, StopEffect DEF Stop, Profile, History, UsesInv, NotReused, Uses, Unused, ToUse
  <2>. QED BY <1>a, <2>1
<1>13. ASSUME NEW i \in Index, Activity(i) PROVE UsesInv'
  BY <1>13 DEF Activity, Profile, History, UsesInv, NotReused, Uses, Unused, ToUse
<1>14. CASE UNCHANGED vars
  BY <1>14 DEF vars, UsesInv, NotReused, Uses, Unused, ToUse
<1>. QED BY <1>1, <1>2, <1>3, <1>4, <1>5, <1>6, <1>7, <1>8, <1>9, <1>10, <1>11, <1>12, <1>13, <1>14 DEF Next

LEMMA VaultsNext ==
    ASSUME Alone, TypeInv, VaultsInv, [Next]_vars
    PROVE  VaultsInv'
<1>0. /\ nextAddress \in Nat /\ vaults \in [Index -> Nat] /\ given \in [Index -> Nat]
      /\ Index \subseteq Nat /\ \A i \in Index : i \in Nat
  BY AccountsAssumption DEF TypeInv, TypeOK, Index
<1>a. ASSUME NEW p \in Proc, OneVaultEach' /\ Adds(p)' PROVE VaultsInv'
  BY <1>a DEF Alone, VaultsInv
<1>1. ASSUME NEW p \in Proc, Begin(p) PROVE VaultsInv'
  <2>1. vaults' = vaults /\ begun' # 0
    BY <1>1, BeginEffect DEF Begin, Profile, TypeInv, TypeOK
  <2>2. cmd'[p].kind \in {"import", "new"} => vaults = NoVaults
    BY <1>1, BeginEffect DEF VaultsInv, Adds
  <2>3. 0 \in Index
    BY AccountsAssumption DEF Index
  <2>4. cmd'[p].pc = "readVaults" => \A i \in cmd'[p].todo : vaults'[i] = 0
    BY <1>1, <2>1, <2>2, <2>3, BeginEffect DEF NoVaults
  <2>5. Adds(p)'
    BY <1>1, <2>1, <2>2, <2>4, BeginEffect DEF Adds
  <2>. QED BY <1>a, <2>1, <2>5 DEF VaultsInv, OneVaultEach
<1>2. ASSUME NEW p \in Proc, Look(p) PROVE VaultsInv'
  <2>1. OneVaultEach' /\ Adds(p)'
    BY <1>0, <1>2, LookEffect DEF Look, Profile, History, VaultsInv, OneVaultEach, Adds, AfterLook, Spending
  <2>. QED BY <1>a, <2>1
<1>3. ASSUME NEW p \in Proc, ReadNext(p) PROVE VaultsInv'
  <2>1. OneVaultEach' /\ Adds(p)'
    BY <1>0, <1>3, ReadNextEffect DEF ReadNext, Profile, History, VaultsInv, OneVaultEach, Adds
  <2>. QED BY <1>a, <2>1
<1>4. ASSUME NEW p \in Proc, PutNext(p) PROVE VaultsInv'
  <2>1. OneVaultEach' /\ Adds(p)'
    BY <1>0, <1>4, PutNextEffect DEF PutNext, Profile, History, VaultsInv, OneVaultEach, Adds
  <2>. QED BY <1>a, <2>1
<1>5. ASSUME NEW p \in Proc, Submit(p) PROVE VaultsInv'
  <2>1. OneVaultEach' /\ Adds(p)'
    BY <1>0, <1>5, SubmitEffect DEF Submit, Profile, History, VaultsInv, OneVaultEach, Adds
  <2>. QED BY <1>a, <2>1
<1>6. ASSUME NEW p \in Proc, ScanStep(p) PROVE VaultsInv'
  <2>1. vaults' = vaults /\ begun' = begun /\ begun # 0
    BY <1>6, ScanStepEffect DEF ScanStep, Profile, VaultsInv, Adds
  <2>2. cmd[p].kind = "import" => vaults = NoVaults
    BY <1>6, ScanStepEffect DEF VaultsInv, Adds
  <2>3. cmd'[p].todo \in SUBSET Index /\ cmd'[p].kind = cmd[p].kind
    BY <1>6, ScanStepEffect DEF Command
  <2>4. /\ cmd'[p].pc \in {"scan", "filter", "readVaults"}
        /\ cmd'[p].pc = "readVaults" => cmd[p].kind = "import"
    BY <1>6, ScanStepEffect
  <2>5. cmd'[p].pc = "readVaults" => \A i \in cmd'[p].todo : vaults'[i] = 0
    BY <2>1, <2>2, <2>3, <2>4 DEF NoVaults
  <2>6. Adds(p)'
    BY <2>1, <2>2, <2>3, <2>4, <2>5 DEF Adds
  <2>. QED BY <1>a, <2>1, <2>6 DEF VaultsInv, OneVaultEach
<1>7. ASSUME NEW p \in Proc, ScanFails(p) PROVE VaultsInv'
  <2>1. vaults' = vaults /\ begun' = begun /\ begun # 0 /\ vaults = NoVaults
    BY <1>7, ScanFailsEffect DEF ScanFails, Profile, VaultsInv, Adds
  <2>2. cmd'[p].todo \in SUBSET Index /\ cmd'[p].pc = "readVaults"
    BY <1>7, ScanFailsEffect DEF Command
  <2>3. \A i \in cmd'[p].todo : vaults'[i] = 0
    BY <2>1, <2>2 DEF NoVaults
  <2>4. Adds(p)'
    BY <2>1, <2>2, <2>3 DEF Adds
  <2>. QED BY <1>a, <2>1, <2>4 DEF VaultsInv, OneVaultEach
<1>8. ASSUME NEW p \in Proc, Filter(p) PROVE VaultsInv'
  <2>1. vaults' = vaults /\ begun' = begun /\ begun # 0
    BY <1>8, FilterEffect DEF Filter, Profile, VaultsInv, Adds
  <2>2. cmd'[p].todo \in SUBSET Index /\ cmd'[p].todo \cap Listed = {} /\ cmd'[p].pc = "readVaults"
    <3>1. cmd'[p].todo \in SUBSET Index /\ cmd'[p].pc = "readVaults"
      BY <1>8, FilterEffect DEF Command
    <3>2. cmd'[p].todo \cap Listed = {}
      BY <1>8, FilterEffect
    <3>. QED BY <3>1, <3>2
  <2>3. \A i \in cmd'[p].todo : vaults'[i] = 0
    <3> SUFFICES ASSUME NEW i \in Index, i \notin Listed PROVE vaults[i] = 0
      BY <2>1, <2>2
    <3>1. vaults[i] \in Nat /\ ~ (vaults[i] > 0)
      BY <1>0 DEF Listed
    <3>. QED BY <3>1
  <2>4. Adds(p)'
    BY <2>1, <2>2, <2>3 DEF Adds
  <2>. QED BY <1>a, <2>1, <2>4 DEF VaultsInv, OneVaultEach
<1>9. ASSUME NEW p \in Proc, ReadVaults(p) PROVE VaultsInv'
  <2>1. OneVaultEach' /\ Adds(p)'
    BY <1>0, <1>9, ReadVaultsEffect DEF ReadVaults, Profile, History, VaultsInv, OneVaultEach, Adds, AfterKeep
  <2>. QED BY <1>a, <2>1
<1>10. ASSUME NEW p \in Proc, PutVaults(p) PROVE VaultsInv'
  <2>1. PICK i \in cmd[p].todo : /\ cmd'[p].todo = cmd[p].todo \ {i}
                                 /\ vaults' = [cmd[p].records EXCEPT ![i] = @ + 1]
    BY <1>10, PutVaultsEffect
  <2>2. /\ cmd[p].records = vaults /\ cmd[p].todo \in SUBSET Index /\ begun # 0
        /\ \A j \in cmd[p].todo : vaults[j] = 0
    BY <1>10, PutVaultsEffect DEF VaultsInv, Adds
  <2>3. vaults'[i] = 1 /\ \A j \in Index \ {i} : vaults'[j] = vaults[j]
    BY <1>0, <2>1, <2>2
  <2>4. OneVaultEach'
    BY <2>3 DEF VaultsInv, OneVaultEach
  <2>5. cmd'[p].pc = "readVaults" /\ begun' = begun
    BY <1>10, PutVaultsEffect DEF PutVaults
  <2>6. Adds(p)'
    BY <2>1, <2>2, <2>3, <2>5 DEF Adds
  <2>. QED BY <1>a, <2>4, <2>6
<1>11. ASSUME NEW p \in Proc, KeepFails(p) PROVE VaultsInv'
  <2>1. OneVaultEach' /\ Adds(p)'
    BY <1>0, <1>11, KeepFailsEffect DEF KeepFails, Profile, History, VaultsInv, OneVaultEach, Adds, AfterKeep
  <2>. QED BY <1>a, <2>1
<1>12. ASSUME NEW p \in Proc, Stop(p) PROVE VaultsInv'
  <2>1. OneVaultEach' /\ Adds(p)'
    BY <1>0, <1>12, StopEffect DEF Stop, Profile, History, VaultsInv, OneVaultEach, Adds
  <2>. QED BY <1>a, <2>1
<1>13. ASSUME NEW i \in Index, Activity(i) PROVE VaultsInv'
  BY <1>13 DEF Activity, Profile, History, VaultsInv, OneVaultEach, Adds
<1>14. CASE UNCHANGED vars
  BY <1>14 DEF vars, VaultsInv, OneVaultEach, Adds
<1>. QED BY <1>1, <1>2, <1>3, <1>4, <1>5, <1>6, <1>7, <1>8, <1>9, <1>10, <1>11, <1>12, <1>13, <1>14 DEF Next

LEMMA ScanNext ==
    ASSUME Alone, TypeInv, VaultsInv, ScanInv, [Next]_vars
    PROVE  ScanInv'
<1>0. /\ nextAddress \in Nat /\ vaults \in [Index -> Nat] /\ given \in [Index -> Nat]
      /\ Index \subseteq Nat /\ \A i \in Index : i \in Nat
  BY AccountsAssumption DEF TypeInv, TypeOK, Index
<1>a. ASSUME NEW p \in Proc, Covers(p)' PROVE ScanInv'
  BY <1>a DEF Alone, ScanInv
<1>1. ASSUME NEW p \in Proc, Begin(p) PROVE ScanInv'
  <2>1. cmd'[p].seen = active' /\ active' \subseteq Nat
    BY <1>0, <1>1, BeginEffect DEF Begin, TypeInv, TypeOK
  <2>2. cmd'[p].pc = "scan" => cmd'[p].index = 0
    BY <1>1, BeginEffect
  <2>3. cmd'[p].kind = "rescan" => cmd'[p].pc = "scan"
    BY <1>1, BeginEffect DEF Spending
  <2>4. Covers(p)'
    <3>1. ASSUME NEW i \in cmd'[p].seen PROVE ~ (i < 0)
      <4>1. i \in Nat
        BY <2>1
      <4>. QED BY <4>1
    <3>. QED BY <2>1, <2>2, <2>3, <3>1 DEF Covers
  <2>. QED BY <1>a, <2>4
<1>2. ASSUME NEW p \in Proc, Look(p) PROVE ScanInv'
  <2>1. Covers(p)'
    BY <1>0, <1>2, LookEffect DEF Look, Profile, History, ScanInv, Covers, Listed, AfterLook, Spending
  <2>. QED BY <1>a, <2>1
<1>3. ASSUME NEW p \in Proc, ReadNext(p) PROVE ScanInv'
  <2>1. Covers(p)'
    BY <1>0, <1>3, ReadNextEffect DEF ReadNext, Profile, History, ScanInv, Covers, Listed
  <2>. QED BY <1>a, <2>1
<1>4. ASSUME NEW p \in Proc, PutNext(p) PROVE ScanInv'
  <2>1. Covers(p)'
    BY <1>0, <1>4, PutNextEffect DEF PutNext, Profile, History, ScanInv, Covers, Listed, Spending
  <2>. QED BY <1>a, <2>1
<1>5. ASSUME NEW p \in Proc, Submit(p) PROVE ScanInv'
  <2>1. Covers(p)'
    BY <1>0, <1>5, SubmitEffect DEF Submit, Profile, History, ScanInv, Covers, Listed, Spending
  <2>. QED BY <1>a, <2>1
<1>6. ASSUME NEW p \in Proc, ScanStep(p) PROVE ScanInv'
  <2> DEFINE c == cmd[p]
             found == c.found \cup ({c.index} \cap active)
  <2>1. /\ c.seen \subseteq active /\ c.seen \subseteq Nat /\ c.index \in Nat
        /\ \A i \in c.seen : i < c.index => i \in c.found
    BY <1>0, <1>6, ScanStepEffect DEF ScanInv, Covers, TypeInv, TypeOK
  <2>2. \A i \in c.seen : i <= c.index => i \in found
    BY <2>1
  <2>3. cmd'[p].seen = c.seen /\ cmd'[p].kind = c.kind /\ c.seen \subseteq active'
    BY <1>6, <2>1, ScanStepEffect DEF ScanStep
  <2>4. CASE /\ (c.index + 1) % Batch = 0 /\ found \cap BatchOf(c.index) = {}
             /\ found \in SUBSET Index /\ cmd'[p].todo = AddressesToAdd(found)
             /\ cmd'[p].pc = (IF c.kind = "rescan" THEN "filter" ELSE "readVaults")
    <3>1. ASSUME NEW i \in Near(c.seen) PROVE i \in found
      <4>1. CASE i <= c.index
        BY <2>2, <4>1 DEF Near
      <4>2. CASE c.index < i
        <5>1. c.seen \cap BatchOf(c.index) # {}
          BY <2>1, <4>2 DEF Near
        <5>2. PICK j \in c.seen : j \in BatchOf(c.index)
          BY <5>1
        <5>3. j <= c.index
          <6>1. c.index \in Index /\ (c.index + 1) % Batch = 0
            BY <1>6, <2>4, ScanStepEffect
          <6>. QED BY <5>2, <6>1, BatchEnds
        <5>4. j \in found
          BY <2>2, <5>3
        <5>. QED BY <2>4, <5>2, <5>4
      <4>. QED BY <2>1, <4>1, <4>2 DEF Near
    <3>2. Near(c.seen) \subseteq cmd'[p].todo
      BY <2>4, <3>1, AddedAddresses
    <3>3. Covers(p)'
      BY <2>3, <2>4, <3>2 DEF Covers
    <3>. QED BY <1>a, <3>3
  <2>5. CASE cmd'[p].pc = "scan" /\ cmd'[p].index = c.index + 1 /\ cmd'[p].found = found
    <3>1. Covers(p)'
      BY <2>1, <2>2, <2>3, <2>5 DEF Covers
    <3>. QED BY <1>a, <3>1
  <2>. QED BY <1>6, <2>4, <2>5, ScanStepEffect
<1>7. ASSUME NEW p \in Proc, ScanFails(p) PROVE ScanInv'
  <2>1. Covers(p)'
    BY <1>0, <1>7, ScanFailsEffect DEF ScanFails, Profile, History, ScanInv, Covers, Listed
  <2>. QED BY <1>a, <2>1
<1>8. ASSUME NEW p \in Proc, Filter(p) PROVE ScanInv'
  <2>1. /\ cmd[p].pc = "filter" /\ cmd'[p].pc = "readVaults" /\ cmd'[p].kind = cmd[p].kind
        /\ cmd'[p].seen = cmd[p].seen /\ active' = active /\ vaults' = vaults
        /\ cmd[p].kind = "rescan" => cmd'[p].todo = cmd[p].todo \ Listed
    BY <1>8, FilterEffect DEF Filter, Profile, Spending
  <2>2. Listed' = Listed
    BY <2>1 DEF Listed
  <2>3. Covers(p)'
    BY <2>1, <2>2 DEF ScanInv, Covers
  <2>. QED BY <1>a, <2>3
<1>9. ASSUME NEW p \in Proc, ReadVaults(p) PROVE ScanInv'
  <2>1. Covers(p)'
    BY <1>0, <1>9, ReadVaultsEffect DEF ReadVaults, Profile, History, ScanInv, Covers, Listed, AfterKeep
  <2>. QED BY <1>a, <2>1
<1>10. ASSUME NEW p \in Proc, PutVaults(p) PROVE ScanInv'
  <2>1. PICK i \in cmd[p].todo : /\ cmd'[p].todo = cmd[p].todo \ {i}
                                 /\ vaults' = [cmd[p].records EXCEPT ![i] = @ + 1]
    BY <1>10, PutVaultsEffect
  <2>2. Listed \cup {i} \subseteq Listed'
    BY <1>0, <1>10, <2>1, PutVaultsEffect DEF Listed, VaultsInv, Adds
  <2>3. /\ cmd[p].pc = "putVaults" /\ cmd'[p].pc = "readVaults" /\ cmd'[p].kind = cmd[p].kind
        /\ cmd'[p].seen = cmd[p].seen /\ active' = active
    BY <1>10, PutVaultsEffect DEF PutVaults
  <2>4. Covers(p)'
    BY <2>1, <2>2, <2>3 DEF ScanInv, Covers
  <2>. QED BY <1>a, <2>4
<1>11. ASSUME NEW p \in Proc, KeepFails(p) PROVE ScanInv'
  <2>1. /\ cmd'[p].kind \in Spending /\ cmd'[p].seen = cmd[p].seen /\ active' = active
        /\ cmd'[p].pc \in {"submit", "done"}
    BY <1>11, KeepFailsEffect DEF KeepFails, AfterKeep
  <2>2. Covers(p)'
    BY <2>1 DEF ScanInv, Covers, Spending
  <2>. QED BY <1>a, <2>2
<1>12. ASSUME NEW p \in Proc, Stop(p) PROVE ScanInv'
  <2>1. Covers(p)'
    BY <1>0, <1>12, StopEffect DEF Stop, Profile, History, ScanInv, Covers, Listed
  <2>. QED BY <1>a, <2>1
<1>13. ASSUME NEW i \in Index, Activity(i) PROVE ScanInv'
  BY <1>13 DEF Activity, Profile, History, ScanInv, Covers, Listed
<1>14. CASE UNCHANGED vars
  BY <1>14 DEF vars, ScanInv, Covers, Listed
<1>. QED BY <1>1, <1>2, <1>3, <1>4, <1>5, <1>6, <1>7, <1>8, <1>9, <1>10, <1>11, <1>12, <1>13, <1>14 DEF Next

LEMMA KeptNext ==
    ASSUME Alone, TypeInv, VaultsInv, UsesInv, KeptInv, [Next]_vars
    PROVE  KeptInv'
<1>0. /\ nextAddress \in Nat /\ vaults \in [Index -> Nat] /\ given \in [Index -> Nat]
      /\ Index \subseteq Nat /\ \A i \in Index : i \in Nat
  BY AccountsAssumption DEF TypeInv, TypeOK, Index
<1>a. ASSUME NEW p \in Proc, Kept(p)' PROVE KeptInv'
  BY <1>a DEF Alone, KeptInv
<1>1. ASSUME NEW p \in Proc, Begin(p) PROVE KeptInv'
  <2>1. Kept(p)'
    BY <1>0, <1>1, BeginEffect DEF Begin, Profile, History, KeptInv, Kept, Listed, Spending
  <2>. QED BY <1>a, <2>1
<1>2. ASSUME NEW p \in Proc, Look(p) PROVE KeptInv'
  <2>1. Kept(p)'
    BY <1>0, <1>2, LookEffect DEF Look, Profile, History, KeptInv, Kept, Listed, Spending, AfterLook
  <2>. QED BY <1>a, <2>1
<1>3. ASSUME NEW p \in Proc, ReadNext(p) PROVE KeptInv'
  <2>1. Kept(p)'
    BY <1>0, <1>3, ReadNextEffect DEF ReadNext, Profile, History, KeptInv, Kept, Listed, Spending
  <2>. QED BY <1>a, <2>1
<1>4. ASSUME NEW p \in Proc, PutNext(p) PROVE KeptInv'
  <2>1. cmd[p].index < nextAddress'
    <3>1. /\ cmd[p].current = nextAddress /\ cmd[p].index \in Index
          /\ nextAddress' = IF cmd[p].index + 1 > cmd[p].current
                            THEN cmd[p].index + 1 ELSE nextAddress
      BY <1>4, PutNextEffect DEF UsesInv, Uses
    <3>2. cmd[p].index \in Nat /\ nextAddress \in Nat
      BY <1>0, <3>1
    <3>. QED BY <3>1, <3>2
  <2>2. cmd'[p].pc \in {"done", "filter"} /\ cmd'[p].index = cmd[p].index
    BY <1>4, PutNextEffect
  <2>3. cmd'[p].pc = "filter" \/ cmd'[p].kind \notin Spending
    BY <1>4, PutNextEffect DEF Spending
  <2>4. Kept(p)'
    BY <2>1, <2>2, <2>3 DEF Kept
  <2>. QED BY <1>a, <2>4
<1>5. ASSUME NEW p \in Proc, Submit(p) PROVE KeptInv'
  <2>1. Kept(p)'
    BY <1>0, <1>5, SubmitEffect DEF Submit, Profile, History, KeptInv, Kept, Listed, Spending
  <2>. QED BY <1>a, <2>1
<1>6. ASSUME NEW p \in Proc, ScanStep(p) PROVE KeptInv'
  <2>1. Kept(p)'
    BY <1>0, <1>6, ScanStepEffect DEF ScanStep, Profile, History, KeptInv, Kept, Listed, Spending
  <2>. QED BY <1>a, <2>1
<1>7. ASSUME NEW p \in Proc, ScanFails(p) PROVE KeptInv'
  <2>1. Kept(p)'
    BY <1>0, <1>7, ScanFailsEffect DEF ScanFails, Profile, History, KeptInv, Kept, Listed, Spending
  <2>. QED BY <1>a, <2>1
<1>8. ASSUME NEW p \in Proc, Filter(p) PROVE KeptInv'
  <2>1. Kept(p)'
    BY <1>0, <1>8, FilterEffect DEF Filter, Profile, History, KeptInv, Kept, Listed, Spending
  <2>. QED BY <1>a, <2>1
<1>9. ASSUME NEW p \in Proc, ReadVaults(p) PROVE KeptInv'
  <2>1. Kept(p)'
    BY <1>0, <1>9, ReadVaultsEffect DEF ReadVaults, Profile, History, KeptInv, Kept, Listed, Spending, AfterKeep
  <2>. QED BY <1>a, <2>1
<1>10. ASSUME NEW p \in Proc, PutVaults(p) PROVE KeptInv'
  <2>1. PICK i \in cmd[p].todo : /\ cmd'[p].todo = cmd[p].todo \ {i}
                                 /\ vaults' = [cmd[p].records EXCEPT ![i] = @ + 1]
    BY <1>10, PutVaultsEffect
  <2>2. Listed \cup {i} \subseteq Listed'
    BY <1>0, <1>10, <2>1, PutVaultsEffect DEF Listed, VaultsInv, Adds
  <2>3. /\ cmd[p].pc = "putVaults" /\ cmd'[p].pc = "readVaults" /\ cmd'[p].kind = cmd[p].kind
        /\ cmd'[p].index = cmd[p].index /\ cmd'[p].warned = cmd[p].warned
        /\ nextAddress' = nextAddress
    BY <1>10, PutVaultsEffect DEF PutVaults
  <2>4. Kept(p)'
    BY <2>1, <2>2, <2>3 DEF KeptInv, Kept
  <2>. QED BY <1>a, <2>4
<1>11. ASSUME NEW p \in Proc, KeepFails(p) PROVE KeptInv'
  <2>1. Kept(p)'
    BY <1>0, <1>11, KeepFailsEffect DEF KeepFails, Profile, History, KeptInv, Kept, Listed, Spending, AfterKeep
  <2>. QED BY <1>a, <2>1
<1>12. ASSUME NEW p \in Proc, Stop(p) PROVE KeptInv'
  <2>1. Kept(p)'
    BY <1>0, <1>12, StopEffect DEF Stop, Profile, History, KeptInv, Kept, Listed, Spending
  <2>. QED BY <1>a, <2>1
<1>13. ASSUME NEW i \in Index, Activity(i) PROVE KeptInv'
  BY <1>13 DEF Activity, Profile, History, KeptInv, Kept, Listed, Spending
<1>14. CASE UNCHANGED vars
  BY <1>14 DEF vars, KeptInv, Kept, Listed, Spending
<1>. QED BY <1>1, <1>2, <1>3, <1>4, <1>5, <1>6, <1>7, <1>8, <1>9, <1>10, <1>11, <1>12, <1>13, <1>14 DEF Next

LEMMA InitSolo == Init => UsesInv /\ VaultsInv /\ ScanInv /\ KeptInv
<1> SUFFICES ASSUME Init PROVE UsesInv /\ VaultsInv /\ ScanInv /\ KeptInv
  OBVIOUS
<1>1. \A p \in Proc : cmd[p].pc = "idle" /\ cmd[p].kind = "peek" /\ cmd[p].seen = active
  BY DEF Init, New
<1>2. UsesInv
  BY <1>1 DEF Init, UsesInv, Uses, NotReused, Unused, ToUse
<1>3. VaultsInv
  BY <1>1 DEF Init, VaultsInv, Adds, OneVaultEach, NoVaults
<1>4. ScanInv /\ KeptInv
  BY <1>1 DEF ScanInv, Covers, KeptInv, Kept, Spending
<1>. QED BY <1>2, <1>3, <1>4

LEMMA SoloInvariant ==
    ASSUME Alone
    PROVE  Spec => [](TypeInv /\ UsesInv /\ VaultsInv /\ ScanInv /\ KeptInv)
<1> DEFINE Solo == TypeInv /\ UsesInv /\ VaultsInv /\ ScanInv /\ KeptInv
<1>1. Init => Solo
  BY InitType, InitSolo
<1>2. Solo /\ [Next]_vars => Solo'
  BY TypeStep, UsesNext, VaultsNext, ScanNext, KeptNext
<1>. QED BY <1>1, <1>2, PTL DEF Spec

(* While one command runs at a time, no address has two uses, whatever     *)
(* stops or fails and whatever happens on chain: what a command takes has  *)
(* none, and the counter is past every address in use but those of an      *)
(* unshield that stopped before it stored its own, or said it did not.     *)
THEOREM AddressesNotReused ==
    ASSUME Alone
    PROVE  Spec => []NotReused
<1>1. UsesInv => NotReused
  BY DEF UsesInv
<1>. QED BY <1>1, SoloInvariant, PTL

(* While one command runs at a time, no address is listed twice: what a    *)
(* command adds it has found missing from the list it writes back.         *)
THEOREM AddressesListedOnce ==
    ASSUME Alone
    PROVE  Spec => []OneVaultEach
<1>1. VaultsInv => OneVaultEach
  BY DEF VaultsInv
<1>. QED BY <1>1, SoloInvariant, PTL

(* A rescan that ends lists every address in use that the batches reach,   *)
(* for any batch size and however activity moves during the scan.          *)
THEOREM RescansAreComplete ==
    ASSUME Alone
    PROVE  Spec => []RescanComplete
<1>1. ScanInv => RescanComplete
  BY DEF ScanInv, Covers, Near, RescanComplete, At
<1>. QED BY <1>1, SoloInvariant, PTL

(* A withdrawal that ends without a warning has stored and listed its      *)
(* address.                                                                *)
THEOREM SpentAddressesKept ==
    ASSUME Alone
    PROVE  Spec => []SpentIsKept
<1>1. KeptInv => SpentIsKept
  BY DEF KeptInv, Kept, SpentIsKept, At
<1>. QED BY <1>1, SoloInvariant, PTL

=============================================================================
