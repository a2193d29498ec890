------------------------------ MODULE Amounts -------------------------------
(***************************************************************************)
(* Amount planning: vault/tornadocash/amount.rs.                           *)
(*                                                                         *)
(* A note and a pool are records with a value.  A pool takes and returns   *)
(* its own denomination only, so an amount is split into denominations to  *)
(* shield it, and made of whole notes to withdraw it.  Asset names and     *)
(* decimals are left out: eth says whether a note or a pool is of ETH.     *)
(***************************************************************************)
EXTENDS Integers, Sequences, SequencesExt, FiniteSetsExt

MaxNotes == 5  \* the notes one shield may create

Total(ns) == FoldLeft(LAMBDA sum, n : sum + n.value, 0, ns)

(* The notes of a sequence that a set holds, in order. *)
Kept(ns, set) ==
    FoldLeft(LAMBDA kept, n : IF n \in set THEN Append(kept, n) ELSE kept, <<>>, ns)
OfKind(ns, eth) == Kept(ns, {n \in Range(ns) : n.eth = eth})

(* Largest first; equal values keep their order. *)
LargestFirst(ns) ==
    FoldLeft(LAMBDA sorted, n :
               LET larger == Cardinality({i \in DOMAIN sorted : sorted[i].value >= n.value})
               IN  InsertAt(sorted, larger + 1, n),
             <<>>, ns)

-----------------------------------------------------------------------------
(* Shielding. *)

UnsortedPools(pools, eth, classic) ==
    Kept(pools, {p \in Range(pools) : p.eth = eth /\ (classic => p.canonical)})
AssetPools(pools, eth, classic) ==
    LargestFirst(Kept(pools, {p \in Range(pools) : p.eth = eth /\ (classic => p.canonical)}))

(* Greedily, largest first.  The rest that no pool takes is an error, and so *)
(* is a sixth note, reported as no pools at all.                             *)
DepositPools(amount, pools) ==
    LET Take(plan, p) ==
            LET pieces == plan.rest \div p.value
                count  == plan.count + pieces
            IN  IF plan.count > MaxNotes THEN plan
                ELSE [rest   |-> plan.rest - p.value * pieces,
                      count  |-> count,
                      chosen |-> plan.chosen \o [i \in 1 .. pieces |-> p]]
        plan == FoldLeft(Take, [rest |-> amount, count |-> 0, chosen |-> <<>>], pools)
    IN  IF plan.rest = 0 /\ plan.count <= MaxNotes THEN plan.chosen ELSE <<>>

(* A list of denominations instead of an amount: each must be a pool's. *)
NamedPools(values, pools) ==
    LET Of(v) == Kept(pools, {p \in Range(pools) : p.value = v})
    IN  IF Len(values) <= MaxNotes /\ \A i \in DOMAIN values : Of(values[i]) # <<>>
        THEN [i \in DOMAIN values |-> Of(values[i])[1]]
        ELSE <<>>

-----------------------------------------------------------------------------
(* Withdrawing.  No notes stand for the answer that there are none. *)

BetterByCount(cover, chosen, best) == best = <<>> \/ Len(chosen) < Len(best)
Better(cover, chosen, best) ==
    \/ best = <<>>
    \/ ~cover /\ Len(chosen) < Len(best)
    \/ cover /\ Total(chosen) < Total(best)
    \/ cover /\ Total(chosen) = Total(best) /\ Len(chosen) < Len(best)

CeilDiv(a, b) == (a + b - 1) \div b

Hopeless(cover, rest, remaining, chosen, best) ==
    \/ rest = <<>> \/ Total(rest) < remaining
    \/ /\ best # <<>>
       /\ \/ cover /\ Total(chosen) >= Total(best)
          \/ ~cover /\ Len(chosen) >= Len(best)
          \/ ~cover /\ CeilDiv(remaining, rest[1].value) > Len(best) - Len(chosen)

(* How many notes of the largest denomination left are worth taking. *)
Wanted(cover, remaining, unit) ==
    remaining \div unit + (IF cover /\ remaining % unit # 0 THEN 1 ELSE 0)

(* The search over denominations, from as many notes of each as are wanted *)
(* down to none.                                                           *)
Points(notes, amount) ==
    [start : 1 .. Len(notes) + 1, remaining : 0 .. amount,
     chosen : Seq(Range(notes)), best : Seq(Range(notes))]

SelectNotes(notes, amount, cover) ==
    LET S[p \in Points(notes, amount)] ==
            LET rest  == SubSeq(notes, p.start, Len(notes))
                unit  == rest[1].value
                equal == Cardinality({i \in DOMAIN rest : rest[i].value = unit})
                most  == Min({Wanted(cover, p.remaining, unit), equal})
                Try(b, k) == S[[start     |-> p.start + equal,
                                remaining |-> Max({p.remaining - unit * k, 0}),
                                chosen    |-> p.chosen \o SubSeq(rest, 1, k), best |-> b]]
            IN  CASE p.remaining = 0 ->
                       IF Better(cover, p.chosen, p.best) THEN p.chosen ELSE p.best
                  [] p.remaining # 0 /\ Hopeless(cover, rest, p.remaining, p.chosen, p.best) -> p.best
                  [] OTHER -> FoldLeft(Try, p.best, [i \in 1 .. most + 1 |-> most + 1 - i])
    IN  S[[start |-> 1, remaining |-> amount, chosen |-> <<>>, best |-> <<>>]]

OfAsset(notes, eth) == LargestFirst(OfKind(notes, eth))

ExactNotes(amount, notes, eth) == SelectNotes(OfAsset(notes, eth), amount, FALSE)
CoverNotes(amount, notes) == SelectNotes(OfAsset(notes, TRUE), amount, TRUE)

(* An ETH withdrawal is sponsored by a note it selects anyway; any other by *)
(* the smallest ETH note with a paymaster.                                  *)
Sponsors(ns) == {i \in DOMAIN ns : ns[i].eth /\ ns[i].paymaster}

Swapped(ns, i) ==
    [j \in DOMAIN ns |-> IF j = 1 THEN ns[i] ELSE IF j = i THEN ns[1] ELSE ns[j]]

WithdrawalNotes(amount, notes, eth) ==
    LET selected == ExactNotes(amount, notes, eth)
        smallest == {i \in Sponsors(notes) :
                       \A j \in Sponsors(notes) : notes[i].value <= notes[j].value}
    IN  CASE selected = <<>> -> <<>>
          [] selected # <<>> /\ eth ->
               IF Sponsors(selected) = {} THEN <<>>
               ELSE Swapped(selected, Min(Sponsors(selected)))
          [] OTHER ->
               IF smallest = {} THEN <<>> ELSE <<notes[Min(smallest)]>> \o selected

-----------------------------------------------------------------------------
(* What the searches promise, stated without them. *)

Sums(notes) == {[sum |-> MapThenSumSet(LAMBDA i : notes[i].value, chosen),
                 count |-> Cardinality(chosen)] : chosen \in SUBSET DOMAIN notes}

FewestWithSum(amount, notes, chosen) ==
    LET exact == {s \in Sums(notes) : s.sum = amount}
    IN  IF exact = {} THEN chosen = <<>>
        ELSE Total(chosen) = amount /\ Len(chosen) = Min({s.count : s \in exact})

LeastCover(amount, notes, chosen) ==
    LET covers == {s \in Sums(notes) : s.sum >= amount}
        least  == Min({s.sum : s \in covers})
    IN  IF covers = {} THEN chosen = <<>>
        ELSE /\ Total(chosen) = least
             /\ Len(chosen) = Min({s.count : s \in {c \in covers : c.sum = least}})

(* No note is chosen more often than it is listed: of a list that has every *)
(* note once, the chosen notes are distinct.                                *)
Times(n, ns) == Cardinality({i \in DOMAIN ns : ns[i] = n})
Drawn(chosen, notes) == \A n \in Range(chosen) : Times(n, chosen) <= Times(n, notes)
=============================================================================
