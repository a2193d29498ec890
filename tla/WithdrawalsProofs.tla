------------------------- MODULE WithdrawalsProofs -------------------------
(***************************************************************************)
(* What holds of withdrawals for any wallets, requests, gas estimates and  *)
(* number of bundlers.  An operation is sound from the quote it settles    *)
(* with to its receipt: its notes suit what it withdraws, its fee covers   *)
(* its gas, and what it pays is what its notes hold.  That rests on the    *)
(* selection answering with notes of the asset, which is shown first: the  *)
(* searches are recursive functions and folds, and the facts about them    *)
(* come from induction over the notes that are left.                       *)
(***************************************************************************)
EXTENDS Withdrawals, SequenceTheorems, FiniteSetTheorems, WellFoundedInduction, TLAPS

-----------------------------------------------------------------------------
(* Sets of natural numbers have least elements, bounded ones have greatest, *)
(* and one closed under successors holds every number from its first one   *)
(* on: induction over {n \in Nat : P(n)} is induction for P.               *)
OrderOn(S) == OpToRel(<, S)

LEMMA OrderPairs == \A x, y \in Nat : <<x, y>> \in OrderOn(Nat) <=> x < y
BY Zenon DEF OrderOn, OpToRel

LEMMA OrderWellFounded == IsWellFoundedOn(OrderOn(Nat), Nat)
BY NatLessThanWellFounded, Zenon DEF OrderOn

LEMMA LeastElement ==
    ASSUME NEW S \in SUBSET Nat, S # {}
    PROVE  \E m \in S : \A n \in S : m <= n
<1>1. PICK m \in S : \A n \in S : <<n, m>> \notin OrderOn(Nat)
  BY OrderWellFounded, WFMin
<1>2. \A n \in S : ~ (n < m)
  BY <1>1, OrderPairs
<1>. QED BY <1>2

LEMMA GreatestElement ==
    ASSUME NEW k \in Nat, NEW S \in SUBSET (0 .. k), S # {}
    PROVE  \E m \in S : \A n \in S : n <= m
<1> DEFINE T == {k - n : n \in S}
<1>1. T \in SUBSET Nat /\ T # {}
  <2>1. \A n \in S : k - n \in Nat
    OBVIOUS
  <2>2. PICK n \in S : TRUE
    OBVIOUS
  <2>3. k - n \in T
    BY <2>2
  <2>. QED BY <2>1, <2>3, Zenon
<1>2. PICK d \in T : \A e \in T : d <= e
  <2> HIDE DEF T
  <2>. QED BY <1>1, LeastElement
<1>3. PICK m \in S : d = k - m
  OBVIOUS
<1>4. \A n \in S : k - m <= k - n
  BY <1>2, <1>3
<1>. QED BY <1>4

LEMMA UpwardClosed ==
    ASSUME NEW a \in Nat, NEW S \in SUBSET Nat, a \in S,
           \A n \in S : n >= a => n + 1 \in S
    PROVE  \A n \in Nat : n >= a => n \in S
<1> DEFINE T == {n \in Nat : n >= a /\ n \notin S}
<1>1. SUFFICES ASSUME T # {} PROVE FALSE
  OBVIOUS
<1>2. PICK m \in T : \A n \in T : m <= n
  BY <1>1, LeastElement
<1>3. m - 1 \in Nat /\ m - 1 >= a /\ m - 1 \notin T
  BY <1>2
<1>. QED BY <1>2, <1>3

-----------------------------------------------------------------------------
(* Folds.  FoldLeft is a function, picked by CHOOSE, on the sets of indices. *)

(* FoldLeft goes through the subsets of the indices, from the whole set down. *)
LEMMA Greatest ==
    ASSUME NEW n \in Nat, NEW s \in SUBSET (1 .. n), s # {}
    PROVE  /\ Max(s) \in s /\ \A i \in s : i <= Max(s)
           /\ s \ {Max(s)} \in SUBSET (1 .. n)
<1>1. s \in SUBSET (0 .. n)
  OBVIOUS
<1>2. PICK m \in s : \A i \in s : i <= m
  BY <1>1, GreatestElement
<1>3. \A i \in s : m >= i
  BY <1>2
<1>4. Max(s) = CHOOSE x \in s : \A y \in s : x >= y
  BY DEF Max
<1>5. Max(s) \in s /\ \A y \in s : Max(s) >= y
  BY <1>2, <1>3, <1>4
<1>6. QED
  BY <1>5

(* The greatest of the first indices is the last of them. *)
LEMMA GreatestOfPrefix ==
    ASSUME NEW k \in Nat, k >= 1
    PROVE  Max(1 .. k) = k /\ (1 .. k) \ {k} = 1 .. k - 1
<1>1. k \in 1 .. k /\ 1 .. k # {} /\ 1 .. k \in SUBSET (1 .. k)
  OBVIOUS
<1>2. Max(1 .. k) \in 1 .. k /\ k <= Max(1 .. k)
  BY <1>1, Greatest
<1>3. QED
  BY <1>2

(* it folds base over the sets of the first n indices; h[i] takes index i. *)
Folding(it, n, base, h) ==
    it = [s \in SUBSET (1 .. n) |->
            IF s = {} THEN base ELSE h[Max(s)][it[s \ {Max(s)}]]]

(* There is such a fold, and it stays where h leads: FoldLeft chooses one. *)
LEMMA FoldingExists ==
    ASSUME NEW A, NEW base \in A, NEW n \in Nat, NEW h \in [1 .. n -> [A -> A]]
    PROVE  \E it \in [SUBSET (1 .. n) -> A] : Folding(it, n, base, h)
<1> DEFINE S == {k \in Nat : k <= n => \E it \in [SUBSET (1 .. k) -> A] : Folding(it, k, base, h)}
<1>1. 0 \in S
  <2> DEFINE it == [s \in SUBSET (1 .. 0) |-> base]
  <2>1. it \in [SUBSET (1 .. 0) -> A]
    OBVIOUS
  <2>2. \A s \in SUBSET (1 .. 0) : s = {}
    OBVIOUS
  <2>3. it = [s \in SUBSET (1 .. 0) |->
          IF s = {} THEN base ELSE h[Max(s)][it[s \ {Max(s)}]]]
    BY <2>2
  <2>4. Folding(it, 0, base, h)
    <3> HIDE DEF it
    <3> QED BY <2>3 DEF Folding
  <2>5. QED
    BY <2>1, <2>4
<1>2. ASSUME NEW k \in S, k >= 0 PROVE k + 1 \in S
  <2> SUFFICES ASSUME k + 1 <= n
               PROVE  \E it \in [SUBSET (1 .. k + 1) -> A] : Folding(it, k + 1, base, h)
    <3>1. k + 1 \in Nat
      OBVIOUS
    <3>2. QED
      BY <3>1
  <2>0. k \in Nat /\ k <= n
    <3>1. k \in Nat
      OBVIOUS
    <3>2. QED
      BY <3>1
  <2>1. PICK f \in [SUBSET (1 .. k) -> A] : Folding(f, k, base, h)
    BY <2>0
  <2> DEFINE g == [s \in SUBSET (1 .. k + 1) |->
                     IF k + 1 \in s THEN h[k + 1][f[s \ {k + 1}]] ELSE f[s]]
  <2>2. ASSUME NEW s \in SUBSET (1 .. k + 1)
        PROVE  /\ k + 1 \in s => s \ {k + 1} \in SUBSET (1 .. k)
               /\ k + 1 \notin s => s \in SUBSET (1 .. k)
    OBVIOUS
  <2>3. h[k + 1] \in [A -> A]
    OBVIOUS
  <2>4. g \in [SUBSET (1 .. k + 1) -> A]
    <3>1. ASSUME NEW s \in SUBSET (1 .. k + 1)
          PROVE  (IF k + 1 \in s THEN h[k + 1][f[s \ {k + 1}]] ELSE f[s]) \in A
      BY <2>1, <2>2, <2>3
    <3>2. QED
      BY <3>1
  <2>5. ASSUME NEW s \in SUBSET (1 .. k + 1)
        PROVE  g[s] = IF s = {} THEN base ELSE h[Max(s)][g[s \ {Max(s)}]]
    <3>1. CASE k + 1 \in s
      <4>1. k + 1 \in Nat /\ s # {}
        BY <3>1
      <4>2. Max(s) \in s /\ \A i \in s : i <= Max(s)
        BY <4>1, Greatest
      <4>3. Max(s) = k + 1
        <5>1. k \in Nat /\ Max(s) \in 1 .. k + 1 /\ k + 1 <= Max(s)
          BY <2>0, <3>1, <4>2
        <5>2. QED
          BY <5>1
      <4>4. s \ {k + 1} \in SUBSET (1 .. k + 1) /\ k + 1 \notin s \ {k + 1}
        OBVIOUS
      <4>5. g[s \ {k + 1}] = f[s \ {k + 1}]
        BY <4>4
      <4>6. QED
        BY <3>1, <4>1, <4>3, <4>5
    <3>2. CASE k + 1 \notin s /\ s # {}
      <4>1. s \in SUBSET (1 .. k)
        BY <2>2, <3>2
      <4>2. Max(s) \in s /\ s \ {Max(s)} \in SUBSET (1 .. k)
        BY <3>2, <4>1, Greatest
      <4>3. s \ {Max(s)} \in SUBSET (1 .. k + 1) /\ k + 1 \notin s \ {Max(s)}
        BY <3>2
      <4>4. g[s] = f[s] /\ g[s \ {Max(s)}] = f[s \ {Max(s)}]
        BY <3>2, <4>3
      <4>5. f[s] = h[Max(s)][f[s \ {Max(s)}]]
        BY <2>1, <3>2, <4>1 DEF Folding
      <4>6. QED
        BY <3>2, <4>4, <4>5
    <3>3. CASE s = {}
      BY <2>1, <3>3 DEF Folding
    <3>4. QED
      BY <3>1, <3>2, <3>3
  <2>6. g = [s \in SUBSET (1 .. k + 1) |->
               IF s = {} THEN base ELSE h[Max(s)][g[s \ {Max(s)}]]]
    BY <2>5
  <2>7. Folding(g, k + 1, base, h)
    <3> HIDE DEF g
    <3> QED BY <2>6 DEF Folding
  <2>8. QED
    BY <2>4, <2>7
<1>3. \A k \in Nat : k >= 0 => k \in S
  <2> HIDE DEF S
  <2>1. S \in SUBSET Nat
    BY DEF S
  <2>2. QED
    BY <1>1, <1>2, <2>1, UpwardClosed
<1>4. n \in S
  <2> HIDE DEF S
  <2>1. n >= 0
    OBVIOUS
  <2>2. QED
    BY <1>3, <2>1
<1>5. n <= n
  OBVIOUS
<1>6. QED
  BY <1>4, <1>5

(* it folds base by h as long as that stays within A. *)
Folds(it, n, A, base, h) ==
    /\ it[{}] = base
    /\ \A s \in SUBSET (1 .. n) : s # {} /\ it[s \ {Max(s)}] \in A =>
         it[s] = h[Max(s)][it[s \ {Max(s)}]]

(* A fold goes through the prefixes of the indices, one step each. *)
LEMMA FoldingSteps ==
    ASSUME NEW A, NEW base \in A, NEW n \in Nat, NEW h \in [1 .. n -> [A -> A]], NEW it,
           Folds(it, n, A, base, h)
    PROVE  /\ \A k \in 0 .. n : it[1 .. k] \in A
           /\ \A k \in 1 .. n : it[1 .. k] = h[k][it[1 .. k - 1]]
<1> DEFINE S == {k \in Nat : k <= n => it[1 .. k] \in A}
<1>0. 0 \in S
  <2>1. 1 .. 0 = {}
    OBVIOUS
  <2>2. QED
    BY <2>1 DEF Folds
<1>1. ASSUME NEW k \in 1 .. n, it[1 .. k - 1] \in A
      PROVE  it[1 .. k] = h[k][it[1 .. k - 1]]
  <2>1. k \in Nat /\ k >= 1 /\ 1 .. k \in SUBSET (1 .. n) /\ 1 .. k # {}
    <3>1. k \in Nat /\ k >= 1 /\ k <= n
      OBVIOUS
    <3>2. 1 \in 1 .. k /\ \A i \in 1 .. k : i \in 1 .. n
      BY <3>1
    <3>3. QED
      BY <3>1, <3>2
  <2>2. Max(1 .. k) = k /\ (1 .. k) \ {k} = 1 .. k - 1
    BY <2>1, GreatestOfPrefix
  <2>3. QED
    BY <1>1, <2>1, <2>2 DEF Folds
<1>2. ASSUME NEW k \in S, k >= 0 PROVE k + 1 \in S
  <2>1. k \in Nat /\ k + 1 \in Nat /\ (k + 1) - 1 = k
    OBVIOUS
  <2>2. CASE k + 1 <= n
    <3>1. k <= n /\ k + 1 \in 1 .. n
      BY <2>1, <2>2
    <3>2. it[1 .. k] \in A
      BY <3>1
    <3>3. it[1 .. k + 1] = h[k + 1][it[1 .. k]]
      BY <1>1, <2>1, <3>1, <3>2
    <3>4. h[k + 1] \in [A -> A]
      BY <3>1
    <3>5. QED
      BY <2>1, <3>2, <3>3, <3>4
  <2>3. QED
    BY <2>1, <2>2
<1>3. \A k \in Nat : k >= 0 => k \in S
  <2> HIDE DEF S
  <2>1. S \in SUBSET Nat
    BY DEF S
  <2>2. QED
    BY <1>0, <1>2, <2>1, UpwardClosed
<1>4. \A k \in 0 .. n : it[1 .. k] \in A
  <2>1. \A k \in 0 .. n : k \in Nat /\ k >= 0 /\ k <= n
    OBVIOUS
  <2>2. QED
    BY <1>3, <2>1
<1>5. ASSUME NEW k \in 1 .. n PROVE it[1 .. k] = h[k][it[1 .. k - 1]]
  <2>1. k - 1 \in 0 .. n
    OBVIOUS
  <2>2. QED
    BY <1>1, <1>4, <2>1
<1>6. QED
  BY <1>4, <1>5

(* What a fold ends with. *)
LEMMA FoldingResult ==
    ASSUME NEW A, NEW base \in A, NEW n \in Nat, NEW h \in [1 .. n -> [A -> A]], NEW it,
           Folds(it, n, A, base, h)
    PROVE  it[1 .. n] \in A
<1>1. \A k \in 0 .. n : it[1 .. k] \in A
  BY FoldingSteps
<1>2. n \in 0 .. n
  OBVIOUS
<1>3. QED
  BY <1>1, <1>2

(* Two folds of the same steps end the same way. *)
LEMMA FoldsAgree ==
    ASSUME NEW A, NEW base \in A, NEW n \in Nat, NEW h \in [1 .. n -> [A -> A]],
           NEW it, Folds(it, n, A, base, h), NEW other, Folds(other, n, A, base, h)
    PROVE  it[1 .. n] = other[1 .. n]
<1> DEFINE S == {k \in Nat : k <= n => it[1 .. k] = other[1 .. k]}
<1>1. 0 \in S
  <2>1. 1 .. 0 = {}
    OBVIOUS
  <2>2. QED
    BY <2>1 DEF Folds
<1>2. \A k \in 1 .. n : it[1 .. k] = h[k][it[1 .. k - 1]] /\ other[1 .. k] = h[k][other[1 .. k - 1]]
  BY FoldingSteps
<1>3. ASSUME NEW k \in S, k >= 0 PROVE k + 1 \in S
  <2>1. k \in Nat /\ k + 1 \in Nat /\ (k + 1) - 1 = k
    OBVIOUS
  <2>2. CASE k + 1 <= n
    <3>1. k <= n /\ k + 1 \in 1 .. n
      BY <2>1, <2>2
    <3>2. it[1 .. k] = other[1 .. k]
      BY <3>1
    <3>3. it[1 .. k + 1] = h[k + 1][it[1 .. k]] /\ other[1 .. k + 1] = h[k + 1][other[1 .. k]]
      BY <1>2, <2>1, <3>1
    <3>4. QED
      BY <2>1, <3>2, <3>3
  <2>3. QED
    BY <2>1, <2>2
<1>4. \A k \in Nat : k >= 0 => k \in S
  <2> HIDE DEF S
  <2>1. S \in SUBSET Nat
    BY DEF S
  <2>2. QED
    BY <1>1, <1>3, <2>1, UpwardClosed
<1>5. n \in S
  <2> HIDE DEF S
  <2>1. n >= 0
    OBVIOUS
  <2>2. QED
    BY <1>4, <2>1
<1>6. n <= n
  OBVIOUS
<1>7. QED
  BY <1>5, <1>6

-----------------------------------------------------------------------------
(* Sums. *)

IsTotal(it, ns) ==
    it = [s \in SUBSET DOMAIN ns |-> IF s = {} THEN 0 ELSE it[s \ {Max(s)}] + ns[Max(s)].value]

(* A sum of amounts is an amount. *)
LEMMA TotalNatural ==
    ASSUME NEW N, \A x \in N : x.value \in Nat, NEW ns \in Seq(N)
    PROVE  Total(ns) \in Nat
<1>1. PICK n \in Nat : n = Len(ns) /\ DOMAIN ns = 1 .. n
  OBVIOUS
<1>2. \A i \in 1 .. n : ns[i].value \in Nat
  BY <1>1
<1> DEFINE h == [i \in 1 .. n |-> [a \in Nat |-> a + ns[i].value]]
<1>3. h \in [1 .. n -> [Nat -> Nat]]
  BY <1>2
<1>4. 0 \in Nat /\ \A i \in 1 .. n : \A a \in Nat : h[i][a] = a + ns[i].value
  OBVIOUS
<1> HIDE DEF h
<1>5. PICK f \in [SUBSET (1 .. n) -> Nat] : Folding(f, n, 0, h)
  BY <1>3, <1>4, FoldingExists
<1>6. \A s \in SUBSET (1 .. n) : s # {} => Max(s) \in 1 .. n /\ s \ {Max(s)} \in SUBSET (1 .. n)
  BY Greatest
<1>7. IsTotal(f, ns)
  BY <1>1, <1>4, <1>5, <1>6 DEF IsTotal, Folding
<1>8. PICK it : IsTotal(it, ns) /\ Total(ns) = it[DOMAIN ns]
  BY <1>7 DEF Total, FoldLeft, MapThenFoldSet, IsTotal
<1>9. Folds(it, n, Nat, 0, h)
  <2>1. it = [s \in SUBSET (1 .. n) |->
                IF s = {} THEN 0 ELSE it[s \ {Max(s)}] + ns[Max(s)].value]
    BY <1>1, <1>8 DEF IsTotal
  <2>2. it[{}] = 0
    BY <2>1
  <2>3. ASSUME NEW s \in SUBSET (1 .. n), s # {}, it[s \ {Max(s)}] \in Nat
        PROVE  it[s] = h[Max(s)][it[s \ {Max(s)}]]
    <3>1. it[s] = it[s \ {Max(s)}] + ns[Max(s)].value
      BY <2>1, <2>3
    <3>2. QED
      BY <1>4, <1>6, <2>3, <3>1
  <2>4. QED
    BY <2>2, <2>3 DEF Folds
<1>10. it[1 .. n] \in Nat
  <2>1. \A k \in 0 .. n : it[1 .. k] \in Nat
    BY <1>3, <1>4, <1>9, FoldingSteps
  <2>2. n \in 0 .. n
    OBVIOUS
  <2>3. QED
    BY <2>1, <2>2
<1>11. QED
  BY <1>1, <1>8, <1>10

-----------------------------------------------------------------------------
(* Filtering and sorting. *)

(* Sequences over a smaller set are sequences over a larger one. *)
LEMMA SeqOfSubset ==
    ASSUME NEW S, NEW T, S \subseteq T, NEW s \in Seq(S)
    PROVE  s \in Seq(T)
<1>1. \A i \in 1 .. Len(s) : s[i] \in T
  OBVIOUS
<1>2. QED
  BY <1>1

(* The notes a set holds. *)

IsKept(it, ns, set) ==
    it = [s \in SUBSET DOMAIN ns |->
            IF s = {} THEN <<>>
            ELSE IF ns[Max(s)] \in set THEN Append(it[s \ {Max(s)}], ns[Max(s)])
                 ELSE it[s \ {Max(s)}]]

(* What has been kept of the first k notes. *)
KeptOf(acc, ns, set) ==
    /\ acc[0] = <<>>
    /\ \A k \in 1 .. Len(ns) :
         acc[k] = IF ns[k] \in set THEN Append(acc[k - 1], ns[k]) ELSE acc[k - 1]

(* Kept goes through the notes one by one. *)
LEMMA KeptSteps ==
    ASSUME NEW N, NEW ns \in Seq(N), NEW set
    PROVE  \E acc \in [0 .. Len(ns) -> Seq(set)] :
              KeptOf(acc, ns, set) /\ Kept(ns, set) = acc[Len(ns)]
<1>1. PICK n \in Nat : n = Len(ns) /\ DOMAIN ns = 1 .. n
  OBVIOUS
<1>2. \A i \in 1 .. n : ns[i] \in N
  BY <1>1
<1> DEFINE K == set
           A == Seq(K)
           h == [i \in 1 .. n |-> [a \in A |-> IF ns[i] \in set THEN Append(a, ns[i]) ELSE a]]
<1>3. h \in [1 .. n -> [A -> A]]
  <2>1. ASSUME NEW i \in 1 .. n, NEW a \in A
        PROVE  (IF ns[i] \in set THEN Append(a, ns[i]) ELSE a) \in A
    <3>1. CASE ns[i] \in set
      <4>1. ns[i] \in K
        BY <1>2, <3>1
      <4>2. Append(a, ns[i]) \in Seq(K)
        <5> HIDE DEF K
        <5>. QED BY <4>1
      <4>3. QED
        BY <3>1, <4>2
    <3>2. QED
      BY <3>1
  <2>2. QED
    <3> HIDE DEF A
    <3>. QED BY <2>1
<1>4. <<>> \in A /\ \A i \in 1 .. n : \A a \in A :
        h[i][a] = IF ns[i] \in set THEN Append(a, ns[i]) ELSE a
  <2>1. <<>> \in A
    <3> HIDE DEF K
    <3>. QED OBVIOUS
  <2>2. QED
    <3> HIDE DEF A
    <3>. QED BY <2>1
<1> HIDE DEF h, A
<1>5. PICK f \in [SUBSET (1 .. n) -> A] : Folding(f, n, <<>>, h)
  BY <1>3, <1>4, FoldingExists
<1>6. \A s \in SUBSET (1 .. n) : s # {} => Max(s) \in 1 .. n /\ s \ {Max(s)} \in SUBSET (1 .. n)
  BY Greatest
<1>7. IsKept(f, ns, set)
  <2>1. ASSUME NEW s \in SUBSET (1 .. n)
        PROVE  f[s] = IF s = {} THEN <<>>
                      ELSE IF ns[Max(s)] \in set THEN Append(f[s \ {Max(s)}], ns[Max(s)])
                           ELSE f[s \ {Max(s)}]
    <3>1. f[s] = IF s = {} THEN <<>> ELSE h[Max(s)][f[s \ {Max(s)}]]
      BY <1>5 DEF Folding
    <3>2. s # {} => Max(s) \in 1 .. n /\ f[s \ {Max(s)}] \in A
      BY <1>6
    <3>3. QED
      BY <1>4, <3>1, <3>2
  <2>2. f = [s \in SUBSET (1 .. n) |->
               IF s = {} THEN <<>>
               ELSE IF ns[Max(s)] \in set THEN Append(f[s \ {Max(s)}], ns[Max(s)])
                    ELSE f[s \ {Max(s)}]]
    BY <2>1
  <2>3. QED
    BY <1>1, <2>2 DEF IsKept
<1>8. PICK it : IsKept(it, ns, set) /\ Kept(ns, set) = it[DOMAIN ns]
  BY <1>7 DEF Kept, FoldLeft, MapThenFoldSet, IsKept
<1>9. Folds(it, n, A, <<>>, h)
  <2>1. it = [s \in SUBSET (1 .. n) |->
                IF s = {} THEN <<>>
                ELSE IF ns[Max(s)] \in set THEN Append(it[s \ {Max(s)}], ns[Max(s)])
                     ELSE it[s \ {Max(s)}]]
    BY <1>1, <1>8 DEF IsKept
  <2>2. it[{}] = <<>>
    BY <2>1
  <2>3. ASSUME NEW s \in SUBSET (1 .. n), s # {}, it[s \ {Max(s)}] \in A
        PROVE  it[s] = h[Max(s)][it[s \ {Max(s)}]]
    <3>1. it[s] = IF ns[Max(s)] \in set THEN Append(it[s \ {Max(s)}], ns[Max(s)])
                  ELSE it[s \ {Max(s)}]
      BY <2>1, <2>3
    <3>2. QED
      BY <1>4, <1>6, <2>3, <3>1
  <2>4. QED
    BY <2>2, <2>3 DEF Folds
<1>10. /\ \A k \in 0 .. n : it[1 .. k] \in A
       /\ \A k \in 1 .. n : it[1 .. k] = h[k][it[1 .. k - 1]]
  BY <1>3, <1>4, <1>9, FoldingSteps
<1> DEFINE acc == [k \in 0 .. n |-> it[1 .. k]]
<1>11. acc \in [0 .. n -> A] /\ acc[n] = it[1 .. n]
  BY <1>10
<1>12. acc[0] = <<>>
  <2>1. 1 .. 0 = {}
    OBVIOUS
  <2>2. QED
    BY <1>9, <2>1 DEF Folds
<1>13. ASSUME NEW k \in 1 .. n
       PROVE  acc[k] = IF ns[k] \in set THEN Append(acc[k - 1], ns[k]) ELSE acc[k - 1]
  <2>1. k \in 0 .. n /\ k - 1 \in 0 .. n
    OBVIOUS
  <2>2. acc[k] = it[1 .. k] /\ acc[k - 1] = it[1 .. k - 1] /\ it[1 .. k - 1] \in A
    BY <1>10, <2>1
  <2>3. QED
    BY <1>4, <1>10, <2>2
<1> HIDE DEF acc
<1>14. KeptOf(acc, ns, set)
  BY <1>1, <1>12, <1>13 DEF KeptOf
<1>15. Kept(ns, set) = acc[n]
  BY <1>1, <1>8, <1>11
<1>16. QED
  BY <1>1, <1>11, <1>14, <1>15 DEF A

(* What is kept is in the set. *)
LEMMA KeptIsDrawn ==
    ASSUME NEW N, NEW ns \in Seq(N), NEW set
    PROVE  Kept(ns, set) \in Seq(set)
<1>1. PICK n \in Nat : n = Len(ns) /\ n \in 0 .. n
  OBVIOUS
<1>2. QED
  BY <1>1, KeptSteps

(* The notes of a kind are of that kind. *)
LEMMA KindKept ==
    ASSUME NEW N, NEW ns \in Seq(N), NEW eth
    PROVE  OfKind(ns, eth) \in Seq({x \in N : x.eth = eth})
<1>1. PICK K : K = {x \in Range(ns) : x.eth = eth}
  OBVIOUS
<1>2. OfKind(ns, eth) \in Seq(K)
  BY <1>1, KeptIsDrawn DEF OfKind
<1>3. K \subseteq {x \in N : x.eth = eth}
  BY <1>1 DEF Range
<1>4. QED
  BY <1>2, <1>3, SeqOfSubset

(* What all belongs to the set is kept. *)
LEMMA KeptWhole ==
    ASSUME NEW N, NEW ns \in Seq(N), NEW set, \A i \in DOMAIN ns : ns[i] \in set
    PROVE  Kept(ns, set) = ns
<1>1. PICK n \in Nat : n = Len(ns) /\ DOMAIN ns = 1 .. n
  OBVIOUS
<1>2. PICK acc \in [0 .. n -> Seq(set)] :
        KeptOf(acc, ns, set) /\ Kept(ns, set) = acc[n]
  BY <1>1, KeptSteps
<1>4. acc[0] = <<>> /\ \A k \in 1 .. n : acc[k] = Append(acc[k - 1], ns[k]) /\ ns[k] \in set
  <2>1. \A k \in 1 .. n : ns[k] \in set /\ ns[k] \in set
    BY <1>1
  <2>2. QED
    BY <1>1, <1>2, <2>1 DEF KeptOf
<1> DEFINE S == {k \in Nat : k <= n => Len(acc[k]) = k /\ \A i \in 1 .. k : acc[k][i] = ns[i]}
<1>5. 0 \in S
  BY <1>4
<1>6. ASSUME NEW k \in S, k >= 0 PROVE k + 1 \in S
  <2>1. k \in Nat /\ k + 1 \in Nat /\ (k + 1) - 1 = k
    OBVIOUS
  <2>2. CASE k + 1 <= n
    <3>1. k <= n /\ k + 1 \in 1 .. n /\ k \in 0 .. n
      BY <2>1, <2>2
    <3>2. Len(acc[k]) = k /\ \A i \in 1 .. k : acc[k][i] = ns[i]
      BY <3>1
    <3>3. PICK s \in Seq(set), x \in set : s = acc[k] /\ x = ns[k + 1]
      BY <1>2, <1>4, <3>1
    <3>4. acc[k + 1] = Append(s, x)
      BY <1>4, <2>1, <3>1, <3>3
    <3>5. Len(Append(s, x)) = k + 1 /\ \A i \in 1 .. k + 1 : Append(s, x)[i] = ns[i]
      <4>1. Len(s) = k /\ \A i \in 1 .. k : s[i] = ns[i]
        BY <3>2, <3>3
      <4>2. Len(Append(s, x)) = k + 1 /\ Append(s, x)[k + 1] = x
            /\ \A i \in 1 .. k : Append(s, x)[i] = s[i]
        <5> HIDE DEF S
        <5>. QED BY <2>1, <4>1, AppendProperties
      <4>3. \A i \in 1 .. k + 1 : i \in 1 .. k \/ i = k + 1
        BY <2>1
      <4>4. QED
        BY <3>3, <4>1, <4>2, <4>3
    <3>6. QED
      BY <2>1, <3>4, <3>5
  <2>3. QED
    BY <2>1, <2>2
<1>7. \A k \in Nat : k >= 0 => k \in S
  <2> HIDE DEF S
  <2>1. S \in SUBSET Nat
    BY DEF S
  <2>2. QED
    BY <1>5, <1>6, <2>1, UpwardClosed
<1>8. Len(acc[n]) = n /\ \A i \in 1 .. n : acc[n][i] = ns[i]
  <2>1. n >= 0 /\ n <= n
    OBVIOUS
  <2>2. QED
    BY <1>7, <2>1
<1>9. PICK s \in Seq(set) : s = acc[n]
  <2>1. n \in 0 .. n
    OBVIOUS
  <2>2. QED
    BY <1>2, <2>1
<1>10. s = ns
  BY <1>1, <1>8, <1>9, SeqEqual
<1>11. QED
  BY <1>2, <1>9, <1>10

(* Notes of one kind are all of that kind. *)
LEMMA KindWhole ==
    ASSUME NEW N, NEW ns \in Seq(N), NEW eth, \A i \in DOMAIN ns : ns[i].eth = eth
    PROVE  OfKind(ns, eth) = ns
<1>1. \A i \in DOMAIN ns : ns[i] \in {x \in Range(ns) : x.eth = eth}
  BY DEF Range
<1>2. QED
  BY <1>1, KeptWhole DEF OfKind

(* Insertion by value. *)
Placed(sorted, x) ==
    InsertAt(sorted, Cardinality({i \in DOMAIN sorted : sorted[i].value >= x.value}) + 1, x)

(* Insertion makes a sequence of the same notes. *)
LEMMA PlacedIsSequence ==
    ASSUME NEW N, NEW sorted \in Seq(N), NEW x \in N
    PROVE  Placed(sorted, x) \in Seq(N)
<1>1. PICK n \in Nat : n = Len(sorted) /\ DOMAIN sorted = 1 .. n
  OBVIOUS
<1>2. PICK larger : larger = Cardinality({i \in DOMAIN sorted : sorted[i].value >= x.value})
  OBVIOUS
<1>3. larger \in Nat /\ larger <= n
  <2>1. IsFiniteSet(1 .. n) /\ Cardinality(1 .. n) = n
    <3>1. IsFiniteSet(1 .. n) /\ Cardinality(1 .. n) = IF 1 > n THEN 0 ELSE n - 1 + 1
      BY FS_Interval
    <3>2. QED
      BY <3>1
  <2>2. {i \in DOMAIN sorted : sorted[i].value >= x.value} \subseteq 1 .. n
    BY <1>1
  <2>3. PICK T \in SUBSET (1 .. n) : T = {i \in DOMAIN sorted : sorted[i].value >= x.value}
    BY <2>2
  <2>4. IsFiniteSet(T) /\ Cardinality(T) <= Cardinality(1 .. n) /\ Cardinality(T) \in Nat
    BY <2>1, FS_Subset, FS_CardinalityType
  <2>5. QED
    BY <1>2, <2>1, <2>3, <2>4
<1>4. Placed(sorted, x) = SubSeq(sorted, 1, (larger + 1) - 1) \o <<x>>
                            \o SubSeq(sorted, larger + 1, Len(sorted))
  BY <1>2 DEF Placed, InsertAt
<1>5. SubSeq(sorted, 1, (larger + 1) - 1) \in Seq(N)
  <2>1. \A i \in 1 .. (larger + 1) - 1 : sorted[i] \in N
    BY <1>1, <1>3
  <2>2. 1 \in Int /\ (larger + 1) - 1 \in Int
    BY <1>3
  <2>3. QED
    BY <2>1, <2>2, SubSeqProperties
<1>6. SubSeq(sorted, larger + 1, Len(sorted)) \in Seq(N)
  <2>1. \A i \in larger + 1 .. Len(sorted) : sorted[i] \in N
    BY <1>1, <1>3
  <2>2. larger + 1 \in Int /\ Len(sorted) \in Int
    BY <1>1, <1>3
  <2>3. QED
    BY <2>1, <2>2, SubSeqProperties
<1>7. <<x>> \in Seq(N)
  OBVIOUS
<1>8. QED
  BY <1>4, <1>5, <1>6, <1>7

OrderedBy(it, ns) ==
    it = [s \in SUBSET DOMAIN ns |->
            IF s = {} THEN <<>> ELSE Placed(it[s \ {Max(s)}], ns[Max(s)])]

(* Sorting makes a sequence of the same notes. *)
LEMMA LargestFirstIsSequence ==
    ASSUME NEW N, NEW ns \in Seq(N)
    PROVE  LargestFirst(ns) \in Seq(N)
<1>1. PICK n \in Nat : n = Len(ns) /\ DOMAIN ns = 1 .. n
  OBVIOUS
<1>2. \A i \in 1 .. n : ns[i] \in N
  BY <1>1
<1> DEFINE h == [i \in 1 .. n |-> [a \in Seq(N) |-> Placed(a, ns[i])]]
<1>3. h \in [1 .. n -> [Seq(N) -> Seq(N)]]
  BY <1>2, PlacedIsSequence
<1>4. <<>> \in Seq(N) /\ \A i \in 1 .. n : \A a \in Seq(N) : h[i][a] = Placed(a, ns[i])
  OBVIOUS
<1> HIDE DEF h
<1>5. PICK f \in [SUBSET (1 .. n) -> Seq(N)] : Folding(f, n, <<>>, h)
  BY <1>3, <1>4, FoldingExists
<1>6. \A s \in SUBSET (1 .. n) : s # {} => Max(s) \in 1 .. n /\ s \ {Max(s)} \in SUBSET (1 .. n)
  BY Greatest
<1>7. OrderedBy(f, ns)
  <2>1. ASSUME NEW s \in SUBSET (1 .. n)
        PROVE  f[s] = IF s = {} THEN <<>> ELSE Placed(f[s \ {Max(s)}], ns[Max(s)])
    <3>1. f[s] = IF s = {} THEN <<>> ELSE h[Max(s)][f[s \ {Max(s)}]]
      BY <1>5 DEF Folding
    <3>2. s # {} => Max(s) \in 1 .. n /\ f[s \ {Max(s)}] \in Seq(N)
      BY <1>6
    <3>3. QED
      BY <1>4, <3>1, <3>2
  <2>2. f = [s \in SUBSET (1 .. n) |->
               IF s = {} THEN <<>> ELSE Placed(f[s \ {Max(s)}], ns[Max(s)])]
    BY <2>1
  <2>3. QED
    BY <1>1, <2>2 DEF OrderedBy
<1>8. PICK it : OrderedBy(it, ns) /\ LargestFirst(ns) = it[DOMAIN ns]
  BY <1>7, Zenon DEF LargestFirst, FoldLeft, MapThenFoldSet, OrderedBy, Placed
<1>9. Folds(it, n, Seq(N), <<>>, h)
  <2>1. it = [s \in SUBSET (1 .. n) |->
                IF s = {} THEN <<>> ELSE Placed(it[s \ {Max(s)}], ns[Max(s)])]
    BY <1>1, <1>8 DEF OrderedBy
  <2>2. it[{}] = <<>>
    BY <2>1
  <2>3. ASSUME NEW s \in SUBSET (1 .. n), s # {}, it[s \ {Max(s)}] \in Seq(N)
        PROVE  it[s] = h[Max(s)][it[s \ {Max(s)}]]
    <3>1. it[s] = Placed(it[s \ {Max(s)}], ns[Max(s)])
      BY <2>1, <2>3
    <3>2. QED
      BY <1>4, <1>6, <2>3, <3>1
  <2>4. QED
    BY <2>2, <2>3 DEF Folds
<1>10. it[1 .. n] \in Seq(N)
  BY <1>3, <1>4, <1>9, FoldingResult
<1>11. QED
  BY <1>1, <1>8, <1>10

-----------------------------------------------------------------------------
(* The search. *)

Rest(notes, p) == SubSeq(notes, p.start, Len(notes))
Unit(notes, p) == Rest(notes, p)[1].value
Equal(notes, p) ==
    Cardinality({i \in DOMAIN Rest(notes, p) : Rest(notes, p)[i].value = Unit(notes, p)})
Most(cover, notes, p) == Min({Wanted(cover, p.remaining, Unit(notes, p)), Equal(notes, p)})
After(notes, p, b, k) ==
    [start     |-> p.start + Equal(notes, p),
     remaining |-> Max({p.remaining - Unit(notes, p) * k, 0}),
     chosen    |-> p.chosen \o SubSeq(Rest(notes, p), 1, k), best |-> b]

Trials(f, cover, notes, p) ==
    FoldLeft(LAMBDA b, k : f[After(notes, p, b, k)], p.best,
             [i \in 1 .. Most(cover, notes, p) + 1 |-> Most(cover, notes, p) + 1 - i])

Ends(cover, notes, p) == Hopeless(cover, Rest(notes, p), p.remaining, p.chosen, p.best)

Searched(f, cover, notes, p) ==
    CASE p.remaining = 0 -> IF Better(cover, p.chosen, p.best) THEN p.chosen ELSE p.best
      [] p.remaining # 0 /\ Ends(cover, notes, p) -> p.best
      [] OTHER -> Trials(f, cover, notes, p)

IsSearch(f, cover, notes, amount) ==
    f = [p \in Points(notes, amount) |-> Searched(f, cover, notes, p)]

(* SelectNotes is a function that meets the equation of the search. *)
LEMMA SearchIs ==
    ASSUME NEW notes, NEW amount, NEW cover
    PROVE  SelectNotes(notes, amount, cover) =
             (CHOOSE f : IsSearch(f, cover, notes, amount))
               [[start |-> 1, remaining |-> amount, chosen |-> <<>>, best |-> <<>>]]
BY Zenon DEF SelectNotes, IsSearch, Searched, Trials, Ends, After, Most, Equal, Unit, Rest

Valued(N) == \A x \in N : x.value \in Nat /\ x.value > 0

(* The lesser of two numbers. *)
LEMMA LeastOfTwo ==
    ASSUME NEW a \in Nat, NEW b \in Nat
    PROVE  Min({a, b}) = IF a <= b THEN a ELSE b
<1>1. \E x \in {a, b} : \A y \in {a, b} : x <= y
  <2>1. CASE a <= b
    BY <2>1
  <2>2. CASE b <= a
    BY <2>2
  <2>. QED BY <2>1, <2>2
<1>2. Min({a, b}) \in {a, b} /\ Min({a, b}) <= a /\ Min({a, b}) <= b
  BY <1>1 DEF Min
<1>3. PICK m : m = Min({a, b})
  OBVIOUS
<1>4. m \in {a, b} /\ m <= a /\ m <= b
  BY <1>2, <1>3
<1>. QED BY <1>3, <1>4

(* The greater of two numbers. *)
LEMMA GreatestOfTwo ==
    ASSUME NEW a \in Int, NEW b \in Int
    PROVE  Max({a, b}) = IF a >= b THEN a ELSE b
<1>1. \E x \in {a, b} : \A y \in {a, b} : x >= y
  <2>1. CASE a <= b
    BY <2>1
  <2>2. CASE b <= a
    BY <2>2
  <2>3. QED
    BY <2>1, <2>2
<1>2. Max({a, b}) \in {a, b} /\ Max({a, b}) >= a /\ Max({a, b}) >= b
  BY <1>1 DEF Max
<1>3. PICK m : m = Max({a, b})
  OBVIOUS
<1>4. m \in {a, b} /\ m >= a /\ m >= b
  BY <1>2, <1>3
<1>5. m = IF a >= b THEN a ELSE b
  BY <1>4
<1>6. QED
  BY <1>3, <1>5

(* Where notes are left, one of the next denomination is. *)
LEMMA RestFacts ==
    ASSUME NEW N, NEW notes \in Seq(N), NEW amount, NEW p \in Points(notes, amount),
           Rest(notes, p) # <<>>
    PROVE  /\ p.start \in Nat /\ p.start >= 1 /\ p.start <= Len(notes) /\ Len(notes) \in Nat
           /\ Rest(notes, p) \in Seq(Range(notes)) /\ Range(notes) \subseteq N
           /\ Len(Rest(notes, p)) = Len(notes) - p.start + 1
           /\ Equal(notes, p) \in Nat /\ Equal(notes, p) >= 1
           /\ Equal(notes, p) <= Len(Rest(notes, p))
           /\ Rest(notes, p)[1] \in N
<1>1. PICK n \in Nat : n = Len(notes) /\ DOMAIN notes = 1 .. n
  OBVIOUS
<1>2. PICK a \in 1 .. n + 1 : a = p.start
  BY <1>1 DEF Points
<1>3. PICK rest : rest = Rest(notes, p)
  OBVIOUS
<1>4. rest = SubSeq(notes, a, n)
  BY <1>1, <1>2, <1>3 DEF Rest
<1>5. a <= n
  <2>1. SUFFICES ASSUME n < a PROVE FALSE
    OBVIOUS
  <2>2. SubSeq(notes, a, n) = <<>>
    BY <2>1, SubSeqEmpty
  <2>3. QED
    BY <1>3, <1>4, <2>2
<1>6. rest \in Seq(Range(notes)) /\ Len(rest) = n - a + 1
  <2>1. \A i \in a .. n : notes[i] \in Range(notes)
    BY <1>1, <1>2 DEF Range
  <2>2. a \in Int /\ n \in Int
    BY <1>2
  <2>3. QED
    BY <1>4, <1>5, <2>1, <2>2, SubSeqProperties
<1>7. Range(notes) \subseteq N
  BY <1>1 DEF Range
<1>8. PICK m \in Nat : m = Len(rest) /\ m >= 1 /\ DOMAIN rest = 1 .. m
  BY <1>2, <1>5, <1>6
<1>9. PICK T \in SUBSET (1 .. m) : T = {i \in DOMAIN rest : rest[i].value = rest[1].value}
  BY <1>8
<1>10. Equal(notes, p) = Cardinality(T)
  BY <1>3, <1>9 DEF Equal, Unit
<1>11. Cardinality(T) \in Nat /\ Cardinality(T) <= m /\ Cardinality(T) >= 1
  <2>1. IsFiniteSet(1 .. m) /\ Cardinality(1 .. m) = m
    <3>1. IsFiniteSet(1 .. m) /\ Cardinality(1 .. m) = IF 1 > m THEN 0 ELSE m - 1 + 1
      BY FS_Interval
    <3>2. QED
      BY <1>8, <3>1
  <2>2. IsFiniteSet(T) /\ Cardinality(T) <= m /\ Cardinality(T) \in Nat
    BY <2>1, FS_Subset, FS_CardinalityType
  <2>3. T # {}
    <3>1. 1 \in T
      BY <1>8, <1>9
    <3>2. QED
      BY <3>1
  <2>4. Cardinality(T) # 0
    BY <2>2, <2>3, FS_EmptySet
  <2>5. QED
    BY <2>2, <2>4
<1>12. rest[1] \in Range(notes)
  BY <1>6, <1>8
<1>13. QED
  BY <1>1, <1>2, <1>3, <1>5, <1>6, <1>7, <1>8, <1>10, <1>11, <1>12

(* A trial goes on from a later note, with no more than the amount to find. *)
LEMMA AfterFacts ==
    ASSUME NEW N, Valued(N), NEW notes \in Seq(N), NEW amount \in Nat, NEW cover,
           NEW p \in Points(notes, amount), Rest(notes, p) # <<>>
    PROVE  /\ Most(cover, notes, p) \in Nat
           /\ \A b \in Seq(Range(notes)), k \in 0 .. Most(cover, notes, p) :
                /\ After(notes, p, b, k) \in Points(notes, amount)
                /\ After(notes, p, b, k).start > p.start
<1>a. PICK n, a, e, u, r :
        /\ n = Len(notes) /\ a = p.start /\ e = Equal(notes, p)
        /\ u = Unit(notes, p) /\ r = p.remaining
  OBVIOUS
<1>b. /\ n \in Nat /\ a \in Nat /\ e \in Nat /\ u \in Nat /\ r \in Nat
      /\ 1 <= a /\ a <= n /\ 1 <= e /\ e <= n - a + 1
      /\ Len(Rest(notes, p)) = n - a + 1
  <2>1. Unit(notes, p) \in Nat
    BY RestFacts DEF Unit, Valued
  <2>2. p.remaining \in Nat
    BY DEF Points
  <2>3. QED
    BY <1>a, <2>1, <2>2, RestFacts
<1>c. u > 0
  BY <1>a, RestFacts DEF Unit, Valued
<1>d. r <= amount
  BY <1>a DEF Points
<1>2. Wanted(cover, r, u) \in Nat
  <2>0. r \in Nat /\ u \in Nat
    BY <1>b
  <2>1. r \div u \in Nat
    BY <2>0, <1>c
  <2>2. QED
    BY <2>1 DEF Wanted
<1>3. PICK m \in Nat : m = Most(cover, notes, p) /\ m <= e
  <2>1. Most(cover, notes, p) = Min({Wanted(cover, r, u), e})
    BY <1>a, <1>b DEF Most
  <2>2. QED
    BY <1>a, <1>b, <1>2, <2>1, LeastOfTwo
<1>4. ASSUME NEW b \in Seq(Range(notes)), NEW k \in 0 .. m
      PROVE  /\ After(notes, p, b, k) \in Points(notes, amount)
             /\ After(notes, p, b, k).start > p.start
  <2>1. PICK left : left = Max({r - u * k, 0})
    OBVIOUS
  <2>2. left \in 0 .. amount
    <3>1. PICK x \in Nat : x = u * k
      <4>1. k \in Nat
        BY <1>3
      <4>2. u * k \in Nat
        <5>1. u \in Nat
          BY <1>b
        <5>2. QED
          BY <4>1, <5>1
      <4>3. QED
        BY <4>2
    <3>2. left = IF r - x >= 0 THEN r - x ELSE 0
      <4>1. r \in Nat /\ r - x \in Int
        BY <1>b
      <4>2. QED
        BY <2>1, <3>1, <4>1, GreatestOfTwo
    <3>3. r \in Nat
      BY <1>b
    <3>4. QED
      BY <1>d, <3>2, <3>3
  <2>3. PICK rest \in Seq(Range(notes)) : rest = Rest(notes, p) /\ Len(rest) = n - a + 1
    BY <1>a, <1>b, RestFacts
  <2>4. SubSeq(rest, 1, k) \in Seq(Range(notes))
    <3>1. k \in Int /\ k <= n - a + 1
      BY <1>a, <1>b, <1>3
    <3>2. \A i \in 1 .. k : rest[i] \in Range(notes)
      BY <2>3, <3>1
    <3>3. QED
      BY <3>1, <3>2, SubSeqProperties
  <2>5. p.chosen \o SubSeq(rest, 1, k) \in Seq(Range(notes))
    <3>1. p.chosen \in Seq(Range(notes))
      BY DEF Points
    <3>2. QED
      BY <2>4, <3>1, ConcatProperties
  <2>6. a + e \in 1 .. n + 1 /\ a + e > a
    BY <1>a, <1>b
  <2>7. After(notes, p, b, k) =
          [start |-> a + e, remaining |-> left, chosen |-> p.chosen \o SubSeq(rest, 1, k), best |-> b]
    BY <1>a, <1>b, <2>1, <2>3 DEF After
  <2>8. QED
    BY <1>a, <1>b, <2>2, <2>5, <2>6, <2>7 DEF Points
<1>5. QED
  BY <1>3, <1>4

(* What the i-th trial from p makes of a best answer. *)
TrialsOf(f, cover, notes, p) ==
    [i \in 1 .. Most(cover, notes, p) + 1 |->
       [b \in Seq(Range(notes)) |-> f[After(notes, p, b, Most(cover, notes, p) + 1 - i)]]]

IsTrials(it, f, cover, notes, p) ==
    it = [s \in SUBSET DOMAIN [i \in 1 .. Most(cover, notes, p) + 1 |-> Most(cover, notes, p) + 1 - i] |->
            IF s = {} THEN p.best
            ELSE f[After(notes, p, it[s \ {Max(s)}],
                         [i \in 1 .. Most(cover, notes, p) + 1 |-> Most(cover, notes, p) + 1 - i][Max(s)])]]

(* f answers every trial from p. *)
Answers(f, cover, notes, p) ==
    \A b \in Seq(Range(notes)), k \in 0 .. Most(cover, notes, p) :
        f[After(notes, p, b, k)] \in Seq(Range(notes))

(* The trials of a denomination are a fold over what the search answers     *)
(* after them.                                                              *)
LEMMA TrialsFold ==
    ASSUME NEW notes, NEW cover, NEW p, Most(cover, notes, p) \in Nat,
           p.best \in Seq(Range(notes)), NEW f, Answers(f, cover, notes, p)
    PROVE  LET n == Most(cover, notes, p) + 1
               A == Seq(Range(notes))
               h == TrialsOf(f, cover, notes, p)
           IN  /\ h \in [1 .. n -> [A -> A]]
               /\ \E it : Folds(it, n, A, p.best, h) /\ Trials(f, cover, notes, p) = it[1 .. n]
<1>1. PICK m \in Nat : m = Most(cover, notes, p)
  OBVIOUS
<1>2. PICK n \in Nat : n = m + 1
  OBVIOUS
<1>3. PICK A : A = Seq(Range(notes))
  OBVIOUS
<1>4. PICK h : h = TrialsOf(f, cover, notes, p)
  OBVIOUS
<1>5. h = [i \in 1 .. n |-> [b \in A |-> f[After(notes, p, b, n - i)]]]
  BY <1>1, <1>2, <1>3, <1>4 DEF TrialsOf
<1>6. \A i \in 1 .. n : n - i \in 0 .. m
  BY <1>2
<1>7. \A b \in A : \A k \in 0 .. m : f[After(notes, p, b, k)] \in A
  BY <1>1, <1>3 DEF Answers
<1>8. h \in [1 .. n -> [A -> A]]
  BY <1>5, <1>6, <1>7
<1>9. /\ p.best \in A
      /\ \A i \in 1 .. n : \A b \in A : h[i][b] = f[After(notes, p, b, n - i)]
  BY <1>3, <1>5
<1>10. PICK it \in [SUBSET (1 .. n) -> A] : Folding(it, n, p.best, h)
  BY <1>8, <1>9, FoldingExists
<1>11. \A s \in SUBSET (1 .. n) : s # {} => Max(s) \in 1 .. n /\ s \ {Max(s)} \in SUBSET (1 .. n)
  BY Greatest
<1>12. PICK ks : ks = [i \in 1 .. n |-> n - i]
  OBVIOUS
<1>13. ks = [i \in 1 .. Most(cover, notes, p) + 1 |-> Most(cover, notes, p) + 1 - i]
       /\ DOMAIN ks = 1 .. n /\ \A i \in 1 .. n : ks[i] = n - i
  BY <1>1, <1>2, <1>12
<1>14. IsTrials(it, f, cover, notes, p)
  <2>1. ASSUME NEW s \in SUBSET (1 .. n)
        PROVE  it[s] = IF s = {} THEN p.best ELSE f[After(notes, p, it[s \ {Max(s)}], ks[Max(s)])]
    <3>1. it[s] = IF s = {} THEN p.best ELSE h[Max(s)][it[s \ {Max(s)}]]
      BY <1>10 DEF Folding
    <3>2. s # {} => Max(s) \in 1 .. n /\ it[s \ {Max(s)}] \in A
      BY <1>11
    <3>3. QED
      BY <1>9, <1>13, <3>1, <3>2
  <2>2. it = [s \in SUBSET DOMAIN ks |->
                IF s = {} THEN p.best ELSE f[After(notes, p, it[s \ {Max(s)}], ks[Max(s)])]]
    BY <1>13, <2>1
  <2>3. QED
    BY <1>13, <2>2 DEF IsTrials
<1>15. PICK jt : IsTrials(jt, f, cover, notes, p) /\ Trials(f, cover, notes, p) = jt[DOMAIN ks]
  BY <1>13, <1>14, Zenon DEF Trials, FoldLeft, MapThenFoldSet, IsTrials
<1>16. Folds(jt, n, A, p.best, h)
  <2>1. jt = [s \in SUBSET (1 .. n) |->
                IF s = {} THEN p.best ELSE f[After(notes, p, jt[s \ {Max(s)}], ks[Max(s)])]]
    BY <1>13, <1>15 DEF IsTrials
  <2>2. jt[{}] = p.best
    BY <2>1
  <2>3. ASSUME NEW s \in SUBSET (1 .. n), s # {}, jt[s \ {Max(s)}] \in A
        PROVE  jt[s] = h[Max(s)][jt[s \ {Max(s)}]]
    <3>1. jt[s] = f[After(notes, p, jt[s \ {Max(s)}], ks[Max(s)])]
      BY <2>1, <2>3
    <3>2. QED
      BY <1>9, <1>11, <1>13, <2>3, <3>1
  <2>4. QED
    BY <2>2, <2>3 DEF Folds
<1>17. QED
  BY <1>1, <1>2, <1>3, <1>4, <1>8, <1>13, <1>15, <1>16

(* g answers the trials from p the way f does. *)
SameAnswers(f, g, cover, notes, p) ==
    \A b \in Seq(Range(notes)), k \in 0 .. Most(cover, notes, p) :
        g[After(notes, p, b, k)] = f[After(notes, p, b, k)]

(* What the trials from a point come to. *)
LEMMA TrialsResult ==
    ASSUME NEW N, Valued(N), NEW notes \in Seq(N), NEW amount \in Nat, NEW cover,
           NEW p \in Points(notes, amount), Rest(notes, p) # <<>>,
           NEW f, NEW g, Answers(f, cover, notes, p), SameAnswers(f, g, cover, notes, p)
    PROVE  /\ Trials(f, cover, notes, p) \in Seq(Range(notes))
           /\ Trials(g, cover, notes, p) = Trials(f, cover, notes, p)
<1>1. Most(cover, notes, p) \in Nat
  BY AfterFacts
<1>2. p.best \in Seq(Range(notes))
  BY DEF Points
<1>3. PICK n \in Nat : n = Most(cover, notes, p) + 1
  BY <1>1
<1>4. PICK h : h = TrialsOf(f, cover, notes, p)
  OBVIOUS
<1>5. h = TrialsOf(g, cover, notes, p)
  <2> DEFINE m == Most(cover, notes, p)
  <2>0. m \in Nat
    BY <1>1
  <2>1. \A i \in 1 .. m + 1 : m + 1 - i \in 0 .. m
    <3> HIDE DEF m
    <3>. QED BY <2>0
  <2>2. \A i \in 1 .. m + 1 : \A b \in Seq(Range(notes)) :
          g[After(notes, p, b, m + 1 - i)] = f[After(notes, p, b, m + 1 - i)]
    BY <2>1 DEF SameAnswers
  <2>3. [i \in 1 .. m + 1 |-> [b \in Seq(Range(notes)) |-> g[After(notes, p, b, m + 1 - i)]]]
          = [i \in 1 .. m + 1 |-> [b \in Seq(Range(notes)) |-> f[After(notes, p, b, m + 1 - i)]]]
    <3> HIDE DEF m
    <3>. QED BY <2>2
  <2>4. QED
    BY <1>4, <2>3, Zenon DEF TrialsOf
<1>6. Answers(g, cover, notes, p)
  BY DEF Answers, SameAnswers
<1>7. PICK A : A = Seq(Range(notes))
  OBVIOUS
<1>8. /\ h \in [1 .. n -> [A -> A]]
      /\ \E it : Folds(it, n, A, p.best, h) /\ Trials(f, cover, notes, p) = it[1 .. n]
  BY <1>1, <1>2, <1>3, <1>4, <1>7, TrialsFold
<1>9. \E it : /\ Folds(it, Most(cover, notes, p) + 1, Seq(Range(notes)), p.best,
                       TrialsOf(g, cover, notes, p))
             /\ Trials(g, cover, notes, p) = it[1 .. Most(cover, notes, p) + 1]
  BY <1>1, <1>2, <1>6, TrialsFold
<1>10. PICK it : Folds(it, n, A, p.best, h) /\ Trials(f, cover, notes, p) = it[1 .. n]
  BY <1>8
<1>11. PICK jt : Folds(jt, n, A, p.best, h) /\ Trials(g, cover, notes, p) = jt[1 .. n]
  <2>1. PICK jt : /\ Folds(jt, Most(cover, notes, p) + 1, Seq(Range(notes)), p.best,
                            TrialsOf(g, cover, notes, p))
                  /\ Trials(g, cover, notes, p) = jt[1 .. Most(cover, notes, p) + 1]
    BY <1>9
  <2>2. Folds(jt, n, A, p.best, h) /\ Trials(g, cover, notes, p) = jt[1 .. n]
    BY <1>3, <1>5, <1>7, <2>1, Zenon
  <2>3. QED
    BY <2>2
<1>12. it[1 .. n] \in A
  BY <1>2, <1>7, <1>8, <1>10, FoldingResult
<1>13. it[1 .. n] = jt[1 .. n]
  <2>1. PICK base : base = p.best
    OBVIOUS
  <2>2. base \in A /\ Folds(it, n, A, base, h) /\ Folds(jt, n, A, base, h)
    BY <1>2, <1>7, <1>10, <1>11, <2>1
  <2>3. QED
    BY <1>8, <2>2, FoldsAgree
<1>14. QED
  BY <1>7, <1>10, <1>11, <1>12, <1>13

(* Two functions that agree after p, where they answer with notes. *)
AgreeAfter(f, g, notes, amount, p) ==
    \A q \in Points(notes, amount) : q.start > p.start =>
        f[q] \in Seq(Range(notes)) /\ g[q] = f[q]

(* What the search answers at a point depends on what it answers after it. *)
LEMMA SearchedStep ==
    ASSUME NEW N, Valued(N), NEW notes \in Seq(N), NEW amount \in Nat, NEW cover,
           NEW p \in Points(notes, amount), NEW f, NEW g, AgreeAfter(f, g, notes, amount, p)
    PROVE  /\ Searched(f, cover, notes, p) \in Seq(Range(notes))
           /\ Searched(g, cover, notes, p) = Searched(f, cover, notes, p)
<1>0. p.chosen \in Seq(Range(notes)) /\ p.best \in Seq(Range(notes))
  BY DEF Points
<1>1. CASE p.remaining = 0
  BY <1>0, <1>1 DEF Searched
<1>2. CASE p.remaining # 0 /\ Ends(cover, notes, p)
  BY <1>0, <1>2 DEF Searched
<1>3. CASE p.remaining # 0 /\ ~ Ends(cover, notes, p)
  <2>1. Rest(notes, p) # <<>>
    BY <1>3 DEF Ends, Hopeless
  <2>2. \A b \in Seq(Range(notes)), k \in 0 .. Most(cover, notes, p) :
          /\ After(notes, p, b, k) \in Points(notes, amount)
          /\ After(notes, p, b, k).start > p.start
    BY <2>1, AfterFacts
  <2>3. \A b \in Seq(Range(notes)), k \in 0 .. Most(cover, notes, p) :
          /\ f[After(notes, p, b, k)] \in Seq(Range(notes))
          /\ g[After(notes, p, b, k)] = f[After(notes, p, b, k)]
    BY <2>2 DEF AgreeAfter
  <2>4. Answers(f, cover, notes, p) /\ SameAnswers(f, g, cover, notes, p)
    BY <2>3 DEF Answers, SameAnswers
  <2>5. /\ Trials(f, cover, notes, p) \in Seq(Range(notes))
        /\ Trials(g, cover, notes, p) = Trials(f, cover, notes, p)
    BY <2>1, <2>4, TrialsResult
  <2>6. /\ Searched(f, cover, notes, p) = Trials(f, cover, notes, p)
        /\ Searched(g, cover, notes, p) = Trials(g, cover, notes, p)
    BY <1>3 DEF Searched
  <2>7. QED
    BY <2>5, <2>6
<1>4. QED
  BY <1>1, <1>2, <1>3

(* The points from which no more than j steps are left. *)
Within(notes, amount, j) ==
    {p \in Points(notes, amount) : p.start + j >= Len(notes) + 2}

(* Every step of the search is to a point from which fewer are left. *)
LEMMA WithinFacts ==
    ASSUME NEW N, NEW notes \in Seq(N), NEW amount
    PROVE  /\ Within(notes, amount, 0) = {}
           /\ Within(notes, amount, Len(notes) + 1) = Points(notes, amount)
           /\ \A j \in Nat : \A p \in Within(notes, amount, j + 1), q \in Points(notes, amount) :
                q.start > p.start => q \in Within(notes, amount, j)
           /\ \A j \in Nat : Within(notes, amount, j) \subseteq Within(notes, amount, j + 1)
<1>1. PICK n \in Nat : n = Len(notes)
  OBVIOUS
<1>2. \A p \in Points(notes, amount) : p.start \in Nat /\ 1 <= p.start /\ p.start <= n + 1
  BY <1>1 DEF Points
<1>3. Within(notes, amount, 0) = {}
  BY <1>1, <1>2 DEF Within
<1>4. Within(notes, amount, Len(notes) + 1) = Points(notes, amount)
  BY <1>1, <1>2 DEF Within
<1>5. ASSUME NEW j \in Nat, NEW p \in Within(notes, amount, j + 1), NEW q \in Points(notes, amount),
             q.start > p.start
      PROVE  q \in Within(notes, amount, j)
  <2>1. p \in Points(notes, amount) /\ p.start + (j + 1) >= n + 2
    BY <1>1 DEF Within
  <2>2. q.start + j >= n + 2
    BY <1>2, <1>5, <2>1
  <2>3. QED
    BY <1>1, <2>2 DEF Within
<1>6. ASSUME NEW j \in Nat, NEW p \in Within(notes, amount, j)
      PROVE  p \in Within(notes, amount, j + 1)
  <2>1. p \in Points(notes, amount) /\ p.start + j >= n + 2
    BY <1>1 DEF Within
  <2>2. p.start + (j + 1) >= n + 2
    BY <1>2, <2>1
  <2>3. QED
    BY <1>1, <2>1, <2>2 DEF Within
<1>7. QED
  BY <1>3, <1>4, <1>5, <1>6

(* f is the search, as far as j steps go. *)
SearchedWithin(f, cover, notes, amount, j) ==
    \A p \in Within(notes, amount, j) :
        f[p] \in Seq(Range(notes)) /\ f[p] = Searched(f, cover, notes, p)

(* The equation of the search has a solution. *)
LEMMA SearchExists ==
    ASSUME NEW N, Valued(N), NEW notes \in Seq(N), NEW amount \in Nat, NEW cover
    PROVE  \E f : IsSearch(f, cover, notes, amount)
<1> DEFINE S == {j \in Nat : \E f : SearchedWithin(f, cover, notes, amount, j)}
<1>1. 0 \in S
  BY WithinFacts DEF SearchedWithin
<1>2. ASSUME NEW j \in S, j >= 0 PROVE j + 1 \in S
  <2>1. PICK f : SearchedWithin(f, cover, notes, amount, j)
    OBVIOUS
  <2>2. j \in Nat /\ j + 1 \in Nat
    OBVIOUS
  <2> DEFINE D == Within(notes, amount, j)
             g == [p \in Within(notes, amount, j + 1) |->
                     IF p \in D THEN f[p] ELSE Searched(f, cover, notes, p)]
  <2>3. ASSUME NEW p \in Within(notes, amount, j + 1)
        PROVE  g[p] \in Seq(Range(notes)) /\ g[p] = Searched(g, cover, notes, p)
    <3>1. p \in Points(notes, amount)
      BY DEF Within
    <3>2. \A q \in D : g[q] = f[q] /\ f[q] \in Seq(Range(notes))
      <4>1. \A q \in D : q \in Within(notes, amount, j + 1)
        BY <2>2, WithinFacts
      <4>2. QED
        BY <2>1, <4>1 DEF SearchedWithin
    <3>3. AgreeAfter(f, g, notes, amount, p)
      <4>1. \A q \in Points(notes, amount) : q.start > p.start => q \in D
        BY <2>2, WithinFacts
      <4> HIDE DEF g, D
      <4>2. QED
        BY <3>2, <4>1 DEF AgreeAfter
    <3>4. /\ Searched(f, cover, notes, p) \in Seq(Range(notes))
          /\ Searched(g, cover, notes, p) = Searched(f, cover, notes, p)
      <4> HIDE DEF g
      <4>1. QED
        BY <3>1, <3>3, SearchedStep
    <3>5. CASE p \in D
      <4>1. g[p] = f[p]
        BY <3>2, <3>5
      <4>2. f[p] = Searched(f, cover, notes, p)
        BY <2>1, <3>5 DEF SearchedWithin
      <4> HIDE DEF g
      <4>3. QED
        BY <3>4, <4>1, <4>2
    <3>6. CASE p \notin D
      <4>1. g[p] = Searched(f, cover, notes, p)
        BY <3>6
      <4> HIDE DEF g
      <4>2. QED
        BY <3>4, <4>1
    <3>7. QED
      BY <3>5, <3>6
  <2>4. SearchedWithin(g, cover, notes, amount, j + 1)
    <3> HIDE DEF g
    <3>1. QED
      BY <2>3 DEF SearchedWithin
  <2>5. QED
    BY <2>2, <2>4
<1>3. \A j \in Nat : j >= 0 => j \in S
  <2> HIDE DEF S
  <2>1. S \in SUBSET Nat
    BY DEF S
  <2>2. QED
    BY <1>1, <1>2, <2>1, UpwardClosed
<1>4. PICK f : SearchedWithin(f, cover, notes, amount, Len(notes) + 1)
  <2>1. Len(notes) + 1 \in Nat /\ Len(notes) + 1 >= 0
    OBVIOUS
  <2>2. QED
    BY <1>3, <2>1
<1> DEFINE g == [p \in Points(notes, amount) |-> f[p]]
<1>5. \A p \in Points(notes, amount) :
        f[p] \in Seq(Range(notes)) /\ f[p] = Searched(f, cover, notes, p)
  BY <1>4, WithinFacts DEF SearchedWithin
<1>6. ASSUME NEW p \in Points(notes, amount) PROVE g[p] = Searched(g, cover, notes, p)
  <2>1. AgreeAfter(f, g, notes, amount, p)
    BY <1>5 DEF AgreeAfter
  <2>2. Searched(g, cover, notes, p) = Searched(f, cover, notes, p)
    <3> HIDE DEF g
    <3>1. QED
      BY <2>1, SearchedStep
  <2>3. g[p] = f[p]
    OBVIOUS
  <2> HIDE DEF g
  <2>4. QED
    BY <1>5, <2>2, <2>3
<1>7. g = [p \in Points(notes, amount) |-> Searched(g, cover, notes, p)]
  BY <1>6
<1>8. QED
  <2> HIDE DEF g
  <2>1. QED
    BY <1>7 DEF IsSearch

(* A solution of the search's equation answers every point with notes. *)
LEMMA SearchAnswers ==
    ASSUME NEW N, Valued(N), NEW notes \in Seq(N), NEW amount \in Nat, NEW cover,
           NEW f, IsSearch(f, cover, notes, amount)
    PROVE  \A p \in Points(notes, amount) :
              f[p] \in Seq(Range(notes)) /\ f[p] = Searched(f, cover, notes, p)
<1> DEFINE S == {j \in Nat : SearchedWithin(f, cover, notes, amount, j)}
<1>2. 0 \in S
  BY WithinFacts DEF SearchedWithin
<1>3. ASSUME NEW j \in S, j >= 0 PROVE j + 1 \in S
  <2>1. SearchedWithin(f, cover, notes, amount, j) /\ j \in Nat /\ j + 1 \in Nat
    OBVIOUS
  <2>2. ASSUME NEW p \in Within(notes, amount, j + 1)
        PROVE  f[p] \in Seq(Range(notes)) /\ f[p] = Searched(f, cover, notes, p)
    <3>1. p \in Points(notes, amount)
      BY DEF Within
    <3>2. AgreeAfter(f, f, notes, amount, p)
      <4>1. \A q \in Points(notes, amount) : q.start > p.start => q \in Within(notes, amount, j)
        BY <2>1, WithinFacts
      <4>2. QED
        BY <2>1, <4>1 DEF AgreeAfter, SearchedWithin
    <3>3. Searched(f, cover, notes, p) \in Seq(Range(notes))
      BY <3>1, <3>2, SearchedStep
    <3>4. f[p] = Searched(f, cover, notes, p)
      BY <3>1 DEF IsSearch
    <3>5. QED
      BY <3>3, <3>4
  <2>3. QED
    BY <2>1, <2>2 DEF SearchedWithin
<1>4. \A j \in Nat : j >= 0 => j \in S
  <2> HIDE DEF S
  <2>1. S \in SUBSET Nat
    BY DEF S
  <2>2. QED
    BY <1>2, <1>3, <2>1, UpwardClosed
<1>5. SearchedWithin(f, cover, notes, amount, Len(notes) + 1)
  <2>1. Len(notes) + 1 \in Nat /\ Len(notes) + 1 >= 0
    OBVIOUS
  <2>2. QED
    BY <1>4, <2>1
<1>. QED BY <1>5, WithinFacts DEF SearchedWithin

(* A selection is drawn from the notes it is made from. *)
LEMMA SelectionIsDrawn ==
    ASSUME NEW N, Valued(N), NEW notes \in Seq(N), NEW amount \in Nat, NEW cover
    PROVE  SelectNotes(notes, amount, cover) \in Seq(Range(notes))
<1>1. PICK f : /\ IsSearch(f, cover, notes, amount)
               /\ SelectNotes(notes, amount, cover)
                    = f[[start |-> 1, remaining |-> amount, chosen |-> <<>>, best |-> <<>>]]
  BY SearchExists, SearchIs
<1>6. \A p \in Points(notes, amount) : f[p] \in Seq(Range(notes))
  BY <1>1, SearchAnswers
<1>7. [start |-> 1, remaining |-> amount, chosen |-> <<>>, best |-> <<>>] \in Points(notes, amount)
  <2>1. 1 \in 1 .. Len(notes) + 1 /\ amount \in 0 .. amount
    OBVIOUS
  <2>2. <<>> \in Seq(Range(notes))
    OBVIOUS
  <2>3. QED
    BY <2>1, <2>2 DEF Points
<1>8. QED
  BY <1>1, <1>6, <1>7

-----------------------------------------------------------------------------
(* Choosing notes. *)

(* What is assumed of a wallet and of what is asked of it. *)
LEMMA WalletFacts ==
    ASSUME NEW w \in Wallets
    PROVE  /\ w \in Seq(Range(w)) /\ Valued(Range(w))
           /\ \A n \in Range(w) : n.value \in Nat /\ n.value > 0 /\ n.eth \in BOOLEAN
           /\ \A r \in Requests[w] :
                /\ r.amount \in Nat /\ r.tail \in Nat /\ r.least \in Nat
                /\ r.eth \in BOOLEAN
BY WithdrawalsAssumption DEF Valued

(* The notes of an asset, and what is selected from them, are of that asset. *)
LEMMA AssetDrawn ==
    ASSUME NEW N, NEW notes \in Seq(N), NEW eth
    PROVE  OfAsset(notes, eth) \in Seq({x \in N : x.eth = eth})
<1>1. PICK K : K = {x \in N : x.eth = eth}
  OBVIOUS
<1>2. OfKind(notes, eth) \in Seq(K)
  BY <1>1, KindKept
<1>3. QED
  BY <1>1, <1>2, LargestFirstIsSequence DEF OfAsset

(* So is what is selected from them. *)
LEMMA SelectedDrawn ==
    ASSUME NEW N, Valued(N), NEW notes \in Seq(N), NEW eth, NEW amount \in Nat, NEW cover
    PROVE  SelectNotes(OfAsset(notes, eth), amount, cover) \in Seq({x \in N : x.eth = eth})
<1>1. PICK K : K = {x \in N : x.eth = eth}
  OBVIOUS
<1>2. PICK from \in Seq(K) : from = OfAsset(notes, eth)
  BY <1>1, AssetDrawn
<1>3. Valued(K)
  BY <1>1 DEF Valued
<1>4. SelectNotes(from, amount, cover) \in Seq(Range(from))
  BY <1>3, SelectionIsDrawn
<1>5. Range(from) \subseteq K
  BY <1>2 DEF Range
<1>6. QED
  BY <1>1, <1>2, <1>4, <1>5, SeqOfSubset

(* The sponsor comes first, and the notes stay the same. *)
LEMMA SwappedIsSequence ==
    ASSUME NEW N, NEW ns \in Seq(N), NEW i \in DOMAIN ns
    PROVE  Swapped(ns, i) \in Seq(N) /\ Swapped(ns, i) # <<>>
<1>1. PICK n \in Nat : n = Len(ns) /\ DOMAIN ns = 1 .. n
  OBVIOUS
<1>2. n >= 1 /\ 1 \in 1 .. n
  BY <1>1
<1>3. \A j \in 1 .. n : (IF j = 1 THEN ns[i] ELSE IF j = i THEN ns[1] ELSE ns[j]) \in N
  BY <1>1, <1>2
<1>4. Swapped(ns, i) = [j \in 1 .. n |-> IF j = 1 THEN ns[i] ELSE IF j = i THEN ns[1] ELSE ns[j]]
  BY <1>1 DEF Swapped
<1>5. Swapped(ns, i) \in [1 .. n -> N]
  BY <1>3, <1>4
<1>6. Swapped(ns, i) \in Seq(N)
  BY <1>5, SeqDef
<1>7. DOMAIN Swapped(ns, i) # {}
  BY <1>2, <1>5
<1>8. QED
  BY <1>6, <1>7

(* The first of some indices is one of them. *)
LEMMA FirstIndex ==
    ASSUME NEW N, NEW ns \in Seq(N), NEW s \in SUBSET DOMAIN ns, s # {}
    PROVE  Min(s) \in DOMAIN ns
<1>1. s \in SUBSET Nat /\ s # {}
  OBVIOUS
<1>2. PICK m \in s : \A i \in s : m <= i
  BY <1>1, LeastElement
<1>3. Min(s) \in s
  BY <1>2 DEF Min
<1>4. QED
  BY <1>3

Suits(eth, ns) ==
    /\ ns # <<>>
    /\ eth => \A i \in DOMAIN ns : ns[i].eth
    /\ ~ eth => \A i \in DOMAIN Tail(ns) : ~ Tail(ns)[i].eth

(* An unshield selects notes of its asset, and a token unshield a sponsor   *)
(* as well.                                                                 *)
LEMMA WithdrawalSuits ==
    ASSUME NEW N, Valued(N), \A x \in N : x.eth \in BOOLEAN, NEW notes \in Seq(N),
           NEW eth \in BOOLEAN, NEW amount \in Nat, WithdrawalNotes(amount, notes, eth) # <<>>
    PROVE  /\ WithdrawalNotes(amount, notes, eth) \in Seq(N)
           /\ Suits(eth, WithdrawalNotes(amount, notes, eth))
<1>1. PICK K : K = {x \in N : x.eth = eth}
  OBVIOUS
<1>2. PICK selected \in Seq(K) : selected = ExactNotes(amount, notes, eth)
  <2>1. PICK cover : cover = FALSE
    OBVIOUS
  <2>2. SelectNotes(OfAsset(notes, eth), amount, cover) \in Seq({x \in N : x.eth = eth})
    BY SelectedDrawn
  <2>3. ExactNotes(amount, notes, eth) \in Seq(K)
    BY <1>1, <2>1, <2>2, Zenon DEF ExactNotes
  <2>4. QED
    BY <2>3
<1>3. PICK smallest : smallest = {i \in Sponsors(notes) :
                         \A j \in Sponsors(notes) : notes[i].value <= notes[j].value}
  OBVIOUS
<1>4. WithdrawalNotes(amount, notes, eth) =
        CASE selected = <<>> -> <<>>
          [] selected # <<>> /\ eth ->
               IF Sponsors(selected) = {} THEN <<>>
               ELSE Swapped(selected, Min(Sponsors(selected)))
          [] OTHER ->
               IF smallest = {} THEN <<>> ELSE <<notes[Min(smallest)]>> \o selected
  BY <1>2, <1>3 DEF WithdrawalNotes
<1>5. selected # <<>> /\ selected \in Seq(N)
  BY <1>1, <1>2, <1>4, SeqOfSubset
<1>6. CASE eth
  <2>1. Sponsors(selected) # {} /\ Sponsors(selected) \in SUBSET DOMAIN selected
    BY <1>4, <1>5, <1>6 DEF Sponsors
  <2>2. PICK ns : ns = Swapped(selected, Min(Sponsors(selected)))
    OBVIOUS
  <2>3. ns \in Seq(K) /\ ns # <<>>
    BY <2>1, <2>2, FirstIndex, SwappedIsSequence
  <2>4. ns = WithdrawalNotes(amount, notes, eth)
    BY <1>4, <1>5, <1>6, <2>1, <2>2
  <2>5. ns \in Seq(N)
    BY <1>1, <2>3, SeqOfSubset
  <2>6. \A i \in DOMAIN ns : ns[i].eth
    <3>1. \A i \in DOMAIN ns : ns[i] \in K
      BY <2>3
    <3>2. \A x \in K : x.eth
      BY <1>1, <1>6, Zenon
    <3>3. QED
      BY <3>1, <3>2
  <2>7. QED
    BY <1>6, <2>3, <2>4, <2>5, <2>6 DEF Suits
<1>7. CASE ~ eth
  <2>1. smallest # {} /\ smallest \in SUBSET DOMAIN notes
    BY <1>3, <1>4, <1>5, <1>7 DEF Sponsors
  <2>2. PICK x \in N : x = notes[Min(smallest)]
    BY <2>1, FirstIndex
  <2>3. PICK ns : ns = <<x>> \o selected
    OBVIOUS
  <2>4. ns = WithdrawalNotes(amount, notes, eth)
    BY <1>4, <1>5, <1>7, <2>1, <2>2, <2>3
  <2>5. ns \in Seq(N) /\ ns # <<>> /\ Tail(ns) = selected
    <3>1. <<x>> \in Seq(N) /\ Len(<<x>>) = 1
      OBVIOUS
    <3>2. ns \in Seq(N) /\ Len(ns) = 1 + Len(selected)
      BY <1>5, <2>3, <3>1, ConcatProperties
    <3>3. \A i \in 1 .. Len(selected) : ns[i + 1] = selected[i]
      <4>1. \A i \in 1 .. Len(ns) : ns[i] = IF i <= 1 THEN <<x>>[i] ELSE selected[i - 1]
        BY <1>5, <2>3, <3>1, <3>2, ConcatProperties
      <4>2. \A i \in 1 .. Len(selected) : i + 1 \in 1 .. Len(ns) /\ ~ (i + 1 <= 1) /\ (i + 1) - 1 = i
        BY <1>5, <3>2
      <4>3. QED
        BY <4>1, <4>2
    <3>4. ns # <<>>
      BY <1>5, <3>2
    <3>5. Tail(ns) \in Seq(N) /\ Len(Tail(ns)) = Len(selected)
      BY <1>5, <3>2, <3>4, HeadTailProperties
    <3>6. \A i \in 1 .. Len(selected) : Tail(ns)[i] = selected[i]
      BY <3>2, <3>3, <3>4, <3>5, HeadTailProperties
    <3>7. QED
      BY <1>5, <3>2, <3>4, <3>5, <3>6, SeqEqual
  <2>6. \A i \in DOMAIN selected : ~ selected[i].eth
    BY <1>1, <1>2, <1>7
  <2>7. QED
    BY <1>7, <2>4, <2>5, <2>6 DEF Suits
<1>8. QED
  BY <1>6, <1>7

(* The notes a command chooses suit what it withdraws. *)
LEMMA ChosenSuits ==
    ASSUME NEW w \in Wallets, NEW r \in Requests[w], r.kind = "transfer" => r.eth,
           NEW held \in Seq(Range(w)), NEW amount \in Nat, Sponsored(Chosen(r, amount, held))
    PROVE  /\ Chosen(r, amount, held) \in Seq(Range(w))
           /\ Suits(r.eth, Chosen(r, amount, held))
<1>1. Chosen(r, amount, held) # <<>>
  BY DEF Sponsored
<1>2. CASE r.kind = "transfer"
  <2>1. r.eth
    BY <1>2
  <2>2. PICK ns : ns = CoverNotes(amount, held)
    OBVIOUS
  <2>3. PICK K : K = {x \in Range(w) : x.eth = TRUE}
    OBVIOUS
  <2>4. ns \in Seq(K)
    <3>1. PICK cover, eth : cover = TRUE /\ eth = TRUE
      OBVIOUS
    <3>2. PICK N : N = Range(w)
      OBVIOUS
    <3>3. SelectNotes(OfAsset(held, eth), amount, cover) \in Seq({x \in N : x.eth = eth})
      BY <3>2, WalletFacts, SelectedDrawn
    <3>4. QED
      BY <2>2, <2>3, <3>1, <3>2, <3>3, Zenon DEF CoverNotes
  <2>5. ns \in Seq(Range(w))
    BY <2>3, <2>4, SeqOfSubset
  <2>6. \A i \in DOMAIN ns : ns[i].eth
    BY <2>3, <2>4
  <2>7. ns = Chosen(r, amount, held)
    BY <1>2, <2>2 DEF Chosen
  <2>8. QED
    BY <1>1, <2>1, <2>5, <2>6, <2>7 DEF Suits
<1>3. CASE r.kind # "transfer"
  <2>1. Chosen(r, amount, held) = WithdrawalNotes(amount, held, r.eth)
    BY <1>3 DEF Chosen
  <2>2. PICK eth \in BOOLEAN : eth = r.eth
    BY WalletFacts
  <2>3. PICK N : N = Range(w)
    OBVIOUS
  <2>4. /\ WithdrawalNotes(amount, held, eth) \in Seq(N)
        /\ Suits(eth, WithdrawalNotes(amount, held, eth))
    BY <1>1, <2>1, <2>2, <2>3, WalletFacts, WithdrawalSuits
  <2>5. QED
    BY <2>1, <2>2, <2>3, <2>4
<1>4. QED
  BY <1>2, <1>3

-----------------------------------------------------------------------------
(* Quotes. *)

GasSet == [calls : Nat, other : Nat]

(* An estimate, padded, is at least one unit of gas for either part. *)
LEMMA EstimateFacts ==
    ASSUME NEW gas \in Estimates
    PROVE  gas \in GasSet /\ Cost(gas) \in Nat /\ Cost(gas) >= 2
<1>1. PICK g \in Gas : gas = Padded(g)
  BY DEF Estimates
<1>2. PICK a \in Nat, b \in Nat : a = g.calls /\ b = g.other
  BY WithdrawalsAssumption
<1>3. a \div 5 \in Nat /\ b \div 5 \in Nat
  OBVIOUS
<1>4. gas = [calls |-> a + a \div 5 + 1, other |-> b + b \div 5 + 1]
  BY <1>1, <1>2 DEF Padded, Pad
<1>5. QED
  BY <1>3, <1>4 DEF Cost, GasSet

(* Limits that are raised remain limits. *)
LEMMA RaisedFacts ==
    ASSUME NEW gas \in GasSet, NEW proven \in Gas
    PROVE  Raised(gas, proven) \in GasSet
<1>1. proven.calls \in Nat /\ proven.other \in Nat
  BY WithdrawalsAssumption
<1>2. gas.calls \in Nat /\ gas.other \in Nat
  BY DEF GasSet
<1>3. Max({gas.calls, proven.calls}) \in Nat /\ Max({gas.other, proven.other}) \in Nat
  BY <1>1, <1>2, GreatestOfTwo
<1>4. QED
  BY <1>3 DEF Raised, GasSet

(* The notes of a wallet add up to an amount. *)
LEMMA TotalFacts ==
    ASSUME NEW w \in Wallets, NEW ns \in Seq(Range(w))
    PROVE  Total(ns) \in Nat
<1>1. PICK N : N = Range(w)
  OBVIOUS
<1>2. \A x \in N : x.value \in Nat
  BY <1>1, WalletFacts
<1>3. QED
  BY <1>1, <1>2, TotalNatural

(* The ETH of some notes, which is all of it when all are of ETH. *)
LEMMA EthFacts ==
    ASSUME NEW w \in Wallets, NEW ns \in Seq(Range(w))
    PROVE  /\ Total(EthOf(ns)) \in Nat
           /\ (\A i \in DOMAIN ns : ns[i].eth) => EthOf(ns) = ns
<1>1. PICK N : N = Range(w)
  OBVIOUS
<1>2. PICK eth : eth = TRUE
  OBVIOUS
<1>3. EthOf(ns) = OfKind(ns, eth)
  BY <1>2, Zenon DEF EthOf
<1>4. OfKind(ns, eth) \in Seq({x \in N : x.eth = eth})
  BY <1>1, KindKept
<1>5. OfKind(ns, eth) \in Seq(Range(w))
  <2>1. PICK K : K = {x \in N : x.eth = eth}
    OBVIOUS
  <2>2. QED
    BY <1>1, <1>4, <2>1, SeqOfSubset
<1>6. ASSUME \A i \in DOMAIN ns : ns[i].eth PROVE EthOf(ns) = ns
  <2>1. \A i \in DOMAIN ns : ns[i] \in Range(w)
    OBVIOUS
  <2>2. \A i \in DOMAIN ns : ns[i].eth \in BOOLEAN
    BY <2>1, WalletFacts
  <2>3. \A i \in DOMAIN ns : ns[i].eth = eth
    BY <1>2, <1>6, <2>2, Zenon
  <2>4. QED
    BY <1>1, <1>3, <2>3, KindWhole
<1>7. QED
  BY <1>3, <1>5, <1>6, TotalFacts

-----------------------------------------------------------------------------
Operations(w) ==
    [id : Nat, eth : BOOLEAN, notes : Seq(Range(w)), gas : GasSet,
     fee : Nat, tail : Nat, forward : Int]

(* What one operation pays out: a conjunct of Balanced for each. *)
BalancedOp(op) ==
    IF op.eth
    THEN /\ op.fee + op.tail + op.forward <= Total(op.notes)
         /\ op.forward # 0 => op.fee + op.tail + op.forward = Total(op.notes)
    ELSE op.forward \in {0, Total(op.notes) - op.notes[1].value}

Sound(op) == Suits(op.eth, op.notes) /\ op.fee >= 1 /\ Cost(op.gas) <= op.fee /\ BalancedOp(op)

(* What a quote forwards and leaves. *)
LEMMA QuoteAmounts ==
    ASSUME NEW w \in Wallets, NEW r \in Requests[w], NEW ns \in Seq(Range(w)), Suits(r.eth, ns),
           NEW fee \in Nat
    PROVE  /\ Available(r, ns, fee) \in Int /\ Required(r) \in Nat
           /\ ToForward(r, ns, fee) \in Int
           /\ r.eth => /\ Available(r, ns, fee) = Total(ns) - fee
                       /\ Required(r) >= r.tail
                       /\ ToForward(r, ns, fee) = IF Total(ns) - fee - r.tail >= 0
                                                  THEN Total(ns) - fee - r.tail ELSE 0
           /\ ~ r.eth => ToForward(r, ns, fee) = Total(ns) - ns[1].value
<1>1. PICK total, tail, least, eth :
        total = Total(ns) /\ tail = r.tail /\ least = r.least /\ eth = r.eth
  OBVIOUS
<1>2. total \in Nat /\ tail \in Nat /\ least \in Nat /\ eth \in BOOLEAN
  BY <1>1, WalletFacts, TotalFacts
<1>3. CASE eth
  <2>1. EthOf(ns) = ns
    BY <1>1, <1>3, EthFacts DEF Suits
  <2>2. Available(r, ns, fee) = total - fee
    BY <1>1, <1>3, <2>1 DEF Available, SumOf
  <2>3. Required(r) = IF least >= tail THEN least ELSE tail
    <3>1. Required(r) = Max({least, tail})
      BY <1>1, <1>3 DEF Required
    <3>2. QED
      BY <1>2, <3>1, GreatestOfTwo
  <2>4. ToForward(r, ns, fee) = IF total - fee - tail >= 0 THEN total - fee - tail ELSE 0
    <3>1. PICK x \in Int : x = total - fee - tail
      BY <1>2
    <3>2. ToForward(r, ns, fee) = Max({x, 0})
      BY <1>1, <1>3, <2>2, <3>1 DEF ToForward
    <3>3. QED
      BY <3>1, <3>2, GreatestOfTwo
  <2>5. QED
    BY <1>1, <1>2, <1>3, <2>2, <2>3, <2>4
<1>4. CASE ~ eth
  <2>1. PICK v \in Nat : v = ns[1].value
    <3>1. 1 \in DOMAIN ns
      BY DEF Suits
    <3>2. ns[1] \in Range(w)
      BY <3>1
    <3>3. QED
      BY <3>2, WalletFacts
  <2>2. Available(r, ns, fee) = total - v
    BY <1>1, <1>2, <1>4, <2>1 DEF Available, SumOf
  <2>3. Required(r) = least
    <3>1. Required(r) = Max({least, 0})
      BY <1>1, <1>4 DEF Required
    <3>2. QED
      BY <1>2, <3>1, GreatestOfTwo
  <2>4. ToForward(r, ns, fee) = total - v
    BY <1>1, <1>4, <2>2 DEF ToForward
  <2>5. QED
    BY <1>1, <1>2, <1>4, <2>1, <2>2, <2>3, <2>4
<1>5. QED
  BY <1>2, <1>3, <1>4

(* A quote that has settled is balanced, and its fee covers its gas. *)
LEMMA SettledIsSound ==
    ASSUME NEW w \in Wallets, NEW r \in Requests[w], NEW ns \in Seq(Range(w)), Suits(r.eth, ns),
           NEW gas \in Estimates, NEW forward \in Int, NEW id \in Nat,
           ~ (Available(r, ns, Cost(gas)) < Required(r)),
           forward = 0 \/ forward = ToForward(r, ns, Cost(gas)), NEW op,
           op = [id |-> id, eth |-> r.eth, notes |-> ns, gas |-> gas, fee |-> Cost(gas),
                 tail |-> r.tail, forward |-> forward]
    PROVE  op \in Operations(w) /\ Sound(op)
<1>1. PICK fee \in Nat : fee = Cost(gas) /\ fee >= 2
  BY EstimateFacts
<1>2. PICK total, tail, eth : total = Total(ns) /\ tail = r.tail /\ eth = r.eth
  OBVIOUS
<1>3. total \in Nat /\ tail \in Nat /\ eth \in BOOLEAN
  BY <1>2, WalletFacts, TotalFacts
<1>4. op = [id |-> id, eth |-> eth, notes |-> ns, gas |-> gas, fee |-> fee,
            tail |-> tail, forward |-> forward]
  BY <1>1, <1>2
<1>5. op \in Operations(w)
  BY <1>3, <1>4, EstimateFacts DEF Operations
<1>6. BalancedOp(op)
  <2>1. CASE eth
    <3>1. PICK required \in Nat : required = Required(r) /\ required >= tail
      BY <1>1, <1>2, <2>1, QuoteAmounts
    <3>2. Available(r, ns, fee) = total - fee
      BY <1>1, <1>2, <2>1, QuoteAmounts
    <3>3. total - fee >= tail
      BY <1>1, <1>3, <3>1, <3>2
    <3>4. forward = 0 \/ forward = total - fee - tail
      <4>1. ToForward(r, ns, fee) = IF total - fee - tail >= 0 THEN total - fee - tail ELSE 0
        BY <1>1, <1>2, <2>1, QuoteAmounts
      <4>2. QED
        BY <1>1, <1>3, <3>3, <4>1
    <3>5. /\ fee + tail + forward <= total
          /\ forward # 0 => fee + tail + forward = total
      BY <1>1, <1>3, <3>3, <3>4
    <3>6. QED
      BY <1>2, <1>4, <2>1, <3>5 DEF BalancedOp
  <2>2. CASE ~ eth
    <3>1. ToForward(r, ns, fee) = Total(ns) - ns[1].value
      BY <1>1, <1>2, <2>2, QuoteAmounts
    <3>2. forward \in {0, Total(ns) - ns[1].value}
      BY <1>1, <3>1
    <3>3. QED
      BY <1>4, <2>2, <3>2 DEF BalancedOp
  <2>3. QED
    BY <1>3, <2>1, <2>2
<1>7. Suits(op.eth, op.notes) /\ op.fee >= 1 /\ Cost(op.gas) <= op.fee
  BY <1>1, <1>2, <1>4
<1>8. QED
  BY <1>5, <1>6, <1>7 DEF Sound

-----------------------------------------------------------------------------
(* The command that runs. *)

SoundOperations(w) == {op \in Operations(w) : Sound(op)}

Steps == {"quote", "quoted", "confirm", "prove", "send", "wait"}
Submitting == {"prove", "send", "wait"}

CommandsOn(w) ==
    [at : Steps, id : Nat, request : Requests[w], held : Seq(Range(w)), goal : Nat,
     notes : Seq(Range(w)), attempt : Nat, pass : Nat, forward : Int, confirmed : BOOLEAN,
     op : Operations(w) \cup {None}, accepted : Nat \cup {None}]

(* A command that runs: its notes suit its request, and it has what its step needs. *)
CommandOK(w, c, pools) ==
    /\ c \in CommandsOn(w)
    /\ Suits(c.request.eth, c.notes)
    /\ c.request.kind = "transfer" => c.request.eth
    /\ ~ c.request.forward => c.forward = 0
    /\ c.at \in Submitting \/ (c.at = "confirm" /\ c.request.kind = "transfer")
         => c.op \in SoundOperations(w)
    /\ c.at \in Submitting \/ (c.at = "quote" /\ c.request.kind # "transfer" /\ ~ c.request.quote)
         => c.confirmed
    /\ c.at = "send" => c.pass \in 1 .. Bundlers
    /\ c.at = "wait" => c.accepted \in 1 .. Bundlers /\ c.op \in pools[c.accepted]

(* A command stays sound when the bundlers hold more. *)
LEMMA PoolsGrow ==
    ASSUME NEW w, NEW c, NEW pools, CommandOK(w, c, pools),
           NEW more, \A b \in 1 .. Bundlers : pools[b] \subseteq more[b]
    PROVE  CommandOK(w, c, more)
BY DEF CommandOK

(* A confirmed command is quoted or proves its notes. *)
LEMMA ConfirmedIsOK ==
    ASSUME NEW w \in Wallets, NEW c, NEW pools, CommandOK(w, c, pools), c.at = "confirm",
           NEW d, d = [c EXCEPT !.confirmed = TRUE,
                                !.at = IF c.request.kind = "transfer" THEN "prove" ELSE "quote"]
    PROVE  CommandOK(w, d, pools)
<1>1. c \in CommandsOn(w)
  BY DEF CommandOK
<1>2. d \in CommandsOn(w)
  BY <1>1 DEF CommandsOn, Steps
<1>3. /\ d.request = c.request /\ d.notes = c.notes /\ d.forward = c.forward /\ d.op = c.op
      /\ d.confirmed = TRUE
      /\ d.at = IF c.request.kind = "transfer" THEN "prove" ELSE "quote"
  BY <1>1 DEF CommandsOn
<1>4. QED
  BY <1>2, <1>3 DEF CommandOK, Submitting

(* A transfer that selects again has notes that suit it. *)
LEMMA ReselectedIsOK ==
    ASSUME NEW w \in Wallets, NEW c, NEW pools, CommandOK(w, c, pools), c.at = "quote",
           c.request.kind = "transfer", NEW goal \in Nat, NEW again,
           again = CoverNotes(goal, c.held), Sponsored(again),
           NEW d, d = [c EXCEPT !.notes = again, !.goal = goal, !.attempt = @ + 1, !.pass = 1]
    PROVE  CommandOK(w, d, pools)
<1>1. c \in CommandsOn(w)
  BY DEF CommandOK
<1>2. c.request \in Requests[w] /\ c.held \in Seq(Range(w)) /\ c.attempt \in Nat
  BY <1>1 DEF CommandsOn
<1>3. again = Chosen(c.request, goal, c.held)
  BY DEF Chosen
<1>4. again \in Seq(Range(w)) /\ Suits(c.request.eth, again)
  BY <1>2, <1>3, ChosenSuits DEF CommandOK
<1>5. d \in CommandsOn(w)
  <2>1. PICK n \in Nat : n = c.attempt + 1
    BY <1>2
  <2>2. [c EXCEPT !.notes = again, !.goal = goal, !.attempt = n, !.pass = 1] \in CommandsOn(w)
    BY <1>1, <1>4 DEF CommandsOn
  <2>3. QED
    BY <2>1, <2>2
<1>6. /\ d.request = c.request /\ d.notes = again /\ d.forward = c.forward /\ d.op = c.op
      /\ d.confirmed = c.confirmed /\ d.at = "quote"
  BY <1>1 DEF CommandsOn
<1>7. QED
  BY <1>4, <1>5, <1>6 DEF CommandOK, Submitting

(* A command whose quote has settled has a balanced operation. *)
LEMMA SettledIsOK ==
    ASSUME NEW w \in Wallets, NEW c, NEW pools, CommandOK(w, c, pools), c.at = "quote",
           NEW gas \in Estimates,
           ~ (Available(c.request, c.notes, Cost(gas)) < Required(c.request)),
           ~ c.request.forward \/ c.forward = ToForward(c.request, c.notes, Cost(gas)),
           NEW op, op = [id |-> c.id, eth |-> c.request.eth, notes |-> c.notes, gas |-> gas,
                         fee |-> Cost(gas), tail |-> c.request.tail, forward |-> c.forward],
           NEW d, d = [c EXCEPT !.op = op, !.at = AfterQuote(c.request)]
    PROVE  CommandOK(w, d, pools)
<1>1. c \in CommandsOn(w)
  BY DEF CommandOK
<1>2. op \in SoundOperations(w)
  <2>1. PICK r \in Requests[w], ns \in Seq(Range(w)), forward \in Int, id \in Nat :
          r = c.request /\ ns = c.notes /\ forward = c.forward /\ id = c.id
    BY <1>1 DEF CommandsOn
  <2>2. Suits(r.eth, ns)
    BY <2>1 DEF CommandOK
  <2>3. forward = 0 \/ forward = ToForward(r, ns, Cost(gas))
    BY <2>1 DEF CommandOK
  <2>4. op \in Operations(w) /\ Sound(op)
    BY <2>1, <2>2, <2>3, SettledIsSound
  <2>5. QED
    BY <2>4 DEF SoundOperations
<1>3. AfterQuote(c.request) \in {"quoted", "confirm", "prove"}
  BY DEF AfterQuote
<1>4. d \in CommandsOn(w)
  BY <1>1, <1>2, <1>3 DEF CommandsOn, Steps, SoundOperations
<1>5. /\ d.request = c.request /\ d.notes = c.notes /\ d.forward = c.forward /\ d.op = op
      /\ d.confirmed = c.confirmed /\ d.at = AfterQuote(c.request)
  BY <1>1 DEF CommandsOn
<1>6. AfterQuote(c.request) = "prove" => c.request.kind # "transfer" /\ ~ c.request.quote
  BY DEF AfterQuote
<1>7. QED
  BY <1>2, <1>3, <1>4, <1>5, <1>6 DEF CommandOK, Submitting

(* Only a command that forwards is quoted again. *)
LEMMA RequotedIsOK ==
    ASSUME NEW w \in Wallets, NEW c, NEW pools, CommandOK(w, c, pools), c.at = "quote",
           NEW fee \in Nat, c.request.forward,
           NEW d, d = [c EXCEPT !.forward = ToForward(c.request, c.notes, fee), !.pass = @ + 1]
    PROVE  CommandOK(w, d, pools)
<1>1. c \in CommandsOn(w)
  BY DEF CommandOK
<1>2. c.pass \in Nat /\ c.request \in Requests[w] /\ c.notes \in Seq(Range(w))
  BY <1>1 DEF CommandsOn
<1>3. ToForward(c.request, c.notes, fee) \in Int
  BY <1>2, QuoteAmounts DEF CommandOK
<1>4. d \in CommandsOn(w)
  <2>1. PICK x \in Int, n \in Nat : x = ToForward(c.request, c.notes, fee) /\ n = c.pass + 1
    BY <1>2, <1>3
  <2>2. [c EXCEPT !.forward = x, !.pass = n] \in CommandsOn(w)
    BY <1>1 DEF CommandsOn
  <2>3. QED
    BY <2>1, <2>2
<1>5. /\ d.request = c.request /\ d.notes = c.notes /\ d.op = c.op
      /\ d.confirmed = c.confirmed /\ d.at = c.at
  BY <1>1 DEF CommandsOn
<1>6. QED
  BY <1>4, <1>5 DEF CommandOK, Submitting

(* Proving raises the limits of the gas only as far as the fee covers them. *)
LEMMA ProvenIsOK ==
    ASSUME NEW w \in Wallets, NEW c, NEW pools, CommandOK(w, c, pools), c.at = "prove",
           NEW gas \in Gas, Fits(c.op.gas, gas, c.op.fee),
           NEW d, d = [c EXCEPT !.op.gas = Raised(@, gas), !.at = "send", !.pass = 1]
    PROVE  CommandOK(w, d, pools)
<1>1. c \in CommandsOn(w)
  BY DEF CommandOK
<1>2. c.op \in Operations(w) /\ Sound(c.op)
  BY DEF CommandOK, Submitting, SoundOperations
<1>3. PICK op : op = [c.op EXCEPT !.gas = Raised(c.op.gas, gas)]
  OBVIOUS
<1>4. Raised(c.op.gas, gas) \in GasSet
  BY <1>2, RaisedFacts DEF Operations
<1>5. op \in Operations(w)
  BY <1>2, <1>3, <1>4 DEF Operations
<1>6. /\ op.gas = Raised(c.op.gas, gas) /\ op.fee = c.op.fee /\ op.eth = c.op.eth
      /\ op.notes = c.op.notes /\ op.tail = c.op.tail /\ op.forward = c.op.forward
  BY <1>2, <1>3 DEF Operations
<1>7. Sound(op)
  BY <1>2, <1>6 DEF Sound, BalancedOp, Fits
<1>8. d = [c EXCEPT !.op = op, !.at = "send", !.pass = 1]
  BY <1>3
<1>9. d \in CommandsOn(w)
  <2>1. op \in Operations(w) \cup {None} /\ "send" \in Steps /\ 1 \in Nat
    BY <1>5 DEF Steps
  <2>2. [c EXCEPT !.op = op, !.at = "send", !.pass = 1] \in CommandsOn(w)
    BY <1>1, <2>1 DEF CommandsOn
  <2>3. QED
    BY <1>8, <2>2
<1>10. /\ d.request = c.request /\ d.notes = c.notes /\ d.forward = c.forward /\ d.op = op
       /\ d.confirmed = c.confirmed /\ d.at = "send" /\ d.pass = 1
  BY <1>1, <1>8 DEF CommandsOn
<1>11. 1 \in 1 .. Bundlers
  BY WithdrawalsAssumption
<1>12. QED
  BY <1>5, <1>7, <1>9, <1>10, <1>11 DEF CommandOK, Submitting, SoundOperations

(* A command waits on the bundler that took its operation. *)
LEMMA RecordedIsOK ==
    ASSUME NEW w \in Wallets, NEW c, NEW pools, CommandOK(w, c, pools), c.at = "send",
           c.op \in pools[c.pass], NEW d, d = [c EXCEPT !.accepted = c.pass, !.at = "wait"]
    PROVE  CommandOK(w, d, pools)
<1>1. c \in CommandsOn(w) /\ c.pass \in 1 .. Bundlers
  BY DEF CommandOK
<1>2. d \in CommandsOn(w)
  BY <1>1 DEF CommandsOn, Steps
<1>3. /\ d.request = c.request /\ d.notes = c.notes /\ d.forward = c.forward /\ d.op = c.op
      /\ d.confirmed = c.confirmed /\ d.at = "wait" /\ d.accepted = c.pass
  BY <1>1 DEF CommandsOn
<1>4. QED
  BY <1>1, <1>2, <1>3 DEF CommandOK, Submitting

(* A refused operation goes to another bundler of the list. *)
LEMMA NextBundlerIsOK ==
    ASSUME NEW w \in Wallets, NEW c, NEW pools, CommandOK(w, c, pools), c.at = "send",
           c.pass # Bundlers, NEW d, d = [c EXCEPT !.pass = @ + 1]
    PROVE  CommandOK(w, d, pools)
<1>1. c \in CommandsOn(w) /\ c.pass \in 1 .. Bundlers
  BY DEF CommandOK
<1>2. Bundlers \in Nat
  BY WithdrawalsAssumption
<1>3. d \in CommandsOn(w)
  BY <1>1, <1>2 DEF CommandsOn
<1>4. /\ d.request = c.request /\ d.notes = c.notes /\ d.forward = c.forward /\ d.op = c.op
      /\ d.confirmed = c.confirmed /\ d.at = "send" /\ d.pass = c.pass + 1
  BY <1>1 DEF CommandsOn
<1>5. d.pass \in 1 .. Bundlers
  BY <1>1, <1>2, <1>4
<1>6. QED
  BY <1>3, <1>4, <1>5 DEF CommandOK, Submitting

-----------------------------------------------------------------------------
(* The invariant, step by step. *)

(* What the chain made of an operation it included. *)
IncludedOK(w, l, gone) ==
    /\ l.op \in SoundOperations(w) /\ l.used \in {1, l.op.fee} /\ l.extra \in {0, 2}
    /\ l.ok => /\ Range(l.op.notes) \subseteq gone /\ IsInjective(l.op.notes)
               /\ l.change = Total(EthOf(l.op.notes)) - PaidOut(l.op) - l.used

(* A report of the operation that l included. *)
IsReportOf(rep, l) ==
    /\ l.op = rep.op /\ l.ok
    /\ rep.cost # None =>
         /\ rep.cost.fee + rep.cost.change + PaidOut(rep.op) = Total(EthOf(rep.op.notes))
         /\ rep.cost.fee = l.used - l.extra

LandedOK ==
    /\ \A l \in landed : IncludedOK(wallet, l, spent)
    /\ \A l, m \in landed : l.op = m.op => l = m

WithdrawalInv ==
    /\ wallet \in Wallets
    /\ commands \in Nat
    /\ cmd = Idle \/ CommandOK(wallet, cmd, mempools)
    /\ mempools \in [1 .. Bundlers -> SUBSET SoundOperations(wallet)]
    /\ LandedOK
    /\ \A rep \in reports : \E l \in landed : IsReportOf(rep, l)

(* A step of the command that leaves the bundlers and the chain alone. *)
LEMMA QuietStep ==
    ASSUME WithdrawalInv, UNCHANGED <<wallet, spent, mempools, landed, reports>>,
           commands' \in Nat, cmd' = Idle \/ CommandOK(wallet, cmd', mempools)
    PROVE  WithdrawalInv'
BY DEF WithdrawalInv, LandedOK

(* What holds of a command at a step. *)
LEMMA Running ==
    ASSUME WithdrawalInv, NEW step, At(step), step # "idle"
    PROVE  /\ CommandOK(wallet, cmd, mempools) /\ wallet \in Wallets
           /\ cmd \in CommandsOn(wallet)
BY DEF WithdrawalInv, At, Idle, CommandOK

(* A command begins with notes that suit it. *)
LEMMA BeginKeeps ==
    ASSUME WithdrawalInv, NEW r \in Requests[wallet], Begin(r)
    PROVE  WithdrawalInv'
<1>1. PICK ns : ns = Chosen(r, r.amount, Held)
  OBVIOUS
<1>2. cmd' = IF Sponsored(ns) THEN Withdrawal(r, ns) ELSE Idle
  BY <1>1 DEF Begin
<1>3. commands' = commands + 1 /\ commands \in Nat /\ wallet \in Wallets
  BY DEF Begin, WithdrawalInv
<1>4. CASE Sponsored(ns)
  <2>1. PICK held : held = Held
    OBVIOUS
  <2>2. PICK w \in Wallets : w = wallet
    BY <1>3
  <2>3. held \in Seq(Range(w))
    <3>1. w \in Seq(Range(w))
      BY WalletFacts
    <3>2. held \in Seq(Range(w) \ spent)
      BY <2>1, <2>2, <3>1, KeptIsDrawn DEF Held
    <3>3. QED
      BY <3>2, SeqOfSubset
  <2>4. r.amount \in Nat /\ r \in Requests[w]
    BY <2>2, WalletFacts
  <2>5. r.kind = "transfer" => r.eth
    BY DEF Begin, Legal, LegalTransfer
  <2>6. ns \in Seq(Range(w)) /\ Suits(r.eth, ns)
    BY <1>1, <1>4, <2>1, <2>3, <2>4, <2>5, ChosenSuits
  <2>7. PICK at : at = IF r.kind = "transfer" \/ r.quote THEN "quote" ELSE "confirm"
    OBVIOUS
  <2>8. PICK n \in Nat : n = commands + 1
    BY <1>3
  <2>9. PICK d : d = [at |-> at, id |-> n, request |-> r, held |-> held, goal |-> r.amount,
                      notes |-> ns, attempt |-> 1, pass |-> 1, forward |-> 0,
                      confirmed |-> FALSE, op |-> None, accepted |-> None]
    OBVIOUS
  <2>10. d = Withdrawal(r, ns)
    BY <2>1, <2>7, <2>8, <2>9 DEF Withdrawal
  <2>11. d \in CommandsOn(w)
    BY <2>3, <2>4, <2>6, <2>7, <2>9 DEF CommandsOn, Steps
  <2>12. CommandOK(w, d, mempools)
    BY <2>5, <2>6, <2>7, <2>9, <2>11 DEF CommandOK, Submitting
  <2>13. cmd' = d
    BY <1>2, <1>4, <2>10
  <2>14. CommandOK(wallet, cmd', mempools)
    BY <2>2, <2>12, <2>13
  <2>15. QED
    BY <1>3, <2>14, QuietStep DEF Begin
<1>5. CASE ~ Sponsored(ns)
  BY <1>2, <1>3, <1>5, QuietStep DEF Begin
<1>6. QED
  BY <1>4, <1>5

(* The user agrees. *)
LEMMA ConfirmKeeps ==
    ASSUME WithdrawalInv, Confirm
    PROVE  WithdrawalInv'
<1>1. At("confirm") /\ CommandOK(wallet, cmd, mempools) /\ wallet \in Wallets
  BY Running DEF Confirm
<1>2. cmd' = [cmd EXCEPT !.confirmed = TRUE,
                        !.at = IF cmd.request.kind = "transfer" THEN "prove" ELSE "quote"]
  BY DEF Confirm
<1>3. CommandOK(wallet, cmd', mempools)
  BY <1>1, <1>2, ConfirmedIsOK DEF At
<1>4. commands' \in Nat /\ UNCHANGED <<wallet, spent, mempools, landed, reports>>
  BY DEF Confirm, NothingSent, outside, WithdrawalInv
<1>5. QED
  BY <1>3, <1>4, QuietStep

(* A command ends. *)
LEMMA StopKeeps ==
    ASSUME WithdrawalInv, Stop
    PROVE  WithdrawalInv'
<1>1. commands' \in Nat /\ UNCHANGED <<wallet, spent, mempools, landed, reports>>
  BY DEF Stop, NothingSent, outside, WithdrawalInv
<1>2. QED
  BY <1>1, QuietStep DEF Stop

(* A quote changes nothing but the command and what bundlers have seen. *)
LEMMA QuotingFacts ==
    ASSUME WithdrawalInv, NEW gas \in Estimates, Quoting(gas)
    PROVE  /\ CommandOK(wallet, cmd, mempools) /\ wallet \in Wallets
           /\ cmd \in CommandsOn(wallet) /\ cmd.at = "quote"
           /\ commands' \in Nat /\ UNCHANGED <<wallet, spent, mempools, landed, reports>>
<1>1. At("quote")
  BY DEF Quoting
<1>2. commands' \in Nat /\ UNCHANGED <<wallet, spent, mempools, landed, reports>>
  BY DEF Quoting, outside, WithdrawalInv
<1>3. QED
  BY <1>1, <1>2, Running DEF At

(* A quote that is short. *)
LEMMA ReselectKeeps ==
    ASSUME WithdrawalInv, NEW gas \in Estimates, Reselect(gas)
    PROVE  WithdrawalInv'
<1>1. Quoting(gas)
  BY DEF Reselect
<1>2. PICK w, c, pools :
        /\ w = wallet /\ c = cmd /\ pools = mempools
        /\ w \in Wallets /\ c \in CommandsOn(w) /\ CommandOK(w, c, pools) /\ c.at = "quote"
  BY <1>1, QuotingFacts
<1>3. PICK goal \in Nat : goal = c.request.amount + Cost(gas)
  <2>1. c.request \in Requests[w]
    BY <1>2 DEF CommandsOn
  <2>2. c.request.amount \in Nat /\ Cost(gas) \in Nat
    BY <1>2, <2>1, WalletFacts, EstimateFacts
  <2>3. QED
    BY <2>2
<1>4. PICK again : again = CoverNotes(goal, c.held)
  OBVIOUS
<1>5. \/ /\ c.request.kind = "transfer" /\ Sponsored(again)
         /\ cmd' = [c EXCEPT !.notes = again, !.goal = goal, !.attempt = @ + 1, !.pass = 1]
      \/ cmd' = Idle
  BY <1>2, <1>3, <1>4 DEF Reselect
<1>6. cmd' = Idle \/ CommandOK(w, cmd', pools)
  BY <1>2, <1>4, <1>5, ReselectedIsOK
<1>7. QED
  BY <1>1, <1>2, <1>6, QuotingFacts, QuietStep

(* A quote that has settled. *)
LEMMA SettleKeeps ==
    ASSUME WithdrawalInv, NEW gas \in Estimates, Settle(gas)
    PROVE  WithdrawalInv'
<1>1. Quoting(gas)
  BY DEF Settle
<1>2. PICK w, c, pools :
        /\ w = wallet /\ c = cmd /\ pools = mempools
        /\ w \in Wallets /\ c \in CommandsOn(w) /\ CommandOK(w, c, pools) /\ c.at = "quote"
  BY <1>1, QuotingFacts
<1>3. ~ (Available(c.request, c.notes, Cost(gas)) < Required(c.request))
  BY <1>2 DEF Settle, IsShort
<1>4. ~ c.request.forward \/ c.forward = ToForward(c.request, c.notes, Cost(gas))
  BY <1>2 DEF Settle, IsSettled
<1>5. PICK op : op = [id |-> c.id, eth |-> c.request.eth, notes |-> c.notes, gas |-> gas,
                     fee |-> Cost(gas), tail |-> c.request.tail, forward |-> c.forward]
  OBVIOUS
<1>6. cmd' = [c EXCEPT !.op = op, !.at = AfterQuote(c.request)]
  BY <1>2, <1>5 DEF Settle, Operation
<1>7. CommandOK(w, cmd', pools)
  BY <1>2, <1>3, <1>4, <1>5, <1>6, SettledIsOK
<1>8. QED
  BY <1>1, <1>2, <1>7, QuotingFacts, QuietStep

(* A quote that has not settled. *)
LEMMA RequoteKeeps ==
    ASSUME WithdrawalInv, NEW gas \in Estimates, Requote(gas)
    PROVE  WithdrawalInv'
<1>1. Quoting(gas)
  BY DEF Requote
<1>2. PICK w, c, pools :
        /\ w = wallet /\ c = cmd /\ pools = mempools
        /\ w \in Wallets /\ c \in CommandsOn(w) /\ CommandOK(w, c, pools) /\ c.at = "quote"
  BY <1>1, QuotingFacts
<1>3. PICK fee \in Nat : fee = Cost(gas)
  BY EstimateFacts
<1>4. c.request.forward
  BY <1>2 DEF Requote, IsSettled
<1>5. \/ cmd' = Idle
      \/ cmd' = [c EXCEPT !.forward = ToForward(c.request, c.notes, fee), !.pass = @ + 1]
  BY <1>2, <1>3 DEF Requote
<1>6. cmd' = Idle \/ CommandOK(w, cmd', pools)
  BY <1>2, <1>4, <1>5, RequotedIsOK
<1>7. QED
  BY <1>1, <1>2, <1>6, QuotingFacts, QuietStep

(* The notes are proved. *)
LEMMA ProveKeeps ==
    ASSUME WithdrawalInv, NEW gas \in Gas, Prove(gas)
    PROVE  WithdrawalInv'
<1>1. At("prove") /\ commands' \in Nat /\ UNCHANGED <<wallet, spent, mempools, landed, reports>>
  BY DEF Prove, outside, WithdrawalInv
<1>2. PICK w, c, pools :
        /\ w = wallet /\ c = cmd /\ pools = mempools
        /\ w \in Wallets /\ c \in CommandsOn(w) /\ CommandOK(w, c, pools) /\ c.at = "prove"
  BY <1>1, Running DEF At
<1>3. \/ cmd' = Idle
      \/ /\ Fits(c.op.gas, gas, c.op.fee)
         /\ cmd' = [c EXCEPT !.op.gas = Raised(@, gas), !.at = "send", !.pass = 1]
  BY <1>2 DEF Prove
<1>4. cmd' = Idle \/ CommandOK(w, cmd', pools)
  BY <1>2, <1>3, ProvenIsOK
<1>5. QED
  BY <1>1, <1>2, <1>4, QuietStep

(* An operation is sent, whether a bundler takes it or not. *)
LEMMA SendKeeps ==
    ASSUME WithdrawalInv, Send
    PROVE  WithdrawalInv'
<1>1. At("send") /\ commands' \in Nat /\ UNCHANGED <<wallet, spent, landed, reports>>
  BY DEF Send, outside, WithdrawalInv
<1>2. PICK w, c, pools :
        /\ w = wallet /\ c = cmd /\ pools = mempools
        /\ w \in Wallets /\ c \in CommandsOn(w) /\ CommandOK(w, c, pools) /\ c.at = "send"
  BY <1>1, Running DEF At
<1>3. pools \in [1 .. Bundlers -> SUBSET SoundOperations(w)]
  BY <1>2 DEF WithdrawalInv
<1>4. PICK b, op : b = c.pass /\ op = c.op /\ b \in 1 .. Bundlers /\ op \in SoundOperations(w)
  BY <1>2 DEF CommandOK, Submitting
<1>5. PICK taken : taken = [pools EXCEPT ![b] = @ \cup {op}]
  OBVIOUS
<1>6. /\ taken \in [1 .. Bundlers -> SUBSET SoundOperations(w)]
      /\ \A x \in 1 .. Bundlers : pools[x] \subseteq taken[x]
      /\ op \in taken[b]
  BY <1>3, <1>4, <1>5
<1>7. CommandOK(w, c, taken)
  BY <1>2, <1>6, PoolsGrow
<1>8. /\ \/ mempools' = taken
         \/ mempools' = pools /\ (cmd' = [c EXCEPT !.accepted = c.pass, !.at = "wait"] => op \in pools[b])
      /\ \/ cmd' = [c EXCEPT !.accepted = c.pass, !.at = "wait"]
         \/ cmd' = Idle
         \/ c.pass # Bundlers /\ cmd' = [c EXCEPT !.pass = @ + 1]
  <2>1. \/ mempools' = taken /\ cmd' = [c EXCEPT !.accepted = c.pass, !.at = "wait"]
        \/ op \in pools[b] /\ mempools' = pools /\ cmd' = [c EXCEPT !.accepted = c.pass, !.at = "wait"]
        \/ mempools' = taken /\ NextBundler
        \/ mempools' = pools /\ NextBundler
    BY <1>2, <1>4, <1>5 DEF Send, Accepts, Record
  <2>2. NextBundler => \/ cmd' = Idle
                       \/ c.pass # Bundlers /\ cmd' = [c EXCEPT !.pass = @ + 1]
    BY <1>2 DEF NextBundler
  <2>3. NextBundler /\ mempools' = pools =>
          (cmd' = [c EXCEPT !.accepted = c.pass, !.at = "wait"] => op \in pools[b])
    <3>1. [c EXCEPT !.accepted = c.pass, !.at = "wait"].at = "wait"
      BY <1>2 DEF CommandsOn
    <3>2. Idle.at = "idle" /\ [c EXCEPT !.pass = @ + 1].at = "send"
      BY <1>2 DEF CommandsOn, Idle
    <3>3. QED
      BY <2>2, <3>1, <3>2
  <2>4. QED
    BY <2>1, <2>2, <2>3
<1>9. cmd' = Idle \/ CommandOK(w, cmd', mempools')
  <2>1. CASE mempools' = taken
    BY <1>2, <1>4, <1>6, <1>7, <1>8, <2>1, RecordedIsOK, NextBundlerIsOK
  <2>2. CASE mempools' = pools
    <3>1. op \in taken[b]
      BY <1>6
    <3>2. QED
      BY <1>2, <1>4, <1>6, <1>7, <1>8, <2>2, RecordedIsOK, NextBundlerIsOK
  <2>3. QED
    BY <1>8, <2>1, <2>2
<1>10. mempools' \in [1 .. Bundlers -> SUBSET SoundOperations(w)]
  BY <1>3, <1>6, <1>8
<1>11. QED
  BY <1>1, <1>2, <1>9, <1>10 DEF WithdrawalInv, LandedOK

(* A bundler shares what it holds. *)
LEMMA GossipKeeps ==
    ASSUME WithdrawalInv, NEW b \in 1 .. Bundlers, NEW c \in 1 .. Bundlers, Gossip(b, c)
    PROVE  WithdrawalInv'
<1>1. /\ mempools' = [mempools EXCEPT ![c] = @ \cup mempools[b]]
      /\ UNCHANGED <<wallet, spent, commands, cmd, landed, reports>>
  BY DEF Gossip, outside
<1>2. PICK w, pools : w = wallet /\ pools = mempools
  OBVIOUS
<1>3. pools \in [1 .. Bundlers -> SUBSET SoundOperations(w)]
  BY <1>2 DEF WithdrawalInv
<1>4. PICK more : more = [pools EXCEPT ![c] = @ \cup pools[b]]
  OBVIOUS
<1>5. /\ more \in [1 .. Bundlers -> SUBSET SoundOperations(w)]
      /\ \A x \in 1 .. Bundlers : pools[x] \subseteq more[x]
  BY <1>3, <1>4
<1>6. cmd' = Idle \/ CommandOK(w, cmd', more)
  BY <1>1, <1>2, <1>5, PoolsGrow DEF WithdrawalInv
<1>7. QED
  BY <1>1, <1>2, <1>4, <1>5, <1>6 DEF WithdrawalInv, LandedOK

(* What leaves the chain with more spent notes as it was. *)
LEMMA SpentGrows ==
    ASSUME NEW w, NEW l, NEW gone, NEW more, IncludedOK(w, l, gone), gone \subseteq more
    PROVE  IncludedOK(w, l, more)
BY DEF IncludedOK

(* An operation is included, once. *)
LEMMA IncludeKeeps ==
    ASSUME WithdrawalInv, NEW op \in UNION Range(mempools), Include(op)
    PROVE  WithdrawalInv'
<1>1. PICK w, pools, gone : w = wallet /\ pools = mempools /\ gone = spent
  OBVIOUS
<1>2. pools \in [1 .. Bundlers -> SUBSET SoundOperations(w)] /\ op \in UNION Range(pools)
  BY <1>1 DEF WithdrawalInv
<1>3. op \in SoundOperations(w)
  BY <1>2 DEF Range
<1>4. /\ \A l \in landed : l.op # op
      /\ UNCHANGED <<wallet, cmd, commands, mempools, reports>>
  BY DEF Include
<1>5. PICK used \in {1, op.fee}, extra \in {0, 2}, ok \in BOOLEAN :
        /\ ok => IsInjective(op.notes)
        /\ spent' = spent \cup (IF ok THEN Range(op.notes) ELSE {op.notes[1]})
        /\ landed' = landed \cup
             {[op |-> op, ok |-> ok, used |-> used, extra |-> extra,
               change |-> IF ok THEN Total(EthOf(op.notes)) - PaidOut(op) - used
                          ELSE op.notes[1].value - used]}
  BY DEF Include
<1>6. PICK change : change = IF ok THEN Total(EthOf(op.notes)) - PaidOut(op) - used
                             ELSE op.notes[1].value - used
  OBVIOUS
<1>7. PICK x : x = [op |-> op, ok |-> ok, used |-> used, extra |-> extra, change |-> change]
  OBVIOUS
<1>8. landed' = landed \cup {x}
  BY <1>5, <1>6, <1>7
<1>9. PICK more : more = spent' /\ gone \subseteq more /\ (ok => Range(op.notes) \subseteq more)
  BY <1>1, <1>5
<1>10. IncludedOK(w, x, more)
  BY <1>3, <1>5, <1>6, <1>7, <1>9 DEF IncludedOK
<1>11. \A l \in landed' : IncludedOK(w, l, more)
  <2>1. \A l \in landed : IncludedOK(w, l, gone)
    BY <1>1 DEF WithdrawalInv, LandedOK
  <2>2. QED
    BY <1>8, <1>9, <1>10, <2>1, SpentGrows
<1>12. \A l, m \in landed' : l.op = m.op => l = m
  <2>1. \A l, m \in landed : l.op = m.op => l = m
    BY DEF WithdrawalInv, LandedOK
  <2>2. x.op = op
    BY <1>7
  <2>3. QED
    BY <1>4, <1>8, <2>1, <2>2
<1>13. LandedOK'
  BY <1>1, <1>4, <1>9, <1>11, <1>12 DEF LandedOK
<1>14. \A rep \in reports' : \E l \in landed' : IsReportOf(rep, l)
  BY <1>4, <1>8 DEF WithdrawalInv
<1>15. QED
  BY <1>4, <1>13, <1>14 DEF WithdrawalInv

(* The fee and the change a report gives are what the inclusion took. *)
LEMMA MeasureFacts ==
    ASSUME NEW w \in Wallets, NEW gone, NEW l, IncludedOK(w, l, gone), l.ok,
           Measure(l) # None
    PROVE  /\ Measure(l).fee + Measure(l).change + PaidOut(l.op) = Total(EthOf(l.op.notes))
           /\ Measure(l).fee = l.used - l.extra
<1>1. l.op \in Operations(w)
  BY DEF IncludedOK, SoundOperations
<1>2. PICK sum, paid, used, extra :
        /\ sum = Total(EthOf(l.op.notes)) /\ paid = PaidOut(l.op)
        /\ used = l.used /\ extra = l.extra
  OBVIOUS
<1>3. sum \in Nat
  BY <1>1, <1>2, EthFacts DEF Operations
<1>4. paid \in Int
  <2>1. l.op.tail \in Nat /\ l.op.forward \in Int
    BY <1>1 DEF Operations
  <2>2. QED
    BY <1>2, <2>1 DEF PaidOut
<1>5. used \in Nat
  BY <1>1, <1>2 DEF IncludedOK, Operations
<1>6. extra \in {0, 2}
  BY <1>2 DEF IncludedOK
<1>7. PICK after \in Int : after = l.change + l.extra /\ after = sum - paid - used + extra
  <2>1. l.change = sum - paid - used
    BY <1>2 DEF IncludedOK
  <2>2. sum - paid - used + extra \in Int
    BY <1>3, <1>4, <1>5, <1>6
  <2>3. QED
    BY <1>2, <2>1, <2>2
<1>8. PICK change \in Int : change = after - 0
  OBVIOUS
<1>9. Measure(l) = IF change >= 0 /\ sum - paid - change >= 0
                   THEN [fee |-> sum - paid - change, change |-> change] ELSE None
  BY <1>2, <1>7, <1>8 DEF Measure, Settled
<1>10. Measure(l) = [fee |-> sum - paid - change, change |-> change]
  BY <1>9
<1>11. Measure(l).fee = sum - paid - change /\ Measure(l).change = change
  BY <1>10
<1>12. sum - paid - change + change + paid = sum /\ sum - paid - change = used - extra
  BY <1>3, <1>4, <1>5, <1>6, <1>7, <1>8
<1>13. QED
  BY <1>2, <1>11, <1>12

(* A command is told what became of its operation. *)
LEMMA WaitKeeps ==
    ASSUME WithdrawalInv, Wait
    PROVE  WithdrawalInv'
<1>1. /\ cmd' = Idle /\ \E l \in landed : l.op = cmd.op
      /\ UNCHANGED <<wallet, spent, commands, mempools, landed>>
  BY DEF Wait
<1>2. PICK l, op : l = Outcome(cmd.op) /\ op = cmd.op
  OBVIOUS
<1>3. l \in landed /\ l.op = op
  BY <1>1, <1>2 DEF Outcome
<1>4. PICK w \in Wallets : w = wallet
  BY DEF WithdrawalInv
<1>5. IncludedOK(w, l, spent)
  BY <1>3, <1>4 DEF WithdrawalInv, LandedOK
<1>6. \/ reports' = reports
      \/ l.ok /\ \E cost \in {Measure(l), None} : Reported(cost)
  BY <1>2 DEF Wait
<1>7. \A rep \in reports' : \E m \in landed : IsReportOf(rep, m)
  <2>1. \A rep \in reports : \E m \in landed : IsReportOf(rep, m)
    BY DEF WithdrawalInv
  <2>2. ASSUME l.ok, NEW cost \in {Measure(l), None}, Reported(cost)
        PROVE  \A rep \in reports' : \E m \in landed : IsReportOf(rep, m)
    <3>1. PICK x : x = [request |-> cmd.request, op |-> op, cost |-> cost]
      OBVIOUS
    <3>2. reports' = reports \cup {x}
      BY <1>2, <2>2, <3>1 DEF Reported
    <3>3. x.op = op /\ x.cost = cost
      BY <3>1
    <3>4. IsReportOf(x, l)
      <4>1. cost # None =>
              /\ cost.fee + cost.change + PaidOut(op) = Total(EthOf(op.notes))
              /\ cost.fee = l.used - l.extra
        BY <1>3, <1>5, <2>2, MeasureFacts
      <4>2. QED
        BY <1>3, <2>2, <3>3, <4>1 DEF IsReportOf
    <3>5. QED
      BY <1>3, <2>1, <3>2, <3>4
  <2>3. QED
    BY <1>6, <2>1, <2>2
<1>8. QED
  BY <1>1, <1>7 DEF WithdrawalInv, LandedOK

-----------------------------------------------------------------------------
(* Theorems. *)

(* At first nothing has been sent. *)
LEMMA InitOK ==
    ASSUME Init
    PROVE  WithdrawalInv
<1>1. mempools = [b \in 1 .. Bundlers |-> {}] /\ wallet \in Wallets
  BY DEF Init
<1>2. mempools \in [1 .. Bundlers -> SUBSET SoundOperations(wallet)]
  BY <1>1
<1>3. QED
  BY <1>1, <1>2 DEF Init, WithdrawalInv, LandedOK

(* Every step keeps the invariant. *)
LEMMA StepKeeps ==
    ASSUME WithdrawalInv, [Next]_vars
    PROVE  WithdrawalInv'
<1>1. ASSUME NEW r \in Requests[wallet], Begin(r) PROVE WithdrawalInv'
  BY <1>1, BeginKeeps
<1>2. CASE Confirm \/ Stop
  BY <1>2, ConfirmKeeps, StopKeeps
<1>3. CASE Quote
  <2>1. PICK gas \in Estimates : Reselect(gas) \/ Settle(gas) \/ Requote(gas)
    BY <1>3 DEF Quote
  <2>2. QED
    BY <2>1, ReselectKeeps, SettleKeeps, RequoteKeeps
<1>4. ASSUME NEW gas \in Gas, Prove(gas) PROVE WithdrawalInv'
  BY <1>4, ProveKeeps
<1>5. CASE Send \/ Wait
  BY <1>5, SendKeeps, WaitKeeps
<1>6. ASSUME NEW b \in 1 .. Bundlers, NEW c \in 1 .. Bundlers, Gossip(b, c) PROVE WithdrawalInv'
  BY <1>6, GossipKeeps
<1>7. ASSUME NEW op \in UNION Range(mempools), Include(op) PROVE WithdrawalInv'
  BY <1>7, IncludeKeeps
<1>8. CASE UNCHANGED vars
  <2>1. UNCHANGED <<wallet, spent, cmd, commands, mempools, landed, reports>>
    BY <1>8 DEF vars
  <2>2. QED
    BY <2>1 DEF WithdrawalInv, LandedOK
<1>9. QED
  BY <1>1, <1>2, <1>3, <1>4, <1>5, <1>6, <1>7, <1>8 DEF Next

(* The invariant holds whatever the wallet, the requests, the gas and the   *)
(* bundlers are.                                                            *)
THEOREM WithdrawalInvariant == Spec => []WithdrawalInv
<1>1. Init => WithdrawalInv
  BY InitOK
<1>2. WithdrawalInv /\ [Next]_vars => WithdrawalInv'
  BY StepKeeps
<1>3. QED
  BY <1>1, <1>2, PTL DEF Spec

(* What a bundler holds is sound. *)
LEMMA SentIsSound ==
    ASSUME WithdrawalInv, NEW op \in Sent
    PROVE  op \in SoundOperations(wallet)
<1>1. mempools \in [1 .. Bundlers -> SUBSET SoundOperations(wallet)]
  BY DEF WithdrawalInv
<1>2. QED
  BY <1>1 DEF Sent, Range

(* No signed operation needs more gas than the fee in its proof covers: the *)
(* fee is proved before the last estimate, and the operation is sent only   *)
(* if that estimate fits (vault/tornadocash/userop.rs).                     *)
THEOREM GasIsCovered == Spec => []GasCovered
<1>1. WithdrawalInv => GasCovered
  BY SentIsSound DEF GasCovered, SoundOperations, Sound
<1>2. QED
  BY <1>1, WithdrawalInvariant, PTL

(* What an operation pays and its fee never exceed its notes, and a forward *)
(* leaves nothing but the refund: a quote settles only when what it         *)
(* forwards was computed from the fee it ends with (estimation.rs).         *)
THEOREM OperationsBalance == Spec => []Balanced
<1>1. WithdrawalInv => Balanced
  BY SentIsSound DEF Balanced, SoundOperations, Sound, BalancedOp
<1>2. QED
  BY <1>1, WithdrawalInvariant, PTL

(* The bundler a command asks for its receipt has the operation             *)
(* (bundler.rs).                                                            *)
THEOREM AcceptedIsFollowed == Spec => []FollowedUp
<1>1. WithdrawalInv => FollowedUp
  BY DEF WithdrawalInv, CommandOK, FollowedUp, At, Holds
<1>2. QED
  BY <1>1, WithdrawalInvariant, PTL

(* A reported success was included once with all of its calls, its notes    *)
(* are distinct and spent, and the fee and the change add up to them and    *)
(* stay within the quote.                                                   *)
THEOREM ReportsAreHonest == Spec => []ReportHonest
<1>1. ASSUME WithdrawalInv, NEW rep \in reports
      PROVE  /\ \E l \in landed : l.op = rep.op /\ l.ok
             /\ Range(rep.op.notes) \subseteq spent /\ IsInjective(rep.op.notes)
             /\ rep.cost # None =>
                  LET l == Outcome(rep.op)
                  IN  /\ rep.cost.fee + rep.cost.change + PaidOut(rep.op)
                           = Total(EthOf(rep.op.notes))
                      /\ rep.cost.fee = l.used - l.extra
                      /\ rep.cost.fee <= rep.op.fee
  <2>1. PICK l \in landed : IsReportOf(rep, l)
    BY <1>1 DEF WithdrawalInv
  <2>2. l.op = rep.op /\ l.ok
    BY <2>1 DEF IsReportOf
  <2>3. IncludedOK(wallet, l, spent)
    BY <1>1 DEF WithdrawalInv, LandedOK
  <2>4. Range(rep.op.notes) \subseteq spent /\ IsInjective(rep.op.notes)
    BY <2>2, <2>3 DEF IncludedOK
  <2>5. Outcome(rep.op) = l
    <3>1. \A m \in landed : m.op = rep.op => m = l
      BY <1>1, <2>2 DEF WithdrawalInv, LandedOK
    <3>2. QED
      BY <2>2, <3>1 DEF Outcome
  <2>6. l.used - l.extra <= rep.op.fee
    <3>1. rep.op.fee \in Nat /\ rep.op.fee >= 1
      BY <2>2, <2>3 DEF IncludedOK, SoundOperations, Operations, Sound
    <3>2. l.used \in {1, rep.op.fee} /\ l.extra \in {0, 2}
      BY <2>2, <2>3 DEF IncludedOK
    <3>3. QED
      BY <3>1, <3>2
  <2>7. QED
    BY <2>1, <2>2, <2>4, <2>5, <2>6 DEF IsReportOf
<1>2. WithdrawalInv => ReportHonest
  BY <1>1 DEF ReportHonest
<1>3. QED
  BY <1>2, WithdrawalInvariant, PTL

(* No bundler is given a proof of an ETH note before the user agreed: an    *)
(* ETH quote uses no real proof, and a token quote proves token notes only. *)
THEOREM QuotesKeepNotes == Spec => QuoteKeepsNotes
<1>1. ASSUME WithdrawalInv, NEW gas \in Estimates, Quoting(gas), NEW n \in seen' \ seen
      PROVE  ~ n.eth
  <2>1. Suits(cmd.request.eth, cmd.notes) /\ cmd \in CommandsOn(wallet)
    BY <1>1, QuotingFacts DEF CommandOK
  <2>2. ~ cmd.request.eth /\ n \in Range(Tail(cmd.notes))
    BY <1>1 DEF Quoting, SeenInQuote, OtherNotes
  <2>3. QED
    BY <2>1, <2>2 DEF Suits, Range
<1>2. ASSUME WithdrawalInv, NEW gas \in Gas, Prove(gas)
      PROVE  cmd.confirmed
  <2>1. At("prove")
    BY <1>2 DEF Prove
  <2>2. CommandOK(wallet, cmd, mempools)
    BY <1>2, <2>1, Running
  <2>3. QED
    BY <2>1, <2>2 DEF CommandOK, Submitting, At
<1>3. ASSUME WithdrawalInv, [Next]_vars
      PROVE  [\A n \in seen' \ seen : n.eth => cmd.confirmed]_vars
  <2>1. ASSUME NEW n \in seen' \ seen, n.eth PROVE cmd.confirmed
    <3>1. CASE Quote
      <4>1. PICK gas \in Estimates : Quoting(gas)
        BY <3>1 DEF Quote, Reselect, Settle, Requote
      <4>2. QED
        BY <1>1, <1>3, <2>1, <4>1
    <3>2. ASSUME NEW gas \in Gas, Prove(gas) PROVE cmd.confirmed
      BY <1>2, <1>3, <3>2
    <3>3. ASSUME NEW r \in Requests[wallet], Begin(r) PROVE seen' = seen
      BY <3>3 DEF Begin
    <3>4. CASE Confirm \/ Stop
      BY <2>1, <3>4 DEF Confirm, Stop, NothingSent
    <3>5. CASE Send \/ Wait
      BY <2>1, <3>5 DEF Send, Wait
    <3>6. ASSUME NEW b \in 1 .. Bundlers, NEW c \in 1 .. Bundlers, Gossip(b, c) PROVE seen' = seen
      BY <3>6 DEF Gossip
    <3>7. ASSUME NEW op \in UNION Range(mempools), Include(op) PROVE seen' = seen
      BY <3>7 DEF Include
    <3>8. CASE UNCHANGED vars
      BY <2>1, <3>8 DEF vars
    <3>9. QED
      BY <1>3, <2>1, <3>1, <3>2, <3>3, <3>4, <3>5, <3>6, <3>7, <3>8 DEF Next
  <2>2. QED
    BY <2>1
<1>4. QED
  BY <1>3, WithdrawalInvariant, PTL DEF Spec, QuoteKeepsNotes

-----------------------------------------------------------------------------
(* What notes are worth: the sums of MapThenSumSet, in any order. *)

(* Induction for P is induction over {n \in Nat : P(n)}. *)
LEMMA AllNumbers ==
    ASSUME NEW S \in SUBSET Nat, 0 \in S, \A n \in S : n + 1 \in S
    PROVE  S = Nat
<1>1. 0 \in Nat /\ \A n \in Nat : n >= 0
  OBVIOUS
<1>. QED BY <1>1, UpwardClosed

Some(S) == CHOOSE x \in S : TRUE

(* What the notes at some indices are worth. *)
Worth(notes, S) == MapThenSumSet(LAMBDA i : notes[i].value, S)

(* it sums w over the subsets of S. *)
Summing(it, w, S) ==
    it = [s \in SUBSET S |->
            IF s = {} THEN 0 ELSE w[Some(s)].value + it[s \ {Some(s)}]]

(* A set without one of its elements. *)
LEMMA Smaller ==
    ASSUME NEW S, IsFiniteSet(S), NEW x \in S
    PROVE  /\ IsFiniteSet(S \ {x}) /\ Cardinality(S) \in Nat /\ Cardinality(S) >= 1
           /\ Cardinality(S \ {x}) = Cardinality(S) - 1
<1>1. IsFiniteSet(S \ {x}) /\ Cardinality(S \ {x}) = Cardinality(S) - 1
  BY FS_RemoveElement
<1>2. Cardinality(S) \in Nat /\ Cardinality(S \ {x}) \in Nat
  BY <1>1, FS_CardinalityType
<1>. QED BY <1>1, <1>2

(* An element is one. *)
LEMMA SomeIs == \A S : S # {} => Some(S) \in S
BY DEF Some

(* it sums w over the subsets of S with up to k elements. *)
WorthUpTo(it, w, S, k) ==
    /\ it \in [SUBSET S -> Nat] /\ it[{}] = 0
    /\ \A s \in SUBSET S : s # {} /\ Cardinality(s) <= k =>
         it[s] = w[Some(s)].value + it[s \ {Some(s)}]

(* There is such a sum: one for the sets of k elements extends to k + 1. *)
LEMMA WorthExists ==
    ASSUME NEW S, IsFiniteSet(S), NEW w, \A x \in S : w[x].value \in Nat
    PROVE  \E it : Summing(it, w, S)
<1> DEFINE K == {k \in Nat : \E it : WorthUpTo(it, w, S, k)}
<1>0. \A s \in SUBSET S : IsFiniteSet(s) /\ Cardinality(s) \in Nat
  BY FS_Subset, FS_CardinalityType
<1>1. 0 \in K
  <2> DEFINE it == [s \in SUBSET S |-> 0]
  <2>1. it \in [SUBSET S -> Nat] /\ it[{}] = 0
    OBVIOUS
  <2>2. ASSUME NEW s \in SUBSET S, s # {} PROVE ~ (Cardinality(s) <= 0)
    <3>1. Some(s) \in s
      BY <2>2, SomeIs
    <3>2. Cardinality(s) \in Nat /\ Cardinality(s) >= 1
      BY <1>0, <3>1, Smaller
    <3>. QED BY <3>2
  <2> HIDE DEF it
  <2>3. WorthUpTo(it, w, S, 0)
    BY <2>1, <2>2 DEF WorthUpTo
  <2>. QED BY <2>3
<1>2. ASSUME NEW k \in K PROVE k + 1 \in K
  <2>1. PICK f : WorthUpTo(f, w, S, k)
    OBVIOUS
  <2>2. k \in Nat
    OBVIOUS
  <2> DEFINE next(s) == w[Some(s)].value + f[s \ {Some(s)}]
             g == [s \in SUBSET S |-> IF s # {} /\ Cardinality(s) = k + 1 THEN next(s) ELSE f[s]]
  <2>3. ASSUME NEW s \in SUBSET S, s # {}
        PROVE  /\ Some(s) \in s /\ s \ {Some(s)} \in SUBSET S
               /\ Cardinality(s \ {Some(s)}) = Cardinality(s) - 1 /\ next(s) \in Nat
    <3>1. Some(s) \in s /\ Some(s) \in S
      BY <2>3, SomeIs
    <3>2. f[s \ {Some(s)}] \in Nat
      BY <2>1 DEF WorthUpTo
    <3>. QED BY <1>0, <3>1, <3>2, Smaller
  <2>4. g \in [SUBSET S -> Nat] /\ g[{}] = 0
    BY <2>1, <2>3 DEF WorthUpTo
  <2>5. ASSUME NEW s \in SUBSET S, s # {}, Cardinality(s) <= k + 1
        PROVE  g[s] = w[Some(s)].value + g[s \ {Some(s)}]
    <3>1. Cardinality(s) \in Nat
      BY <1>0
    <3>2. g[s \ {Some(s)}] = f[s \ {Some(s)}]
      BY <2>2, <2>3, <2>5, <3>1
    <3>3. g[s] = next(s)
      <4>1. CASE Cardinality(s) = k + 1
        BY <2>5, <4>1
      <4>2. CASE Cardinality(s) # k + 1
        BY <2>1, <2>2, <2>5, <3>1, <4>2 DEF WorthUpTo
      <4>. QED BY <4>1, <4>2
    <3>. QED BY <3>2, <3>3
  <2> HIDE DEF g
  <2>6. WorthUpTo(g, w, S, k + 1)
    BY <2>4, <2>5 DEF WorthUpTo
  <2>. QED BY <2>2, <2>6
<1>3. K = Nat
  <2> HIDE DEF K
  <2>1. K \in SUBSET Nat
    BY DEF K
  <2>. QED BY <1>1, <1>2, <2>1, AllNumbers
<1>4. PICK it : WorthUpTo(it, w, S, Cardinality(S))
  BY <1>0, <1>3
<1>5. \A s \in SUBSET S : Cardinality(s) <= Cardinality(S)
  BY FS_Subset
<1>6. Summing(it, w, S)
  <2>1. it = [s \in SUBSET S |-> it[s]]
    BY <1>4 DEF WorthUpTo
  <2>2. \A s \in SUBSET S :
          it[s] = IF s = {} THEN 0 ELSE w[Some(s)].value + it[s \ {Some(s)}]
    BY <1>4, <1>5 DEF WorthUpTo
  <2>. QED BY <2>1, <2>2 DEF Summing
<1>. QED BY <1>6

(* The folds over two sets agree on what both sets hold. *)
LEMMA WorthsAgree ==
    ASSUME NEW w, NEW S, NEW T, NEW f, NEW g, Summing(f, w, S), Summing(g, w, T),
           NEW s \in SUBSET S, s \in SUBSET T, IsFiniteSet(s)
    PROVE  f[s] = g[s]
<1> DEFINE K == {k \in Nat : \A u \in SUBSET s : Cardinality(u) = k => f[u] = g[u]}
<1>0. \A u \in SUBSET s : IsFiniteSet(u) /\ Cardinality(u) \in Nat
  BY FS_Subset, FS_CardinalityType
<1>1. /\ f[{}] = 0 /\ g[{}] = 0
      /\ \A u \in SUBSET s : u # {} =>
           /\ f[u] = w[Some(u)].value + f[u \ {Some(u)}]
           /\ g[u] = w[Some(u)].value + g[u \ {Some(u)}]
  BY DEF Summing
<1>2. \A u \in SUBSET s : u # {} =>
        u \ {Some(u)} \in SUBSET s /\ Cardinality(u \ {Some(u)}) = Cardinality(u) - 1
        /\ Cardinality(u) >= 1
  BY <1>0, SomeIs, Smaller
<1>3. 0 \in K
  <2>1. \A u \in SUBSET s : Cardinality(u) = 0 => u = {}
    BY <1>0, FS_EmptySet
  <2>. QED BY <1>1, <2>1
<1>4. ASSUME NEW k \in K PROVE k + 1 \in K
  <2>1. ASSUME NEW u \in SUBSET s, Cardinality(u) = k + 1 PROVE f[u] = g[u]
    <3>1. CASE u = {}
      BY <1>1, <3>1
    <3>2. CASE u # {}
      <4>1. f[u \ {Some(u)}] = g[u \ {Some(u)}]
        BY <1>2, <2>1, <3>2
      <4>. QED BY <1>1, <3>2, <4>1
    <3>. QED BY <3>1, <3>2
  <2>. QED BY <2>1
<1>5. K = Nat
  <2> HIDE DEF K
  <2>1. K \in SUBSET Nat
    BY DEF K
  <2>. QED BY <1>3, <1>4, <2>1, AllNumbers
<1>. QED BY <1>0, <1>5

(* Worth is a fold that takes the elements in the order of CHOOSE; WorthAny *)
(* below says that any other gives the same.                                *)
LEMMA WorthIs ==
    ASSUME NEW S, IsFiniteSet(S), NEW w, \A x \in S : w[x].value \in Nat
    PROVE  \E it : Summing(it, w, S) /\ Worth(w, S) = it[S]
<1>1. PICK f : Summing(f, w, S)
  BY WorthExists
<1>2. PICK it : Summing(it, w, S) /\ Worth(w, S) = it[S]
  BY <1>1 DEF Worth, MapThenSumSet, MapThenFoldSet, Summing, Some
<1>. QED BY <1>2

(* The step of that fold. *)
LEMMA WorthStep ==
    ASSUME NEW S, IsFiniteSet(S), NEW w, \A x \in S : w[x].value \in Nat
    PROVE  /\ S = {} => Worth(w, S) = 0
           /\ S # {} => /\ Some(S) \in S
                        /\ Worth(w, S) = w[Some(S)].value + Worth(w, S \ {Some(S)})
<1>1. PICK f : Summing(f, w, S) /\ Worth(w, S) = f[S]
  BY WorthIs
<1>2. CASE S # {}
  <2>1. Some(S) \in S
    BY <1>2, SomeIs
  <2> DEFINE T == S \ {Some(S)}
  <2>2. T \in SUBSET S /\ IsFiniteSet(T)
    BY <2>1, Smaller
  <2>3. PICK g : Summing(g, w, T) /\ Worth(w, T) = g[T]
    BY <2>2, WorthIs
  <2>4. f[T] = g[T]
    BY <1>1, <2>2, <2>3, WorthsAgree
  <2>5. f[S] = w[Some(S)].value + f[T]
    BY <1>1, <1>2 DEF Summing
  <2>. QED BY <1>1, <1>2, <2>1, <2>3, <2>4, <2>5
<1>3. CASE S = {}
  BY <1>1, <1>3 DEF Summing
<1>. QED BY <1>2, <1>3

(* What does not depend on the order, for the sets of n elements. *)
WorthOf(w, D, n) ==
    \A S \in SUBSET D : Cardinality(S) = n =>
      /\ Worth(w, S) \in Nat
      /\ \A x \in S : Worth(w, S) = w[x].value + Worth(w, S \ {x})

(* What holds up to n notes holds for n + 1: the order of two is exchanged. *)
LEMMA WorthNext ==
    ASSUME NEW D, IsFiniteSet(D), NEW w, \A x \in D : w[x].value \in Nat,
           NEW n \in Nat, \A k \in 0 .. n : WorthOf(w, D, k),
           NEW S \in SUBSET D, Cardinality(S) = n + 1
    PROVE  /\ Worth(w, S) \in Nat
           /\ \A x \in S : Worth(w, S) = w[x].value + Worth(w, S \ {x})
<1>1. \A T \in SUBSET D : IsFiniteSet(T) /\ Cardinality(T) \in Nat
  BY FS_Subset, FS_CardinalityType
<1>2. \A T \in SUBSET D : \A x \in T :
        T \ {x} \in SUBSET D /\ Cardinality(T \ {x}) = Cardinality(T) - 1
  BY <1>1, Smaller
<1>3. S # {}
  BY FS_EmptySet
<1>4. PICK y \in S : Worth(w, S) = w[y].value + Worth(w, S \ {y})
  BY <1>1, <1>3, WorthStep
<1>5. \A x \in S : S \ {x} \in SUBSET D /\ Cardinality(S \ {x}) = n
  BY <1>2
<1>6. \A x \in S : w[x].value \in Nat /\ Worth(w, S \ {x}) \in Nat
  BY <1>5 DEF WorthOf
<1>7. ASSUME NEW x \in S, x # y
      PROVE  Worth(w, S) = w[x].value + Worth(w, S \ {x})
  <2> DEFINE rest == S \ {x, y}
  <2>1. (S \ {y}) \ {x} = rest /\ (S \ {x}) \ {y} = rest
    OBVIOUS
  <2>2. Worth(w, S \ {y}) = w[x].value + Worth(w, rest)
    BY <1>5, <1>7, <2>1 DEF WorthOf
  <2>3. Worth(w, S \ {x}) = w[y].value + Worth(w, rest)
    BY <1>5, <1>7, <2>1 DEF WorthOf
  <2>4. rest \in SUBSET D /\ Cardinality(rest) = n - 1 /\ Cardinality(rest) \in Nat
    <3>1. S \ {y} \in SUBSET D /\ Cardinality(S \ {y}) = n /\ x \in S \ {y}
      BY <1>5, <1>7
    <3>. QED BY <1>1, <1>2, <2>1, <3>1
  <2>5. Worth(w, rest) \in Nat
    BY <2>4 DEF WorthOf
  <2> HIDE DEF rest
  <2>. QED BY <1>4, <1>6, <2>2, <2>3, <2>5
<1>8. Worth(w, S) \in Nat
  BY <1>4, <1>6
<1>. QED BY <1>4, <1>7, <1>8

(* Any note may be counted first. *)
LEMMA WorthAny ==
    ASSUME NEW D, IsFiniteSet(D), NEW w, \A x \in D : w[x].value \in Nat, NEW S \in SUBSET D
    PROVE  /\ Worth(w, S) \in Nat /\ Worth(w, {}) = 0
           /\ \A x \in S : Worth(w, S) = w[x].value + Worth(w, S \ {x})
<1> DEFINE K == {n \in Nat : \A k \in 0 .. n : WorthOf(w, D, k)}
<1>1. \A T \in SUBSET D : IsFiniteSet(T) /\ Cardinality(T) \in Nat
  BY FS_Subset, FS_CardinalityType
<1>2. Worth(w, {}) = 0
  BY FS_EmptySet, WorthStep
<1>3. WorthOf(w, D, 0)
  <2>1. \A T \in SUBSET D : Cardinality(T) = 0 => T = {}
    BY <1>1, FS_EmptySet
  <2>2. 0 \in Nat /\ \A x \in {} : FALSE
    OBVIOUS
  <2>. QED BY <1>2, <2>1, <2>2, Zenon DEF WorthOf
<1>4. ASSUME NEW n \in K PROVE n + 1 \in K
  <2>1. n \in Nat /\ \A k \in 0 .. n : WorthOf(w, D, k)
    OBVIOUS
  <2>2. WorthOf(w, D, n + 1)
    <3>1. ASSUME NEW T \in SUBSET D, Cardinality(T) = n + 1
          PROVE  /\ Worth(w, T) \in Nat
                 /\ \A x \in T : Worth(w, T) = w[x].value + Worth(w, T \ {x})
      <4> HIDE DEF K
      <4>. QED BY <2>1, <3>1, WorthNext
    <3>. QED BY <3>1, Zenon DEF WorthOf
  <2>3. \A k \in 0 .. n + 1 : k \in 0 .. n \/ k = n + 1
    BY <2>1
  <2>. QED BY <2>1, <2>2, <2>3
<1>5. K = Nat
  <2>1. 0 \in K
    <3>1. \A k \in 0 .. 0 : k = 0
      OBVIOUS
    <3>. QED BY <1>3, <3>1
  <2> HIDE DEF K
  <2>2. K \in SUBSET Nat
    BY DEF K
  <2>. QED BY <1>4, <2>1, <2>2, AllNumbers
<1>6. WorthOf(w, D, Cardinality(S))
  <2>1. Cardinality(S) \in Nat
    BY <1>1
  <2>. QED BY <1>5, <2>1
<1>. QED BY <1>2, <1>6 DEF WorthOf

(* What two sets without a common element add up to. *)
Joins(w, A, B) == Worth(w, A \cup B) = Worth(w, A) + Worth(w, B)

(* So the worth of two parts is that of both. *)
LEMMA WorthParts ==
    ASSUME NEW D, IsFiniteSet(D), NEW w, \A x \in D : w[x].value \in Nat,
           NEW A \in SUBSET D, NEW B \in SUBSET D, A \cap B = {}
    PROVE  Worth(w, A \cup B) = Worth(w, A) + Worth(w, B)
<1> DEFINE K == {n \in Nat : \A S \in SUBSET A : Cardinality(S) = n => Joins(w, S, B)}
<1>1. \A S \in SUBSET D : /\ IsFiniteSet(S) /\ Cardinality(S) \in Nat
                          /\ Worth(w, S) \in Nat
  BY FS_Subset, FS_CardinalityType, WorthAny
<1>2. Worth(w, {}) = 0
  BY WorthAny
<1>3. 0 \in K
  <2>1. \A S \in SUBSET A : Cardinality(S) = 0 => S = {}
    BY <1>1, FS_EmptySet
  <2>2. {} \cup B = B
    OBVIOUS
  <2>3. Joins(w, {}, B)
    BY <1>1, <1>2, <2>2 DEF Joins
  <2>. QED BY <2>1, <2>3
<1>4. ASSUME NEW n \in K PROVE n + 1 \in K
  <2>1. ASSUME NEW S \in SUBSET A, Cardinality(S) = n + 1 PROVE Joins(w, S, B)
    <3>1. S # {}
      <4>1. Cardinality(S) # 0
        BY <2>1
      <4>. QED BY <4>1, FS_EmptySet
    <3>2. PICK x \in S : TRUE
      BY <3>1
    <3> DEFINE T == S \ {x}
    <3>3. T \in SUBSET A /\ Cardinality(T) = n /\ (S \cup B) \ {x} = T \cup B
      BY <1>1, <2>1, Smaller
    <3>4. Joins(w, T, B)
      BY <3>3
    <3>5. Worth(w, S) = w[x].value + Worth(w, T)
      BY WorthAny
    <3>6. Worth(w, S \cup B) = w[x].value + Worth(w, T \cup B)
      BY <3>3, WorthAny
    <3>7. w[x].value \in Nat /\ Worth(w, T) \in Nat /\ Worth(w, B) \in Nat
      BY <1>1, <3>3
    <3> HIDE DEF T
    <3>8. /\ Worth(w, S) = w[x].value + Worth(w, T)
          /\ Worth(w, T \cup B) = Worth(w, T) + Worth(w, B)
      BY <3>4, <3>5 DEF Joins
    <3>9. \A a, b, c \in Nat :
            a + (b + c) = (a + b) + c
      OBVIOUS
    <3>10. (w[x].value + (Worth(w, T) + Worth(w, B)))
             = (w[x].value + Worth(w, T)) + Worth(w, B)
      BY <3>7, <3>9, Zenon
    <3>11. Worth(w, S \cup B) = Worth(w, S) + Worth(w, B)
      BY <3>6, <3>8, <3>10, Zenon
    <3>. QED BY <3>11, Zenon DEF Joins
  <2>. QED BY <2>1
<1>5. K = Nat
  <2> HIDE DEF K
  <2>1. K \in SUBSET Nat
    BY DEF K
  <2>. QED BY <1>3, <1>4, <2>1, AllNumbers
<1>. QED BY <1>1, <1>5 DEF Joins
------------------------------------------------------------------------

(* The worth of some notes is that of one of them and of the others. *)
Without(w, S, x) == Worth(w, S) = w[x].value + Worth(w, S \ {x})

(* It may be any of them. *)
LEMMA WorthWithout ==
    ASSUME NEW D, IsFiniteSet(D), NEW w, \A i \in D : w[i].value \in Nat, NEW S \in SUBSET D,
           NEW x \in S
    PROVE  Without(w, S, x)
BY WorthAny DEF Without

(* What is used of the worth of notes. *)
LEMMA WorthFacts ==
    ASSUME NEW N, Valued(N), NEW notes \in Seq(N), NEW S \in SUBSET DOMAIN notes
    PROVE  /\ IsFiniteSet(S) /\ Cardinality(S) \in Nat /\ Worth(notes, S) \in Nat
           /\ Worth(notes, {}) = 0
           /\ \A x \in S : /\ Worth(notes, S) = notes[x].value + Worth(notes, S \ {x})
                           /\ Worth(notes, S \ {x}) \in Nat /\ notes[x].value \in Nat
                           /\ notes[x].value > 0
<1>1. PICK n \in Nat : n = Len(notes) /\ DOMAIN notes = 1 .. n
  OBVIOUS
<1>2. IsFiniteSet(1 .. n)
  BY FS_Interval
<1>3. \A i \in 1 .. n : notes[i].value \in Nat /\ notes[i].value > 0
  BY <1>1 DEF Valued
<1>4. ASSUME NEW T \in SUBSET (1 .. n)
      PROVE  /\ IsFiniteSet(T) /\ Cardinality(T) \in Nat
             /\ Worth(notes, T) \in Nat /\ Worth(notes, {}) = 0
             /\ \A x \in T : Worth(notes, T) = notes[x].value + Worth(notes, T \ {x})
  <2>1. IsFiniteSet(T) /\ Cardinality(T) \in Nat
    BY <1>2, FS_Subset, FS_CardinalityType
  <2>2. PICK D : D = 1 .. n
    OBVIOUS
  <2>3. IsFiniteSet(D) /\ T \in SUBSET D /\ \A x \in D : notes[x].value \in Nat
    BY <1>2, <1>3, <2>2
  <2>4. Worth(notes, T) \in Nat /\ Worth(notes, {}) = 0
    BY <2>3, WorthAny
  <2>5. ASSUME NEW x \in T PROVE Worth(notes, T) = notes[x].value + Worth(notes, T \ {x})
    <3>1. Without(notes, T, x)
      BY <2>3, WorthWithout
    <3>. QED BY <3>1 DEF Without
  <2>. QED BY <2>1, <2>4, <2>5
<1>5. \A x \in S : S \ {x} \in SUBSET (1 .. n)
  BY <1>1
<1>. QED BY <1>1, <1>3, <1>4, <1>5

(* Notes of no more than u each are worth no more than u times their number. *)
AtMost(notes, u, S) ==
    /\ Worth(notes, S) <= u * Cardinality(S)
    /\ (\A i \in S : notes[i].value = u) => Worth(notes, S) = u * Cardinality(S)

(* Notes of no more than u each are worth no more than u times as many. *)
LEMMA WorthAtMost ==
    ASSUME NEW N, Valued(N), NEW notes \in Seq(N), NEW S \in SUBSET DOMAIN notes,
           NEW u \in Nat, \A i \in S : notes[i].value <= u
    PROVE  AtMost(notes, u, S)
<1> DEFINE K == {n \in Nat : \A T \in SUBSET S : Cardinality(T) = n => AtMost(notes, u, T)}
<1>1. \A T \in SUBSET S : IsFiniteSet(T) /\ Cardinality(T) \in Nat
  BY WorthFacts
<1>2. 0 \in K
  <2>1. \A T \in SUBSET S : Cardinality(T) = 0 => T = {}
    BY <1>1, FS_EmptySet
  <2>2. Worth(notes, {}) = 0 /\ Cardinality({}) = 0 /\ u * 0 = 0
    BY WorthFacts, FS_EmptySet
  <2>. QED BY <2>1, <2>2 DEF AtMost
<1>3. ASSUME NEW n \in K PROVE n + 1 \in K
  <2>0. n \in Nat
    OBVIOUS
  <2>1. ASSUME NEW T \in SUBSET S, Cardinality(T) = n + 1 PROVE AtMost(notes, u, T)
    <3>1. PICK x \in T : TRUE
      <4>1. Cardinality(T) # 0
        BY <2>0, <2>1
      <4>. QED BY <4>1, FS_EmptySet
    <3>2. T \ {x} \in SUBSET S /\ Cardinality(T \ {x}) = n
      BY <1>1, <2>0, <2>1, Smaller
    <3>3. AtMost(notes, u, T \ {x})
      BY <3>2
    <3>4. PICK a \in Nat, v \in Nat :
            a = Worth(notes, T \ {x}) /\ v = notes[x].value /\ Worth(notes, T) = v + a
      BY WorthFacts
    <3>5. a <= u * n /\ v <= u
      BY <3>2, <3>3, <3>4 DEF AtMost
    <3>6. u * (n + 1) = u * n + u
      BY <2>0
    <3>7. u * n \in Nat
      BY <2>0
    <3>8. v + a <= u * n + u
      BY <3>5, <3>7
    <3>9. ASSUME \A i \in T : notes[i].value = u PROVE v + a = u * n + u
      <4>1. v = u /\ a = u * n
        BY <3>2, <3>3, <3>4, <3>9 DEF AtMost
      <4>. QED BY <3>7, <4>1
    <3>. QED BY <2>1, <3>4, <3>6, <3>8, <3>9 DEF AtMost
  <2>2. n + 1 \in Nat
    BY <2>0
  <2>. QED BY <2>1, <2>2
<1>4. K = Nat
  <2> HIDE DEF K
  <2>1. K \in SUBSET Nat
    BY DEF K
  <2>. QED BY <1>2, <1>3, <2>1, AllNumbers
<1>. QED BY <1>1, <1>4

(* More notes are worth more. *)
LEMMA WorthGrows ==
    ASSUME NEW N, Valued(N), NEW notes \in Seq(N), NEW B \in SUBSET DOMAIN notes, NEW A \in SUBSET B
    PROVE  /\ Worth(notes, B) = Worth(notes, A) + Worth(notes, B \ A)
           /\ Worth(notes, A) <= Worth(notes, B)
           /\ Cardinality(B) = Cardinality(A) + Cardinality(B \ A)
<1>1. IsFiniteSet(B) /\ \A x \in B : notes[x].value \in Nat
  BY WorthFacts
<1>2. A \in SUBSET B /\ B \ A \in SUBSET B /\ A \cap (B \ A) = {} /\ A \cup (B \ A) = B
  OBVIOUS
<1>3. Worth(notes, B) = Worth(notes, A) + Worth(notes, B \ A)
  <2>1. Worth(notes, A \cup (B \ A)) = Worth(notes, A) + Worth(notes, B \ A)
    BY <1>1, <1>2, WorthParts
  <2>. QED BY <1>2, <2>1
<1>4. Worth(notes, A) \in Nat /\ Worth(notes, B \ A) \in Nat
  BY WorthFacts
<1>5. Cardinality(B) = Cardinality(A) + Cardinality(B \ A)
  <2>1. IsFiniteSet(A) /\ IsFiniteSet(B \ A)
    BY <1>1, FS_Subset
  <2>2. Cardinality(A \cup (B \ A)) = Cardinality(A) + Cardinality(B \ A) - Cardinality(A \cap (B \ A))
    BY <2>1, FS_Union
  <2>3. Cardinality(A) \in Nat /\ Cardinality(B \ A) \in Nat
    BY <2>1, FS_CardinalityType
  <2>4. Cardinality(A \cap (B \ A)) = 0
    BY <1>2, FS_EmptySet
  <2>5. PICK x \in Nat, y \in Nat : x = Cardinality(A) /\ y = Cardinality(B \ A)
    BY <2>3
  <2>6. Cardinality(A \cup (B \ A)) = x + y - 0
    BY <2>2, <2>4, <2>5
  <2>7. Cardinality(B) = Cardinality(A \cup (B \ A))
    BY <1>2, Zenon
  <2>. QED BY <2>5, <2>6, <2>7
<1>. QED BY <1>3, <1>4, <1>5

(* Two disjoint sets of notes. *)
LEMMA WorthTogether ==
    ASSUME NEW N, Valued(N), NEW notes \in Seq(N), NEW A \in SUBSET DOMAIN notes,
           NEW B \in SUBSET DOMAIN notes, A \cap B = {}
    PROVE  /\ Worth(notes, A \cup B) = Worth(notes, A) + Worth(notes, B)
           /\ Cardinality(A \cup B) = Cardinality(A) + Cardinality(B)
<1>1. A \cup B \in SUBSET DOMAIN notes /\ A \in SUBSET (A \cup B) /\ (A \cup B) \ A = B
  OBVIOUS
<1>. QED BY <1>1, WorthGrows

(* Sets of notes of the same values. *)
LEMMA WorthSame ==
    ASSUME NEW N, Valued(N), NEW v \in Seq(N), NEW w \in Seq(N),
           NEW S, S \in SUBSET DOMAIN v, S \in SUBSET DOMAIN w, \A i \in S : v[i].value = w[i].value
    PROVE  Worth(v, S) = Worth(w, S)
<1> DEFINE K == {n \in Nat : \A T \in SUBSET S : Cardinality(T) = n => Worth(v, T) = Worth(w, T)}
<1>1. \A T \in SUBSET S : IsFiniteSet(T) /\ Cardinality(T) \in Nat
  BY WorthFacts
<1>2. 0 \in K
  <2>1. \A T \in SUBSET S : Cardinality(T) = 0 => T = {}
    BY <1>1, FS_EmptySet
  <2>2. Worth(v, {}) = 0 /\ Worth(w, {}) = 0
    BY WorthFacts
  <2>. QED BY <2>1, <2>2
<1>3. ASSUME NEW n \in K PROVE n + 1 \in K
  <2>0. n \in Nat
    OBVIOUS
  <2>1. ASSUME NEW T \in SUBSET S, Cardinality(T) = n + 1 PROVE Worth(v, T) = Worth(w, T)
    <3>1. PICK x \in T : TRUE
      <4>1. Cardinality(T) # 0
        BY <2>0, <2>1
      <4>. QED BY <4>1, FS_EmptySet
    <3>2. T \ {x} \in SUBSET S /\ Cardinality(T \ {x}) = n
      BY <1>1, <2>0, <2>1, Smaller
    <3>3. Worth(v, T \ {x}) = Worth(w, T \ {x})
      BY <3>2
    <3>4. T \in SUBSET DOMAIN v /\ T \in SUBSET DOMAIN w
      OBVIOUS
    <3>5. /\ Worth(v, T) = v[x].value + Worth(v, T \ {x})
          /\ Worth(w, T) = w[x].value + Worth(w, T \ {x})
      <4>1. Worth(v, T) = v[x].value + Worth(v, T \ {x})
        BY <3>4, WorthFacts, SMTT(30)
      <4>2. Worth(w, T) = w[x].value + Worth(w, T \ {x})
        BY <3>4, WorthFacts
      <4>. QED BY <4>1, <4>2
    <3>. QED BY <3>3, <3>5
  <2>2. n + 1 \in Nat
    BY <2>0
  <2>. QED BY <2>1, <2>2
<1>4. K = Nat
  <2> HIDE DEF K
  <2>1. K \in SUBSET Nat
    BY DEF K
  <2>. QED BY <1>2, <1>3, <2>1, AllNumbers
<1>. QED BY <1>1, <1>4

-----------------------------------------------------------------------------
(* Totals of sequences. *)

(* Total adds up the notes one by one. *)
TotalOf(acc, ns) ==
    /\ acc[0] = 0
    /\ \A k \in 1 .. Len(ns) : acc[k] = acc[k - 1] + ns[k].value

(* It does so by accumulating. *)
LEMMA TotalSteps ==
    ASSUME NEW N, \A x \in N : x.value \in Nat, NEW ns \in Seq(N)
    PROVE  \E acc \in [0 .. Len(ns) -> Nat] : TotalOf(acc, ns) /\ Total(ns) = acc[Len(ns)]
<1>1. PICK n \in Nat : n = Len(ns) /\ DOMAIN ns = 1 .. n
  OBVIOUS
<1>2. \A i \in 1 .. n : ns[i].value \in Nat
  BY <1>1
<1> DEFINE h == [i \in 1 .. n |-> [a \in Nat |-> a + ns[i].value]]
<1>3. h \in [1 .. n -> [Nat -> Nat]]
  BY <1>2
<1>4. 0 \in Nat /\ \A i \in 1 .. n : \A a \in Nat : h[i][a] = a + ns[i].value
  OBVIOUS
<1> HIDE DEF h
<1>5. PICK f \in [SUBSET (1 .. n) -> Nat] : Folding(f, n, 0, h)
  BY <1>3, <1>4, FoldingExists
<1>6. \A s \in SUBSET (1 .. n) : s # {} => Max(s) \in 1 .. n /\ s \ {Max(s)} \in SUBSET (1 .. n)
  BY Greatest
<1>7. IsTotal(f, ns)
  BY <1>1, <1>4, <1>5, <1>6 DEF IsTotal, Folding
<1>8. PICK it : IsTotal(it, ns) /\ Total(ns) = it[DOMAIN ns]
  BY <1>7 DEF Total, FoldLeft, MapThenFoldSet, IsTotal
<1>9. Folds(it, n, Nat, 0, h)
  <2>1. it = [s \in SUBSET (1 .. n) |->
                IF s = {} THEN 0 ELSE it[s \ {Max(s)}] + ns[Max(s)].value]
    BY <1>1, <1>8 DEF IsTotal
  <2>2. it[{}] = 0
    BY <2>1
  <2>3. ASSUME NEW s \in SUBSET (1 .. n), s # {}, it[s \ {Max(s)}] \in Nat
        PROVE  it[s] = h[Max(s)][it[s \ {Max(s)}]]
    <3>1. it[s] = it[s \ {Max(s)}] + ns[Max(s)].value
      BY <2>1, <2>3
    <3>2. QED
      BY <1>4, <1>6, <2>3, <3>1
  <2>4. QED
    BY <2>2, <2>3 DEF Folds
<1>10. /\ \A k \in 0 .. n : it[1 .. k] \in Nat
       /\ \A k \in 1 .. n : it[1 .. k] = h[k][it[1 .. k - 1]]
  <2>1. PICK A : A = Nat
    OBVIOUS
  <2>2. 0 \in A /\ h \in [1 .. n -> [A -> A]] /\ Folds(it, n, A, 0, h)
    BY <1>3, <1>9, <2>1
  <2>3. /\ \A k \in 0 .. n : it[1 .. k] \in A
        /\ \A k \in 1 .. n : it[1 .. k] = h[k][it[1 .. k - 1]]
    BY <2>2, FoldingSteps
  <2>. QED BY <2>1, <2>3
<1> DEFINE acc == [k \in 0 .. n |-> it[1 .. k]]
<1>11. acc \in [0 .. n -> Nat] /\ acc[n] = it[1 .. n]
  BY <1>10
<1>12. acc[0] = 0
  <2>1. 1 .. 0 = {}
    OBVIOUS
  <2>2. QED
    BY <1>9, <2>1 DEF Folds
<1>13. ASSUME NEW k \in 1 .. n PROVE acc[k] = acc[k - 1] + ns[k].value
  <2>1. k \in 0 .. n /\ k - 1 \in 0 .. n
    OBVIOUS
  <2>2. acc[k] = it[1 .. k] /\ acc[k - 1] = it[1 .. k - 1] /\ it[1 .. k - 1] \in Nat
    BY <1>10, <2>1
  <2>3. QED
    BY <1>4, <1>10, <2>2
<1> HIDE DEF acc
<1>14. TotalOf(acc, ns)
  BY <1>1, <1>12, <1>13 DEF TotalOf
<1>. QED BY <1>1, <1>8, <1>11, <1>14

(* m indices from a on, and the notes there. *)
Span(a, m) == a .. a + m - 1
Stretch(notes, ns, a, m) ==
    /\ Len(ns) = m /\ a + m <= Len(notes) + 1
    /\ \A k \in 1 .. m : ns[k] = notes[a + k - 1]

(* How an interval grows by one. *)
LEMMA SpanFacts ==
    ASSUME NEW a \in Nat, NEW m \in Nat
    PROVE  /\ Span(a, 0) = {} /\ Span(1, m) = 1 .. m
           /\ Span(a, m) \in SUBSET Nat
           /\ a + m \in Span(a, m + 1) /\ Span(a, m + 1) \ {a + m} = Span(a, m)
           /\ \A n \in Nat : a >= 1 /\ a + m <= n + 1 => Span(a, m) \in SUBSET (1 .. n)
<1>1. /\ Span(a, 0) = {} /\ Span(1, m) = 1 .. m
  BY DEF Span
<1>2. a + m \in Span(a, m + 1) /\ Span(a, m + 1) \ {a + m} = Span(a, m)
  BY DEF Span
<1>3. \A n \in Nat : a >= 1 /\ a + m <= n + 1 => Span(a, m) \in SUBSET (1 .. n)
  BY DEF Span
<1>4. Span(a, m) \in SUBSET Nat
  BY DEF Span
<1>. QED BY <1>1, <1>2, <1>3, <1>4

(* What the notes of a stretch add to the worth, one by one. *)
LEMMA WorthOfSpan ==
    ASSUME NEW N, Valued(N), NEW notes \in Seq(N), NEW a \in Nat, a >= 1, NEW k \in Nat,
           a + k <= Len(notes)
    PROVE  /\ Worth(notes, Span(a, k + 1)) = notes[a + k].value + Worth(notes, Span(a, k))
           /\ notes[a + k].value \in Nat /\ Worth(notes, Span(a, k)) \in Nat
<1>1. PICK T : T = Span(a, k + 1)
  OBVIOUS
<1>2. PICK x \in Nat : x = a + k
  OBVIOUS
<1>3. T \in SUBSET DOMAIN notes
  <2>1. k + 1 \in Nat /\ Len(notes) \in Nat /\ a + (k + 1) <= Len(notes) + 1
    OBVIOUS
  <2>2. Span(a, k + 1) \in SUBSET (1 .. Len(notes))
    BY <2>1, SpanFacts
  <2>. QED BY <1>1, <2>2
<1>4. x \in T /\ T \ {x} = Span(a, k)
  BY <1>1, <1>2, SpanFacts
<1>5. Worth(notes, T) = notes[x].value + Worth(notes, T \ {x}) /\ Worth(notes, T \ {x}) \in Nat
      /\ notes[x].value \in Nat
  BY <1>3, <1>4, WorthFacts, ZenonT(30)
<1>. QED BY <1>1, <1>2, <1>4, <1>5

(* A total is the worth of the indices the notes come from. *)
LEMMA TotalIsWorth ==
    ASSUME NEW N, Valued(N), NEW notes \in Seq(N), NEW ns \in Seq(N), NEW a \in Nat, a >= 1,
           NEW m \in Nat, Stretch(notes, ns, a, m)
    PROVE  Total(ns) = Worth(notes, Span(a, m)) /\ Total(ns) \in Nat
<1>1. /\ Len(ns) = m /\ a + m <= Len(notes) + 1 /\ Len(notes) \in Nat
      /\ \A k \in 1 .. m : ns[k] = notes[a + k - 1]
  BY DEF Stretch
<1>2. PICK acc \in [0 .. m -> Nat] : TotalOf(acc, ns) /\ Total(ns) = acc[m]
  <2>1. \A x \in N : x.value \in Nat
    BY DEF Valued
  <2>. QED BY <1>1, <2>1, TotalSteps
<1>3. acc[0] = 0 /\ \A k \in 1 .. m : acc[k] = acc[k - 1] + ns[k].value
  BY <1>1, <1>2 DEF TotalOf
<1> DEFINE S == {k \in Nat : k <= m => acc[k] = Worth(notes, Span(a, k))}
<1>4. 0 \in S
  <2>1. Worth(notes, {}) = 0
    BY WorthFacts
  <2>2. Span(a, 0) = {}
    BY SpanFacts
  <2>. QED BY <1>3, <2>1, <2>2
<1>5. ASSUME NEW k \in Nat, k \in S PROVE k + 1 \in S
  <2>1. SUFFICES ASSUME k + 1 <= m
                 PROVE  acc[k + 1] = Worth(notes, Span(a, k + 1))
    OBVIOUS
  <2>2. k <= m /\ a + k <= Len(notes)
    BY <1>1, <2>1
  <2>3. acc[k] = Worth(notes, Span(a, k))
    BY <1>5, <2>2
  <2> HIDE DEF S
  <2>4. /\ Worth(notes, Span(a, k + 1)) = notes[a + k].value + Worth(notes, Span(a, k))
        /\ notes[a + k].value \in Nat /\ Worth(notes, Span(a, k)) \in Nat
    BY <2>2, WorthOfSpan
  <2>5. k + 1 \in 1 .. m /\ (k + 1) - 1 = k /\ a + (k + 1) - 1 = a + k
    BY <2>1
  <2>6. acc[k + 1] = acc[k] + notes[a + k].value
    BY <1>1, <1>3, <2>5
  <2>. QED BY <2>3, <2>4, <2>6
<1>6. S = Nat
  <2> HIDE DEF S
  <2>1. S \in SUBSET Nat
    BY DEF S
  <2>. QED BY <1>4, <1>5, <2>1, AllNumbers
<1>7. m \in S /\ m <= m
  <2>1. m \in S
    <3> HIDE DEF S
    <3>. QED BY <1>6
  <2>. QED BY <2>1
<1>8. acc[m] \in Nat
  BY <1>2
<1>. QED BY <1>2, <1>7, <1>8

(* The total of a sequence is the worth of all its indices. *)
LEMMA TotalOfAll ==
    ASSUME NEW N, Valued(N), NEW ns \in Seq(N), NEW m \in Nat, Len(ns) = m
    PROVE  Total(ns) = Worth(ns, 1 .. m) /\ Total(ns) \in Nat
<1>1. Stretch(ns, ns, 1, m)
  BY DEF Stretch
<1>2. Total(ns) = Worth(ns, Span(1, m)) /\ Total(ns) \in Nat
  BY <1>1, TotalIsWorth
<1>. QED BY <1>2, SpanFacts

(* Totals of two sequences, one after the other. *)
LEMMA TotalJoins ==
    ASSUME NEW N, Valued(N), NEW s \in Seq(N), NEW t \in Seq(N)
    PROVE  Total(s \o t) = Total(s) + Total(t)
<1>1. PICK m \in Nat, n \in Nat : m = Len(s) /\ n = Len(t)
  OBVIOUS
<1>2. PICK u \in Seq(N) : u = s \o t
  BY ConcatProperties
<1>3. Len(u) = m + n /\ (\A i \in 1 .. m : u[i] = s[i]) /\ (\A i \in 1 .. n : u[m + i] = t[i])
  BY <1>1, <1>2, ConcatProperties
<1>4. Total(s) = Worth(u, Span(1, m))
  <2>1. Stretch(u, s, 1, m)
    BY <1>1, <1>3 DEF Stretch
  <2>. QED BY <2>1, TotalIsWorth
<1>5. PICK a \in Nat : a = m + 1 /\ a >= 1
  OBVIOUS
<1>6. Total(t) = Worth(u, Span(a, n))
  <2>1. \A k \in 1 .. n : a + k - 1 = m + k
    BY <1>5
  <2>2. Stretch(u, t, a, n)
    BY <1>1, <1>3, <1>5, <2>1 DEF Stretch
  <2>. QED BY <1>5, <2>2, TotalIsWorth
<1>7. Total(u) = Worth(u, 1 .. m + n)
  BY <1>3, TotalOfAll
<1>8. PICK A \in SUBSET DOMAIN u, B \in SUBSET DOMAIN u :
        A = Span(1, m) /\ B = Span(a, n) /\ A \cap B = {} /\ A \cup B = 1 .. m + n
  <2>1. DOMAIN u = 1 .. m + n
    BY <1>3
  <2>2. Span(1, m) = 1 .. m /\ Span(a, n) = m + 1 .. m + n
    BY <1>5 DEF Span
  <2>3. /\ 1 .. m \in SUBSET (1 .. m + n) /\ m + 1 .. m + n \in SUBSET (1 .. m + n)
        /\ (1 .. m) \cap (m + 1 .. m + n) = {} /\ (1 .. m) \cup (m + 1 .. m + n) = 1 .. m + n
    OBVIOUS
  <2>. QED BY <2>1, <2>2, <2>3
<1>9. Worth(u, A \cup B) = Worth(u, A) + Worth(u, B)
  BY <1>8, WorthTogether
<1>. QED BY <1>2, <1>4, <1>6, <1>7, <1>8, <1>9

-----------------------------------------------------------------------------
(* Notes drawn from others: every place of s has a place of its own in notes. *)
Draws(g, s, notes) ==
    /\ \A i \in DOMAIN s : g[i] \in DOMAIN notes /\ s[i] = notes[g[i]]
    /\ \A i, j \in DOMAIN s : g[i] = g[j] => i = j
Among(s, notes) == \E g : Draws(g, s, notes)

(* t holds what s holds, and x, which has no place in s, once more. *)
Adds(h, s, t, x) ==
    /\ \A k \in DOMAIN t : \/ h[k] = 0 /\ t[k] = x
                           \/ h[k] \in DOMAIN s /\ t[k] = s[h[k]]
    /\ \A j, k \in DOMAIN t : h[j] = h[k] => j = k
AddsOne(s, t, x) == \E h : Adds(h, s, t, x)

(* What is drawn from what is drawn. *)
LEMMA AmongTrans ==
    ASSUME NEW r, NEW s, NEW notes, Among(r, s), Among(s, notes)
    PROVE  Among(r, notes)
<1>1. PICK g : Draws(g, r, s)
  BY DEF Among
<1>2. PICK h : Draws(h, s, notes)
  BY DEF Among
<1>3. PICK f : f = [i \in DOMAIN r |-> h[g[i]]]
  OBVIOUS
<1>4. \A i \in DOMAIN r : f[i] = h[g[i]] /\ g[i] \in DOMAIN s /\ r[i] = s[g[i]]
  BY <1>1, <1>3 DEF Draws
<1>5. \A i \in DOMAIN r : f[i] \in DOMAIN notes /\ r[i] = notes[f[i]]
  BY <1>2, <1>4 DEF Draws
<1>6. ASSUME NEW i \in DOMAIN r, NEW j \in DOMAIN r, f[i] = f[j] PROVE i = j
  <2>1. g[i] = g[j]
    BY <1>2, <1>4, <1>6 DEF Draws
  <2>. QED BY <1>1, <2>1 DEF Draws
<1>7. Draws(f, r, notes)
  BY <1>5, <1>6 DEF Draws
<1>. QED BY <1>7 DEF Among

LEMMA AmongRange ==
    ASSUME NEW s, NEW notes, Among(s, notes)
    PROVE  Range(s) \subseteq Range(notes)
BY DEF Among, Draws, Range

(* One more is drawn, from a place that was not taken. *)
LEMMA DrawsMore ==
    ASSUME NEW s, NEW t, NEW notes, NEW g, NEW i \in DOMAIN notes, NEW x,
           Draws(g, s, notes), \A k \in DOMAIN s : g[k] # i,
           x = notes[i], AddsOne(s, t, x), 0 \notin DOMAIN s
    PROVE  \E f : /\ Draws(f, t, notes)
                  /\ \A k \in DOMAIN t : f[k] = i \/ \E j \in DOMAIN s : f[k] = g[j]
<1>1. PICK h : Adds(h, s, t, x)
  BY DEF AddsOne
<1>2. PICK f : f = [k \in DOMAIN t |-> IF h[k] = 0 THEN i ELSE g[h[k]]]
  OBVIOUS
<1>3. ASSUME NEW k \in DOMAIN t
      PROVE  \/ h[k] = 0 /\ f[k] = i /\ t[k] = x
             \/ h[k] \in DOMAIN s /\ f[k] = g[h[k]] /\ t[k] = s[h[k]]
  BY <1>1, <1>2 DEF Adds
<1>4. ASSUME NEW k \in DOMAIN t PROVE f[k] \in DOMAIN notes /\ t[k] = notes[f[k]]
  BY <1>3 DEF Draws
<1>5. ASSUME NEW j \in DOMAIN t, NEW k \in DOMAIN t, f[j] = f[k] PROVE j = k
  <2>1. h[j] = h[k]
    <3>1. CASE h[j] = 0 /\ f[j] = i
      BY <1>3, <1>5, <3>1
    <3>2. CASE h[j] \in DOMAIN s /\ f[j] = g[h[j]]
      <4>1. h[k] \in DOMAIN s /\ f[k] = g[h[k]]
        BY <1>3, <1>5, <3>2
      <4>. QED BY <1>5, <3>2, <4>1 DEF Draws
    <3>. QED BY <1>3, <3>1, <3>2
  <2>. QED BY <1>1, <2>1 DEF Adds
<1>6. Draws(f, t, notes)
  BY <1>4, <1>5 DEF Draws
<1>7. \A k \in DOMAIN t : f[k] = i \/ \E j \in DOMAIN s : f[k] = g[j]
  BY <1>3
<1>. QED BY <1>6, <1>7

(* No note is drawn more often than it is there. *)
LEMMA AmongDrawn ==
    ASSUME NEW N, NEW s \in Seq(N), NEW notes \in Seq(N), Among(s, notes)
    PROVE  Drawn(s, notes)
<1>1. PICK g : Draws(g, s, notes)
  BY DEF Among
<1>2. ASSUME NEW n \in Range(s) PROVE Times(n, s) <= Times(n, notes)
  <2>1. PICK A, B : A = {i \in DOMAIN s : s[i] = n} /\ B = {i \in DOMAIN notes : notes[i] = n}
    OBVIOUS
  <2>2. IsFiniteSet(A) /\ IsFiniteSet(B)
    <3>1. PICK l, m \in Nat : DOMAIN s = 1 .. l /\ DOMAIN notes = 1 .. m
      OBVIOUS
    <3>2. IsFiniteSet(1 .. l) /\ IsFiniteSet(1 .. m)
      BY FS_Interval
    <3>. QED BY <2>1, <3>1, <3>2, FS_Subset
  <2>3. PICK f : f = [i \in A |-> g[i]]
    OBVIOUS
  <2>4. f \in Injection(A, B)
    <3>1. \A i \in A : f[i] \in B
      BY <1>1, <2>1, <2>3 DEF Draws
    <3>2. \A i, j \in A : f[i] = f[j] => i = j
      BY <1>1, <2>1, <2>3 DEF Draws
    <3>3. f \in [A -> B]
      BY <2>3, <3>1
    <3>. QED BY <3>2, <3>3 DEF Injection, IsInjective
  <2>5. Cardinality(A) <= Cardinality(B)
    BY <2>2, <2>4, FS_Injection
  <2>. QED BY <2>1, <2>5 DEF Times
<1>. QED BY <1>2 DEF Drawn

(* Swapping two notes leaves the total. *)
LEMMA TotalSwapped ==
    ASSUME NEW N, Valued(N), NEW ns \in Seq(N), NEW i \in DOMAIN ns
    PROVE  /\ Total(Swapped(ns, i)) = Total(ns) /\ Len(Swapped(ns, i)) = Len(ns)
           /\ Range(Swapped(ns, i)) = Range(ns)
           /\ Among(Swapped(ns, i), ns)
<1>1. PICK n \in Nat : n = Len(ns) /\ DOMAIN ns = 1 .. n
  OBVIOUS
<1>2. i \in 1 .. n /\ 1 \in 1 .. n
  BY <1>1
<1>3. PICK w \in Seq(N) : w = Swapped(ns, i)
  BY SwappedIsSequence
<1>4. w = [j \in 1 .. n |-> IF j = 1 THEN ns[i] ELSE IF j = i THEN ns[1] ELSE ns[j]]
  BY <1>1, <1>3 DEF Swapped
<1>5. DOMAIN w = 1 .. n /\ Len(w) = n
  BY <1>3, <1>4
<1>6. w[1] = ns[i] /\ w[i] = ns[1] /\ \A j \in 1 .. n : j # 1 /\ j # i => w[j] = ns[j]
  BY <1>2, <1>4
<1>7. Total(w) = Total(ns)
  <2>1. CASE i = 1
    <3>1. \A j \in 1 .. n : w[j] = ns[j]
      BY <1>6, <2>1
    <3>2. w = ns
      BY <1>1, <1>5, <3>1, SeqEqual
    <3>. QED BY <3>2
  <2>2. CASE i # 1
    <3> DEFINE D == 1 .. n
               E == D \ {1}
               F == E \ {i}
    <3>1. D \in SUBSET DOMAIN w /\ D \in SUBSET DOMAIN ns /\ 1 \in D /\ i \in E
          /\ E \in SUBSET DOMAIN w /\ E \in SUBSET DOMAIN ns
          /\ F \in SUBSET DOMAIN w /\ F \in SUBSET DOMAIN ns
      BY <1>1, <1>2, <1>5, <2>2
    <3>2. \A j \in F : w[j].value = ns[j].value
      BY <1>6
    <3> HIDE DEF D
    <3>3. Worth(w, D) = w[1].value + Worth(w, E) /\ Worth(w, E) \in Nat
      BY <3>1, WorthFacts
    <3>4. Worth(ns, D) = ns[1].value + Worth(ns, E) /\ Worth(ns, E) \in Nat
      BY <3>1, WorthFacts
    <3> HIDE DEF E
    <3>5. Worth(w, E) = w[i].value + Worth(w, F)
      BY <3>1, WorthFacts
    <3>6. Worth(ns, E) = ns[i].value + Worth(ns, F)
      BY <3>1, WorthFacts
    <3> HIDE DEF F
    <3>7. Worth(w, F) = Worth(ns, F) /\ Worth(w, F) \in Nat
      <4>1. Worth(w, F) = Worth(ns, F)
        BY <3>1, <3>2, WorthSame
      <4>. QED BY <3>1, <4>1, WorthFacts
    <3>8. Total(w) = Worth(w, D) /\ Total(ns) = Worth(ns, D)
      BY <1>1, <1>5, TotalOfAll DEF D
    <3>9. ns[1].value \in Nat /\ ns[i].value \in Nat
      BY <1>1, <1>2 DEF Valued
    <3>. QED BY <1>6, <3>3, <3>4, <3>5, <3>6, <3>7, <3>8, <3>9
  <2>. QED BY <2>1, <2>2
<1>8. Range(w) = Range(ns)
  <2>1. \A j \in 1 .. n : \E k \in 1 .. n : w[j] = ns[k]
    BY <1>2, <1>6
  <2>2. \A j \in 1 .. n : \E k \in 1 .. n : w[k] = ns[j]
    BY <1>2, <1>6
  <2>3. Range(w) = {w[j] : j \in 1 .. n} /\ Range(ns) = {ns[j] : j \in 1 .. n}
    BY <1>1, <1>5 DEF Range
  <2>4. {w[j] : j \in 1 .. n} = {ns[j] : j \in 1 .. n}
    <3>1. ASSUME NEW j \in 1 .. n PROVE w[j] \in {ns[k] : k \in 1 .. n}
      BY <2>1
    <3>2. ASSUME NEW j \in 1 .. n PROVE ns[j] \in {w[k] : k \in 1 .. n}
      BY <2>2
    <3>. QED BY <3>1, <3>2, Zenon
  <2>. QED BY <2>3, <2>4
<1>9. Among(w, ns)
  <2>1. PICK g : g = [j \in 1 .. n |-> IF j = 1 THEN i ELSE IF j = i THEN 1 ELSE j]
    OBVIOUS
  <2>2. g[1] = i /\ g[i] = 1 /\ \A j \in 1 .. n : j # 1 /\ j # i => g[j] = j
    BY <1>2, <2>1
  <2>3. \A j \in 1 .. n : g[j] \in 1 .. n /\ w[j] = ns[g[j]]
    BY <1>2, <1>6, <2>2
  <2>4. \A j, k \in 1 .. n : g[j] = g[k] => j = k
    BY <1>2, <2>2
  <2>5. Draws(g, w, ns)
    BY <1>1, <1>5, <2>3, <2>4 DEF Draws
  <2>. QED BY <2>5 DEF Among
<1>. QED BY <1>1, <1>3, <1>5, <1>7, <1>8, <1>9

-----------------------------------------------------------------------------
(* Notes kept and sorted. *)

(* Indices among which are all the smaller ones are the first ones. *)
LEMMA FirstOnes ==
    ASSUME NEW m \in Nat, NEW D \in SUBSET (1 .. m), \A i \in D, j \in 1 .. m : j <= i => j \in D
    PROVE  Cardinality(D) \in 0 .. m /\ D = 1 .. Cardinality(D)
<1>1. \E g \in 0 .. m : D = 1 .. g
  <2>1. CASE D = {}
    <3>1. 0 \in 0 .. m /\ 1 .. 0 = {}
      OBVIOUS
    <3>. QED BY <2>1, <3>1
  <2>2. CASE D # {}
    <3>1. D \in SUBSET (0 .. m)
      OBVIOUS
    <3>2. PICK g \in D : \A i \in D : i <= g
      BY <2>2, <3>1, GreatestElement
    <3>3. D = 1 .. g
      <4>1. \A i \in D : i \in 1 .. g
        BY <3>2
      <4>2. \A i \in 1 .. g : i \in D
        BY <3>2
      <4>. QED BY <4>1, <4>2
    <3>. QED BY <3>1, <3>2, <3>3
  <2>. QED BY <2>1, <2>2
<1>2. PICK g \in 0 .. m : D = 1 .. g
  BY <1>1
<1>3. Cardinality(1 .. g) = g
  <2>1. Cardinality(1 .. g) = IF 1 > g THEN 0 ELSE g - 1 + 1
    BY FS_Interval
  <2>. QED BY <2>1
<1>. QED BY <1>2, <1>3

(* The two parts of a concatenation. *)
LEMMA Joined ==
    ASSUME NEW S, NEW s \in Seq(S), NEW t \in Seq(S)
    PROVE  /\ s \o t \in Seq(S) /\ Len(s \o t) = Len(s) + Len(t)
           /\ \A i \in 1 .. Len(s) : (s \o t)[i] = s[i]
           /\ \A i \in 1 .. Len(t) : (s \o t)[Len(s) + i] = t[i]
<1>1. PICK u, m, n : u = s \o t /\ m = Len(s) /\ n = Len(t)
  OBVIOUS
<1>2. /\ u \in Seq(S) /\ Len(u) = m + n /\ m \in Nat /\ n \in Nat
      /\ \A i \in 1 .. m + n : u[i] = IF i <= m THEN s[i] ELSE t[i - m]
  BY <1>1, ConcatProperties
<1>3. \A i \in 1 .. m : i \in 1 .. m + n /\ i <= m
  BY <1>2
<1>4. \A i \in 1 .. n : m + i \in 1 .. m + n /\ ~ (m + i <= m) /\ (m + i) - m = i
  BY <1>2
<1>. QED BY <1>1, <1>2, <1>3, <1>4

Descending(s) == \A i, j \in DOMAIN s : i <= j => s[j].value <= s[i].value

(* x is at index l + 1 of t, among the others in their order. *)
Inserted(s, t, x, l) ==
    /\ l \in 0 .. Len(s) /\ Len(t) = Len(s) + 1
    /\ \A i \in 1 .. l : t[i] = s[i]
    /\ t[l + 1] = x
    /\ \A i \in l + 1 .. Len(s) : t[i + 1] = s[i]

(* What InsertAt makes of a sequence. *)
LEMMA InsertFacts ==
    ASSUME NEW N, NEW s \in Seq(N), NEW x \in N, NEW l \in 0 .. Len(s)
    PROVE  Inserted(s, InsertAt(s, l + 1, x), x, l) /\ InsertAt(s, l + 1, x) \in Seq(N)
<1>1. PICK n \in Nat : n = Len(s)
  OBVIOUS
<1>2. l \in Nat /\ l <= n /\ \A i \in 1 .. n : s[i] \in N
  BY <1>1
<1>3. PICK a : a = SubSeq(s, 1, l)
  OBVIOUS
<1>3a. a \in Seq(N) /\ Len(a) = l /\ \A i \in 1 .. l : a[i] = s[i]
  <2>1. \A i \in 1 .. l : s[i] \in N
    BY <1>2
  <2>2. /\ a \in Seq(N) /\ Len(a) = IF 1 <= l THEN l - 1 + 1 ELSE 0
        /\ \A i \in 1 .. l - 1 + 1 : a[i] = s[1 + i - 1]
    BY <1>2, <1>3, <2>1, SubSeqProperties
  <2>. QED BY <1>2, <2>2
<1>4. PICK b : b = SubSeq(s, l + 1, n)
  OBVIOUS
<1>4a. b \in Seq(N) /\ Len(b) = n - l /\ \A i \in 1 .. n - l : b[i] = s[l + i]
  <2>1. \A i \in l + 1 .. n : s[i] \in N
    BY <1>2
  <2>2. /\ b \in Seq(N) /\ Len(b) = IF l + 1 <= n THEN n - (l + 1) + 1 ELSE 0
        /\ \A i \in 1 .. n - (l + 1) + 1 : b[i] = s[(l + 1) + i - 1]
    BY <1>2, <1>4, <2>1, SubSeqProperties
  <2>3. \A i \in 1 .. n - l : i \in 1 .. n - (l + 1) + 1 /\ (l + 1) + i - 1 = l + i
    BY <1>2
  <2>. QED BY <1>2, <2>2, <2>3
<1>5. PICK c : c = <<x>>
  OBVIOUS
<1>5a. c \in Seq(N) /\ Len(c) = 1 /\ c[1] = x
  BY <1>5
<1>6. PICK d : d = a \o c
  OBVIOUS
<1>6a. d \in Seq(N) /\ Len(d) = l + 1 /\ d[l + 1] = x /\ \A i \in 1 .. l : d[i] = s[i]
  <2>1. /\ d \in Seq(N) /\ Len(d) = Len(a) + Len(c)
        /\ \A i \in 1 .. Len(a) : d[i] = a[i]
        /\ \A i \in 1 .. Len(c) : d[Len(a) + i] = c[i]
    <3>1. a \in Seq(N) /\ c \in Seq(N)
      BY <1>3a, <1>5a
    <3>. QED BY <3>1, <1>6, Joined
  <2>. QED BY <1>2, <1>3a, <1>5a, <2>1
<1>7. PICK e : e = d \o b
  OBVIOUS
<1>7a. /\ e \in Seq(N) /\ Len(e) = n + 1
       /\ \A i \in 1 .. l + 1 : e[i] = d[i]
       /\ \A i \in 1 .. n - l : e[l + 1 + i] = s[l + i]
  <2>1. l + 1 \in Nat /\ n - l \in Nat /\ (l + 1) + (n - l) = n + 1
    BY <1>2
  <2>2. /\ e \in Seq(N) /\ Len(e) = Len(d) + Len(b)
        /\ \A i \in 1 .. Len(d) : e[i] = d[i]
        /\ \A i \in 1 .. Len(b) : e[Len(d) + i] = b[i]
    <3>1. d \in Seq(N) /\ b \in Seq(N)
      BY <1>4a, <1>6a
    <3>. QED BY <3>1, <1>7, Joined
  <2>. QED BY <1>4a, <1>6a, <2>1, <2>2
<1>8. InsertAt(s, l + 1, x) = e
  <2>1. (l + 1) - 1 = l
    BY <1>2
  <2>2. InsertAt(s, l + 1, x) = SubSeq(s, 1, (l + 1) - 1) \o <<x>> \o SubSeq(s, l + 1, Len(s))
    BY DEF InsertAt
  <2>. QED BY <1>1, <1>3, <1>4, <1>5, <1>6, <1>7, <2>1, <2>2
<1>9. Inserted(s, e, x, l)
  <2>1. \A i \in l + 1 .. n : i - l \in 1 .. n - l /\ l + 1 + (i - l) = i + 1 /\ l + (i - l) = i
    BY <1>2
  <2>2. \A i \in l + 1 .. n : e[i + 1] = s[i]
    BY <1>7a, <2>1
  <2>3. \A i \in 1 .. l : i \in 1 .. l + 1
    BY <1>2
  <2>. QED BY <1>1, <1>2, <1>6a, <1>7a, <2>2, <2>3 DEF Inserted
<1>. QED BY <1>7a, <1>8, <1>9

(* Insertion by value keeps the order, and adds one note. *)
LEMMA PlacedKeeps ==
    ASSUME NEW N, Valued(N), NEW s \in Seq(N), NEW x \in N, Descending(s)
    PROVE  /\ Placed(s, x) \in Seq(N) /\ Descending(Placed(s, x))
           /\ AddsOne(s, Placed(s, x), x)
<1>1. PICK n \in Nat : n = Len(s) /\ DOMAIN s = 1 .. n
  OBVIOUS
<1>2. (\A i \in 1 .. n : s[i].value \in Nat /\ s[i] \in N) /\ x.value \in Nat
  BY <1>1 DEF Valued
<1>3. \A i, j \in 1 .. n : i <= j => s[j].value <= s[i].value
  BY <1>1 DEF Descending
<1> DEFINE D == {i \in DOMAIN s : s[i].value >= x.value}
<1>4. PICK l \in 0 .. n : Cardinality(D) = l /\ D = 1 .. l
  <2>1. D \in SUBSET (1 .. n)
    BY <1>1
  <2>2. ASSUME NEW i \in D, NEW j \in 1 .. n, j <= i PROVE j \in D
    <3>1. s[i].value >= x.value /\ s[i].value <= s[j].value /\ i \in 1 .. n
      BY <1>1, <1>3, <2>2
    <3>. QED BY <1>1, <1>2, <3>1
  <2> HIDE DEF D
  <2>. QED BY <2>1, <2>2, FirstOnes
<1>5. \A i \in 1 .. n : i <= l <=> s[i].value >= x.value
  <2>1. \A i \in 1 .. n : i \in D <=> s[i].value >= x.value
    BY <1>1
  <2> HIDE DEF D
  <2>. QED BY <1>4, <2>1
<1>6. PICK t \in Seq(N) : t = Placed(s, x) /\ Inserted(s, t, x, l)
  <2>1. Placed(s, x) = InsertAt(s, l + 1, x)
    BY <1>4 DEF Placed
  <2>. QED BY <1>1, <2>1, InsertFacts
<1> HIDE DEF D
<1>7. /\ l \in Nat /\ l <= n /\ Len(t) = n + 1 /\ DOMAIN t = 1 .. n + 1
      /\ \A i \in 1 .. l : t[i] = s[i]
      /\ t[l + 1] = x
      /\ \A i \in l + 1 .. n : t[i + 1] = s[i]
  BY <1>1, <1>6 DEF Inserted
<1>8. ASSUME NEW i \in 1 .. n + 1
      PROVE  \/ i <= l /\ i \in 1 .. n /\ t[i] = s[i]
             \/ i = l + 1 /\ t[i] = x
             \/ i > l + 1 /\ i - 1 \in 1 .. n /\ t[i] = s[i - 1]
  <2>1. CASE i <= l
    BY <1>7, <2>1
  <2>2. CASE i = l + 1
    BY <1>7, <2>2
  <2>3. CASE i > l + 1
    <3>1. i - 1 \in l + 1 .. n /\ (i - 1) + 1 = i /\ i - 1 \in 1 .. n
      BY <1>7, <2>3
    <3>. QED BY <1>7, <2>3, <3>1
  <2>. QED BY <1>7, <2>1, <2>2, <2>3
<1>9. Descending(t)
  <2>1. ASSUME NEW i \in 1 .. n + 1, NEW j \in 1 .. n + 1, i <= j
        PROVE  t[j].value <= t[i].value
    <3>1. CASE i <= l /\ j <= l
      BY <1>3, <1>7, <1>8, <2>1, <3>1, SMTT(30)
    <3>2. CASE i <= l /\ j = l + 1
      <4>1. t[i] = s[i] /\ i \in 1 .. n /\ t[j] = x
        BY <1>7, <1>8, <3>2
      <4>. QED BY <1>2, <1>5, <3>2, <4>1
    <3>3. CASE i <= l /\ j > l + 1
      <4>1. t[i] = s[i] /\ i \in 1 .. n /\ t[j] = s[j - 1] /\ j - 1 \in 1 .. n /\ i <= j - 1
        BY <1>7, <1>8, <3>3
      <4>. QED BY <1>3, <4>1
    <3>4. CASE i = l + 1 /\ j = l + 1
      BY <1>2, <1>7, <3>4
    <3>5. CASE i = l + 1 /\ j > l + 1
      <4>1. t[i] = x /\ t[j] = s[j - 1] /\ j - 1 \in 1 .. n /\ ~ (j - 1 <= l)
        BY <1>7, <1>8, <3>5
      <4>2. ~ (s[j - 1].value >= x.value)
        BY <1>5, <4>1
      <4>. QED BY <1>2, <4>1, <4>2
    <3>6. CASE i > l + 1
      <4>1. /\ t[i] = s[i - 1] /\ i - 1 \in 1 .. n /\ t[j] = s[j - 1] /\ j - 1 \in 1 .. n
            /\ i - 1 <= j - 1
        BY <1>7, <1>8, <2>1, <3>6
      <4>. QED BY <1>3, <4>1
    <3>. QED BY <1>7, <2>1, <3>1, <3>2, <3>3, <3>4, <3>5, <3>6
  <2>. QED BY <1>7, <2>1 DEF Descending
<1>10. AddsOne(s, t, x)
  <2>1. PICK h : h = [k \in 1 .. n + 1 |-> IF k <= l THEN k ELSE IF k = l + 1 THEN 0 ELSE k - 1]
    OBVIOUS
  <2>2. ASSUME NEW k \in 1 .. n + 1
        PROVE  \/ k <= l /\ h[k] = k /\ k \in 1 .. n /\ t[k] = s[k]
               \/ k = l + 1 /\ h[k] = 0 /\ t[k] = x
               \/ k > l + 1 /\ h[k] = k - 1 /\ k - 1 \in 1 .. n /\ t[k] = s[k - 1]
    BY <1>7, <1>8, <2>1
  <2>3. \A k \in 1 .. n + 1 : \/ h[k] = 0 /\ t[k] = x
                              \/ h[k] \in 1 .. n /\ t[k] = s[h[k]]
    BY <2>2
  <2>4. \A j, k \in 1 .. n + 1 : h[j] = h[k] => j = k
    BY <1>7, <2>2, SMTT(30)
  <2>5. Adds(h, s, t, x)
    BY <1>1, <1>7, <2>3, <2>4 DEF Adds
  <2>. QED BY <2>5 DEF AddsOne
<1>. QED BY <1>6, <1>9, <1>10

(* What has been sorted of the first k notes. *)
SortedOf(acc, ns) ==
    /\ acc[0] = <<>>
    /\ \A k \in 1 .. Len(ns) : acc[k] = Placed(acc[k - 1], ns[k])

(* Sorting goes through the notes one by one. *)
LEMMA SortingSteps ==
    ASSUME NEW N, NEW ns \in Seq(N)
    PROVE  \E acc \in [0 .. Len(ns) -> Seq(N)] :
              SortedOf(acc, ns) /\ LargestFirst(ns) = acc[Len(ns)]
<1>1. PICK n \in Nat : n = Len(ns) /\ DOMAIN ns = 1 .. n
  OBVIOUS
<1>2. \A i \in 1 .. n : ns[i] \in N
  BY <1>1
<1> DEFINE h == [i \in 1 .. n |-> [a \in Seq(N) |-> Placed(a, ns[i])]]
<1>3. h \in [1 .. n -> [Seq(N) -> Seq(N)]]
  BY <1>2, PlacedIsSequence
<1>4. <<>> \in Seq(N) /\ \A i \in 1 .. n : \A a \in Seq(N) : h[i][a] = Placed(a, ns[i])
  OBVIOUS
<1> HIDE DEF h
<1>5. PICK f \in [SUBSET (1 .. n) -> Seq(N)] : Folding(f, n, <<>>, h)
  BY <1>3, <1>4, FoldingExists
<1>6. \A s \in SUBSET (1 .. n) : s # {} => Max(s) \in 1 .. n /\ s \ {Max(s)} \in SUBSET (1 .. n)
  BY Greatest
<1>7. OrderedBy(f, ns)
  <2>1. ASSUME NEW s \in SUBSET (1 .. n)
        PROVE  f[s] = IF s = {} THEN <<>> ELSE Placed(f[s \ {Max(s)}], ns[Max(s)])
    <3>1. f[s] = IF s = {} THEN <<>> ELSE h[Max(s)][f[s \ {Max(s)}]]
      BY <1>5 DEF Folding
    <3>2. s # {} => Max(s) \in 1 .. n /\ f[s \ {Max(s)}] \in Seq(N)
      BY <1>6
    <3>3. QED
      BY <1>4, <3>1, <3>2
  <2>2. f = [s \in SUBSET (1 .. n) |->
               IF s = {} THEN <<>> ELSE Placed(f[s \ {Max(s)}], ns[Max(s)])]
    BY <2>1
  <2>3. QED
    BY <1>1, <2>2 DEF OrderedBy
<1>8. PICK it : OrderedBy(it, ns) /\ LargestFirst(ns) = it[DOMAIN ns]
  BY <1>7, Zenon DEF LargestFirst, FoldLeft, MapThenFoldSet, OrderedBy, Placed
<1>9. Folds(it, n, Seq(N), <<>>, h)
  <2>1. it = [s \in SUBSET (1 .. n) |->
                IF s = {} THEN <<>> ELSE Placed(it[s \ {Max(s)}], ns[Max(s)])]
    BY <1>1, <1>8 DEF OrderedBy
  <2>2. it[{}] = <<>>
    BY <2>1
  <2>3. ASSUME NEW s \in SUBSET (1 .. n), s # {}, it[s \ {Max(s)}] \in Seq(N)
        PROVE  it[s] = h[Max(s)][it[s \ {Max(s)}]]
    <3>1. it[s] = Placed(it[s \ {Max(s)}], ns[Max(s)])
      BY <2>1, <2>3
    <3>2. QED
      BY <1>4, <1>6, <2>3, <3>1
  <2>4. QED
    BY <2>2, <2>3 DEF Folds
<1>10. /\ \A k \in 0 .. n : it[1 .. k] \in Seq(N)
       /\ \A k \in 1 .. n : it[1 .. k] = h[k][it[1 .. k - 1]]
  <2>1. PICK A, base : A = Seq(N) /\ base = <<>>
    OBVIOUS
  <2>2. base \in A /\ h \in [1 .. n -> [A -> A]] /\ Folds(it, n, A, base, h)
    BY <1>3, <1>4, <1>9, <2>1
  <2>3. /\ \A k \in 0 .. n : it[1 .. k] \in A
        /\ \A k \in 1 .. n : it[1 .. k] = h[k][it[1 .. k - 1]]
    <3>1. PICK g : g = h
      OBVIOUS
    <3>2. g \in [1 .. n -> [A -> A]] /\ Folds(it, n, A, base, g)
      BY <2>2, <3>1
    <3>3. /\ \A k \in 0 .. n : it[1 .. k] \in A
          /\ \A k \in 1 .. n : it[1 .. k] = g[k][it[1 .. k - 1]]
      BY <2>2, <3>2, FoldingSteps
    <3>. QED BY <3>1, <3>3
  <2>. QED BY <2>1, <2>3
<1> DEFINE acc == [k \in 0 .. n |-> it[1 .. k]]
<1>11. acc \in [0 .. n -> Seq(N)] /\ acc[n] = it[1 .. n]
  BY <1>10
<1>12. acc[0] = <<>>
  <2>1. 1 .. 0 = {}
    OBVIOUS
  <2>2. QED
    BY <1>9, <2>1 DEF Folds
<1>13. ASSUME NEW k \in 1 .. n PROVE acc[k] = Placed(acc[k - 1], ns[k])
  <2>1. k \in 0 .. n /\ k - 1 \in 0 .. n
    OBVIOUS
  <2>2. acc[k] = it[1 .. k] /\ acc[k - 1] = it[1 .. k - 1] /\ it[1 .. k - 1] \in Seq(N)
    BY <1>10, <2>1
  <2>3. QED
    BY <1>4, <1>10, <2>2
<1> HIDE DEF acc
<1>14. SortedOf(acc, ns)
  BY <1>1, <1>12, <1>13 DEF SortedOf
<1>. QED BY <1>1, <1>8, <1>11, <1>14

(* Each place of s is one of the first k places of ns. *)
AmongFirst(s, ns, k) == \E g : Draws(g, s, ns) /\ \A i \in DOMAIN s : g[i] \in 1 .. k

LEMMA NoneDrawn ==
    ASSUME NEW s, NEW ns, NEW k, DOMAIN s = {}
    PROVE  AmongFirst(s, ns, k)
<1>1. PICK g : g = <<>>
  OBVIOUS
<1>2. Draws(g, s, ns) /\ \A i \in DOMAIN s : g[i] \in 1 .. k
  BY DEF Draws
<1>. QED BY <1>2 DEF AmongFirst

LEMMA FirstWithNext ==
    ASSUME NEW s, NEW t, NEW ns, NEW k \in Nat, NEW x, AmongFirst(s, ns, k),
           k + 1 \in DOMAIN ns, x = ns[k + 1], AddsOne(s, t, x), 0 \notin DOMAIN s
    PROVE  AmongFirst(t, ns, k + 1)
<1>1. PICK g : Draws(g, s, ns) /\ \A i \in DOMAIN s : g[i] \in 1 .. k
  BY DEF AmongFirst
<1>2. PICK i : i = k + 1
  OBVIOUS
<1>3. i \in DOMAIN ns /\ x = ns[i] /\ \A j \in DOMAIN s : g[j] # i
  BY <1>1, <1>2
<1>4. PICK f : Draws(f, t, ns) /\ \A j \in DOMAIN t : f[j] = i \/ \E m \in DOMAIN s : f[j] = g[m]
  BY <1>1, <1>3, DrawsMore
<1>5. \A j \in DOMAIN t : f[j] \in 1 .. k + 1
  BY <1>1, <1>2, <1>4
<1>. QED BY <1>4, <1>5 DEF AmongFirst

LEMMA FirstAgain ==
    ASSUME NEW s, NEW ns, NEW k \in Nat, AmongFirst(s, ns, k)
    PROVE  AmongFirst(s, ns, k + 1)
<1>1. PICK g : Draws(g, s, ns) /\ \A i \in DOMAIN s : g[i] \in 1 .. k
  BY DEF AmongFirst
<1>2. \A i \in DOMAIN s : g[i] \in 1 .. k + 1
  BY <1>1
<1>. QED BY <1>1, <1>2 DEF AmongFirst

LEMMA FirstIsAmong ==
    ASSUME NEW s, NEW ns, NEW k, AmongFirst(s, ns, k)
    PROVE  Among(s, ns)
BY DEF AmongFirst, Among

(* Sorting keeps the notes and puts the largest first. *)
LEMMA SortedFacts ==
    ASSUME NEW N, Valued(N), NEW ns \in Seq(N)
    PROVE  /\ LargestFirst(ns) \in Seq(N) /\ Descending(LargestFirst(ns))
           /\ Among(LargestFirst(ns), ns)
<1>1. PICK n \in Nat : n = Len(ns) /\ DOMAIN ns = 1 .. n
  OBVIOUS
<1>2. PICK acc \in [0 .. n -> Seq(N)] : SortedOf(acc, ns) /\ LargestFirst(ns) = acc[n]
  BY <1>1, SortingSteps
<1>3. acc[0] = <<>> /\ \A k \in 1 .. n : acc[k] = Placed(acc[k - 1], ns[k])
  BY <1>1, <1>2 DEF SortedOf
<1> DEFINE S == {k \in Nat : k <= n => Descending(acc[k]) /\ AmongFirst(acc[k], ns, k)}
<1>4. 0 \in S
  <2>1. DOMAIN acc[0] = {}
    BY <1>3
  <2>2. AmongFirst(acc[0], ns, 0)
    BY <2>1, NoneDrawn
  <2>3. Descending(acc[0])
    BY <2>1 DEF Descending
  <2>. QED BY <2>2, <2>3
<1>5. ASSUME NEW k \in Nat, k \in S PROVE k + 1 \in S
  <2>1. SUFFICES ASSUME k + 1 <= n
                 PROVE  Descending(acc[k + 1]) /\ AmongFirst(acc[k + 1], ns, k + 1)
    OBVIOUS
  <2>2. Descending(acc[k]) /\ AmongFirst(acc[k], ns, k)
    BY <1>5, <2>1
  <2> HIDE DEF S
  <2>3. k \in 0 .. n /\ k + 1 \in 1 .. n /\ (k + 1) - 1 = k
    BY <2>1
  <2>4. PICK s, x, t : s = acc[k] /\ x = ns[k + 1] /\ t = acc[k + 1]
    OBVIOUS
  <2>5. s \in Seq(N) /\ x \in N /\ t = Placed(s, x)
    BY <1>1, <1>2, <1>3, <2>3, <2>4
  <2>6. Descending(s) /\ AmongFirst(s, ns, k) /\ 0 \notin DOMAIN s
    BY <2>2, <2>4, <2>5
  <2>7. Descending(t) /\ AddsOne(s, t, x)
    BY <2>5, <2>6, PlacedKeeps
  <2>8. AmongFirst(t, ns, k + 1)
    BY <1>1, <2>3, <2>4, <2>6, <2>7, FirstWithNext
  <2>. QED BY <2>4, <2>7, <2>8
<1>6. S = Nat
  <2> HIDE DEF S
  <2>1. S \in SUBSET Nat
    BY DEF S
  <2>. QED BY <1>4, <1>5, <2>1, AllNumbers
<1>7. Descending(acc[n]) /\ AmongFirst(acc[n], ns, n)
  <2>1. n \in S
    <3> HIDE DEF S
    <3>. QED BY <1>6
  <2>. QED BY <2>1
<1>8. acc[n] \in Seq(N) /\ Among(acc[n], ns)
  BY <1>2, <1>7, FirstIsAmong
<1>. QED BY <1>2, <1>7, <1>8

(* A new element at the end. *)
LEMMA AppendedFacts ==
    ASSUME NEW N, NEW s \in Seq(N), NEW x \in N
    PROVE  AddsOne(s, Append(s, x), x)
<1>1. PICK n, t : n = Len(s) /\ t = Append(s, x)
  OBVIOUS
<1>2. n \in Nat /\ DOMAIN s = 1 .. n /\ t \in Seq(N)
  BY <1>1
<1>3. DOMAIN t = 1 .. n + 1 /\ t[n + 1] = x /\ \A i \in 1 .. n : t[i] = s[i]
  BY <1>1, <1>2, AppendProperties
<1>4. PICK h : h = [k \in 1 .. n + 1 |-> IF k = n + 1 THEN 0 ELSE k]
  OBVIOUS
<1>5. \A k \in 1 .. n + 1 : \/ k = n + 1 /\ h[k] = 0 /\ t[k] = x
                            \/ k \in 1 .. n /\ h[k] = k /\ t[k] = s[k]
  BY <1>2, <1>3, <1>4
<1>6. Adds(h, s, t, x)
  <2>1. \A k \in 1 .. n + 1 : (h[k] = 0 /\ t[k] = x) \/ (h[k] \in 1 .. n /\ t[k] = s[h[k]])
    BY <1>5
  <2>2. \A j, k \in 1 .. n + 1 : h[j] = h[k] => j = k
    BY <1>2, <1>5
  <2>. QED BY <1>2, <1>3, <2>1, <2>2 DEF Adds
<1>. QED BY <1>1, <1>6 DEF AddsOne

(* What is kept is in the set, and was there before. *)
LEMMA KeptFacts ==
    ASSUME NEW N, NEW ns \in Seq(N), NEW set
    PROVE  Kept(ns, set) \in Seq(set) /\ Among(Kept(ns, set), ns)
<1>1. PICK n \in Nat : n = Len(ns) /\ DOMAIN ns = 1 .. n
  OBVIOUS
<1>2. PICK acc \in [0 .. n -> Seq(set)] : KeptOf(acc, ns, set) /\ Kept(ns, set) = acc[n]
  BY <1>1, KeptSteps
<1>3. /\ acc[0] = <<>>
      /\ \A k \in 1 .. n : acc[k] = IF ns[k] \in set THEN Append(acc[k - 1], ns[k]) ELSE acc[k - 1]
  BY <1>1, <1>2 DEF KeptOf
<1> DEFINE S == {k \in Nat : k <= n => AmongFirst(acc[k], ns, k)}
<1>4. 0 \in S
  <2>1. DOMAIN acc[0] = {}
    BY <1>3
  <2>2. AmongFirst(acc[0], ns, 0)
    BY <2>1, NoneDrawn
  <2>. QED BY <2>2
<1>5. ASSUME NEW k \in Nat, k \in S PROVE k + 1 \in S
  <2>1. SUFFICES ASSUME k + 1 <= n PROVE AmongFirst(acc[k + 1], ns, k + 1)
    OBVIOUS
  <2>2. AmongFirst(acc[k], ns, k)
    BY <1>5, <2>1
  <2> HIDE DEF S
  <2>3. k \in 0 .. n /\ k + 1 \in 1 .. n /\ (k + 1) - 1 = k
    BY <2>1
  <2>4. PICK s, x, t : s = acc[k] /\ x = ns[k + 1] /\ t = acc[k + 1]
    OBVIOUS
  <2>5. s \in Seq(set) /\ t = IF x \in set THEN Append(s, x) ELSE s
    BY <1>2, <1>3, <2>3, <2>4
  <2>6. AmongFirst(s, ns, k) /\ 0 \notin DOMAIN s
    BY <2>2, <2>4, <2>5
  <2>7. CASE x \notin set
    <3>1. t = s
      BY <2>5, <2>7
    <3>. QED BY <2>4, <2>6, <3>1, FirstAgain
  <2>8. CASE x \in set
    <3>1. AddsOne(s, t, x)
      BY <2>5, <2>8, AppendedFacts
    <3>2. AmongFirst(t, ns, k + 1)
      BY <1>1, <2>3, <2>4, <2>6, <3>1, FirstWithNext
    <3>. QED BY <2>4, <3>2
  <2>. QED BY <2>7, <2>8
<1>6. S = Nat
  <2> HIDE DEF S
  <2>1. S \in SUBSET Nat
    BY DEF S
  <2>. QED BY <1>4, <1>5, <2>1, AllNumbers
<1>7. AmongFirst(acc[n], ns, n)
  <2>1. n \in S
    <3> HIDE DEF S
    <3>. QED BY <1>6
  <2>. QED BY <2>1
<1>8. acc[n] \in Seq(set) /\ Among(acc[n], ns)
  BY <1>2, <1>7, FirstIsAmong
<1>. QED BY <1>2, <1>8

(* The notes of an asset descend, and are drawn from those there are. *)
LEMMA AssetFacts ==
    ASSUME NEW N, Valued(N), NEW notes \in Seq(N), NEW eth
    PROVE  /\ OfAsset(notes, eth) \in Seq({x \in N : x.eth = eth})
           /\ Descending(OfAsset(notes, eth)) /\ Among(OfAsset(notes, eth), notes)
<1>1. PICK K : K = {x \in N : x.eth = eth}
  OBVIOUS
<1>2. Valued(K)
  BY <1>1 DEF Valued
<1>3. PICK kind \in Seq(K) : kind = OfKind(notes, eth)
  BY <1>1, KindKept
<1>4. Among(kind, notes)
  BY <1>3, KeptFacts DEF OfKind
<1>5. PICK sorted : sorted = LargestFirst(kind) /\ sorted = OfAsset(notes, eth)
  BY <1>3 DEF OfAsset
<1>6. sorted \in Seq(K) /\ Descending(sorted) /\ Among(sorted, kind)
  BY <1>2, <1>5, SortedFacts
<1>7. Among(sorted, notes)
  BY <1>4, <1>6, AmongTrans
<1>. QED BY <1>1, <1>5, <1>6, <1>7

-----------------------------------------------------------------------------
(* What a selection is compared with. *)

(* w makes the amount: it covers it, or is it. *)
Makes(cover, amount, w) == IF cover THEN w >= amount ELSE w = amount

(* c notes worth w are no worse than d notes worth v: they are worth less, *)
(* where an amount is covered, or are no more notes.                       *)
NoWorse(cover, w, c, v, d) == IF cover THEN w < v \/ (w = v /\ c <= d) ELSE c <= d

AsGood(cover, s, v, d) == s # <<>> /\ NoWorse(cover, Total(s), Len(s), v, d)

(* s is drawn from the places in C. *)
DrawsIn(g, s, notes, C) == Draws(g, s, notes) /\ \A k \in DOMAIN s : g[k] \in C

(* s holds the notes at the indices in C. *)
Picks(notes, s, C) ==
    /\ C \in SUBSET DOMAIN notes
    /\ Total(s) = Worth(notes, C) /\ Len(s) = Cardinality(C)
    /\ \E g : DrawsIn(g, s, notes, C)

(* No answer, or notes that make the amount. *)
Answer(cover, notes, amount, s) ==
    s # <<>> => Makes(cover, amount, Total(s)) /\ \E C : Picks(notes, s, C)

(* What is chosen at a point comes from the notes before it, and the amount *)
(* remains but for that.                                                    *)
Consistent(cover, notes, amount, p) ==
    /\ \E C : C \in SUBSET (1 .. p.start - 1) /\ Picks(notes, p.chosen, C)
    /\ p.remaining = IF Total(p.chosen) <= amount THEN amount - Total(p.chosen) ELSE 0
    /\ cover \/ Total(p.chosen) <= amount
    /\ Answer(cover, notes, amount, p.best)

(* s is as good as the chosen notes with any T of those left, and as the    *)
(* best so far.                                                             *)
Beats(cover, notes, amount, p, s, T) ==
    Makes(cover, amount, Total(p.chosen) + Worth(notes, T)) =>
      AsGood(cover, s, Total(p.chosen) + Worth(notes, T), Len(p.chosen) + Cardinality(T))
KeepsBest(cover, p, s) == p.best # <<>> => AsGood(cover, s, Total(p.best), Len(p.best))

Optimal(cover, notes, amount, p, s) ==
    /\ Answer(cover, notes, amount, s) /\ KeepsBest(cover, p, s)
    /\ \A T \in SUBSET (p.start .. Len(notes)) : Beats(cover, notes, amount, p, s, T)

(* No worse is a preorder, and more notes are never better. *)
LEMMA NoWorseStays ==
    ASSUME NEW cover, NEW w \in Nat, NEW c \in Nat
    PROVE  /\ NoWorse(cover, w, c, w, c)
           /\ \A x, t \in Nat : NoWorse(cover, w, c, w + x, c + t)
           /\ \A v, d, x, t \in Nat :
                NoWorse(cover, w, c, v, d) /\ NoWorse(cover, v, d, x, t) => NoWorse(cover, w, c, x, t)
<1>1. CASE cover
  BY <1>1 DEF NoWorse
<1>2. CASE ~ cover
  BY <1>2 DEF NoWorse
<1>. QED BY <1>1, <1>2

(* The total of a selection. *)
LEMMA AmountFacts ==
    ASSUME NEW N, Valued(N), NEW notes \in Seq(N), NEW s \in Seq(Range(notes))
    PROVE  s \in Seq(N) /\ Total(s) \in Nat /\ Len(s) \in Nat /\ (s = <<>> => Total(s) = 0)
<1>1. Range(notes) \subseteq N
  BY DEF Range
<1>2. s \in Seq(N)
  BY <1>1, SeqOfSubset
<1>3. PICK m \in Nat : m = Len(s)
  OBVIOUS
<1>4. Total(s) = Worth(s, 1 .. m) /\ Total(s) \in Nat
  BY <1>2, <1>3, TotalOfAll
<1>5. ASSUME s = <<>> PROVE Total(s) = 0
  <2>1. m = 0 /\ 1 .. 0 = {}
    BY <1>3, <1>5
  <2>2. Worth(s, {}) = 0
    BY <1>2, WorthFacts
  <2>. QED BY <1>4, <2>1, <2>2
<1>. QED BY <1>2, <1>4, <1>5

(* The fields of a point. *)
LEMMA PointFacts ==
    ASSUME NEW N, Valued(N), NEW notes \in Seq(N), NEW amount \in Nat, NEW p \in Points(notes, amount)
    PROVE  /\ Len(notes) \in Nat /\ p.start \in Nat /\ p.start >= 1 /\ p.start <= Len(notes) + 1
           /\ p.remaining \in Nat /\ p.remaining <= amount
           /\ p.chosen \in Seq(Range(notes)) /\ p.best \in Seq(Range(notes))
           /\ Total(p.chosen) \in Nat /\ Len(p.chosen) \in Nat /\ (p.chosen = <<>> => Total(p.chosen) = 0)
           /\ Total(p.best) \in Nat /\ Len(p.best) \in Nat
           /\ \A T \in SUBSET (p.start .. Len(notes)) :
                T \in SUBSET DOMAIN notes /\ Worth(notes, T) \in Nat /\ Cardinality(T) \in Nat
<1>1. /\ Len(notes) \in Nat /\ p.start \in Nat /\ p.start >= 1 /\ p.start <= Len(notes) + 1
      /\ p.remaining \in Nat /\ p.remaining <= amount
      /\ p.chosen \in Seq(Range(notes)) /\ p.best \in Seq(Range(notes))
  BY DEF Points
<1>2. /\ Total(p.chosen) \in Nat /\ Len(p.chosen) \in Nat /\ (p.chosen = <<>> => Total(p.chosen) = 0)
      /\ Total(p.best) \in Nat /\ Len(p.best) \in Nat
  BY <1>1, AmountFacts
<1>3. ASSUME NEW T \in SUBSET (p.start .. Len(notes))
      PROVE  T \in SUBSET DOMAIN notes /\ Worth(notes, T) \in Nat /\ Cardinality(T) \in Nat
  <2>1. T \in SUBSET DOMAIN notes
    BY <1>1
  <2>. QED BY <2>1, WorthFacts
<1>. QED BY <1>1, <1>2, <1>3

(* Nothing remains: the better of what is chosen and what was best. *)
LEMMA ReachedIsOptimal ==
    ASSUME NEW N, Valued(N), NEW notes \in Seq(N), NEW amount \in Nat, amount > 0, NEW cover,
           NEW p \in Points(notes, amount), Consistent(cover, notes, amount, p), p.remaining = 0
    PROVE  Optimal(cover, notes, amount, p,
                   IF Better(cover, p.chosen, p.best) THEN p.chosen ELSE p.best)
<1>1. PICK w, c, v, d : w = Total(p.chosen) /\ c = Len(p.chosen) /\ v = Total(p.best) /\ d = Len(p.best)
  OBVIOUS
<1>2. w \in Nat /\ c \in Nat /\ v \in Nat /\ d \in Nat /\ (p.chosen = <<>> => w = 0)
  BY <1>1, PointFacts
<1>3. Makes(cover, amount, w) /\ p.chosen # <<>>
  <2>1. 0 = (IF w <= amount THEN amount - w ELSE 0) /\ (cover \/ w <= amount)
    BY <1>1 DEF Consistent
  <2>2. w >= amount
    BY <1>2, <2>1
  <2>3. p.chosen # <<>>
    BY <1>2, <2>2
  <2>. QED BY <1>2, <2>1, <2>2, <2>3 DEF Makes
<1>4. /\ Better(cover, p.chosen, p.best) /\ p.best # <<>> => NoWorse(cover, w, c, v, d)
      /\ ~ Better(cover, p.chosen, p.best) => p.best # <<>> /\ NoWorse(cover, v, d, w, c)
  <2>1. Better(cover, p.chosen, p.best) <=>
          \/ p.best = <<>> \/ (~ cover /\ c < d) \/ (cover /\ w < v)
          \/ (cover /\ w = v /\ c < d)
    BY <1>1 DEF Better
  <2>2. CASE cover
    <3>1. Better(cover, p.chosen, p.best) <=> p.best = <<>> \/ w < v \/ (w = v /\ c < d)
      BY <2>1, <2>2
    <3>2. /\ NoWorse(cover, w, c, v, d) <=> w < v \/ (w = v /\ c <= d)
          /\ NoWorse(cover, v, d, w, c) <=> v < w \/ (v = w /\ d <= c)
      BY <2>2 DEF NoWorse
    <3>3. w < v \/ w = v \/ v < w
      BY <1>2
    <3>4. c < d \/ d <= c
      BY <1>2
    <3>5. c < d => c <= d
      BY <1>2
    <3>. QED BY <3>1, <3>2, <3>3, <3>4, <3>5
  <2>3. CASE ~ cover
    BY <1>2, <2>1, <2>3 DEF NoWorse
  <2>. QED BY <2>2, <2>3
<1>5. PICK s : s = IF Better(cover, p.chosen, p.best) THEN p.chosen ELSE p.best
  OBVIOUS
<1>6. Answer(cover, notes, amount, p.chosen) /\ Answer(cover, notes, amount, p.best)
  BY <1>1, <1>3 DEF Consistent, Answer
<1>7. Answer(cover, notes, amount, s)
  BY <1>5, <1>6
<1>8. KeepsBest(cover, p, s)
  BY <1>1, <1>2, <1>3, <1>4, <1>5, NoWorseStays DEF KeepsBest, AsGood
<1>9. AsGood(cover, s, w, c)
  BY <1>1, <1>2, <1>3, <1>4, <1>5, NoWorseStays DEF AsGood
<1>10. ASSUME NEW T \in SUBSET (p.start .. Len(notes)) PROVE Beats(cover, notes, amount, p, s, T)
  <2>1. PICK x, t : x = Worth(notes, T) /\ t = Cardinality(T) /\ x \in Nat /\ t \in Nat
    BY PointFacts
  <2>2. PICK ws, cs : ws = Total(s) /\ cs = Len(s) /\ ws \in Nat /\ cs \in Nat
    BY <1>1, <1>2, <1>5
  <2>3. s # <<>> /\ NoWorse(cover, ws, cs, w, c)
    BY <1>9, <2>2 DEF AsGood
  <2>4. NoWorse(cover, w, c, w + x, c + t)
    BY <1>2, <2>1, NoWorseStays
  <2>5. NoWorse(cover, ws, cs, w + x, c + t)
    <3>1. w + x \in Nat /\ c + t \in Nat
      BY <1>2, <2>1
    <3>. QED BY <1>2, <2>2, <2>3, <2>4, <3>1, NoWorseStays
  <2>. QED BY <1>1, <2>1, <2>2, <2>3, <2>5 DEF Beats, AsGood
<1>. QED BY <1>5, <1>7, <1>8, <1>10 DEF Optimal

(* The notes left begin with those of the next denomination, and none is of *)
(* a larger one.                                                            *)
LEMMA RunFacts ==
    ASSUME NEW N, Valued(N), NEW notes \in Seq(N), Descending(notes), NEW amount,
           NEW p \in Points(notes, amount), Rest(notes, p) # <<>>
    PROVE  LET n == Len(notes)
               a == p.start
               e == Equal(notes, p)
               u == Unit(notes, p)
           IN  /\ n \in Nat /\ a \in Nat /\ e \in Nat /\ u \in Nat
               /\ 1 <= a /\ a <= n /\ 1 <= e /\ a + e <= n + 1 /\ u > 0
               /\ \A i \in a .. n : notes[i].value <= u
               /\ \A i \in a .. a + e - 1 : notes[i].value = u
               /\ Rest(notes, p) \in Seq(Range(notes))
               /\ Stretch(notes, Rest(notes, p), a, n - a + 1)
<1>1. PICK n, a, e, u, rest :
        n = Len(notes) /\ a = p.start /\ e = Equal(notes, p) /\ u = Unit(notes, p) /\ rest = Rest(notes, p)
  OBVIOUS
<1>2. /\ n \in Nat /\ a \in Nat /\ 1 <= a /\ a <= n /\ rest \in Seq(Range(notes))
      /\ Len(rest) = n - a + 1 /\ e \in Nat /\ e >= 1 /\ e <= n - a + 1
  BY <1>1, RestFacts
<1>3. \A i \in 1 .. n - a + 1 : rest[i] = notes[a + i - 1]
  <2>1. rest = SubSeq(notes, a, n)
    BY <1>1 DEF Rest
  <2>2. \A i \in a .. n : notes[i] \in N
    BY <1>1, <1>2
  <2>3. a \in Int /\ n \in Int
    BY <1>2
  <2>. QED BY <2>1, <2>2, <2>3, SubSeqProperties
<1>4. \A i \in a .. n : notes[i].value \in Nat /\ notes[i].value > 0
  BY <1>1, <1>2 DEF Valued
<1>5. rest[1] = notes[a] /\ u = notes[a].value
  <2>1. 1 \in 1 .. n - a + 1 /\ a + 1 - 1 = a
    BY <1>2
  <2>2. rest[1] = notes[a]
    BY <1>3, <2>1
  <2>. QED BY <1>1, <2>2 DEF Unit
<1>6. u \in Nat /\ u > 0
  BY <1>2, <1>4, <1>5
<1>7. \A i, j \in a .. n : i <= j => notes[j].value <= notes[i].value
  BY <1>1, <1>2 DEF Descending
<1>8. \A i \in a .. n : notes[i].value <= u
  BY <1>2, <1>5, <1>7
<1> DEFINE m == n - a + 1
           D == {i \in DOMAIN rest : rest[i].value = rest[1].value}
<1>9. m \in Nat /\ DOMAIN rest = 1 .. m
  BY <1>2
<1>10. D = 1 .. e
  <2>1. D \in SUBSET (1 .. m)
    BY <1>9
  <2>2. ASSUME NEW i \in D, NEW j \in 1 .. m, j <= i PROVE j \in D
    <3>1. i \in 1 .. m /\ rest[i].value = u
      BY <1>1, <1>9, <2>2 DEF Unit
    <3>2. rest[i] = notes[a + i - 1] /\ rest[j] = notes[a + j - 1]
      BY <1>3, <3>1
    <3>3. a + i - 1 \in a .. n /\ a + j - 1 \in a .. n /\ a + j - 1 <= a + i - 1
      BY <1>2, <2>2, <3>1
    <3>4. notes[a + i - 1].value <= notes[a + j - 1].value /\ notes[a + j - 1].value <= u
      BY <1>7, <1>8, <3>3
    <3>5. rest[j].value \in Nat /\ rest[j].value <= u /\ u <= rest[j].value
      BY <1>4, <3>1, <3>2, <3>3, <3>4
    <3>6. rest[j].value = u
      BY <1>6, <3>5
    <3>. QED BY <1>1, <1>9, <3>6 DEF Unit
  <2>3. e = Cardinality(D)
    BY <1>1 DEF Equal, Unit
  <2> HIDE DEF D, m
  <2>4. D = 1 .. Cardinality(D)
    BY <1>9, <2>1, <2>2, FirstOnes
  <2>. QED BY <2>3, <2>4
<1>11. ASSUME NEW i \in a .. a + e - 1 PROVE notes[i].value = u
  <2>1. i - a + 1 \in 1 .. e /\ i - a + 1 \in 1 .. m /\ a + (i - a + 1) - 1 = i
    BY <1>2, <1>11
  <2>2. rest[i - a + 1].value = rest[1].value
    <3>1. i - a + 1 \in D
      <4> HIDE DEF D
      <4>. QED BY <1>10, <2>1
    <3>. QED BY <3>1
  <2>3. rest[i - a + 1] = notes[i]
    <3>1. rest[i - a + 1] = notes[a + (i - a + 1) - 1]
      BY <1>3, <2>1
    <3>. QED BY <2>1, <3>1
  <2>. QED BY <1>1, <2>2, <2>3 DEF Unit
<1>12. Stretch(notes, rest, a, n - a + 1)
  BY <1>1, <1>2, <1>3 DEF Stretch
<1>13. a + e <= n + 1
  BY <1>2
<1>. QED BY <1>1, <1>2, <1>6, <1>8, <1>11, <1>12, <1>13

(* No fewer than CeilDiv(r, u) numbers up to u add up to r. *)
LEMMA CeilFacts ==
    ASSUME NEW r \in Nat, NEW u \in Nat, u > 0
    PROVE  /\ CeilDiv(r, u) \in Int
           /\ \A t \in Nat : u * t >= r => t >= CeilDiv(r, u)
<1>1. PICK q \in Int, m \in Int : q = (r + u - 1) \div u /\ m = (r + u - 1) % u
                                 /\ r + u - 1 = u * q + m /\ 0 <= m /\ m < u
  OBVIOUS
<1>2. CeilDiv(r, u) = q
  BY <1>1 DEF CeilDiv
<1>3. ASSUME NEW t \in Nat, u * t >= r PROVE t >= q
  <2>1. SUFFICES ASSUME t < q PROVE FALSE
    BY <1>1
  <2>2. q >= t + 1
    BY <1>1, <2>1
  <2>3. u * q >= u * (t + 1)
    BY <1>1, <2>2
  <2>4. u * (t + 1) = u * t + u
    OBVIOUS
  <2>5. PICK x \in Int, y \in Int : x = u * q /\ y = u * t
    BY <1>1
  <2>6. x >= y + u /\ r + u - 1 = x + m /\ y >= r
    BY <1>1, <1>3, <2>3, <2>4, <2>5
  <2>. QED BY <1>1, <2>5, <2>6
<1>. QED BY <1>1, <1>2, <1>3

(* Nothing to be found beyond a point keeps the best there was. *)
LEMMA PrunedIsOptimal ==
    ASSUME NEW N, Valued(N), NEW notes \in Seq(N), Descending(notes), NEW amount \in Nat, NEW cover,
           NEW p \in Points(notes, amount), Consistent(cover, notes, amount, p), p.remaining # 0,
           Ends(cover, notes, p)
    PROVE  Optimal(cover, notes, amount, p, p.best)
<1>1. PICK n, a, r, w, c, v, d :
        /\ n = Len(notes) /\ a = p.start /\ r = p.remaining
        /\ w = Total(p.chosen) /\ c = Len(p.chosen) /\ v = Total(p.best) /\ d = Len(p.best)
  OBVIOUS
<1>2. /\ n \in Nat /\ a \in Nat /\ 1 <= a /\ a <= n + 1 /\ r \in Nat /\ r > 0
      /\ w \in Nat /\ c \in Nat /\ v \in Nat /\ d \in Nat
  <2>1. p.remaining \in Nat /\ p.remaining > 0
    BY PointFacts
  <2>. QED BY <1>1, <2>1, PointFacts
<1>3. w < amount /\ r = amount - w
  <2>1. r = IF w <= amount THEN amount - w ELSE 0
    BY <1>1 DEF Consistent
  <2>. QED BY <1>2, <2>1
<1>4. Answer(cover, notes, amount, p.best) /\ KeepsBest(cover, p, p.best)
  BY <1>1, <1>2, NoWorseStays DEF Consistent, KeepsBest, AsGood
<1>5. ASSUME NEW T \in SUBSET (a .. n), Makes(cover, amount, w + Worth(notes, T))
      PROVE  AsGood(cover, p.best, w + Worth(notes, T), c + Cardinality(T))
  <2>1. PICK x, t : x = Worth(notes, T) /\ t = Cardinality(T)
    OBVIOUS
  <2>2. x \in Nat /\ t \in Nat /\ T \in SUBSET DOMAIN notes
    BY <1>1, <2>1, PointFacts
  <2>3. x >= r /\ x > 0 /\ (~ cover => x = r)
    BY <1>2, <1>3, <1>5, <2>1, <2>2 DEF Makes
  <2>4. Rest(notes, p) # <<>>
    <3>1. SUFFICES ASSUME Rest(notes, p) = <<>> PROVE FALSE
      OBVIOUS
    <3>2. a > n
      <4>1. SUFFICES ASSUME a <= n PROVE FALSE
        BY <1>2
      <4>2. Len(SubSeq(notes, a, n)) = n - a + 1
        <5>1. \A i \in a .. n : notes[i] \in N
          BY <1>1, <1>2
        <5>2. a \in Int /\ n \in Int
          BY <1>2
        <5>. QED BY <4>1, <5>1, <5>2, SubSeqProperties
      <4>3. Len(<<>>) = 0 /\ SubSeq(notes, a, n) = <<>>
        BY <1>1, <3>1 DEF Rest
      <4>. QED BY <1>2, <4>1, <4>2, <4>3
    <3>3. T = {}
      BY <1>2, <3>2
    <3>4. x = 0
      BY <2>1, <2>2, <3>3, WorthFacts
    <3>. QED BY <2>3, <3>4
  <2>5. PICK e, u : e = Equal(notes, p) /\ u = Unit(notes, p)
    OBVIOUS
  <2>6. /\ u \in Nat /\ u > 0 /\ a <= n /\ \A i \in a .. n : notes[i].value <= u
        /\ Rest(notes, p) \in Seq(Range(notes))
        /\ Stretch(notes, Rest(notes, p), a, n - a + 1)
    BY <1>1, <2>4, <2>5, RunFacts
  <2>7. ~ (Total(Rest(notes, p)) < r)
    <3>1. PICK rest, m : rest = Rest(notes, p) /\ m = n - a + 1
      OBVIOUS
    <3>2. rest \in Seq(N) /\ m \in Nat /\ Stretch(notes, rest, a, m)
      BY <1>1, <1>2, <2>6, <3>1, AmountFacts
    <3>3. Total(rest) = Worth(notes, Span(a, m)) /\ Total(rest) \in Nat
      BY <1>2, <3>2, TotalIsWorth
    <3>4. PICK B : B = a .. n
      OBVIOUS
    <3>5. Span(a, m) = B /\ B \in SUBSET DOMAIN notes /\ T \in SUBSET B
      BY <1>1, <1>2, <3>1, <3>4 DEF Span
    <3>6. Worth(notes, T) <= Worth(notes, B)
      BY <3>5, WorthGrows
    <3>. QED BY <1>2, <2>1, <2>2, <2>3, <3>1, <3>3, <3>5, <3>6
  <2>8. x <= u * t
    <3>1. \A i \in T : notes[i].value <= u
      BY <2>6
    <3>2. AtMost(notes, u, T)
      BY <2>2, <2>6, <3>1, WorthAtMost
    <3>. QED BY <2>1, <3>2 DEF AtMost
  <2>9. /\ p.best # <<>>
        /\ \/ cover /\ w >= v
           \/ ~ cover /\ c >= d
           \/ ~ cover /\ CeilDiv(r, u) > d - c
    <3>1. Hopeless(cover, Rest(notes, p), r, p.chosen, p.best)
      BY <1>1 DEF Ends
    <3>. QED BY <1>1, <2>4, <2>5, <2>7, <3>1 DEF Hopeless, Unit
  <2>10. NoWorse(cover, v, d, w + x, c + t)
    <3>1. CASE cover /\ w >= v
      <4>1. v < w + x
        BY <1>2, <2>2, <2>3, <3>1
      <4>. QED BY <3>1, <4>1 DEF NoWorse
    <3>2. CASE ~ cover /\ c >= d
      <4>1. d <= c + t
        BY <1>2, <2>2, <3>2
      <4>. QED BY <3>2, <4>1 DEF NoWorse
    <3>3. CASE ~ cover /\ CeilDiv(r, u) > d - c
      <4>1. PICK q \in Int : q = CeilDiv(r, u) /\ q > d - c
        BY <1>2, <2>6, <3>3, CeilFacts
      <4>2. u * t >= r
        <5>1. PICK y \in Nat : y = u * t
          BY <2>2, <2>6
        <5>. QED BY <1>2, <2>2, <2>3, <2>8, <5>1
      <4>3. t >= q
        BY <1>2, <2>2, <2>6, <4>1, <4>2, CeilFacts
      <4>4. d <= c + t
        BY <1>2, <2>2, <4>1, <4>3
      <4>. QED BY <3>3, <4>4 DEF NoWorse
    <3>. QED BY <2>9, <3>1, <3>2, <3>3
  <2>. QED BY <1>1, <2>1, <2>9, <2>10 DEF AsGood
<1>6. \A T \in SUBSET (p.start .. Len(notes)) : Beats(cover, notes, amount, p, p.best, T)
  BY <1>1, <1>5 DEF Beats
<1>. QED BY <1>4, <1>6 DEF Optimal

-----------------------------------------------------------------------------
(* One denomination after another. *)

(* The notes worth taking of a denomination: to make the amount, no fewer;  *)
(* and no more of them do.                                                  *)
LEMMA WantedFacts ==
    ASSUME NEW cover, NEW r \in Nat, NEW u \in Nat, u > 0
    PROVE  /\ Wanted(cover, r, u) \in Nat
           /\ cover => u * Wanted(cover, r, u) >= r
           /\ ~ cover => /\ u * Wanted(cover, r, u) <= r
                         /\ u * (Wanted(cover, r, u) + 1) > r
<1>1. PICK q, m : q = r \div u /\ m = r % u
  OBVIOUS
<1>2. q \in Nat /\ m \in Nat /\ r = u * q + m /\ m < u
  BY <1>1
<1>3. u * q \in Nat /\ u * (q + 1) = u * q + u
  BY <1>2
<1>4. PICK x \in Nat : x = u * q
  BY <1>3
<1>5. CASE ~ cover
  <2>1. Wanted(cover, r, u) = q
    BY <1>1, <1>2, <1>5 DEF Wanted
  <2>2. x <= r /\ x + u > r
    BY <1>2, <1>4
  <2>. QED BY <1>2, <1>3, <1>4, <1>5, <2>1, <2>2
<1>6. CASE cover /\ m = 0
  <2>1. Wanted(cover, r, u) = q
    BY <1>1, <1>2, <1>6 DEF Wanted
  <2>2. x >= r
    BY <1>2, <1>4, <1>6
  <2>. QED BY <1>2, <1>4, <1>6, <2>1, <2>2
<1>7. CASE cover /\ m # 0
  <2>1. Wanted(cover, r, u) = q + 1
    BY <1>1, <1>2, <1>7 DEF Wanted
  <2>2. x + u >= r /\ q + 1 \in Nat
    BY <1>2, <1>4
  <2>3. u * (q + 1) >= r
    BY <1>3, <1>4, <2>2
  <2>. QED BY <1>7, <2>1, <2>2, <2>3
<1>. QED BY <1>5, <1>6, <1>7

(* k notes of the denomination u, one after the other. *)
Alike(notes, a, k, u) ==
    a >= 1 /\ a + k <= Len(notes) + 1 /\ \A i \in Span(a, k) : notes[i].value = u

(* They are worth k times u. *)
LEMMA SpanWorth ==
    ASSUME NEW N, Valued(N), NEW notes \in Seq(N), NEW a \in Nat, NEW k \in Nat, NEW u \in Nat,
           Alike(notes, a, k, u)
    PROVE  /\ Span(a, k) \in SUBSET DOMAIN notes
           /\ Worth(notes, Span(a, k)) = u * k /\ Cardinality(Span(a, k)) = k
<1>1. PICK B : B = Span(a, k)
  OBVIOUS
<1>2. B \in SUBSET DOMAIN notes
  <2>1. Len(notes) \in Nat /\ DOMAIN notes = 1 .. Len(notes)
    OBVIOUS
  <2>. QED BY <1>1, <2>1, SpanFacts DEF Alike
<1>3. Cardinality(B) = k
  <2>1. Cardinality(a .. a + k - 1) = IF a > a + k - 1 THEN 0 ELSE (a + k - 1) - a + 1
    <3>1. a \in Int /\ a + k - 1 \in Int
      OBVIOUS
    <3>. QED BY <3>1, FS_Interval
  <2>. QED BY <1>1, <2>1 DEF Span
<1>4. \A i \in B : notes[i].value = u /\ notes[i].value <= u
  BY <1>1 DEF Alike
<1>5. AtMost(notes, u, B)
  BY <1>2, <1>4, WorthAtMost
<1>6. Worth(notes, B) = u * k
  BY <1>3, <1>4, <1>5 DEF AtMost
<1>. QED BY <1>1, <1>2, <1>3, <1>6

(* What is picked at some indices, and then at others. *)
LEMMA PicksTogether ==
    ASSUME NEW N, Valued(N), NEW notes \in Seq(N),
           NEW s \in Seq(N), NEW t \in Seq(N), NEW A, NEW B, A \cap B = {},
           Picks(notes, s, A), Picks(notes, t, B)
    PROVE  /\ Picks(notes, s \o t, A \cup B)
           /\ Total(s \o t) = Total(s) + Total(t) /\ Len(s \o t) = Len(s) + Len(t)
<1>1. /\ A \in SUBSET DOMAIN notes /\ Total(s) = Worth(notes, A) /\ Len(s) = Cardinality(A)
      /\ B \in SUBSET DOMAIN notes /\ Total(t) = Worth(notes, B) /\ Len(t) = Cardinality(B)
  BY DEF Picks
<1>2. PICK m, n, x : m = Len(s) /\ n = Len(t) /\ x = s \o t
  OBVIOUS
<1>3. /\ m \in Nat /\ DOMAIN s = 1 .. m /\ n \in Nat /\ DOMAIN t = 1 .. n
      /\ x \in Seq(N) /\ Len(x) = m + n /\ DOMAIN x = 1 .. m + n
      /\ (\A i \in 1 .. m : x[i] = s[i]) /\ (\A i \in 1 .. n : x[m + i] = t[i])
  <2>1. /\ x \in Seq(N) /\ Len(x) = Len(s) + Len(t)
        /\ \A i \in 1 .. Len(s) : x[i] = s[i]
        /\ \A i \in 1 .. Len(t) : x[Len(s) + i] = t[i]
    BY <1>2, Joined
  <2>. QED BY <1>2, <2>1
<1>4. Total(x) = Total(s) + Total(t)
  BY <1>2, TotalJoins
<1>5. /\ Worth(notes, A \cup B) = Worth(notes, A) + Worth(notes, B)
      /\ Cardinality(A \cup B) = Cardinality(A) + Cardinality(B)
  BY <1>1, WorthTogether
<1>6. PICK g, h : DrawsIn(g, s, notes, A) /\ DrawsIn(h, t, notes, B)
  BY DEF Picks
<1>7. /\ \A k \in 1 .. m : g[k] \in A /\ s[k] = notes[g[k]]
      /\ \A k \in 1 .. n : h[k] \in B /\ t[k] = notes[h[k]]
  BY <1>3, <1>6 DEF DrawsIn, Draws
<1>7a. \A i, j \in 1 .. m : g[i] = g[j] => i = j
  BY <1>3, <1>6 DEF DrawsIn, Draws
<1>7b. \A i, j \in 1 .. n : h[i] = h[j] => i = j
  BY <1>3, <1>6 DEF DrawsIn, Draws
<1>8. PICK f : f = [k \in 1 .. m + n |-> IF k <= m THEN g[k] ELSE h[k - m]]
  OBVIOUS
<1>9. ASSUME NEW k \in 1 .. m + n
      PROVE  \/ k \in 1 .. m /\ f[k] = g[k] /\ x[k] = s[k]
             \/ k - m \in 1 .. n /\ f[k] = h[k - m] /\ x[k] = t[k - m]
  <2>1. CASE k <= m
    BY <1>3, <1>8, <2>1
  <2>2. CASE ~ (k <= m)
    <3>1. k - m \in 1 .. n /\ m + (k - m) = k
      BY <1>3, <2>2
    <3>2. x[m + (k - m)] = t[k - m]
      BY <1>3, <3>1
    <3>. QED BY <1>8, <2>2, <3>1, <3>2
  <2>. QED BY <2>1, <2>2
<1>10. \A k \in 1 .. m + n : f[k] \in A \cup B /\ x[k] = notes[f[k]]
  BY <1>7, <1>9
<1>11. ASSUME NEW i \in 1 .. m + n, NEW j \in 1 .. m + n, f[i] = f[j] PROVE i = j
  <2>1. CASE i \in 1 .. m /\ f[i] = g[i]
    <3>1. j \in 1 .. m /\ f[j] = g[j]
      BY <1>7, <1>9, <1>11, <2>1
    <3>2. g[i] = g[j]
      BY <1>11, <2>1, <3>1
    <3>. QED BY <1>7a, <2>1, <3>1, <3>2
  <2>2. CASE i - m \in 1 .. n /\ f[i] = h[i - m]
    <3>1. j - m \in 1 .. n /\ f[j] = h[j - m]
      BY <1>7, <1>9, <1>11, <2>2
    <3>2. i - m = j - m
      BY <1>7b, <1>11, <2>2, <3>1
    <3>. QED BY <1>3, <3>2
  <2>. QED BY <1>9, <2>1, <2>2
<1>12. DrawsIn(f, x, notes, A \cup B)
  BY <1>1, <1>3, <1>10, <1>11 DEF DrawsIn, Draws
<1>. QED BY <1>1, <1>2, <1>3, <1>4, <1>5, <1>12 DEF Picks

(* A stretch of notes picks its indices. *)
LEMMA StretchPicks ==
    ASSUME NEW N, Valued(N), NEW notes \in Seq(N), NEW s \in Seq(N),
           NEW a \in Nat, NEW k \in Nat, Stretch(notes, s, a, k), NEW u \in Nat,
           Alike(notes, a, k, u)
    PROVE  Picks(notes, s, Span(a, k)) /\ Total(s) = u * k /\ Len(s) = k
<1>1. /\ Len(s) = k /\ DOMAIN s = 1 .. k /\ a + k <= Len(notes) + 1
      /\ \A i \in 1 .. k : s[i] = notes[a + i - 1]
  BY DEF Stretch
<1>2. /\ Span(a, k) \in SUBSET DOMAIN notes
      /\ Worth(notes, Span(a, k)) = u * k /\ Cardinality(Span(a, k)) = k
  BY SpanWorth
<1>3. Total(s) = Worth(notes, Span(a, k))
  <2>1. a >= 1
    BY DEF Alike
  <2>. QED BY <2>1, TotalIsWorth
<1>4. \A i \in 1 .. k : a + i - 1 \in Span(a, k)
  BY DEF Span
<1>5. PICK g : g = [i \in 1 .. k |-> a + i - 1]
  OBVIOUS
<1>6. \A i \in 1 .. k : g[i] = a + i - 1
  BY <1>5
<1>7. \A i \in 1 .. k : g[i] \in Span(a, k) /\ s[i] = notes[g[i]]
  BY <1>1, <1>4, <1>6
<1>8. \A i, j \in 1 .. k : g[i] = g[j] => i = j
  BY <1>6
<1>9. DrawsIn(g, s, notes, Span(a, k))
  BY <1>1, <1>2, <1>7, <1>8 DEF DrawsIn, Draws
<1>. QED BY <1>1, <1>2, <1>3, <1>9 DEF Picks

(* The most notes of a denomination tried are those wanted, or all there are. *)
LEMMA MostFacts ==
    ASSUME NEW N, Valued(N), NEW notes \in Seq(N), Descending(notes), NEW amount \in Nat, NEW cover,
           NEW p \in Points(notes, amount), Rest(notes, p) # <<>>
    PROVE  LET m == Most(cover, notes, p)
               x == Wanted(cover, p.remaining, Unit(notes, p))
           IN  m \in Nat /\ m <= x /\ m <= Equal(notes, p) /\ (m < Equal(notes, p) => m = x)
<1>1. PICK r, u, e : r = p.remaining /\ u = Unit(notes, p) /\ e = Equal(notes, p)
  OBVIOUS
<1>2. r \in Nat /\ u \in Nat /\ u > 0 /\ e \in Nat
  BY <1>1, RunFacts, PointFacts
<1>3. PICK x \in Nat : x = Wanted(cover, r, u)
  BY <1>2, WantedFacts
<1>4. Most(cover, notes, p) = IF x <= e THEN x ELSE e
  BY <1>1, <1>2, <1>3, LeastOfTwo DEF Most
<1>. QED BY <1>1, <1>2, <1>3, <1>4

(* A product grows with its factor. *)
LEMMA TimesMore ==
    ASSUME NEW u \in Nat, NEW k \in Nat, NEW x \in Nat, k <= x
    PROVE  u * k <= u * x /\ u * k \in Nat /\ u * x \in Nat
<1>1. PICK j \in Nat : x = k + j
  <2>1. x - k \in Nat /\ x = k + (x - k)
    OBVIOUS
  <2>. QED BY <2>1
<1>2. u * x = u * k + u * j /\ u * k \in Nat /\ u * j \in Nat
  BY <1>1
<1>. QED BY <1>2

(* A trial leads from a consistent point to one. *)
LEMMA TrialFacts ==
    ASSUME NEW N, Valued(N), NEW notes \in Seq(N), Descending(notes),
           NEW amount \in Nat, NEW cover, NEW p \in Points(notes, amount),
           Consistent(cover, notes, amount, p), p.remaining # 0, Rest(notes, p) # <<>>,
           NEW b \in Seq(Range(notes)), Answer(cover, notes, amount, b),
           NEW k \in 0 .. Most(cover, notes, p)
    PROVE  LET q == After(notes, p, b, k)
           IN  /\ q \in Points(notes, amount) /\ Consistent(cover, notes, amount, q)
               /\ q.start = p.start + Equal(notes, p) /\ q.start > p.start /\ q.best = b
               /\ Total(q.chosen) = Total(p.chosen) + Unit(notes, p) * k
               /\ Len(q.chosen) = Len(p.chosen) + k
<1>1. PICK n, a, e, u, r, w, c :
        /\ n = Len(notes) /\ a = p.start /\ e = Equal(notes, p) /\ u = Unit(notes, p)
        /\ r = p.remaining /\ w = Total(p.chosen) /\ c = Len(p.chosen)
  OBVIOUS
<1>2. /\ n \in Nat /\ a \in Nat /\ 1 <= a /\ a <= n /\ e \in Nat /\ 1 <= e /\ a + e <= n + 1
      /\ u \in Nat /\ u > 0 /\ \A i \in a .. a + e - 1 : notes[i].value = u
  BY <1>1, RunFacts
<1>3. r \in Nat /\ r > 0 /\ w \in Nat /\ c \in Nat /\ p.chosen \in Seq(Range(notes))
  <2>1. p.remaining \in Nat /\ p.remaining > 0
    BY PointFacts
  <2>. QED BY <1>1, <2>1, PointFacts
<1>4. w < amount /\ r = amount - w
  <2>1. r = IF w <= amount THEN amount - w ELSE 0
    BY <1>1 DEF Consistent
  <2>. QED BY <1>3, <2>1
<1>5. PICK x \in Nat : x = Wanted(cover, r, u)
  BY <1>2, <1>3, WantedFacts
<1>6. k \in Nat /\ k <= e /\ k <= x
  <2>1. PICK m : m = Most(cover, notes, p)
    OBVIOUS
  <2>2. m \in Nat /\ m <= x /\ m <= e /\ k \in 0 .. m
    BY <1>1, <1>5, <2>1, MostFacts
  <2>. QED BY <1>2, <1>5, <2>2
<1>7. PICK y \in Nat : y = u * k
  BY <1>2, <1>6
<1>8. PICK rest, s : rest = Rest(notes, p) /\ s = SubSeq(rest, 1, k)
  OBVIOUS
<1>9. /\ rest \in Seq(Range(notes)) /\ Len(rest) = n - a + 1
      /\ \A i \in 1 .. n - a + 1 : rest[i] = notes[a + i - 1]
  <2>1. rest \in Seq(Range(notes)) /\ Stretch(notes, rest, a, n - a + 1)
    BY <1>1, <1>8, RunFacts
  <2>. QED BY <2>1 DEF Stretch
<1>10. s \in Seq(Range(notes)) /\ Len(s) = k /\ \A i \in 1 .. k : s[i] = notes[a + i - 1]
  <2>1. \A i \in 1 .. k : i \in 1 .. n - a + 1 /\ rest[i] \in Range(notes)
    BY <1>2, <1>6, <1>9
  <2>2. 1 \in Int /\ k \in Int
    BY <1>6
  <2>3. /\ s \in Seq(Range(notes)) /\ Len(s) = IF 1 <= k THEN k - 1 + 1 ELSE 0
        /\ \A i \in 1 .. k - 1 + 1 : s[i] = rest[1 + i - 1]
    BY <1>8, <2>1, <2>2, SubSeqProperties
  <2>4. \A i \in 1 .. k : i \in 1 .. k - 1 + 1 /\ 1 + i - 1 = i
    BY <1>6
  <2>5. \A i \in 1 .. k : s[i] = rest[i]
    BY <2>3, <2>4
  <2>6. Len(s) = k
    BY <1>6, <2>3
  <2>. QED BY <1>9, <2>1, <2>3, <2>5, <2>6
<1>11. Stretch(notes, s, a, k) /\ Alike(notes, a, k, u)
  <2>1. a + k <= n + 1 /\ \A i \in Span(a, k) : i \in a .. a + e - 1
    BY <1>2, <1>6 DEF Span
  <2>. QED BY <1>1, <1>2, <1>10, <2>1 DEF Stretch, Alike
<1>12. s \in Seq(N) /\ p.chosen \in Seq(N)
  BY <1>3, <1>10, AmountFacts
<1>13. Picks(notes, s, Span(a, k)) /\ Total(s) = y /\ Len(s) = k
  BY <1>2, <1>6, <1>7, <1>11, <1>12, StretchPicks
<1>14. PICK C : C \in SUBSET (1 .. a - 1) /\ Picks(notes, p.chosen, C)
  BY <1>1 DEF Consistent
<1>15. /\ C \cap Span(a, k) = {} /\ C \cup Span(a, k) \in SUBSET (1 .. (a + e) - 1)
  <2>1. \A i \in C : i \in Nat /\ 1 <= i /\ i < a
    BY <1>2, <1>14
  <2>2. \A i \in Span(a, k) : i \in Nat /\ a <= i /\ i < a + k
    BY <1>2, <1>6 DEF Span
  <2>3. \A i \in C \cup Span(a, k) : i \in 1 .. (a + e) - 1
    BY <1>2, <1>6, <2>1, <2>2
  <2>4. \A i \in C : i \notin Span(a, k)
    BY <1>2, <2>1, <2>2
  <2>. QED BY <2>3, <2>4
<1>16. PICK t : t = p.chosen \o s
  OBVIOUS
<1>17. /\ Picks(notes, t, C \cup Span(a, k)) /\ Total(t) = w + y /\ Len(t) = c + k
  <2>1. PICK B, f : B = Span(a, k) /\ f = p.chosen
    OBVIOUS
  <2>2. /\ f \in Seq(N) /\ s \in Seq(N) /\ C \cap B = {}
        /\ Picks(notes, f, C) /\ Picks(notes, s, B)
    BY <1>12, <1>13, <1>14, <1>15, <2>1
  <2>3. /\ Picks(notes, f \o s, C \cup B)
        /\ Total(f \o s) = Total(f) + Total(s) /\ Len(f \o s) = Len(f) + Len(s)
    BY <2>2, PicksTogether
  <2>. QED BY <1>1, <1>13, <1>16, <2>1, <2>3
<1>18. PICK left : left = Max({r - y, 0})
  OBVIOUS
<1>19. left = IF w + y <= amount THEN amount - (w + y) ELSE 0
  <2>1. left = IF r - y >= 0 THEN r - y ELSE 0
    BY <1>3, <1>7, <1>18, GreatestOfTwo
  <2>. QED BY <1>3, <1>4, <1>7, <2>1
<1>20. cover \/ w + y <= amount
  <2>1. SUFFICES ASSUME ~ cover PROVE w + y <= amount
    OBVIOUS
  <2>2. u * x <= r
    BY <1>2, <1>3, <1>5, <2>1, WantedFacts
  <2>3. u * k <= u * x
    BY <1>2, <1>5, <1>6, TimesMore
  <2>4. PICK z \in Nat : z = u * x
    BY <1>2, <1>5
  <2>. QED BY <1>3, <1>4, <1>7, <2>2, <2>3, <2>4
<1>21. PICK q : q = After(notes, p, b, k)
  OBVIOUS
<1>22. q = [start |-> a + e, remaining |-> left, chosen |-> t, best |-> b]
  BY <1>1, <1>7, <1>8, <1>16, <1>18, <1>21 DEF After
<1>23. q \in Points(notes, amount) /\ q.start > p.start
  BY <1>21, AfterFacts
<1>24. Consistent(cover, notes, amount, q)
  BY <1>15, <1>17, <1>19, <1>20, <1>22 DEF Consistent
<1>. QED BY <1>1, <1>7, <1>17, <1>21, <1>22, <1>23, <1>24

(* As good as what is as good. *)
LEMMA AsGoodTrans ==
    ASSUME NEW cover, NEW s, NEW t, Total(s) \in Nat, Len(s) \in Nat, Total(t) \in Nat, Len(t) \in Nat,
           NEW v \in Nat, NEW d \in Nat, AsGood(cover, s, v, d), AsGood(cover, t, Total(s), Len(s))
    PROVE  AsGood(cover, t, v, d)
<1>1. PICK w, c, x, y : w = Total(s) /\ c = Len(s) /\ x = Total(t) /\ y = Len(t)
  OBVIOUS
<1>2. w \in Nat /\ c \in Nat /\ x \in Nat /\ y \in Nat
  BY <1>1
<1>3. NoWorse(cover, w, c, v, d) /\ NoWorse(cover, x, y, w, c) /\ t # <<>>
  BY <1>1 DEF AsGood
<1>4. NoWorse(cover, x, y, v, d)
  BY <1>2, <1>3, NoWorseStays
<1>. QED BY <1>1, <1>3, <1>4 DEF AsGood

(* s is the best of what k or more notes of the next denomination lead to. *)
Run(notes, p) == Span(p.start, Equal(notes, p))
Tried(cover, notes, amount, p, s, k) ==
    /\ Answer(cover, notes, amount, s) /\ KeepsBest(cover, p, s)
    /\ \A T \in SUBSET (p.start .. Len(notes)) :
         Cardinality(T \cap Run(notes, p)) \in k .. Most(cover, notes, p) =>
           Beats(cover, notes, amount, p, s, T)

(* The notes of T of the next denomination, and the others. *)
LEMMA RunParts ==
    ASSUME NEW N, Valued(N), NEW notes \in Seq(N), Descending(notes),
           NEW amount \in Nat, NEW p \in Points(notes, amount), Rest(notes, p) # <<>>,
           NEW T \in SUBSET (p.start .. Len(notes))
    PROVE  LET A == T \cap Run(notes, p)
               B == T \ Run(notes, p)
               u == Unit(notes, p)
           IN  /\ Cardinality(A) \in Nat /\ Cardinality(A) <= Equal(notes, p)
               /\ B \in SUBSET ((p.start + Equal(notes, p)) .. Len(notes))
               /\ Worth(notes, B) \in Nat /\ Cardinality(B) \in Nat
               /\ Worth(notes, T) = u * Cardinality(A) + Worth(notes, B)
               /\ Cardinality(T) = Cardinality(A) + Cardinality(B)
<1>1. PICK n, a, e, u : n = Len(notes) /\ a = p.start /\ e = Equal(notes, p) /\ u = Unit(notes, p)
  OBVIOUS
<1>2. /\ n \in Nat /\ a \in Nat /\ 1 <= a /\ a <= n /\ e \in Nat /\ 1 <= e /\ a + e <= n + 1
      /\ u \in Nat /\ u > 0 /\ \A i \in a .. a + e - 1 : notes[i].value = u
  BY <1>1, RunFacts
<1>3. PICK R, A, B : R = Span(a, e) /\ A = T \cap R /\ B = T \ R
  OBVIOUS
<1>4. R = Run(notes, p)
  BY <1>1, <1>3 DEF Run
<1>5. R = a .. a + e - 1
  BY <1>3 DEF Span
<1>6. T \in SUBSET DOMAIN notes
  BY <1>1, <1>2
<1>7. A \in SUBSET T /\ T \ A = B /\ A \in SUBSET DOMAIN notes /\ B \in SUBSET DOMAIN notes
  BY <1>3, <1>6
<1>8. /\ Worth(notes, T) = Worth(notes, A) + Worth(notes, B)
      /\ Cardinality(T) = Cardinality(A) + Cardinality(B)
  BY <1>6, <1>7, WorthGrows
<1>9. /\ Cardinality(A) \in Nat /\ Cardinality(B) \in Nat /\ Worth(notes, B) \in Nat
  BY <1>7, WorthFacts
<1>10. Worth(notes, A) = u * Cardinality(A)
  <2>1. \A i \in A : notes[i].value = u /\ notes[i].value <= u
    BY <1>2, <1>3, <1>5
  <2>2. AtMost(notes, u, A)
    BY <1>2, <1>7, <2>1, WorthAtMost
  <2>. QED BY <2>1, <2>2 DEF AtMost
<1>11. Cardinality(A) <= e
  <2>1. Alike(notes, a, e, u)
    BY <1>1, <1>2, <1>3, <1>5 DEF Alike
  <2>2. Cardinality(R) = e /\ R \in SUBSET DOMAIN notes
    BY <1>2, <1>3, <2>1, SpanWorth
  <2>3. IsFiniteSet(R)
    BY <2>2, WorthFacts
  <2>4. A \in SUBSET R
    BY <1>3
  <2>. QED BY <2>2, <2>3, <2>4, FS_Subset
<1>12. B \in SUBSET ((a + e) .. n)
  <2>1. \A i \in B : i \in a .. n /\ ~ (i \in a .. a + e - 1)
    BY <1>1, <1>3, <1>5
  <2>2. \A i \in B : i \in (a + e) .. n
    BY <1>2, <2>1
  <2>. QED BY <2>2
<1>. QED BY <1>1, <1>3, <1>4, <1>8, <1>9, <1>10, <1>11, <1>12

(* f answers the points after p with optimal notes. *)
OptimalAfter(f, cover, notes, amount, p) ==
    \A q \in Points(notes, amount) :
      q.start > p.start /\ Consistent(cover, notes, amount, q) =>
        Optimal(cover, notes, amount, q, f[q])

(* One more trial, of k notes of the next denomination. *)
LEMMA TrialStep ==
    ASSUME NEW N, Valued(N), NEW notes \in Seq(N), Descending(notes),
           NEW amount \in Nat, NEW cover, NEW p \in Points(notes, amount),
           Consistent(cover, notes, amount, p), p.remaining # 0, Rest(notes, p) # <<>>,
           NEW f, OptimalAfter(f, cover, notes, amount, p),
           NEW s \in Seq(Range(notes)), NEW k \in 0 .. Most(cover, notes, p),
           Tried(cover, notes, amount, p, s, k + 1),
           f[After(notes, p, s, k)] \in Seq(Range(notes))
    PROVE  Tried(cover, notes, amount, p, f[After(notes, p, s, k)], k)
<1>1. PICK n, a, e, u, m, w, c, q, t :
        /\ n = Len(notes) /\ a = p.start /\ e = Equal(notes, p) /\ u = Unit(notes, p)
        /\ m = Most(cover, notes, p) /\ w = Total(p.chosen) /\ c = Len(p.chosen)
        /\ q = After(notes, p, s, k) /\ t = f[q]
  OBVIOUS
<1>2. n \in Nat /\ a \in Nat /\ e \in Nat /\ u \in Nat /\ m \in Nat /\ k \in Nat /\ k <= m
  <2>1. n \in Nat /\ a \in Nat /\ e \in Nat /\ u \in Nat
    BY <1>1, RunFacts
  <2>2. m \in Nat
    BY <1>1, MostFacts
  <2>. QED BY <1>1, <2>1, <2>2
<1>3. w \in Nat /\ c \in Nat /\ Total(p.best) \in Nat /\ Len(p.best) \in Nat
  BY <1>1, PointFacts
<1>4. Answer(cover, notes, amount, s) /\ KeepsBest(cover, p, s)
  BY DEF Tried
<1>5. /\ q \in Points(notes, amount) /\ Consistent(cover, notes, amount, q)
      /\ q.start = a + e /\ q.start > a /\ q.best = s
      /\ Total(q.chosen) = w + u * k /\ Len(q.chosen) = c + k
  <2>1. LET x == After(notes, p, s, k)
        IN  /\ x \in Points(notes, amount) /\ Consistent(cover, notes, amount, x)
            /\ x.start = p.start + Equal(notes, p) /\ x.start > p.start /\ x.best = s
            /\ Total(x.chosen) = Total(p.chosen) + Unit(notes, p) * k
            /\ Len(x.chosen) = Len(p.chosen) + k
    BY <1>4, TrialFacts
  <2>. QED BY <1>1, <2>1
<1>6. Optimal(cover, notes, amount, q, t)
  BY <1>1, <1>5 DEF OptimalAfter
<1>7. /\ Answer(cover, notes, amount, t)
      /\ s # <<>> => AsGood(cover, t, Total(s), Len(s))
      /\ \A T \in SUBSET ((a + e) .. n) : Beats(cover, notes, amount, q, t, T)
  BY <1>1, <1>5, <1>6 DEF Optimal, KeepsBest
<1>8. Total(s) \in Nat /\ Len(s) \in Nat /\ Total(t) \in Nat /\ Len(t) \in Nat
  BY <1>1, AmountFacts
<1>9. \A v, d \in Nat : AsGood(cover, s, v, d) => AsGood(cover, t, v, d)
  <2>1. ASSUME NEW v \in Nat, NEW d \in Nat, AsGood(cover, s, v, d) PROVE AsGood(cover, t, v, d)
    <3>1. AsGood(cover, t, Total(s), Len(s))
      BY <1>7, <2>1 DEF AsGood
    <3>. QED BY <1>8, <2>1, <3>1, AsGoodTrans
  <2>. QED BY <2>1
<1>10. KeepsBest(cover, p, t)
  BY <1>3, <1>4, <1>9 DEF KeepsBest
<1>11. ASSUME NEW T \in SUBSET (a .. n), Cardinality(T \cap Run(notes, p)) \in k .. m
       PROVE  Beats(cover, notes, amount, p, t, T)
  <2>1. SUFFICES ASSUME Makes(cover, amount, w + Worth(notes, T))
                 PROVE  AsGood(cover, t, w + Worth(notes, T), c + Cardinality(T))
    BY <1>1 DEF Beats
  <2>2. Worth(notes, T) \in Nat /\ Cardinality(T) \in Nat
    BY <1>1, PointFacts
  <2>3. PICK j, B : j = Cardinality(T \cap Run(notes, p)) /\ B = T \ Run(notes, p)
    OBVIOUS
  <2>4. /\ j \in Nat /\ B \in SUBSET ((a + e) .. n)
        /\ Worth(notes, B) \in Nat /\ Cardinality(B) \in Nat
        /\ Worth(notes, T) = u * j + Worth(notes, B)
        /\ Cardinality(T) = j + Cardinality(B)
    BY <1>1, <2>3, RunParts
  <2>5. CASE j = k
    <3>1. PICK x, y, z : x = Worth(notes, B) /\ y = u * k /\ z = Cardinality(B)
      OBVIOUS
    <3>2. x \in Nat /\ y \in Nat /\ z \in Nat
      BY <1>2, <2>4, <3>1, TimesMore
    <3>3. w + Worth(notes, T) = (w + y) + x /\ c + Cardinality(T) = (c + k) + z
      BY <1>2, <1>3, <2>4, <2>5, <3>1, <3>2
    <3>4. Beats(cover, notes, amount, q, t, B)
      BY <1>7, <2>4
    <3>. QED BY <1>5, <2>1, <3>1, <3>3, <3>4 DEF Beats
  <2>6. CASE j # k
    <3>1. j \in k + 1 .. m
      BY <1>2, <1>11, <2>3, <2>4, <2>6
    <3>2. Beats(cover, notes, amount, p, s, T)
      BY <1>1, <2>3, <3>1 DEF Tried
    <3>3. AsGood(cover, s, w + Worth(notes, T), c + Cardinality(T))
      BY <1>1, <2>1, <3>2 DEF Beats
    <3>4. w + Worth(notes, T) \in Nat /\ c + Cardinality(T) \in Nat
      BY <1>3, <2>2
    <3>. QED BY <1>9, <3>3, <3>4
  <2>. QED BY <2>5, <2>6
<1>. QED BY <1>1, <1>7, <1>10, <1>11 DEF Tried

(* More notes of the next denomination than are wanted make no better. *)
LEMMA AllTried ==
    ASSUME NEW N, Valued(N), NEW notes \in Seq(N), Descending(notes),
           NEW amount \in Nat, NEW cover, NEW p \in Points(notes, amount),
           Consistent(cover, notes, amount, p), p.remaining # 0, Rest(notes, p) # <<>>,
           NEW s \in Seq(Range(notes)), Tried(cover, notes, amount, p, s, 0)
    PROVE  Optimal(cover, notes, amount, p, s)
<1>1. PICK n, a, e, u, m, r, w, c :
        /\ n = Len(notes) /\ a = p.start /\ e = Equal(notes, p) /\ u = Unit(notes, p)
        /\ m = Most(cover, notes, p) /\ r = p.remaining /\ w = Total(p.chosen) /\ c = Len(p.chosen)
  OBVIOUS
<1>2. /\ n \in Nat /\ a \in Nat /\ 1 <= a /\ e \in Nat /\ u \in Nat /\ u > 0 /\ m \in Nat
      /\ a + e <= n + 1 /\ \A i \in a .. a + e - 1 : notes[i].value = u
  <2>1. /\ n \in Nat /\ a \in Nat /\ 1 <= a /\ e \in Nat /\ u \in Nat /\ u > 0
        /\ a + e <= n + 1 /\ \A i \in a .. a + e - 1 : notes[i].value = u
    BY <1>1, RunFacts
  <2>2. m \in Nat
    BY <1>1, MostFacts
  <2>. QED BY <2>1, <2>2
<1>3. w \in Nat /\ c \in Nat /\ r \in Nat /\ r > 0
  <2>1. p.remaining \in Nat /\ p.remaining > 0
    BY PointFacts
  <2>. QED BY <1>1, <2>1, PointFacts
<1>4. w < amount /\ r = amount - w
  <2>1. r = IF w <= amount THEN amount - w ELSE 0
    BY <1>1 DEF Consistent
  <2>. QED BY <1>3, <2>1
<1>5. ASSUME NEW T \in SUBSET (a .. n) PROVE Beats(cover, notes, amount, p, s, T)
  <2>1. PICK j, B : j = Cardinality(T \cap Run(notes, p)) /\ B = T \ Run(notes, p)
    OBVIOUS
  <2>2. /\ j \in Nat /\ j <= e /\ Worth(notes, B) \in Nat /\ Cardinality(B) \in Nat
        /\ Worth(notes, T) = u * j + Worth(notes, B)
    BY <1>1, <2>1, RunParts
  <2>3. CASE j <= m
    <3>1. j \in 0 .. m
      BY <1>2, <2>2, <2>3
    <3>. QED BY <1>1, <2>1, <3>1 DEF Tried
  <2>4. CASE j > m
    <3>1. m < e /\ m = Wanted(cover, r, u)
      <4>1. m < e
        BY <1>2, <2>2, <2>4
      <4>. QED BY <1>1, <4>1, MostFacts
    <3>2. PICK y, z : y = u * m /\ z = u * j
      OBVIOUS
    <3>3. y \in Nat /\ z \in Nat /\ y + u <= z
      <4>1. m + 1 <= j /\ m + 1 \in Nat
        BY <1>2, <2>2, <2>4
      <4>2. u * (m + 1) <= u * j /\ u * m \in Nat /\ u * j \in Nat
        BY <1>2, <2>2, <4>1, TimesMore
      <4>3. u * (m + 1) = u * m + u
        BY <1>2
      <4>. QED BY <3>2, <4>2, <4>3
    <3>4. PICK x, v : x = Worth(notes, T) /\ v = Worth(notes, B)
      OBVIOUS
    <3>5. x = z + v /\ v \in Nat /\ x \in Nat
      BY <2>2, <3>2, <3>3, <3>4
    <3>6. CASE ~ cover
      <4>1. u * (m + 1) > r /\ u * (m + 1) = y + u
        BY <1>2, <1>3, <3>1, <3>2, <3>6, WantedFacts
      <4>2. w + x # amount
        BY <1>2, <1>3, <1>4, <3>3, <3>5, <4>1
      <4>. QED BY <1>1, <3>4, <3>6, <4>2 DEF Beats, Makes
    <3>7. CASE cover
      <4>1. y >= r
        BY <1>2, <1>3, <3>1, <3>2, <3>7, WantedFacts
      <4>2. Alike(notes, a, m, u) /\ Span(a, m) \in SUBSET Span(a, e)
        <5>1. \A i \in Span(a, m) : i \in a .. a + e - 1
          BY <1>2, <3>1 DEF Span
        <5>2. a + m <= n + 1
          BY <1>2, <3>1
        <5>. QED BY <1>1, <1>2, <5>1, <5>2 DEF Alike, Span
      <4>3. PICK D : D = Span(a, m)
        OBVIOUS
      <4>4. D \in SUBSET DOMAIN notes /\ Worth(notes, D) = y /\ Cardinality(D) = m
        BY <1>2, <3>2, <4>2, <4>3, SpanWorth
      <4>5. D \cap Run(notes, p) = D
        BY <1>1, <4>2, <4>3 DEF Run
      <4>6. D \in SUBSET (a .. n)
        BY <1>1, <1>2, <4>3, <4>4 DEF Span
      <4>7. Beats(cover, notes, amount, p, s, D)
        <5>1. m \in 0 .. m
          BY <1>2
        <5>. QED BY <1>1, <4>4, <4>5, <4>6, <5>1 DEF Tried
      <4>8. Makes(cover, amount, w + y)
        BY <1>3, <1>4, <3>3, <3>7, <4>1 DEF Makes
      <4>9. AsGood(cover, s, w + y, c + m)
        BY <1>1, <4>4, <4>7, <4>8 DEF Beats
      <4>10. PICK ws, cs : ws = Total(s) /\ cs = Len(s) /\ ws \in Nat /\ cs \in Nat
        BY AmountFacts
      <4>11. s # <<>> /\ ws <= w + y
        BY <1>2, <1>3, <3>3, <3>7, <4>9, <4>10 DEF AsGood, NoWorse
      <4>12. ws < w + x
        BY <1>2, <1>3, <3>3, <3>5, <4>10, <4>11
      <4>13. AsGood(cover, s, w + x, c + Cardinality(T))
        BY <3>7, <4>10, <4>11, <4>12 DEF AsGood, NoWorse
      <4>. QED BY <1>1, <3>4, <4>13 DEF Beats
    <3>. QED BY <3>6, <3>7
  <2>. QED BY <1>2, <2>2, <2>3, <2>4
<1>. QED BY <1>1, <1>5 DEF Tried, Optimal

(* A trial is what the search answers beyond the notes it takes. *)
LEMMA TrialAt ==
    ASSUME NEW f, NEW cover, NEW notes, NEW p
    PROVE  \A i \in 1 .. Most(cover, notes, p) + 1 : \A b \in Seq(Range(notes)) :
              TrialsOf(f, cover, notes, p)[i][b]
                = f[After(notes, p, b, Most(cover, notes, p) + 1 - i)]
BY DEF TrialsOf

(* The trials from a point find the best there is beyond it. *)
LEMMA TrialsOptimal ==
    ASSUME NEW N, Valued(N), NEW notes \in Seq(N), Descending(notes),
           NEW amount \in Nat, NEW cover, NEW p \in Points(notes, amount),
           Consistent(cover, notes, amount, p), p.remaining # 0, Rest(notes, p) # <<>>,
           NEW f, OptimalAfter(f, cover, notes, amount, p), Answers(f, cover, notes, p)
    PROVE  Optimal(cover, notes, amount, p, Trials(f, cover, notes, p))
<1>1. PICK m, n, A, h, base :
        /\ m = Most(cover, notes, p) /\ n = m + 1 /\ A = Seq(Range(notes))
        /\ h = TrialsOf(f, cover, notes, p) /\ base = p.best
  OBVIOUS
<1>2. m \in Nat /\ n \in Nat
  BY <1>1, MostFacts
<1>3. base \in A
  BY <1>1, PointFacts
<1>4. h \in [1 .. n -> [A -> A]]
      /\ \E it : Folds(it, n, A, base, h) /\ Trials(f, cover, notes, p) = it[1 .. n]
  <2>1. p.best \in Seq(Range(notes)) /\ Most(cover, notes, p) \in Nat
    BY <1>1, <1>2, <1>3
  <2>. QED BY <1>1, <2>1, TrialsFold
<1>5. PICK it : Folds(it, n, A, base, h) /\ Trials(f, cover, notes, p) = it[1 .. n]
  BY <1>4
<1>6. /\ \A i \in 0 .. n : it[1 .. i] \in A
      /\ \A i \in 1 .. n : it[1 .. i] = h[i][it[1 .. i - 1]]
  BY <1>2, <1>3, <1>4, <1>5, FoldingSteps
<1>7. \A i \in 1 .. n : \A b \in A : h[i][b] = f[After(notes, p, b, n - i)]
  <2>1. \A i \in 1 .. m + 1 : \A b \in A : h[i][b] = f[After(notes, p, b, m + 1 - i)]
    BY <1>1, TrialAt
  <2>2. n = m + 1 /\ \A i \in 1 .. n : m + 1 - i = n - i
    BY <1>1, <1>2
  <2>. QED BY <2>1, <2>2
<1> DEFINE S == {i \in Nat : i <= n => Tried(cover, notes, amount, p, it[1 .. i], n - i)}
<1>8. 0 \in S
  <2>1. it[1 .. 0] = p.best
    <3>1. 1 .. 0 = {}
      OBVIOUS
    <3>. QED BY <1>1, <1>5, <3>1 DEF Folds
  <2>2. Answer(cover, notes, amount, p.best)
    BY DEF Consistent
  <2>3. KeepsBest(cover, p, p.best)
    BY PointFacts, NoWorseStays DEF KeepsBest, AsGood
  <2>4. n - 0 .. m = {} /\ n - 0 = n
    BY <1>1, <1>2
  <2>5. Tried(cover, notes, amount, p, p.best, n)
    BY <1>1, <2>2, <2>3, <2>4 DEF Tried
  <2>. QED BY <2>1, <2>4, <2>5
<1>9. ASSUME NEW i \in Nat, i \in S PROVE i + 1 \in S
  <2>1. SUFFICES ASSUME i + 1 <= n
                 PROVE  Tried(cover, notes, amount, p, it[1 .. i + 1], n - (i + 1))
    OBVIOUS
  <2>2. i <= n
    BY <1>2, <2>1
  <2>3. Tried(cover, notes, amount, p, it[1 .. i], n - i)
    BY <1>9, <2>2
  <2> HIDE DEF S
  <2>4. PICK s, t : s = it[1 .. i] /\ t = it[1 .. i + 1]
    OBVIOUS
  <2>a. PICK k : k = n - (i + 1)
    OBVIOUS
  <2>b. m \in Nat /\ n = m + 1
    BY <1>1, <1>2
  <2>5. k \in 0 .. m /\ k + 1 = n - i /\ i \in 0 .. n /\ i + 1 \in 1 .. n /\ (i + 1) - 1 = i
    BY <2>1, <2>a, <2>b
  <2>6. s \in A /\ t \in A
    BY <1>6, <2>4, <2>5
  <2>7. t = f[After(notes, p, s, k)]
    <3>1. n - (i + 1) = k
      BY <2>a
    <3>2. t = h[i + 1][s]
      BY <1>6, <2>4, <2>5
    <3>. QED BY <1>7, <2>5, <2>6, <3>1, <3>2
  <2>8. Tried(cover, notes, amount, p, s, k + 1)
    BY <2>3, <2>4, <2>5
  <2>9. Tried(cover, notes, amount, p, f[After(notes, p, s, k)], k)
    <3>1. s \in Seq(Range(notes)) /\ f[After(notes, p, s, k)] \in Seq(Range(notes))
      BY <1>1, <2>6, <2>7
    <3>2. k \in 0 .. Most(cover, notes, p)
      BY <1>1, <2>5
    <3>. QED BY <2>8, <3>1, <3>2, TrialStep
  <2>. QED BY <2>4, <2>a, <2>7, <2>9
<1>10. S = Nat
  <2> HIDE DEF S
  <2>1. S \in SUBSET Nat
    BY DEF S
  <2>. QED BY <1>8, <1>9, <2>1, AllNumbers
<1>11. Tried(cover, notes, amount, p, it[1 .. n], 0)
  <2>1. n \in S
    <3> HIDE DEF S
    <3>. QED BY <1>2, <1>10
  <2>2. n <= n /\ n - n = 0
    BY <1>2
  <2>. QED BY <2>1, <2>2
<1>12. PICK s : s = it[1 .. n]
  OBVIOUS
<1>13. s \in Seq(Range(notes))
  <2>1. n \in 0 .. n
    BY <1>2
  <2>. QED BY <1>1, <1>6, <1>12, <2>1
<1>14. Optimal(cover, notes, amount, p, s)
  BY <1>11, <1>12, <1>13, AllTried
<1>. QED BY <1>5, <1>12, <1>14

-----------------------------------------------------------------------------
(* The search finds the best selection. *)

(* The search at a point is optimal when it is at the points after it. *)
LEMMA SearchedOptimal ==
    ASSUME NEW N, Valued(N), NEW notes \in Seq(N), Descending(notes),
           NEW amount \in Nat, amount > 0, NEW cover, NEW p \in Points(notes, amount),
           Consistent(cover, notes, amount, p),
           NEW f, OptimalAfter(f, cover, notes, amount, p),
           \A q \in Points(notes, amount) : f[q] \in Seq(Range(notes))
    PROVE  Optimal(cover, notes, amount, p, Searched(f, cover, notes, p))
<1>1. CASE p.remaining = 0
  <2>1. Searched(f, cover, notes, p) = IF Better(cover, p.chosen, p.best) THEN p.chosen ELSE p.best
    BY <1>1 DEF Searched
  <2>. QED BY <1>1, <2>1, ReachedIsOptimal
<1>2. CASE p.remaining # 0 /\ Ends(cover, notes, p)
  <2>1. Searched(f, cover, notes, p) = p.best
    BY <1>2 DEF Searched
  <2>. QED BY <1>2, <2>1, PrunedIsOptimal
<1>3. CASE p.remaining # 0 /\ ~ Ends(cover, notes, p)
  <2>1. Searched(f, cover, notes, p) = Trials(f, cover, notes, p)
    BY <1>3 DEF Searched
  <2>2. Rest(notes, p) # <<>>
    BY <1>3 DEF Ends, Hopeless
  <2>3. Answers(f, cover, notes, p)
    BY <2>2, AfterFacts DEF Answers
  <2>. QED BY <1>3, <2>1, <2>2, <2>3, TrialsOptimal
<1>. QED BY <1>1, <1>2, <1>3

OptimalWithin(f, cover, notes, amount, j) ==
    \A p \in Within(notes, amount, j) :
      Consistent(cover, notes, amount, p) => Optimal(cover, notes, amount, p, f[p])

(* The search is optimal at every point. *)
LEMMA SearchOptimal ==
    ASSUME NEW N, Valued(N), NEW notes \in Seq(N), Descending(notes),
           NEW amount \in Nat, amount > 0, NEW cover, NEW f, IsSearch(f, cover, notes, amount)
    PROVE  \A p \in Points(notes, amount) :
              Consistent(cover, notes, amount, p) => Optimal(cover, notes, amount, p, f[p])
<1>1. \A p \in Points(notes, amount) :
        f[p] \in Seq(Range(notes)) /\ f[p] = Searched(f, cover, notes, p)
  BY SearchAnswers
<1> DEFINE S == {j \in Nat : OptimalWithin(f, cover, notes, amount, j)}
<1>2. 0 \in S
  BY WithinFacts DEF OptimalWithin
<1>3. ASSUME NEW j \in S PROVE j + 1 \in S
  <2>1. OptimalWithin(f, cover, notes, amount, j) /\ j \in Nat /\ j + 1 \in Nat
    OBVIOUS
  <2>2. ASSUME NEW p \in Within(notes, amount, j + 1), Consistent(cover, notes, amount, p)
        PROVE  Optimal(cover, notes, amount, p, f[p])
    <3>1. p \in Points(notes, amount)
      BY DEF Within
    <3>2. \A q \in Points(notes, amount) : q.start > p.start => q \in Within(notes, amount, j)
      BY <2>1, WithinFacts
    <3>3. OptimalAfter(f, cover, notes, amount, p)
      BY <2>1, <3>2 DEF OptimalAfter, OptimalWithin
    <3>4. Optimal(cover, notes, amount, p, Searched(f, cover, notes, p))
      BY <1>1, <2>2, <3>1, <3>3, SearchedOptimal
    <3>. QED BY <1>1, <3>1, <3>4
  <2>. QED BY <2>1, <2>2 DEF OptimalWithin
<1>4. S = Nat
  <2> HIDE DEF S
  <2>1. S \in SUBSET Nat
    BY DEF S
  <2>. QED BY <1>2, <1>3, <2>1, AllNumbers
<1>5. OptimalWithin(f, cover, notes, amount, Len(notes) + 1)
  <2>1. Len(notes) + 1 \in Nat
    OBVIOUS
  <2>. QED BY <1>4, <2>1
<1>. QED BY <1>5, WithinFacts DEF OptimalWithin

(* At the start nothing is chosen and everything is left. *)
LEMMA StartFacts ==
    ASSUME NEW N, Valued(N), NEW notes \in Seq(N), NEW amount \in Nat, NEW cover, NEW p,
           p = [start |-> 1, remaining |-> amount, chosen |-> <<>>, best |-> <<>>]
    PROVE  p \in Points(notes, amount) /\ Consistent(cover, notes, amount, p)
           /\ Total(p.chosen) = 0 /\ Len(p.chosen) = 0 /\ p.start = 1
<1>1. p \in Points(notes, amount)
  <2>1. 1 \in 1 .. Len(notes) + 1 /\ amount \in 0 .. amount
    OBVIOUS
  <2>2. <<>> \in Seq(Range(notes))
    OBVIOUS
  <2>. QED BY <2>1, <2>2 DEF Points
<1>2. Total(p.chosen) = 0 /\ Len(p.chosen) = 0 /\ p.start = 1 /\ p.remaining = amount
      /\ p.chosen = <<>> /\ p.best = <<>>
  <2>1. p.chosen = <<>> /\ p.start = 1 /\ p.remaining = amount /\ p.best = <<>>
    OBVIOUS
  <2>2. Total(p.chosen) = 0
    BY <1>1, <2>1, PointFacts
  <2>. QED BY <2>1, <2>2
<1>3. Picks(notes, p.chosen, {})
  <2>1. Worth(notes, {}) = 0 /\ Cardinality({}) = 0
    BY WorthFacts, FS_EmptySet
  <2>2. DOMAIN p.chosen = {}
    BY <1>2
  <2>3. PICK g : g = <<>>
    OBVIOUS
  <2>4. DrawsIn(g, p.chosen, notes, {})
    BY <2>2 DEF DrawsIn, Draws
  <2>. QED BY <1>2, <2>1, <2>4 DEF Picks
<1>4. Consistent(cover, notes, amount, p)
  <2>1. {} \in SUBSET (1 .. p.start - 1)
    OBVIOUS
  <2>. QED BY <1>2, <1>3, <2>1 DEF Consistent, Answer
<1>. QED BY <1>1, <1>2, <1>4

(* s makes the amount with notes, and none of the others that make it are better. *)
BestOf(cover, notes, amount, s) ==
    /\ Answer(cover, notes, amount, s)
    /\ \A T \in SUBSET DOMAIN notes :
         Makes(cover, amount, Worth(notes, T)) => AsGood(cover, s, Worth(notes, T), Cardinality(T))

(* SelectNotes is the best selection of the notes that make the amount. *)
LEMMA SelectionBest ==
    ASSUME NEW N, Valued(N), NEW notes \in Seq(N), Descending(notes),
           NEW amount \in Nat, amount > 0, NEW cover
    PROVE  BestOf(cover, notes, amount, SelectNotes(notes, amount, cover))
<1>1. PICK p : p = [start |-> 1, remaining |-> amount, chosen |-> <<>>, best |-> <<>>]
  OBVIOUS
<1>2. PICK f : /\ IsSearch(f, cover, notes, amount)
               /\ SelectNotes(notes, amount, cover) = f[p]
  BY <1>1, SearchExists, SearchIs
<1>3. /\ p \in Points(notes, amount) /\ Consistent(cover, notes, amount, p)
      /\ Total(p.chosen) = 0 /\ Len(p.chosen) = 0 /\ p.start = 1
  BY <1>1, StartFacts
<1>4. PICK s : s = f[p]
  OBVIOUS
<1>5. Optimal(cover, notes, amount, p, s)
  BY <1>2, <1>3, <1>4, SearchOptimal
<1>6. Answer(cover, notes, amount, s)
  BY <1>5 DEF Optimal
<1>7. ASSUME NEW T \in SUBSET DOMAIN notes, Makes(cover, amount, Worth(notes, T))
      PROVE  AsGood(cover, s, Worth(notes, T), Cardinality(T))
  <2>1. PICK x, t : x = Worth(notes, T) /\ t = Cardinality(T)
    OBVIOUS
  <2>2. x \in Nat /\ t \in Nat
    BY <2>1, WorthFacts
  <2>3. T \in SUBSET (p.start .. Len(notes))
    BY <1>3
  <2>4. Beats(cover, notes, amount, p, s, T)
    BY <1>5, <2>3 DEF Optimal
  <2>5. 0 + x = x /\ 0 + t = t
    BY <2>2
  <2>. QED BY <1>3, <1>7, <2>1, <2>4, <2>5 DEF Beats
<1>. QED BY <1>2, <1>4, <1>6, <1>7 DEF BestOf

(* The least of a set of numbers. *)
LEMMA MinIs ==
    ASSUME NEW S \in SUBSET Nat, NEW m \in S, \A n \in S : m <= n
    PROVE  Min(S) = m
<1>1. Min(S) \in S /\ \A n \in S : Min(S) <= n
  BY DEF Min
<1>2. Min(S) \in Nat /\ m \in Nat /\ Min(S) <= m /\ m <= Min(S)
  BY <1>1
<1>. QED BY <1>2

(* The sums of notes, in terms of their worth. *)
LEMMA SumsAre ==
    ASSUME NEW notes
    PROVE  Sums(notes) = {[sum |-> Worth(notes, C), count |-> Cardinality(C)] : C \in SUBSET DOMAIN notes}
BY Zenon DEF Sums, Worth

(* What is best of the exact choices has the fewest notes. *)
LEMMA BestIsFewest ==
    ASSUME NEW N, Valued(N), NEW notes \in Seq(N), NEW amount \in Nat,
           NEW s \in Seq(N), BestOf(FALSE, notes, amount, s)
    PROVE  FewestWithSum(amount, notes, s)
<1>1. PICK E : E = {x \in Sums(notes) : x.sum = amount}
  OBVIOUS
<1>2. ASSUME s = <<>> PROVE E = {}
  <2>1. ASSUME NEW C \in SUBSET DOMAIN notes PROVE Worth(notes, C) # amount
    BY <1>2 DEF BestOf, AsGood, Makes
  <2>. QED BY <1>1, <2>1, SumsAre
<1>3. ASSUME s # <<>>
      PROVE  E # {} /\ Total(s) = amount /\ Len(s) = Min({x.count : x \in E})
  <2>1. Total(s) = amount /\ \E C : Picks(notes, s, C)
    BY <1>3 DEF BestOf, Answer, Makes
  <2>2. PICK C : Picks(notes, s, C)
    BY <2>1
  <2>3. C \in SUBSET DOMAIN notes /\ Worth(notes, C) = amount /\ Cardinality(C) = Len(s)
    BY <2>1, <2>2 DEF Picks
  <2>4. PICK x : x = [sum |-> Worth(notes, C), count |-> Cardinality(C)]
    OBVIOUS
  <2>5. x \in E /\ x.count = Len(s)
    BY <1>1, <2>3, <2>4, SumsAre
  <2>6. ASSUME NEW y \in E PROVE y.count \in Nat /\ Len(s) <= y.count
    <3>1. PICK T \in SUBSET DOMAIN notes : y = [sum |-> Worth(notes, T), count |-> Cardinality(T)]
      BY <1>1, SumsAre
    <3>2. Worth(notes, T) = amount /\ y.count = Cardinality(T)
      BY <1>1, <3>1
    <3>3. AsGood(FALSE, s, Worth(notes, T), Cardinality(T))
      BY <3>2 DEF BestOf, Makes
    <3>. QED BY <3>2, <3>3, WorthFacts DEF AsGood, NoWorse
  <2>7. PICK S : S = {y.count : y \in E}
    OBVIOUS
  <2>8. S \in SUBSET Nat /\ Len(s) \in S /\ \A n \in S : Len(s) <= n
    BY <2>5, <2>6, <2>7
  <2>9. Min(S) = Len(s)
    BY <2>8, MinIs
  <2>. QED BY <2>1, <2>5, <2>7, <2>9
<1>. QED BY <1>1, <1>2, <1>3 DEF FewestWithSum

(* What is best of the covers is worth the least, with the fewest notes. *)
LEMMA BestIsLeastCover ==
    ASSUME NEW N, Valued(N), NEW notes \in Seq(N), NEW amount \in Nat,
           NEW s \in Seq(N), BestOf(TRUE, notes, amount, s)
    PROVE  LeastCover(amount, notes, s)
<1>1. PICK E : E = {x \in Sums(notes) : x.sum >= amount}
  OBVIOUS
<1>2. ASSUME s = <<>> PROVE E = {}
  <2>1. ASSUME NEW C \in SUBSET DOMAIN notes PROVE ~ (Worth(notes, C) >= amount)
    BY <1>2 DEF BestOf, AsGood, Makes
  <2>. QED BY <1>1, <2>1, SumsAre
<1>3. ASSUME s # <<>>
      PROVE  E # {} /\ Total(s) = Min({x.sum : x \in E})
             /\ Len(s) = Min({x.count : x \in {y \in E : y.sum = Total(s)}})
  <2>1. Total(s) >= amount /\ \E C : Picks(notes, s, C)
    BY <1>3 DEF BestOf, Answer, Makes
  <2>2. PICK C : Picks(notes, s, C)
    BY <2>1
  <2>3. C \in SUBSET DOMAIN notes /\ Worth(notes, C) = Total(s) /\ Cardinality(C) = Len(s)
    BY <2>2 DEF Picks
  <2>4. PICK x : x = [sum |-> Worth(notes, C), count |-> Cardinality(C)]
    OBVIOUS
  <2>5. x \in E /\ x.count = Len(s) /\ x.sum = Total(s)
    BY <1>1, <2>1, <2>3, <2>4, SumsAre
  <2>a. Total(s) \in Nat /\ Len(s) \in Nat
    BY TotalOfAll
  <2>6. ASSUME NEW y \in E
        PROVE  /\ y.sum \in Nat /\ y.count \in Nat /\ Total(s) <= y.sum
               /\ y.sum = Total(s) => Len(s) <= y.count
    <3>1. PICK T \in SUBSET DOMAIN notes : y = [sum |-> Worth(notes, T), count |-> Cardinality(T)]
      BY <1>1, SumsAre
    <3>2. Worth(notes, T) >= amount /\ y.count = Cardinality(T) /\ y.sum = Worth(notes, T)
      BY <1>1, <3>1
    <3>3. AsGood(TRUE, s, Worth(notes, T), Cardinality(T))
      BY <3>2 DEF BestOf, Makes
    <3>4. Worth(notes, T) \in Nat /\ Cardinality(T) \in Nat
      BY WorthFacts
    <3>. QED BY <2>a, <3>2, <3>3, <3>4 DEF AsGood, NoWorse
  <2>7. PICK A, B : A = {y.sum : y \in E} /\ B = {y.count : y \in {z \in E : z.sum = Total(s)}}
    OBVIOUS
  <2>8. A \in SUBSET Nat /\ Total(s) \in A /\ \A n \in A : Total(s) <= n
    BY <2>5, <2>6, <2>7
  <2>9. B \in SUBSET Nat /\ Len(s) \in B /\ \A n \in B : Len(s) <= n
    BY <2>5, <2>6, <2>7
  <2>10. Min(A) = Total(s) /\ Min(B) = Len(s)
    BY <2>8, <2>9, MinIs
  <2>. QED BY <2>5, <2>7, <2>10
<1>. QED BY <1>1, <1>2, <1>3 DEF LeastCover

(* What is best is drawn from the notes. *)
LEMMA SelectionAmong ==
    ASSUME NEW cover, NEW notes, NEW amount, NEW s, BestOf(cover, notes, amount, s)
    PROVE  Among(s, notes)
<1>1. CASE s = <<>>
  <2>1. DOMAIN s = {}
    BY <1>1
  <2>. QED BY <2>1, NoneDrawn, FirstIsAmong
<1>2. CASE s # <<>>
  BY <1>2 DEF BestOf, Answer, Picks, DrawsIn, Among
<1>. QED BY <1>1, <1>2

-----------------------------------------------------------------------------
(* What a command chooses is the best there is. *)

(* What is selected from the notes of an asset is the best of them. *)
LEMMA SelectedIs ==
    ASSUME NEW N, Valued(N), NEW notes \in Seq(N), NEW eth,
           NEW amount \in Nat, amount > 0, NEW cover, NEW s,
           s = SelectNotes(OfAsset(notes, eth), amount, cover)
    PROVE  /\ s \in Seq({x \in N : x.eth = eth}) /\ Among(s, notes)
           /\ BestOf(cover, OfAsset(notes, eth), amount, s)
<1>1. PICK K : K = {x \in N : x.eth = eth}
  OBVIOUS
<1>2. Valued(K)
  BY <1>1 DEF Valued
<1>3. PICK from : from = OfAsset(notes, eth)
  OBVIOUS
<1>4. from \in Seq(K) /\ Descending(from) /\ Among(from, notes)
  BY <1>1, <1>3, AssetFacts
<1>5. BestOf(cover, from, amount, s)
  BY <1>2, <1>3, <1>4, SelectionBest
<1>6. s \in Seq(Range(from))
  BY <1>2, <1>3, <1>4, SelectionIsDrawn
<1>7. Among(s, notes)
  BY <1>4, <1>5, SelectionAmong, AmongTrans
<1>8. s \in Seq(K)
  <2>1. Range(from) \subseteq K
    BY <1>4 DEF Range
  <2>. QED BY <1>6, <2>1, SeqOfSubset
<1>. QED BY <1>1, <1>3, <1>5, <1>7, <1>8

(* The same notes in another order are as few. *)
LEMMA FewestStays ==
    ASSUME NEW amount, NEW notes, NEW s, FewestWithSum(amount, notes, s), s # <<>>,
           NEW t, Total(t) = Total(s), Len(t) = Len(s)
    PROVE  FewestWithSum(amount, notes, t)
BY DEF FewestWithSum

(* The first of some indices is among them. *)
LEMMA FirstOf ==
    ASSUME NEW N, NEW ns \in Seq(N), NEW s \in SUBSET DOMAIN ns, s # {}
    PROVE  Min(s) \in s
<1>1. s \in SUBSET Nat /\ s # {}
  OBVIOUS
<1>2. PICK m \in s : \A i \in s : m <= i
  BY <1>1, LeastElement
<1>. QED BY <1>2 DEF Min

(* The notes of an exact selection. *)
LEMMA ExactIs ==
    ASSUME NEW N, Valued(N), NEW notes \in Seq(N), NEW eth,
           NEW amount \in Nat, amount > 0, NEW s, s = ExactNotes(amount, notes, eth)
    PROVE  /\ s \in Seq({x \in N : x.eth = eth}) /\ Among(s, notes)
           /\ FewestWithSum(amount, OfAsset(notes, eth), s)
<1>1. PICK cover : cover = FALSE
  OBVIOUS
<1>2. PICK from, K : from = OfAsset(notes, eth) /\ K = {x \in N : x.eth = eth}
  OBVIOUS
<1>3. s = SelectNotes(from, amount, cover)
  BY <1>1, <1>2, Zenon DEF ExactNotes
<1>4. /\ s \in Seq(K) /\ Among(s, notes)
      /\ BestOf(cover, from, amount, s)
  BY <1>2, <1>3, SelectedIs
<1>5. from \in Seq(K) /\ Valued(K)
  BY <1>2, AssetFacts DEF Valued
<1>6. BestOf(FALSE, from, amount, s)
  BY <1>1, <1>4
<1>7. FewestWithSum(amount, from, s)
  BY <1>4, <1>5, <1>6, BestIsFewest
<1>. QED BY <1>2, <1>4, <1>7

(* The notes of a selection that covers an amount. *)
LEMMA CoverIs ==
    ASSUME NEW N, Valued(N), NEW notes \in Seq(N),
           NEW amount \in Nat, amount > 0, NEW eth, NEW cover, NEW s,
           s = SelectNotes(OfAsset(notes, eth), amount, cover)
    PROVE  /\ s \in Seq({x \in N : x.eth = eth}) /\ Among(s, notes)
           /\ cover = TRUE => LeastCover(amount, OfAsset(notes, eth), s)
<1>1. PICK from, K : from = OfAsset(notes, eth) /\ K = {x \in N : x.eth = eth}
  OBVIOUS
<1>2. /\ s \in Seq(K) /\ Among(s, notes)
      /\ BestOf(cover, from, amount, s)
  BY <1>1, SelectedIs
<1>3. from \in Seq(K) /\ Valued(K)
  BY <1>1, AssetFacts DEF Valued
<1>4. ASSUME cover = TRUE PROVE LeastCover(amount, from, s)
  <2>1. BestOf(TRUE, from, amount, s)
    BY <1>2, <1>4
  <2>. QED BY <1>2, <1>3, <2>1, BestIsLeastCover
<1>. QED BY <1>1, <1>2, <1>4

Headed(x, selected) == <<x>> \o selected

(* A sponsor put before other notes. *)
LEMMA SponsorFirst ==
    ASSUME NEW N, NEW x \in N, NEW selected \in Seq(N), NEW ns, ns = Headed(x, selected)
    PROVE  /\ ns \in Seq(N) /\ ns # <<>> /\ ns[1] = x /\ Tail(ns) = selected
           /\ AddsOne(selected, ns, x)
<1>1. PICK k \in Nat : k = Len(selected) /\ DOMAIN selected = 1 .. k
  OBVIOUS
<1>2. <<x>> \in Seq(N) /\ Len(<<x>>) = 1 /\ <<x>>[1] = x
  OBVIOUS
<1>3. ns \in Seq(N) /\ Len(ns) = k + 1
  BY <1>1, <1>2, ConcatProperties DEF Headed
<1>4. \A i \in 1 .. Len(ns) : ns[i] = IF i <= 1 THEN <<x>>[i] ELSE selected[i - 1]
  BY <1>2, <1>3, ConcatProperties DEF Headed
<1>5. DOMAIN ns = 1 .. k + 1 /\ ns[1] = x
  <2>1. 1 \in 1 .. k + 1 /\ 1 <= 1
    BY <1>1
  <2>. QED BY <1>2, <1>3, <1>4, <2>1
<1>6. \A i \in 2 .. k + 1 : ns[i] = selected[i - 1] /\ i - 1 \in 1 .. k
  BY <1>1, <1>3, <1>4
<1>7. \A i \in 1 .. k : ns[i + 1] = selected[i] /\ i + 1 \in 1 .. k + 1
  <2>1. \A i \in 1 .. k : i + 1 \in 2 .. k + 1 /\ (i + 1) - 1 = i
    BY <1>1
  <2>2. ASSUME NEW i \in 1 .. k PROVE ns[i + 1] = selected[i]
    <3>1. PICK j \in 2 .. k + 1 : j = i + 1 /\ j - 1 = i
      BY <2>1
    <3>2. ns[j] = selected[j - 1]
      BY <1>6
    <3>. QED BY <3>1, <3>2
  <2>3. \A i \in 1 .. k : i + 1 \in 1 .. k + 1
    BY <1>1
  <2>. QED BY <2>2, <2>3
<1>8. ns # <<>>
  BY <1>1, <1>3
<1>9. Tail(ns) = selected
  <2>1. Tail(ns) \in Seq(N) /\ Len(Tail(ns)) = k
    BY <1>1, <1>3, <1>8, HeadTailProperties
  <2>2. \A i \in 1 .. k : Tail(ns)[i] = selected[i]
    BY <1>1, <1>3, <1>7, <1>8, <2>1, HeadTailProperties
  <2>. QED BY <1>1, <2>1, <2>2, SeqEqual
<1>10. PICK h : h = [i \in 1 .. k + 1 |-> i - 1]
  OBVIOUS
<1>11. \A i \in 1 .. k + 1 : \/ h[i] = 0 /\ ns[i] = x
                             \/ h[i] \in 1 .. k /\ ns[i] = selected[h[i]]
  BY <1>1, <1>5, <1>6, <1>10
<1>12. \A i, j \in 1 .. k + 1 : h[i] = h[j] => i = j
  BY <1>10
<1>13. AddsOne(selected, ns, x)
  BY <1>1, <1>5, <1>11, <1>12 DEF AddsOne, Adds
<1>. QED BY <1>3, <1>5, <1>8, <1>9, <1>13

(* The sponsor taken away again. *)
LEMMA TailOfHeaded ==
    ASSUME NEW N, NEW x \in N, NEW selected \in Seq(N)
    PROVE  Tail(Headed(x, selected)) = selected
<1>1. PICK ns : ns = Headed(x, selected)
  OBVIOUS
<1>. QED BY <1>1, SponsorFirst

Smallest(notes) ==
    {i \in Sponsors(notes) : \A j \in Sponsors(notes) : notes[i].value <= notes[j].value}

(* The notes an unshield works with, and the sponsor that comes first. *)
LEMMA WithdrawalIs ==
    ASSUME NEW N, Valued(N), \A x \in N : x.eth \in BOOLEAN, NEW notes \in Seq(N),
           NEW eth \in BOOLEAN, NEW amount \in Nat, amount > 0,
           NEW ns, ns = WithdrawalNotes(amount, notes, eth), ns # <<>>
    PROVE  /\ ns[1].eth /\ ns[1].paymaster /\ Drawn(ns, notes)
           /\ eth => FewestWithSum(amount, OfAsset(notes, eth), ns)
           /\ ~ eth => /\ FewestWithSum(amount, OfAsset(notes, eth), Tail(ns))
                       /\ \A n \in Range(notes) :
                            n.eth /\ n.paymaster => ns[1].value <= n.value
<1>1. PICK K : K = {x \in N : x.eth = eth}
  OBVIOUS
<1>2. PICK from : from = OfAsset(notes, eth)
  OBVIOUS
<1>3. PICK selected : selected = ExactNotes(amount, notes, eth)
  OBVIOUS
<1>4. /\ selected \in Seq(K) /\ Among(selected, notes)
      /\ FewestWithSum(amount, from, selected)
  BY <1>1, <1>2, <1>3, ExactIs, SMTT(30)
<1>5. PICK smallest : smallest = Smallest(notes)
  OBVIOUS
<1>6. ns = CASE selected = <<>> -> <<>>
             [] selected # <<>> /\ eth ->
                  IF Sponsors(selected) = {} THEN <<>>
                  ELSE Swapped(selected, Min(Sponsors(selected)))
             [] OTHER ->
                  IF smallest = {} THEN <<>> ELSE <<notes[Min(smallest)]>> \o selected
  BY <1>3, <1>5 DEF WithdrawalNotes, Smallest
<1>7. selected # <<>> /\ selected \in Seq(N)
  BY <1>1, <1>4, <1>6, SeqOfSubset
<1>8. CASE eth
  <2>1. Sponsors(selected) # {} /\ Sponsors(selected) \in SUBSET DOMAIN selected
    BY <1>6, <1>7, <1>8 DEF Sponsors
  <2>2. PICK i : i = Min(Sponsors(selected))
    OBVIOUS
  <2>3. i \in DOMAIN selected /\ selected[i].eth /\ selected[i].paymaster
    <3>1. i \in Sponsors(selected)
      BY <1>7, <2>1, <2>2, FirstOf
    <3>. QED BY <3>1 DEF Sponsors
  <2>4. ns = Swapped(selected, i)
    BY <1>6, <1>7, <1>8, <2>1, <2>2
  <2>5. /\ Total(ns) = Total(selected) /\ Len(ns) = Len(selected)
        /\ Among(ns, selected) /\ ns \in Seq(N)
    BY <1>7, <2>3, <2>4, TotalSwapped, SwappedIsSequence
  <2>6. ns[1] = selected[i]
    <3>1. 1 \in DOMAIN selected
      BY <1>7
    <3>. QED BY <2>4, <3>1 DEF Swapped
  <2>7. Drawn(ns, notes)
    <3>1. Among(ns, notes)
      BY <1>4, <2>5, AmongTrans
    <3>. QED BY <2>5, <3>1, AmongDrawn
  <2>8. FewestWithSum(amount, from, ns)
    BY <1>4, <1>7, <2>5, FewestStays
  <2>. QED BY <1>2, <1>8, <2>3, <2>6, <2>7, <2>8
<1>9. CASE ~ eth
  <2>1. smallest # {} /\ smallest \in SUBSET DOMAIN notes
    BY <1>5, <1>6, <1>7, <1>9 DEF Sponsors, Smallest
  <2>2. PICK i : i = Min(smallest)
    OBVIOUS
  <2>3. i \in smallest
    BY <2>1, <2>2, FirstOf
  <2>4. /\ i \in DOMAIN notes /\ notes[i].eth /\ notes[i].paymaster
        /\ \A j \in Sponsors(notes) : notes[i].value <= notes[j].value
    BY <1>5, <2>3 DEF Sponsors, Smallest
  <2>5. PICK x \in N : x = notes[i]
    BY <2>4
  <2>6. ns = <<x>> \o selected
    BY <1>6, <1>7, <1>9, <2>1, <2>2, <2>5
  <2>7. /\ ns \in Seq(N) /\ ns[1] = x /\ Tail(ns) = selected /\ AddsOne(selected, ns, x)
    <3>1. PICK s \in Seq(N) : s = selected
      BY <1>7
    <3>2. PICK m : m = Headed(x, s)
      OBVIOUS
    <3>3. m \in Seq(N) /\ m[1] = x /\ AddsOne(s, m, x)
      BY <3>2, SponsorFirst
    <3>4. Tail(m) = s
      BY <3>2, TailOfHeaded
    <3>5. ns = m
      BY <2>6, <3>1, <3>2 DEF Headed
    <3>. QED BY <3>1, <3>3, <3>4, <3>5
  <2>8. PICK g : Draws(g, selected, notes)
    BY <1>4 DEF Among
  <2>9. Drawn(ns, notes)
    <3>1. \A k \in DOMAIN selected : ~ selected[k].eth
      BY <1>1, <1>4, <1>9
    <3>2. \A k \in DOMAIN selected : g[k] # i
      BY <2>4, <2>8, <3>1 DEF Draws
    <3>3. 0 \notin DOMAIN selected
      BY <1>7
    <3>4. i \in DOMAIN notes /\ x = notes[i] /\ AddsOne(selected, ns, x)
      BY <2>4, <2>5, <2>7
    <3>5. Among(ns, notes)
      <4>1. \E f : /\ Draws(f, ns, notes)
                   /\ \A k \in DOMAIN ns : f[k] = i \/ \E j \in DOMAIN selected : f[k] = g[j]
        BY <2>8, <3>2, <3>3, <3>4, DrawsMore
      <4>. QED BY <4>1 DEF Among
    <3>. QED BY <2>7, <3>5, AmongDrawn
  <2>10. ASSUME NEW n \in Range(notes), n.eth, n.paymaster PROVE x.value <= n.value
    <3>1. PICK j \in DOMAIN notes : n = notes[j]
      BY DEF Range
    <3>2. j \in Sponsors(notes)
      BY <2>10, <3>1 DEF Sponsors
    <3>. QED BY <2>4, <2>5, <3>1, <3>2
  <2>. QED BY <1>2, <1>4, <1>9, <2>4, <2>5, <2>7, <2>9, <2>10
<1>. QED BY <1>8, <1>9

(* The notes of an asset are those held that are of it. *)
LEMMA AssetHeld ==
    ASSUME NEW N, Valued(N), NEW notes \in Seq(N), NEW eth
    PROVE  \A n \in Range(OfAsset(notes, eth)) : n \in Range(notes) /\ n.eth = eth
<1>1. PICK K, all : K = {x \in N : x.eth = eth} /\ all = OfAsset(notes, eth)
  OBVIOUS
<1>2. all \in Seq(K) /\ Range(all) \subseteq Range(notes)
  BY <1>1, AssetFacts, AmongRange
<1>. QED BY <1>1, <1>2 DEF Range

-----------------------------------------------------------------------------
(* It stays so until the command selects again. *)

(* The notes ns that a request works with are the best of those held. *)
LeastChoice(r, goal, held, ns) ==
    /\ ns[1].eth /\ ns[1].paymaster /\ Drawn(ns, held)
    /\ r.kind = "transfer" => LeastCover(goal, OfAsset(held, r.eth), ns)
    /\ r.kind # "transfer" /\ r.eth => FewestWithSum(goal, OfAsset(held, r.eth), ns)
    /\ r.kind # "transfer" /\ ~ r.eth =>
         /\ FewestWithSum(goal, OfAsset(held, r.eth), Tail(ns))
         /\ \A n \in Range(held) : n.eth /\ n.paymaster => ns[1].value <= n.value

(* The notes a transfer chooses cover its goal at the least excess. *)
LEMMA CoverIsLeast ==
    ASSUME NEW w \in Wallets, NEW r \in Requests[w], r.eth, r.kind = "transfer",
           NEW held \in Seq(Range(w)), NEW goal \in Nat, goal > 0,
           Sponsored(Chosen(r, goal, held))
    PROVE  LeastChoice(r, goal, held, Chosen(r, goal, held))
<1>1. PICK ns : ns = Chosen(r, goal, held)
  OBVIOUS
<1>2. ns # <<>> /\ ns[1].paymaster
  BY <1>1 DEF Sponsored
<1>3. PICK eth, cover : eth = TRUE /\ cover = TRUE
  OBVIOUS
<1>4. PICK from : from = OfAsset(held, eth)
  OBVIOUS
<1>5. ns = SelectNotes(from, goal, cover)
  <2>1. ns = CoverNotes(goal, held)
    BY <1>1 DEF Chosen
  <2>. QED BY <1>3, <1>4, <2>1, Zenon DEF CoverNotes
<1>6. PICK N : N = Range(w)
  OBVIOUS
<1>7. Valued(N) /\ held \in Seq(N)
  BY <1>6, WalletFacts
<1>8. /\ Among(ns, held)
      /\ cover = TRUE => LeastCover(goal, from, ns)
  BY <1>4, <1>5, <1>7, CoverIs
<1>9. r.eth = eth
  <2>1. r.eth \in BOOLEAN
    BY WalletFacts
  <2>. QED BY <1>3, <2>1, Zenon
<1>10. LeastCover(goal, OfAsset(held, r.eth), ns)
  BY <1>3, <1>4, <1>8, <1>9, Zenon
<1>11. ns[1].eth
  <2>1. Suits(r.eth, ns)
    BY <1>1, ChosenSuits
  <2>2. 1 \in DOMAIN ns
    <3>1. ns \in Seq(Range(w))
      BY <1>1, ChosenSuits
    <3>. QED BY <1>2, <3>1
  <2>. QED BY <2>1, <2>2 DEF Suits
<1>12. Drawn(ns, held)
  <2>1. ns \in Seq(N)
    BY <1>1, <1>6, ChosenSuits
  <2>. QED BY <1>7, <1>8, <2>1, AmongDrawn
<1>. QED BY <1>1, <1>2, <1>10, <1>11, <1>12 DEF LeastChoice

(* The notes an unshield chooses make its goal, and are the fewest. *)
LEMMA ExactIsLeast ==
    ASSUME NEW w \in Wallets, NEW r \in Requests[w], r.kind # "transfer",
           NEW held \in Seq(Range(w)), NEW goal \in Nat, goal > 0,
           Sponsored(Chosen(r, goal, held))
    PROVE  LeastChoice(r, goal, held, Chosen(r, goal, held))
<1>1. PICK ns : ns = Chosen(r, goal, held)
  OBVIOUS
<1>2. PICK eth \in BOOLEAN : eth = r.eth
  BY WalletFacts
<1>3. ns = WithdrawalNotes(goal, held, eth) /\ ns # <<>>
  BY <1>1, <1>2 DEF Sponsored, Chosen
<1>4. PICK N : N = Range(w)
  OBVIOUS
<1>5. Valued(N) /\ held \in Seq(N) /\ \A x \in N : x.eth \in BOOLEAN
  BY <1>4, WalletFacts
<1>6. /\ ns[1].eth /\ ns[1].paymaster /\ Drawn(ns, held)
      /\ eth => FewestWithSum(goal, OfAsset(held, eth), ns)
      /\ ~ eth => /\ FewestWithSum(goal, OfAsset(held, eth), Tail(ns))
                  /\ \A n \in Range(held) : n.eth /\ n.paymaster => ns[1].value <= n.value
  BY <1>3, <1>5, WithdrawalIs
<1>. QED BY <1>1, <1>2, <1>6 DEF LeastChoice

(* What a command knows of its notes. *)
SelectionOK(c) ==
    /\ c.goal > 0 /\ c.request.kind \in {"transfer", "unshield"}
    /\ LeastChoice(c.request, c.goal, c.held, c.notes)
SelectionInv == cmd # Idle => SelectionOK(cmd)

(* A step that leaves the request, the goal and the notes alone. *)
LEMMA SelectionStays ==
    ASSUME NEW c, SelectionOK(c), NEW d, d.request = c.request, d.held = c.held,
           d.goal = c.goal, d.notes = c.notes
    PROVE  SelectionOK(d)
BY DEF SelectionOK

(* A command begins with the best notes there are for its amount. *)
LEMMA BeginSelects ==
    ASSUME WithdrawalInv, NEW r \in Requests[wallet], Begin(r)
    PROVE  SelectionInv'
<1>1. PICK w \in Wallets : w = wallet
  BY DEF WithdrawalInv
<1>2. PICK held, ns : held = Held /\ ns = Chosen(r, r.amount, held)
  OBVIOUS
<1>3. cmd' = IF Sponsored(ns) THEN Withdrawal(r, ns) ELSE Idle
  BY <1>2 DEF Begin
<1>4. CASE Sponsored(ns)
  <2>1. w \in Seq(Range(w))
    BY WithdrawalsAssumption
  <2>2. held \in Seq(Range(w) \ spent)
    BY <1>1, <1>2, <2>1, KeptFacts DEF Held
  <2>3. held \in Seq(Range(w))
    BY <2>2, SeqOfSubset
  <2>4. r \in Requests[w] /\ r.amount \in Nat /\ r.kind \in {"transfer", "unshield"}
    BY <1>1, WithdrawalsAssumption
  <2>5. r.amount > 0 /\ (r.kind = "transfer" => r.eth)
    BY DEF Begin, Legal, LegalTransfer, LegalUnshield
  <2>6. PICK goal \in Nat : goal = r.amount /\ goal > 0
    BY <2>4, <2>5
  <2>7. LeastChoice(r, goal, held, ns)
    <3>1. Sponsored(Chosen(r, goal, held)) /\ ns = Chosen(r, goal, held)
      BY <1>2, <1>4, <2>6
    <3>. QED BY <2>3, <2>4, <2>5, <2>6, <3>1, CoverIsLeast, ExactIsLeast
  <2>8. PICK d : d = Withdrawal(r, ns)
    OBVIOUS
  <2>9. d.held = held /\ d.goal = goal /\ d.request = r /\ d.notes = ns
    BY <1>2, <2>6, <2>8 DEF Withdrawal
  <2>10. SelectionOK(d)
    BY <2>4, <2>6, <2>7, <2>9 DEF SelectionOK
  <2>. QED BY <1>3, <1>4, <2>8, <2>10 DEF SelectionInv
<1>5. CASE ~ Sponsored(ns)
  BY <1>3, <1>5 DEF SelectionInv
<1>. QED BY <1>4, <1>5

(* A transfer that learns its fee selects the best there are for both. *)
LEMMA ReselectSelects ==
    ASSUME WithdrawalInv, SelectionInv, NEW gas \in Estimates, Reselect(gas)
    PROVE  SelectionInv'
<1>1. PICK w, c : w = wallet /\ c = cmd /\ w \in Wallets /\ c \in CommandsOn(w) /\ CommandOK(w, c, mempools)
  <2>1. At("quote")
    BY DEF Reselect, Quoting
  <2>. QED BY <2>1, Running
<1>2. SelectionOK(c)
  BY <1>1 DEF SelectionInv, CommandsOn, Steps, Idle
<1>3. PICK fee \in Nat : fee = Cost(gas) /\ fee >= 2
  BY EstimateFacts
<1>4. PICK goal : goal = c.request.amount + fee
  OBVIOUS
<1>5. PICK again : again = CoverNotes(goal, c.held)
  OBVIOUS
<1>6. \/ cmd' = Idle
      \/ /\ c.request.kind = "transfer" /\ Sponsored(again)
         /\ cmd' = [c EXCEPT !.notes = again, !.goal = goal, !.attempt = @ + 1, !.pass = 1]
  BY <1>1, <1>3, <1>4, <1>5 DEF Reselect
<1>7. CASE c.request.kind = "transfer" /\ Sponsored(again)
           /\ cmd' = [c EXCEPT !.notes = again, !.goal = goal, !.attempt = @ + 1, !.pass = 1]
  <2>1. PICK r, held : r = c.request /\ held = c.held
    OBVIOUS
  <2>2. r \in Requests[w] /\ held \in Seq(Range(w))
    BY <1>1, <2>1 DEF CommandsOn
  <2>3. r.eth /\ r.kind = "transfer"
    BY <1>1, <1>2, <1>7, <2>1 DEF CommandOK, SelectionOK
  <2>4. goal \in Nat /\ goal > 0
    <3>1. r.amount \in Nat
      BY <1>1, <2>2, WalletFacts
    <3>. QED BY <1>3, <1>4, <2>1, <3>1
  <2>5. again = Chosen(r, goal, held)
    BY <1>5, <2>1, <2>3 DEF Chosen
  <2>6. LeastChoice(r, goal, held, again)
    BY <1>1, <1>7, <2>2, <2>3, <2>4, <2>5, CoverIsLeast
  <2>7. PICK d : d = cmd'
    OBVIOUS
  <2>8. d.request = r /\ d.held = held /\ d.goal = goal /\ d.notes = again
    BY <1>1, <1>7, <2>1, <2>7 DEF CommandsOn
  <2>9. SelectionOK(d)
    BY <1>2, <2>1, <2>3, <2>4, <2>6, <2>8 DEF SelectionOK
  <2>. QED BY <2>7, <2>9 DEF SelectionInv
<1>. QED BY <1>6, <1>7 DEF SelectionInv

(* The other steps of a command leave its notes alone. *)
LEMMA NotesStay ==
    ASSUME WithdrawalInv, NEW gas, NEW proven,
           Confirm \/ Settle(gas) \/ Requote(gas) \/ Prove(proven) \/ Send
    PROVE  \/ cmd' = Idle
           \/ /\ cmd # Idle
              /\ cmd'.request = cmd.request /\ cmd'.held = cmd.held
              /\ cmd'.goal = cmd.goal /\ cmd'.notes = cmd.notes
<1>1. PICK c : c = cmd
  OBVIOUS
<1>2. PICK step \in Steps : At(step)
  BY DEF Confirm, Settle, Requote, Prove, Send, Quoting, Steps
<1>3. c \in CommandsOn(wallet)
  BY <1>1, <1>2, Running DEF Steps
<1>4. c # Idle
  BY <1>1, <1>2 DEF At, Idle, Steps
<1>5. CASE Confirm
  BY <1>1, <1>3, <1>4, <1>5 DEF Confirm, CommandsOn
<1>6. CASE Settle(gas)
  BY <1>1, <1>3, <1>4, <1>6 DEF Settle, CommandsOn
<1>7. CASE Requote(gas)
  BY <1>1, <1>3, <1>4, <1>7 DEF Requote, CommandsOn
<1>8. CASE Prove(proven)
  BY <1>1, <1>3, <1>4, <1>8 DEF Prove, CommandsOn
<1>9. CASE Send
  <2>1. \/ cmd' = Idle \/ cmd' = [c EXCEPT !.accepted = c.pass, !.at = "wait"]
        \/ cmd' = [c EXCEPT !.pass = @ + 1]
    BY <1>1, <1>9 DEF Send, Record, NextBundler
  <2>. QED BY <1>1, <1>3, <1>4, <2>1 DEF CommandsOn
<1>. QED BY <1>5, <1>6, <1>7, <1>8, <1>9

(* Every step keeps the notes the best there are. *)
LEMMA StepSelects ==
    ASSUME WithdrawalInv, SelectionInv, [Next]_vars
    PROVE  SelectionInv'
<1>1. ASSUME cmd' = Idle \/ cmd' = cmd PROVE SelectionInv'
  BY <1>1 DEF SelectionInv
<1>2. ASSUME NEW gas, NEW proven,
             Confirm \/ Settle(gas) \/ Requote(gas) \/ Prove(proven) \/ Send
      PROVE  SelectionInv'
  <2>1. CASE cmd' = Idle
    BY <1>1, <2>1
  <2>2. CASE cmd' # Idle
    <3>1. /\ cmd # Idle /\ cmd'.request = cmd.request /\ cmd'.held = cmd.held
          /\ cmd'.goal = cmd.goal /\ cmd'.notes = cmd.notes
      BY <1>2, <2>2, NotesStay
    <3>2. PICK c, d : c = cmd /\ d = cmd'
      OBVIOUS
    <3>3. SelectionOK(c)
      BY <3>1, <3>2 DEF SelectionInv
    <3>4. SelectionOK(d)
      BY <3>1, <3>2, <3>3, SelectionStays
    <3>. QED BY <3>2, <3>4 DEF SelectionInv
  <2>. QED BY <2>1, <2>2
<1>3. ASSUME NEW r \in Requests[wallet], Begin(r) PROVE SelectionInv'
  BY <1>3, BeginSelects
<1>4. CASE Stop \/ Wait
  BY <1>1, <1>4 DEF Stop, Wait
<1>5. CASE Quote
  <2>1. PICK gas \in Estimates : Reselect(gas) \/ Settle(gas) \/ Requote(gas)
    BY <1>5 DEF Quote
  <2>. QED BY <1>2, <2>1, ReselectSelects
<1>6. CASE Confirm \/ Send
  BY <1>2, <1>6
<1>7. ASSUME NEW proven \in Gas, Prove(proven) PROVE SelectionInv'
  BY <1>2, <1>7
<1>8. ASSUME NEW b \in 1 .. Bundlers, NEW c \in 1 .. Bundlers, Gossip(b, c) PROVE SelectionInv'
  BY <1>1, <1>8 DEF Gossip
<1>9. ASSUME NEW op \in UNION Range(mempools), Include(op) PROVE SelectionInv'
  BY <1>1, <1>9 DEF Include
<1>10. CASE UNCHANGED vars
  BY <1>1, <1>10 DEF vars
<1>. QED BY <1>3, <1>4, <1>5, <1>6, <1>7, <1>8, <1>9, <1>10 DEF Next

(* SelectionLeast is what SelectionInv says of the command that runs. *)
LEMMA ChoiceIsLeast ==
    ASSUME WithdrawalInv, SelectionInv, cmd # Idle,
           NEW r, r = cmd.request, NEW ns, ns = cmd.notes
    PROVE  /\ ns[1].eth /\ ns[1].paymaster /\ Drawn(ns, cmd.held)
           /\ r.kind = "transfer" => LeastCover(cmd.goal, OfAsset(cmd.held, r.eth), ns)
           /\ r.kind = "unshield" /\ r.eth => FewestWithSum(cmd.goal, OfAsset(cmd.held, r.eth), ns)
           /\ r.kind # "transfer" /\ ~ (r.kind = "unshield" /\ r.eth) =>
                /\ FewestWithSum(cmd.goal, OfAsset(cmd.held, r.eth), Tail(ns))
                /\ \A n \in Range(OfAsset(cmd.held, TRUE)) : n.paymaster => ns[1].value <= n.value
<1>1. PICK w, held : w = wallet /\ held = cmd.held
  OBVIOUS
<1>2. w \in Wallets /\ held \in Seq(Range(w))
  BY <1>1 DEF WithdrawalInv, CommandOK, CommandsOn
<1>3. LeastChoice(r, cmd.goal, held, ns) /\ r.kind \in {"transfer", "unshield"}
  BY <1>1 DEF SelectionInv, SelectionOK
<1>4. PICK eth : eth = TRUE
  OBVIOUS
<1>5. \A n \in Range(OfAsset(held, eth)) : n \in Range(held) /\ n.eth = eth
  <2>1. Valued(Range(w))
    BY <1>2, WalletFacts
  <2>. QED BY <1>2, <2>1, AssetHeld
<1>6. \A n \in Range(OfAsset(held, TRUE)) : n \in Range(held) /\ n.eth
  BY <1>4, <1>5, Zenon
<1>7. ASSUME r.kind # "transfer", ~ (r.kind = "unshield" /\ r.eth)
      PROVE  /\ FewestWithSum(cmd.goal, OfAsset(held, r.eth), Tail(ns))
             /\ \A n \in Range(OfAsset(held, TRUE)) : n.paymaster => ns[1].value <= n.value
  <2>1. ~ r.eth
    BY <1>3, <1>7
  <2>. QED BY <1>3, <1>6, <1>7, <2>1, Zenon DEF LeastChoice
<1>8. /\ ns[1].eth /\ ns[1].paymaster /\ Drawn(ns, held)
      /\ r.kind = "transfer" => LeastCover(cmd.goal, OfAsset(held, r.eth), ns)
      /\ r.kind = "unshield" /\ r.eth => FewestWithSum(cmd.goal, OfAsset(held, r.eth), ns)
  BY <1>3 DEF LeastChoice
<1>. QED BY <1>1, <1>7, <1>8, Zenon

(* A command works with the best notes there are: the pruned search over   *)
(* denominations finds the fewest notes that make an unshield, and those   *)
(* that cover a transfer and its fee at the least excess                   *)
(* (vault/tornadocash/amount.rs).                                          *)
THEOREM SelectionIsLeast == Spec => []SelectionLeast
<1>1. Init => SelectionInv
  BY DEF Init, SelectionInv
<1>2. WithdrawalInv /\ SelectionInv /\ [Next]_vars => SelectionInv'
  BY StepSelects
<1>3. WithdrawalInv /\ SelectionInv => SelectionLeast
  BY ChoiceIsLeast, Zenon DEF SelectionLeast
<1>. QED BY <1>1, <1>2, <1>3, WithdrawalInvariant, PTL DEF Spec
=============================================================================
