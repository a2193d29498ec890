------------------------ MODULE WithdrawalTreeProofs ------------------------
(***************************************************************************)
(* Theorems about the syncers and the cached trees: for every number of    *)
(* callers and every bound, a snapshot is exactly the events of its range, *)
(* a cached tree is the pool's own as of some cursor, and a proof is taken *)
(* from a tree that covers what was committed when its call began.         *)
(***************************************************************************)
EXTENDS WithdrawalTree, SequenceTheorems, WellFoundedInduction, TLAPS

-----------------------------------------------------------------------------
(* Sets of natural numbers have least elements, and one that is closed      *)
(* under successors holds every number from its first one on.               *)
OrderOn(S) == OpToRel(<, S)

LEMMA OrderPairs == \A x, y \in Nat : <<x, y>> \in OrderOn(Nat) <=> x < y
BY Zenon DEF OrderOn, OpToRel

LEMMA OrderWellFounded == IsWellFoundedOn(OrderOn(Nat), Nat)
BY NatLessThanWellFounded, Zenon DEF OrderOn

LEMMA LeastElement ==
    ASSUME NEW S \in SUBSET Nat, S # {}
    PROVE  \E m \in S : \A n \in S : m <= n
<1>1. PICK m \in S : \A n \in S : <<n, m>> \notin OrderOn(Nat)
  BY OrderWellFounded, WFMin
<1>2. \A n \in S : ~ (n < m)
  BY <1>1, OrderPairs
<1>. QED BY <1>2

LEMMA UpwardClosed ==
    ASSUME NEW a \in Nat, NEW S \in SUBSET Nat, a \in S,
           \A n \in S : n >= a => n + 1 \in S
    PROVE  \A n \in Nat : n >= a => n \in S
<1> DEFINE T == {n \in Nat : n >= a /\ n \notin S}
<1>1. SUFFICES ASSUME T # {} PROVE FALSE
  OBVIOUS
<1>2. PICK m \in T : \A n \in T : m <= n
  BY <1>1, LeastElement
<1>3. m - 1 \in Nat /\ m - 1 >= a /\ m - 1 \notin T
  BY <1>2
<1>. QED BY <1>2, <1>3

-----------------------------------------------------------------------------
(* Concatenation.  FlattenSeq is a recursive function: that there is one,  *)
(* and that two of them agree, is induction over a set of indices.         *)

(* f joins the first n members of s, one after the other. *)
Joins(f, s, n) == f = [i \in 1..n |-> IF i = 1 THEN s[i] ELSE f[i-1] \o s[i]]

LEMMA JoinsExist ==
  ASSUME NEW s, NEW n \in Nat, n >= 1
  PROVE  \E f : Joins(f, s, n)
  <1> DEFINE S == {k \in Nat : \E f : Joins(f, s, k)}
  <1>1. 1 \in S
    <2> DEFINE f == [i \in 1..1 |-> s[i]]
    <2>1. Joins(f, s, 1)
      BY DEF Joins
    <2>2. QED
      BY <2>1
  <1>2. ASSUME NEW k \in S, k >= 1 PROVE k + 1 \in S
    <2>1. PICK f : Joins(f, s, k)
      OBVIOUS
    <2> DEFINE g == [i \in 1..(k + 1) |-> IF i = k + 1 THEN f[k] \o s[k + 1] ELSE f[i]]
    <2>2. ASSUME NEW i \in 1..(k + 1)
          PROVE  g[i] = IF i = 1 THEN s[i] ELSE g[i-1] \o s[i]
      <3>1. CASE i = k + 1
        <4>1. i # 1 /\ i - 1 = k /\ k # k + 1 /\ k \in 1..(k + 1)
          BY <1>2, <3>1
        <4>2. g[k] = f[k] /\ g[i] = f[k] \o s[i]
          BY <3>1, <4>1
        <4>3. QED
          BY <4>1, <4>2
      <3>2. CASE i # k + 1 /\ i = 1
        BY <1>2, <2>1, <3>2 DEF Joins
      <3>3. CASE i # k + 1 /\ i # 1
        <4>1. i \in 1..k /\ i - 1 \in 1..k /\ i - 1 # k + 1 /\ i - 1 \in 1..(k + 1) /\ i \in 1..(k + 1)
          BY <1>2, <3>3
        <4>2. g[i] = f[i] /\ g[i - 1] = f[i - 1]
          BY <3>3, <4>1
        <4>3. f[i] = f[i - 1] \o s[i]
          BY <2>1, <3>3, <4>1 DEF Joins
        <4>4. QED
          BY <3>3, <4>2, <4>3
      <3>4. QED
        BY <3>1, <3>2, <3>3
    <2>3. g = [i \in 1..(k + 1) |-> IF i = 1 THEN s[i] ELSE g[i-1] \o s[i]]
      BY <2>2
    <2>4. Joins(g, s, k + 1)
      <3> HIDE DEF g
      <3> QED BY <2>3 DEF Joins
    <2>5. QED
      BY <2>4
  <1>3. \A k \in Nat : k >= 1 => k \in S
    <2> HIDE DEF S
    <2>1. S \in SUBSET Nat
      BY DEF S
    <2>2. QED
      BY <1>1, <1>2, <2>1, UpwardClosed
  <1>4. QED
    BY <1>3

Alike(s, t, n) == \A i \in 1..n : s[i] = t[i]

LEMMA JoinsAgree ==
  ASSUME NEW s, NEW t, NEW n \in Nat, NEW m \in Nat, 1 <= n, n <= m,
         Alike(s, t, n),
         NEW f, Joins(f, s, n), NEW g, Joins(g, t, m)
  PROVE  f[n] = g[n]
  <1> DEFINE S == {k \in Nat : k <= n => f[k] = g[k]}
  <1>1. 1 \in S
    BY DEF Joins, Alike
  <1>2. ASSUME NEW k \in S, k >= 1 PROVE k + 1 \in S
    <2>1. CASE k + 1 <= n
      <3>1. k + 1 \in 1..n /\ k + 1 \in 1..m /\ k + 1 # 1 /\ (k + 1) - 1 = k
        BY <1>2, <2>1
      <3>2. f[k + 1] = f[k] \o s[k + 1] /\ g[k + 1] = g[k] \o t[k + 1]
        BY <3>1 DEF Joins
      <3>3. f[k] = g[k]
        BY <1>2, <2>1
      <3>4. f[k + 1] = g[k + 1] /\ k \in Nat
        BY <3>1, <3>2, <3>3 DEF Alike
      <3>5. QED
        BY <3>4
    <2>2. QED
      BY <1>2, <2>1
  <1>3. \A k \in Nat : k >= 1 => k \in S
    <2> HIDE DEF S
    <2>1. S \in SUBSET Nat
      BY DEF S
    <2>2. QED
      BY <1>1, <1>2, <2>1, UpwardClosed
  <1>4. QED
    BY <1>3

(* FlattenSeq, one more member at a time. *)
LEMMA FlattenEmpty == FlattenSeq(<< >>) = << >>
  BY DEF FlattenSeq

LEMMA FlattenJoins ==
  ASSUME NEW s, Len(s) \in Nat, Len(s) >= 1, NEW f, Joins(f, s, Len(s))
  PROVE  FlattenSeq(s) = f[Len(s)]
  <1>1. FlattenSeq(s) = (CHOOSE g : Joins(g, s, Len(s)))[Len(s)]
    BY DEF FlattenSeq, Joins
  <1>2. PICK g : Joins(g, s, Len(s)) /\ FlattenSeq(s) = g[Len(s)]
    BY <1>1
  <1>3. QED
    BY <1>2, JoinsAgree DEF Alike

LEMMA FlattenAppend ==
  ASSUME NEW S, NEW s \in Seq(Seq(S)), NEW x \in Seq(S)
  PROVE  FlattenSeq(Append(s, x)) = FlattenSeq(s) \o x
  <1>1. PICK n \in Nat : n = Len(s)
    OBVIOUS
  <1>2. PICK t : t = Append(s, x)
    OBVIOUS
  <1>3. Len(t) = n + 1 /\ t[n + 1] = x /\ Alike(s, t, n)
    BY <1>1, <1>2 DEF Alike
  <1>4. PICK g : Joins(g, t, n + 1)
    <2>1. n + 1 \in Nat /\ n + 1 >= 1
      OBVIOUS
    <2>2. QED
      BY <2>1, JoinsExist
  <1>5. FlattenSeq(t) = g[n + 1]
    BY <1>3, <1>4, FlattenJoins
  <1>6. CASE n = 0
    <2>1. s = << >>
      BY <1>1, <1>6, EmptySeq
    <2>2. 1 \in 1..(n + 1) /\ n + 1 = 1
      BY <1>6
    <2>3. g[1] = x
      BY <1>3, <1>4, <2>2 DEF Joins
    <2>4. QED
      BY <1>2, <1>5, <2>1, <2>2, <2>3, FlattenEmpty
  <1>7. CASE n # 0
    <2>0. 1 <= n /\ n >= 1 /\ n <= n + 1 /\ n + 1 \in Nat
      BY <1>7
    <2>1. PICK f : Joins(f, s, n)
      BY <2>0, JoinsExist
    <2>2. FlattenSeq(s) = f[n]
      BY <1>1, <2>0, <2>1, FlattenJoins
    <2>3. f[n] = g[n]
      <3>1. \A m \in Nat : n <= m /\ Joins(g, t, m) => f[n] = g[n]
        BY <1>3, <2>0, <2>1, JoinsAgree
      <3>2. QED
        BY <1>4, <2>0, <3>1
    <2>4. g[n + 1] = g[n] \o t[n + 1]
      <3>1. n + 1 \in 1..(n + 1) /\ n + 1 # 1 /\ (n + 1) - 1 = n
        BY <2>0
      <3>2. QED
        BY <1>4, <3>1 DEF Joins
    <2>5. QED
      BY <1>2, <1>3, <1>5, <2>2, <2>3, <2>4
  <1>8. QED
    BY <1>6, <1>7

-----------------------------------------------------------------------------
(* The events of a range.                                                  *)

LEMMA EventsFacts ==
  ASSUME NEW r, r.from \in Nat, r.to \in Nat, r.from <= r.to
  PROVE  /\ EventsOf(r) \in Seq(Nat) /\ Len(EventsOf(r)) = r.to - r.from
         /\ \A i \in 1..(r.to - r.from) : EventsOf(r)[i] = r.from + i - 1
         /\ \A h \in Nat : 1 <= r.from /\ r.to <= h + 1 => EventsOf(r) \in Seq(1..h)
  <1>1. PICK n \in Nat : n = r.to - r.from
    OBVIOUS
  <1>2. EventsOf(r) = [i \in 1..n |-> r.from + i - 1]
    BY <1>1 DEF EventsOf, Larger
  <1>3. \A i \in 1..n : r.from + i - 1 \in Nat
    OBVIOUS
  <1>4. [i \in 1..n |-> r.from + i - 1] \in Seq(Nat)
    BY <1>3, IsASeq
  <1>5. ASSUME NEW h \in Nat, 1 <= r.from, r.to <= h + 1
        PROVE  [i \in 1..n |-> r.from + i - 1] \in Seq(1..h)
    <2>1. \A i \in 1..n : r.from + i - 1 \in 1..h
      BY <1>1, <1>5
    <2>2. QED
      BY <2>1, IsASeq
  <1>6. Len(EventsOf(r)) = n
    BY <1>2, <1>4
  <1>7. QED
    BY <1>1, <1>2, <1>4, <1>5, <1>6

LEMMA EventsSame ==
  ASSUME NEW r, NEW s, r.from = s.from, r.to = s.to
  PROVE  EventsOf(r) = EventsOf(s)
  BY DEF EventsOf

(* Two ranges that meet hold the events of the range they make up. *)
LEMMA EventsJoin ==
  ASSUME NEW r, NEW s, NEW t, r.from \in Nat, r.to \in Nat, s.to \in Nat,
         r.from <= r.to, r.to <= s.to,
         s.from = r.to, t.from = r.from, t.to = s.to
  PROVE  EventsOf(r) \o EventsOf(s) = EventsOf(t)
  <1>1. /\ EventsOf(r) \in Seq(Nat) /\ Len(EventsOf(r)) = r.to - r.from
        /\ \A i \in 1..(r.to - r.from) : EventsOf(r)[i] = r.from + i - 1
    BY EventsFacts
  <1>2. /\ EventsOf(s) \in Seq(Nat) /\ Len(EventsOf(s)) = s.to - r.to
        /\ \A i \in 1..(s.to - r.to) : EventsOf(s)[i] = r.to + i - 1
    BY EventsFacts
  <1>3. /\ EventsOf(t) \in Seq(Nat) /\ Len(EventsOf(t)) = s.to - r.from
        /\ \A i \in 1..(s.to - r.from) : EventsOf(t)[i] = r.from + i - 1
    <2>1. r.from <= s.to /\ t.from \in Nat /\ t.to \in Nat
      OBVIOUS
    <2>2. QED
      BY <2>1, EventsFacts
  <1> DEFINE j == EventsOf(r) \o EventsOf(s)
  <1>4. /\ j \in Seq(Nat) /\ Len(j) = s.to - r.from
        /\ \A i \in 1..(s.to - r.from) : j[i] =
              IF i <= r.to - r.from THEN EventsOf(r)[i] ELSE EventsOf(s)[i - (r.to - r.from)]
    <2>1. /\ j \in Seq(Nat) /\ Len(j) = Len(EventsOf(r)) + Len(EventsOf(s))
          /\ \A i \in 1..(Len(EventsOf(r)) + Len(EventsOf(s))) : j[i] =
                IF i <= Len(EventsOf(r)) THEN EventsOf(r)[i] ELSE EventsOf(s)[i - Len(EventsOf(r))]
      BY <1>1, <1>2, ConcatProperties
    <2>2. Len(EventsOf(r)) + Len(EventsOf(s)) = s.to - r.from
      BY <1>1, <1>2
    <2>3. QED
      <3> HIDE DEF j
      <3> QED BY <1>1, <2>1, <2>2
  <1>5. ASSUME NEW i \in 1..(s.to - r.from) PROVE j[i] = EventsOf(t)[i]
    <2>1. CASE i <= r.to - r.from
      <3>1. i \in 1..(r.to - r.from)
        BY <2>1
      <3>2. QED
        <4> HIDE DEF j
        <4> QED BY <1>1, <1>3, <1>4, <2>1, <3>1
    <2>2. CASE ~ (i <= r.to - r.from)
      <3>1. PICK k \in Int : k = i - (r.to - r.from)
        OBVIOUS
      <3>2. k \in 1..(s.to - r.to) /\ r.to + k - 1 = r.from + i - 1
        BY <2>2, <3>1
      <3>3. j[i] = EventsOf(s)[k]
        <4> HIDE DEF j
        <4> QED BY <1>4, <2>2, <3>1
      <3>4. QED
        <4> HIDE DEF j
        <4> QED BY <1>2, <1>3, <3>2, <3>3
    <2>3. QED
      BY <2>1, <2>2
  <1>6. QED
    <2> HIDE DEF j
    <2>1. j = EventsOf(t)
      BY <1>3, <1>4, <1>5, SeqEqual
    <2>2. QED
      BY <2>1 DEF j

-----------------------------------------------------------------------------
(* The syncers.                                                            *)

(* What has been read is the range the call asked for, from its first      *)
(* block up to where the call is, and the chain holds it.                  *)
Reading(t, h) ==
    /\ t.pc # "off" => 1 <= t.asked.from /\ t.asked.from <= h + 1
    /\ t.pc \in {"height", "span"} =>
         /\ t.asked.from <= t.rest.from /\ t.rest.from <= h + 1
         /\ IF t.saga = NoBlocks THEN t.rest.from = t.asked.from
            ELSE t.saga.from = t.asked.from /\ t.rest.from = t.saga.to
    /\ t.pc = "height" => t.events = EventsOf([from |-> t.asked.from, to |-> t.rest.from])
    /\ t.pc = "span" =>
         /\ t.rest.from <= t.at /\ t.at < t.rest.to /\ t.rest.to <= h + 1
         /\ t.events = EventsOf([from |-> t.asked.from, to |-> t.at])
    /\ t.pc = "answer" =>
         /\ t.answer.from = t.asked.from
         /\ t.answer.from <= t.answer.to /\ t.answer.to <= h + 1
         /\ t.events = EventsOf(t.answer)

LEMMA NothingRead ==
  ASSUME NEW r, r.from \in Nat, r.to = r.from
  PROVE  EventsOf(r) = << >>
  <1>1. EventsOf(r) \in Seq(Nat) /\ Len(EventsOf(r)) = 0
    BY EventsFacts
  <1>2. QED
    BY <1>1, EmptySeq

LEMMA OffReading == Off \in Read /\ Off.pc = "off" /\ \A h : Reading(Off, h)
  BY DEF Off, Read, Reading, Blocks, NoBlocks

(* A call to the endpoint for all that was asked. *)
LEMMA WholeReading ==
  ASSUME NEW h \in Nat, NEW t \in Read, 1 <= t.asked.from, t.asked.from <= h + 1
  PROVE  AskWhole(t) \in Read /\ AskWhole(t).asked = t.asked /\ AskWhole(t).pc = "height"
         /\ Reading(AskWhole(t), h)
  <1>1. /\ t.asked \in Blocks /\ << >> \in Seq(Nat) /\ t.asked.from \in Nat
        /\ NoBlocks \in Blocks
    BY DEF Read, Blocks, NoBlocks
  <1>2. PICK u : u = AskWhole(t)
    OBVIOUS
  <1>3. /\ u \in Read /\ u.pc = "height" /\ u.asked = t.asked /\ u.rest = t.asked
        /\ u.saga = NoBlocks /\ u.events = << >>
    BY <1>1, <1>2 DEF AskWhole, AskEndpoint, Read
  <1> DEFINE r == [from |-> t.asked.from, to |-> t.asked.from]
  <1>4. EventsOf(r) = << >>
    <2>1. r.from \in Nat /\ r.to = r.from
      BY <1>1
    <2>2. QED
      <3> HIDE DEF r
      <3> QED BY <2>1, NothingRead
  <1>5. Reading(u, h)
    BY <1>1, <1>3, <1>4 DEF Reading
  <1>6. QED
    BY <1>2, <1>3, <1>5

LEMMA CallReading ==
  ASSUME NEW h \in Nat, NEW r \in Blocks, 1 <= r.from, r.from <= h + 1
  PROVE  Call(r) \in Read /\ Call(r).asked = r /\ Call(r).pc # "off" /\ Reading(Call(r), h)
  <1>1. PICK t : t = [Off EXCEPT !.asked = r]
    OBVIOUS
  <1>2. t \in Read /\ t.asked = r
    BY <1>1, OffReading DEF Read, Off
  <1>3. CASE HasSaga
    <2>1. PICK u : u = Call(r)
      OBVIOUS
    <2>2. u \in Read /\ u.asked = r /\ u.pc = "saga"
      BY <1>3, <2>1, OffReading DEF Call, Read, Off
    <2>3. QED
      BY <2>1, <2>2 DEF Reading
  <1>4. CASE ~ HasSaga
    BY <1>1, <1>2, <1>4, WholeReading DEF Call
  <1>5. QED
    BY <1>3, <1>4

(* An answer that holds what was read. *)
LEMMA AnswerReading ==
  ASSUME NEW h \in Nat, NEW t \in Read, NEW r \in Blocks, 1 <= t.asked.from,
         t.asked.from <= h + 1, r.from = t.asked.from, r.from <= r.to, r.to <= h + 1,
         t.events = EventsOf(r)
  PROVE  Answer(t, r) \in Read /\ Answer(t, r).asked = t.asked /\ Answer(t, r).pc = "answer"
         /\ Reading(Answer(t, r), h)
  <1>1. PICK u : u = Answer(t, r)
    OBVIOUS
  <1>2. /\ u \in Read /\ u.pc = "answer" /\ u.asked = t.asked /\ u.answer = r
        /\ u.events = t.events
    BY <1>1 DEF Answer, Read
  <1>3. QED
    BY <1>1, <1>2 DEF Reading

(* The endpoint has answered the last of its range. *)
LEMMA JoinReading ==
  ASSUME NEW h \in Nat, NEW t \in Read, NEW r \in Blocks, 1 <= t.asked.from,
         t.asked.from <= r.from, r.from <= r.to, r.to <= h + 1,
         IF t.saga = NoBlocks THEN r.from = t.asked.from
         ELSE t.saga.from = t.asked.from /\ r.from = t.saga.to,
         t.events = EventsOf([from |-> t.asked.from, to |-> r.to])
  PROVE  Join(t, r) \in Read /\ Join(t, r).asked = t.asked /\ Join(t, r).pc # "off"
         /\ Reading(Join(t, r), h)
  <1>0. /\ t.asked \in Blocks /\ t.asked.from \in Nat /\ t.asked.from <= h + 1
        /\ r.from \in Nat /\ r.to \in Nat /\ t.saga \in Blocks /\ t.saga.to \in Nat
    BY DEF Read, Blocks
  <1>1. CASE t.saga = NoBlocks
    <2>1. t.events = EventsOf(r)
      BY <1>1, EventsSame
    <2>2. QED
      BY <1>0, <1>1, <2>1, AnswerReading DEF Join
  <1>2. CASE t.saga # NoBlocks
    <2> DEFINE s == [from |-> t.saga.from, to |-> Larger(r.to, t.saga.to)]
    <2>1. s.from = t.asked.from /\ s.to = r.to
      BY <1>0, <1>2 DEF Larger
    <2>2. s \in Blocks
      BY <1>0, <1>2, <2>1 DEF Blocks
    <2>3. t.events = EventsOf(s)
      BY <2>1, EventsSame
    <2>4. Answer(t, s) \in Read /\ Answer(t, s).asked = t.asked /\ Answer(t, s).pc = "answer"
          /\ Reading(Answer(t, s), h)
      <3> HIDE DEF s
      <3> QED BY <1>0, <2>1, <2>2, <2>3, AnswerReading
    <2>5. Join(t, r) = Answer(t, s)
      BY <1>2 DEF Join
    <2>6. QED
      <3> HIDE DEF s
      <3> QED BY <2>4, <2>5
  <1>3. QED
    BY <1>1, <1>2

(* The saga has answered with a range that does not start before the one   *)
(* it was asked for.                                                       *)
LEMMA SagaReading ==
  ASSUME NEW h \in Nat, NEW t \in Read, NEW r \in Blocks, 1 <= t.asked.from,
         t.asked.from <= r.from, r.from <= r.to, r.to <= h + 1
  PROVE  /\ SagaAnswered(t, r) \in Read /\ SagaAnswered(t, r).asked = t.asked
         /\ SagaAnswered(t, r).pc # "off" /\ Reading(SagaAnswered(t, r), h)
  <1>0. /\ t.asked \in Blocks /\ t.asked.from \in Nat /\ t.asked.from <= h + 1
        /\ r.from \in Nat /\ r.to \in Nat /\ t.asked.to \in Nat
    BY DEF Read, Blocks
  <1>1. PICK kept : kept = [t EXCEPT !.events = EventsOf(r)]
    OBVIOUS
  <1>2. kept \in Read /\ kept.asked = t.asked /\ kept.events = EventsOf(r)
    BY <1>0, <1>1, EventsFacts DEF Read
  <1>3. CASE r.from > t.asked.from
    BY <1>0, <1>3, WholeReading DEF SagaAnswered
  <1>4. CASE r.from = t.asked.from /\ r.to >= t.asked.to
    <2>1. SagaAnswered(t, r) = Answer(kept, r)
      BY <1>0, <1>1, <1>4 DEF SagaAnswered
    <2>2. QED
      BY <1>0, <1>2, <1>4, <2>1, AnswerReading
  <1>5. CASE r.from = t.asked.from /\ ~ (r.to >= t.asked.to)
    <2>1. PICK u : u = SagaAnswered(t, r)
      OBVIOUS
    <2>2. PICK rest : rest = [from |-> r.to, to |-> t.asked.to]
      OBVIOUS
    <2>3. u = AskEndpoint([kept EXCEPT !.saga = r], rest)
      BY <1>0, <1>1, <1>5, <2>1, <2>2 DEF SagaAnswered
    <2>4. rest \in Blocks /\ rest.from = r.to
      BY <1>0, <2>2 DEF Blocks
    <2>5. /\ u \in Read /\ u.pc = "height" /\ u.asked = t.asked /\ u.saga = r
          /\ u.rest = rest /\ u.events = EventsOf(r)
      BY <1>2, <2>3, <2>4 DEF AskEndpoint, Read
    <2>6. r # NoBlocks
      BY <1>0, <1>5 DEF NoBlocks
    <2>7. EventsOf(r) = EventsOf([from |-> t.asked.from, to |-> r.to])
      BY <1>5, EventsSame
    <2>8. Reading(u, h)
      BY <1>0, <1>5, <2>4, <2>5, <2>6, <2>7 DEF Reading
    <2>9. QED
      BY <2>1, <2>5, <2>8
  <1>6. QED
    BY <1>0, <1>3, <1>4, <1>5

(* A call after a request for the next span of logs. *)
LastOf(t) == Smaller(t.at + Span - 1, t.rest.to - 1)
MoreOf(t) == [t EXCEPT !.events = @ \o EventsOf([from |-> t.at, to |-> LastOf(t) + 1]),
                       !.at = LastOf(t) + 1]
AfterSpan(t) == IF LastOf(t) >= t.rest.to - 1 THEN Join(MoreOf(t), t.rest) ELSE MoreOf(t)

LEMMA SpanReading ==
  ASSUME NEW h \in Nat, NEW t \in Read, Reading(t, h), t.pc = "span"
  PROVE  /\ AfterSpan(t) \in Read /\ AfterSpan(t).asked = t.asked /\ AfterSpan(t).pc # "off"
         /\ Reading(AfterSpan(t), h)
  <1>a. PICK last, more, u : /\ last = LastOf(t) /\ more = MoreOf(t) /\ u = AfterSpan(t)
                             /\ u = IF last >= t.rest.to - 1 THEN Join(more, t.rest) ELSE more
    BY DEF AfterSpan
  <1>0. /\ t.asked.from \in Nat /\ t.rest \in Blocks /\ t.rest.from \in Nat /\ t.rest.to \in Nat
        /\ t.at \in Nat /\ t.events \in Seq(Nat) /\ Span \in Nat \ {0}
    BY SyncerAssumption DEF Read, Blocks
  <1>1. /\ 1 <= t.asked.from /\ t.asked.from <= t.rest.from /\ t.rest.from <= t.at
        /\ t.at < t.rest.to /\ t.rest.to <= h + 1 /\ t.rest.from <= h + 1
        /\ IF t.saga = NoBlocks THEN t.rest.from = t.asked.from
           ELSE t.saga.from = t.asked.from /\ t.rest.from = t.saga.to
        /\ t.events = EventsOf([from |-> t.asked.from, to |-> t.at])
    BY DEF Reading
  <1>2. last \in Nat /\ t.at <= last /\ last <= t.rest.to - 1
    <2>1. PICK a, b : a = t.at + Span - 1 /\ b = t.rest.to - 1
      OBVIOUS
    <2>2. a \in Nat /\ b \in Nat /\ t.at <= a /\ t.at <= b
      <3>1. t.at < t.rest.to
        BY <1>1
      <3>2. PICK i \in Nat, j \in Nat, k \in Nat : i = t.at /\ j = t.rest.to /\ k = Span
        BY <1>0
      <3>3. k >= 1 /\ i < j /\ a = i + k - 1 /\ b = j - 1
        BY <1>0, <2>1, <3>1, <3>2
      <3>4. QED
        BY <3>2, <3>3
    <2>3. last = Smaller(a, b)
      BY <1>a, <2>1 DEF LastOf
    <2>4. last \in Nat /\ t.at <= last /\ last <= b
      BY <1>0, <2>2, <2>3 DEF Smaller
    <2>5. QED
      BY <2>1, <2>4
  <1> DEFINE r == [from |-> t.asked.from, to |-> t.at]
             s == [from |-> t.at, to |-> last + 1]
             all == [from |-> t.asked.from, to |-> last + 1]
  <1>3. /\ r.from \in Nat /\ r.to \in Nat /\ s.to \in Nat /\ r.from <= r.to /\ r.to <= s.to
        /\ s.from = r.to /\ all.from = r.from /\ all.to = s.to
        /\ s.from \in Nat /\ s.from <= s.to /\ all.from = t.asked.from /\ all.to = last + 1
    BY <1>0, <1>1, <1>2
  <1>4. EventsOf(r) \o EventsOf(s) = EventsOf(all) /\ EventsOf(s) \in Seq(Nat)
    <2> HIDE DEF r, s, all
    <2> QED BY <1>3, EventsJoin, EventsFacts
  <1>5. /\ more \in Read /\ more.pc = "span" /\ more.asked = t.asked /\ more.saga = t.saga
        /\ more.rest = t.rest /\ more.at = last + 1 /\ more.events = EventsOf(all)
    <2>1. more = [t EXCEPT !.events = t.events \o EventsOf(s), !.at = last + 1]
      BY <1>a DEF MoreOf
    <2>2. t.events = EventsOf(r)
      BY <1>1
    <2>3. PICK ev \in Seq(Nat) : ev = t.events \o EventsOf(s) /\ ev = EventsOf(all)
      <3> HIDE DEF r, s, all
      <3> QED BY <1>0, <1>4, <2>2, ConcatProperties
    <2>4. PICK k \in Nat : k = last + 1
      BY <1>2
    <2>5. more = [t EXCEPT !.events = ev, !.at = k]
      <3> HIDE DEF s
      <3> QED BY <2>1, <2>3, <2>4
    <2>6. /\ more \in Read /\ more.pc = "span" /\ more.asked = t.asked /\ more.saga = t.saga
          /\ more.rest = t.rest /\ more.at = k /\ more.events = ev
      BY <2>5 DEF Read
    <2>7. QED
      BY <2>3, <2>4, <2>6
  <1>6. CASE last >= t.rest.to - 1
    <2>1. last + 1 = t.rest.to
      BY <1>0, <1>2, <1>6
    <2>2. more.events = EventsOf([from |-> more.asked.from, to |-> t.rest.to])
      BY <1>5, <2>1
    <2>3. /\ t.rest.from <= t.rest.to /\ t.rest.to <= h + 1 /\ 1 <= more.asked.from
          /\ more.asked.from <= t.rest.from
          /\ IF more.saga = NoBlocks THEN t.rest.from = more.asked.from
             ELSE more.saga.from = more.asked.from /\ t.rest.from = more.saga.to
      BY <1>0, <1>1, <1>5
    <2>4. u = Join(more, t.rest)
      BY <1>6, <1>a
    <2>5. more \in Read /\ t.rest \in Blocks /\ more.asked = t.asked
      BY <1>0, <1>5
    <2>6. Join(more, t.rest) \in Read /\ Join(more, t.rest).asked = more.asked
          /\ Join(more, t.rest).pc # "off" /\ Reading(Join(more, t.rest), h)
      BY <2>2, <2>3, <2>5, JoinReading
    <2>7. QED
      BY <1>a, <2>4, <2>5, <2>6
  <1>7. CASE ~ (last >= t.rest.to - 1)
    <2>1. u = more /\ t.rest.from <= last + 1 /\ last + 1 < t.rest.to
      BY <1>0, <1>1, <1>2, <1>7, <1>a
    <2>2. more.events = EventsOf([from |-> more.asked.from, to |-> more.at])
      BY <1>5
    <2>3. Reading(more, h)
      <3> HIDE DEF r, s, all
      <3> QED BY <1>1, <1>5, <2>1, <2>2 DEF Reading
    <2>4. QED
      BY <1>5, <1>a, <2>1, <2>3
  <1>8. QED
    BY <1>6, <1>7

(* A call after the endpoint tells its height, and with it the range it    *)
(* will answer.                                                            *)
AfterHeight(t, head) ==
    LET r == BlockRange(t.rest, head)
    IN  IF r.from = r.to THEN Join(t, r)
        ELSE [t EXCEPT !.pc = "span", !.rest = r, !.at = r.from]

LEMMA RangeReading ==
  ASSUME NEW h \in Nat, NEW t \in Read, Reading(t, h), t.pc = "height", NEW head \in 0..h
  PROVE  /\ AfterHeight(t, head) \in Read /\ AfterHeight(t, head).asked = t.asked
         /\ AfterHeight(t, head).pc # "off" /\ Reading(AfterHeight(t, head), h)
  <1>a. PICK r, u : /\ r = BlockRange(t.rest, head) /\ u = AfterHeight(t, head)
                    /\ u = IF r.from = r.to THEN Join(t, r)
                           ELSE [t EXCEPT !.pc = "span", !.rest = r, !.at = r.from]
    BY DEF AfterHeight
  <1>0. t.asked.from \in Nat /\ t.rest \in Blocks /\ t.rest.from \in Nat /\ t.rest.to \in Nat
    BY DEF Read, Blocks
  <1>1. /\ 1 <= t.asked.from /\ t.asked.from <= t.rest.from /\ t.rest.from <= h + 1
        /\ IF t.saga = NoBlocks THEN t.rest.from = t.asked.from
           ELSE t.saga.from = t.asked.from /\ t.rest.from = t.saga.to
        /\ t.events = EventsOf([from |-> t.asked.from, to |-> t.rest.from])
    BY DEF Reading
  <1>2. /\ r \in Blocks /\ r.from = t.rest.from /\ r.from \in Nat /\ r.to \in Nat
        /\ r.from <= r.to /\ r.to <= h + 1
    BY <1>0, <1>1, <1>a DEF BlockRange, Larger, Smaller, Deployed, Blocks
  <1>3. CASE r.from = r.to
    <2>1. t.events = EventsOf([from |-> t.asked.from, to |-> r.to])
      BY <1>1, <1>2, <1>3
    <2>2. QED
      BY <1>0, <1>1, <1>2, <1>3, <1>a, <2>1, JoinReading
  <1>4. CASE r.from # r.to
    <2>1. /\ u \in Read /\ u.pc = "span" /\ u.rest = r /\ u.at = r.from /\ u.asked = t.asked
          /\ u.saga = t.saga /\ u.events = t.events
      BY <1>2, <1>4, <1>a DEF Read
    <2>2. r.from < r.to /\ u.events = EventsOf([from |-> u.asked.from, to |-> u.at])
      BY <1>1, <1>2, <1>4, <2>1
    <2>3. Reading(u, h)
      BY <1>0, <1>1, <1>2, <2>1, <2>2 DEF Reading
    <2>4. QED
      BY <1>a, <2>1, <2>3
  <1>5. QED
    BY <1>3, <1>4

(* Every step of a call, and a chain that grows under it. *)
LEMMA SyncerReading ==
  ASSUME SyncerTypeOK, NEW q \in Caller, SyncerStep(q), Reading(read[q], height)
  PROVE  /\ height' = height /\ read' \in [Caller -> Read]
         /\ \A x \in Caller \ {q} : read'[x] = read[x]
         /\ read[q].pc \in {"saga", "height", "span"} /\ read'[q].pc # "off"
         /\ read'[q].asked = read[q].asked /\ Reading(read'[q], height)
  <1>0. read \in [Caller -> Read] /\ read[q] \in Read /\ height \in Nat
    BY SyncerAssumption DEF SyncerTypeOK
  <1>1. SUFFICES \E u \in Read : /\ read' = [read EXCEPT ![q] = u] /\ height' = height
                                 /\ read[q].pc \in {"saga", "height", "span"} /\ u.pc # "off"
                                 /\ u.asked = read[q].asked /\ Reading(u, height)
    BY <1>0
  <1>2. read[q].pc # "off" => /\ 1 <= read[q].asked.from /\ read[q].asked.from <= height + 1
                              /\ read[q].asked.from \in Nat
    BY <1>0 DEF Reading, Read, Blocks
  <1>3. CASE AskSaga(q)
    <2>1. PICK from \in read[q].asked.from..(height + 1) : \E to \in from..(height + 1) :
            read' = [read EXCEPT ![q] = SagaAnswered(@, [from |-> from, to |-> to])]
      BY <1>3 DEF AskSaga
    <2>a. PICK to \in from..(height + 1) :
            read' = [read EXCEPT ![q] = SagaAnswered(@, [from |-> from, to |-> to])]
      BY <2>1
    <2>2. read[q].pc = "saga" /\ height' = height
      BY <1>3 DEF AskSaga
    <2> DEFINE r == [from |-> from, to |-> to]
    <2>3. r \in Blocks /\ r.from = from /\ r.to = to
      BY <1>0, <1>2, <2>2 DEF Blocks
    <2>4. read' = [read EXCEPT ![q] = SagaAnswered(read[q], r)]
      BY <1>0, <2>a
    <2>5. read[q].asked.from <= r.from /\ r.from <= r.to /\ r.to <= height + 1
      BY <1>0, <1>2, <2>2, <2>3
    <2>6. QED
      <3> HIDE DEF r
      <3> QED BY <1>0, <1>2, <2>2, <2>3, <2>4, <2>5, SagaReading
  <1>4. CASE SagaFails(q)
    <2>1. read' = [read EXCEPT ![q] = AskWhole(read[q])] /\ read[q].pc = "saga" /\ height' = height
      BY <1>0, <1>4 DEF SagaFails
    <2>2. QED
      BY <1>0, <1>2, <2>1, WholeReading
  <1>5. CASE ReadBlockRange(q)
    <2>1. PICK head \in 0..height : read' = [read EXCEPT ![q] = AfterHeight(read[q], head)]
      BY <1>0, <1>5 DEF ReadBlockRange, AfterHeight
    <2>2. read[q].pc = "height" /\ height' = height
      BY <1>5 DEF ReadBlockRange
    <2>3. QED
      BY <1>0, <2>1, <2>2, RangeReading
  <1>6. CASE ReadSpan(q)
    <2>1. read' = [read EXCEPT ![q] = AfterSpan(read[q])]
      BY <1>0, <1>6 DEF ReadSpan, AfterSpan, LastOf, MoreOf
    <2>2. read[q].pc = "span" /\ height' = height
      BY <1>6 DEF ReadSpan
    <2>3. QED
      BY <1>0, <2>1, <2>2, SpanReading
  <1>7. QED
    BY <1>3, <1>4, <1>5, <1>6 DEF SyncerStep

LEMMA ReadingGrows ==
  ASSUME NEW h \in Nat, NEW t \in Read, Reading(t, h)
  PROVE  Reading(t, h + 1)
  <1>1. t.asked.from \in Nat /\ t.rest.from \in Nat /\ t.rest.to \in Nat /\ t.answer.to \in Nat
    BY DEF Read, Blocks
  <1>2. QED
    BY <1>1 DEF Reading

-----------------------------------------------------------------------------
(* The pool's snapshots and the cached tree.                               *)

Locked == {"height", "sync", "drop", "commit"}
Syncing == {"sync", "drop", "commit"}

(* The tree of the first leaves of the pool, as of some cursor. *)
Prefix(s) ==
    /\ s = EventsOf([from |-> Deployed, to |-> Deployed + Len(s)])
    /\ Len(s) < cursor

(* The cached tree, and one that is being built for the cache, hold every  *)
(* leaf below block n: whoever dropped the cache after it synced up to n   *)
(* will not be served an older tree.                                       *)
Fresh(n) ==
    /\ cache # None => n <= Len(cache) + 1
    /\ \A r \in Caller : task[r].pc = "build" => n <= Len(task[r].tree) + 1

CallerInv(q) == LET t == task[q] IN
    /\ t.pc \in Locked <=> lock = q
    /\ t.pc = "build" <=> trees = q
    /\ t.pc \in Syncing => read[q].pc # "off" /\ read[q].asked.from = cursor
    /\ t.pc \in {"drop", "commit"} => read[q].pc = "answer"
    /\ t.seen <= cursor
    /\ t.pc = "build" => Prefix(t.tree)
    /\ t.pc \in {"build", "done"} => t.seen <= Len(t.tree) + 1
    /\ t.pc \in {"commit", "tree"} => Fresh(t.seen)

PoolInv ==
    /\ cursor <= height + 1
    /\ FlattenSeq(chunks) = EventsOf([from |-> Deployed, to |-> cursor])
    /\ TreeIsPrefix

TreeInv ==
    /\ TypeOK
    /\ PoolInv
    /\ \A q \in Caller : Reading(read[q], height) /\ CallerInv(q)

LEMMA Types ==
  ASSUME TypeOK
  PROVE  /\ height \in Nat /\ 1 <= height /\ height <= MaxBlock /\ MaxBlock \in Nat
         /\ cursor \in Nat /\ 1 <= cursor
         /\ read \in [Caller -> Read] /\ task \in [Caller -> Task]
         /\ chunks \in Seq(Leaves)
         /\ \A q \in Caller : /\ task[q] \in Task /\ task[q].seen \in Nat /\ task[q].tree \in Leaves
                              /\ Len(task[q].tree) \in Nat
                              /\ read[q] \in Read
         /\ \A s \in Leaves : Len(s) \in Nat
         /\ cache # None => cache \in Leaves /\ Len(cache) \in Nat
  <1>1. \A s \in Leaves : Len(s) \in Nat
    BY DEF Leaves
  <1>2. /\ height \in 1..MaxBlock /\ MaxBlock \in Nat /\ cursor \in 1..(MaxBlock + 1)
        /\ read \in [Caller -> Read] /\ task \in [Caller -> Task]
        /\ cache \in Leaves \cup {None} /\ chunks \in Seq(Leaves)
    BY SyncerAssumption DEF TypeOK, SyncerTypeOK
  <1>3. \A q \in Caller : task[q] \in Task /\ task[q].seen \in Nat /\ task[q].tree \in Leaves
    BY <1>2 DEF Task
  <1>4. QED
    BY <1>1, <1>2, <1>3

LEMMA IdleTask ==
  /\ Idle \in Task /\ Idle.pc = "idle" /\ Idle.seen = 0
  /\ \A l \in 0..MaxBlock : /\ [Idle EXCEPT !.pc = "lock", !.leaf = l] \in Task
                            /\ [Idle EXCEPT !.pc = "lock", !.leaf = l].pc = "lock"
                            /\ [Idle EXCEPT !.pc = "lock", !.leaf = l].seen = 0
  <1>1. << >> \in Leaves /\ 0 \in 0..MaxBlock
    BY SyncerAssumption DEF Leaves
  <1>2. QED
    BY <1>1 DEF Idle, Task

(* The locked callers are one at most, and nobody is None. *)
LEMMA NoCaller == \A q \in Caller : q # None
  BY NoneAssumption

-----------------------------------------------------------------------------
(* The steps of a caller, other than its commit, differ in what becomes of *)
(* the caller itself.                                                      *)

LEMMA CallerStep ==
  ASSUME TreeInv, NEW q \in Caller,
         NEW t \in Task, task' = [task EXCEPT ![q] = t],
         NEW u \in Read, read' = [read EXCEPT ![q] = u], Reading(u, height),
         UNCHANGED <<height, cursor, chunks>>,
         lock' \in Caller \cup {None}, \A r \in Caller \ {q} : lock' = r <=> lock = r,
         trees' \in Caller \cup {None}, \A r \in Caller \ {q} : trees' = r <=> trees = r,
         cache' \in {cache, None} \/ (task[q].pc = "build" /\ cache' = task[q].tree),
         t.pc \in Locked <=> lock' = q,
         t.pc = "build" <=> trees' = q,
         t.pc \in Syncing => u.pc # "off" /\ u.asked.from = cursor,
         t.pc \in {"drop", "commit"} => u.pc = "answer",
         t.seen <= cursor,
         t.pc = "build" => Prefix(t.tree) /\ cursor <= Len(t.tree) + 1,
         t.pc = "done" => t.seen <= Len(t.tree) + 1,
         t.pc \notin {"commit", "tree"} \/ (t.pc = "commit" /\ trees = None /\ cache' = None)
  PROVE  TreeInv'
  <1>0. /\ task'[q] = t /\ read'[q] = u /\ task' \in [Caller -> Task] /\ read' \in [Caller -> Read]
        /\ \A r \in Caller \ {q} : task'[r] = task[r] /\ read'[r] = read[r]
    BY Types DEF TreeInv
  <1>1. TypeOK'
    <2>1. cache' \in Leaves \cup {None}
      BY Types DEF TreeInv, TypeOK
    <2>2. QED
      BY <1>0, <2>1 DEF TreeInv, TypeOK, SyncerTypeOK
  <1>2. PoolInv'
    <2>1. TreeIsPrefix'
      BY DEF TreeInv, PoolInv, TreeIsPrefix, CallerInv, Prefix
    <2>2. QED
      BY <2>1 DEF TreeInv, PoolInv
  <1>3. \A r \in Caller : Reading(read[r], height)'
    <2>1. \A r \in Caller : Reading(read'[r], height')
      BY <1>0 DEF TreeInv
    <2>2. QED
      BY <2>1
  <1>4. ASSUME NEW n \in Nat, n <= cursor, Fresh(n) PROVE Fresh(n)'
    <2>1. cache' # None => n <= Len(cache') + 1
      BY <1>4 DEF Fresh
    <2>2. ASSUME NEW r \in Caller, task'[r].pc = "build" PROVE n <= Len(task'[r].tree) + 1
      <3>1. CASE r = q
        <4>1. cursor <= Len(t.tree) + 1 /\ cursor \in Nat /\ Len(t.tree) \in Nat
          BY <1>0, <2>2, <3>1, Types DEF TreeInv, Task
        <4>2. QED
          BY <1>0, <1>4, <3>1, <4>1
      <3>2. CASE r # q
        BY <1>0, <1>4, <2>2, <3>2 DEF Fresh
      <3>3. QED
        BY <3>1, <3>2
    <2>3. QED
      BY <2>1, <2>2 DEF Fresh
  <1>5. ASSUME NEW r \in Caller, r # q PROVE CallerInv(r)'
    <2>1. CallerInv(r) /\ task[r].seen \in Nat
      BY Types DEF TreeInv
    <2>2. PICK n \in Nat : n = task[r].seen
      BY <2>1
    <2>3. task[r].pc \in {"commit", "tree"} => Fresh(n)'
      <3>1. task[r].pc \in {"commit", "tree"} => Fresh(n) /\ n <= cursor
        BY <2>1, <2>2 DEF CallerInv
      <3>2. QED
        BY <1>4, <3>1
    <2>4. task[r].pc \in {"commit", "tree"} => Fresh(task[r].seen)'
      BY <1>0, <1>5, <2>2, <2>3 DEF Fresh
    <2>5. QED
      BY <1>0, <1>5, <2>1, <2>4 DEF CallerInv, Prefix
  <1>6. CallerInv(q)'
    <2>1. ASSUME t.pc = "commit" PROVE Fresh(task[q].seen)'
      <3>1. \A r \in Caller : task'[r].pc # "build"
        <4>1. \A r \in Caller : task[r].pc # "build"
          BY <2>1, NoCaller DEF TreeInv, CallerInv
        <4>2. QED
          BY <1>0, <2>1, <4>1
      <3>2. QED
        BY <2>1, <3>1 DEF Fresh
    <2>2. t.pc = "build" => t.seen <= Len(t.tree) + 1
      <3>1. t.seen \in Nat /\ cursor \in Nat /\ Len(t.tree) \in Nat
        BY Types DEF TreeInv, Task
      <3>2. QED
        BY <3>1
    <2>3. QED
      BY <1>0, <2>1, <2>2 DEF CallerInv, Prefix
  <1>7. QED
    BY <1>1, <1>2, <1>3, <1>5, <1>6 DEF TreeInv

(* A caller that keeps its call, or all but its program counter. *)
LEMMA KeptCall ==
  ASSUME TreeInv, NEW q \in Caller
  PROVE  /\ read[q] \in Read /\ Reading(read[q], height) /\ read = [read EXCEPT ![q] = read[q]]
         /\ lock \in Caller \cup {None} /\ trees \in Caller \cup {None}
         /\ CallerInv(q) /\ task[q] \in Task
         /\ cursor \in Nat /\ 1 <= cursor /\ cursor <= height + 1 /\ height \in Nat
  <1>1. read \in [Caller -> Read]
    BY Types DEF TreeInv
  <1>2. read = [read EXCEPT ![q] = read[q]]
    BY <1>1
  <1>3. QED
    BY <1>2, Types DEF TreeInv, PoolInv, TypeOK

LEMMA Moved ==
  ASSUME TreeInv, NEW q \in Caller, NEW pc,
         pc \in {"sync", "drop", "commit", "done"}, Goto(q, pc)
  PROVE  \E t \in Task : /\ task' = [task EXCEPT ![q] = t] /\ t.pc = pc
                         /\ t.seen = task[q].seen /\ t.tree = task[q].tree
  <1>1. task \in [Caller -> Task] /\ task[q] \in Task
    BY Types DEF TreeInv
  <1>2. PICK t : t = [task[q] EXCEPT !.pc = pc]
    OBVIOUS
  <1>3. task' = [task EXCEPT ![q] = t]
    BY <1>1, <1>2 DEF Goto
  <1>4. t \in Task /\ t.pc = pc /\ t.seen = task[q].seen /\ t.tree = task[q].tree
    BY <1>1, <1>2 DEF Task
  <1>5. QED
    BY <1>3, <1>4

LEMMA BeginStep ==
  ASSUME TreeInv, NEW q \in Caller, WithdrawalInputs(q)
  PROVE  TreeInv'
  <1>1. PICK leaf \in 1..height : task' = [task EXCEPT ![q] = [Idle EXCEPT !.pc = "lock", !.leaf = leaf]]
    BY DEF WithdrawalInputs
  <1>2. leaf \in 0..MaxBlock
    BY Types DEF TreeInv
  <1>3. PICK t \in Task : t.pc = "lock" /\ t.seen = 0 /\ task' = [task EXCEPT ![q] = t]
    BY <1>1, <1>2, IdleTask
  <1>4. lock # q /\ trees # q
    BY KeptCall DEF CallerInv, WithdrawalInputs, Locked
  <1>5. /\ UNCHANGED <<height, cursor, chunks, lock, trees, cache>>
        /\ read' = [read EXCEPT ![q] = read[q]] /\ t.seen <= cursor
    BY <1>3, KeptCall DEF WithdrawalInputs
  <1>6. t.pc \notin Locked \cup Syncing \cup {"build", "done", "commit", "tree"}
    BY <1>3 DEF Locked, Syncing
  <1>7. QED
    BY <1>3, <1>4, <1>5, <1>6, KeptCall, CallerStep DEF Locked, Syncing

LEMMA LockStep ==
  ASSUME TreeInv, NEW q \in Caller, TakeLock(q)
  PROVE  TreeInv'
  <1>0. task \in [Caller -> Task] /\ task[q] \in Task /\ cursor \in Nat
    BY Types DEF TreeInv
  <1>1. PICK t : t = [task[q] EXCEPT !.pc = "height", !.seen = cursor]
    OBVIOUS
  <1>2. task' = [task EXCEPT ![q] = t]
    BY <1>0, <1>1 DEF TakeLock
  <1>3. t \in Task /\ t.pc = "height" /\ t.seen = cursor
    BY <1>0, <1>1 DEF Task
  <1>4. trees # q /\ \A r \in Caller : lock # r
    BY KeptCall, NoCaller DEF CallerInv, TakeLock
  <1>5. /\ UNCHANGED <<height, cursor, chunks, trees, cache>> /\ lock' = q
        /\ read' = [read EXCEPT ![q] = read[q]] /\ t.seen <= cursor
    BY <1>0, <1>3, KeptCall DEF TakeLock
  <1>6. t.pc \in Locked /\ t.pc \notin Syncing \cup {"build", "done", "commit", "tree"}
    BY <1>3 DEF Locked, Syncing
  <1>7. QED
    BY <1>2, <1>3, <1>4, <1>5, <1>6, KeptCall, CallerStep

LEMMA BeginSyncStep ==
  ASSUME TreeInv, NEW q \in Caller, BeginSync(q)
  PROVE  TreeInv'
  <1>1. PICK h \in 0..height : read' = [read EXCEPT ![q] = Call([from |-> cursor, to |-> h + 1])]
    BY DEF BeginSync
  <1>2. PICK r : r = [from |-> cursor, to |-> h + 1]
    OBVIOUS
  <1>3. r \in Blocks /\ r.from = cursor /\ 1 <= r.from /\ r.from <= height + 1 /\ height \in Nat
    BY <1>2, KeptCall DEF Blocks
  <1>4. PICK u \in Read : /\ u = Call(r) /\ u.asked = r /\ u.pc # "off" /\ Reading(u, height)
    BY <1>3, CallReading
  <1>5. PICK t \in Task : /\ task' = [task EXCEPT ![q] = t] /\ t.pc = "sync"
                          /\ t.seen = task[q].seen
    BY Moved DEF BeginSync
  <1>6. lock = q /\ trees # q /\ task[q].seen <= cursor
    BY KeptCall DEF CallerInv, BeginSync, Locked
  <1>7. read' = [read EXCEPT ![q] = u]
    BY <1>1, <1>2, <1>4
  <1>8. t.pc \in Locked /\ t.pc \in Syncing /\ t.pc \notin {"build", "done", "drop", "commit", "tree"}
    BY <1>5 DEF Locked, Syncing
  <1>9. UNCHANGED <<height, cursor, chunks, lock, trees, cache>> /\ t.seen <= cursor
    BY <1>5, <1>6 DEF BeginSync
  <1>10. QED
    BY <1>3, <1>4, <1>5, <1>6, <1>7, <1>8, <1>9, KeptCall, CallerStep

LEMMA SyncPoolStep ==
  ASSUME TreeInv, NEW q \in Caller, SyncPool(q)
  PROVE  TreeInv'
  <1>1. SyncerTypeOK /\ SyncerStep(q) /\ Reading(read[q], height)
    BY DEF TreeInv, TypeOK, SyncPool
  <1>2. /\ height' = height /\ read' \in [Caller -> Read]
        /\ \A x \in Caller \ {q} : read'[x] = read[x]
        /\ read'[q].pc # "off" /\ read'[q].asked = read[q].asked /\ Reading(read'[q], height)
    BY <1>1, SyncerReading
  <1>3. PICK u \in Read : u = read'[q]
    BY <1>2
  <1>4. read' = [read EXCEPT ![q] = u]
    BY <1>2, <1>3, Types DEF TreeInv
  <1>5. task' = [task EXCEPT ![q] = task[q]]
    BY Types DEF TreeInv, SyncPool
  <1>6. /\ lock = q /\ trees # q /\ task[q].seen <= cursor /\ task[q].pc = "sync"
        /\ read[q].asked.from = cursor
    BY KeptCall DEF CallerInv, SyncPool, Locked, Syncing
  <1>7. QED
    BY <1>2, <1>3, <1>4, <1>5, <1>6, KeptCall, CallerStep DEF SyncPool, Locked, Syncing

LEMMA PutStep ==
  ASSUME TreeInv, NEW q \in Caller, PutSnapshot(q)
  PROVE  TreeInv'
  <1>1. PICK t \in Task : /\ task' = [task EXCEPT ![q] = t] /\ t.pc = "drop"
                          /\ t.seen = task[q].seen
    BY Moved DEF PutSnapshot
  <1>2. /\ lock = q /\ trees # q /\ task[q].seen <= cursor
        /\ read[q].pc = "answer" /\ read[q].asked.from = cursor
    BY KeptCall DEF CallerInv, PutSnapshot, Locked, Syncing
  <1>3. QED
    BY <1>1, <1>2, KeptCall, CallerStep DEF PutSnapshot, Locked, Syncing

LEMMA DropStep ==
  ASSUME TreeInv, NEW q \in Caller, DropTree(q)
  PROVE  TreeInv'
  <1>1. PICK t \in Task : /\ task' = [task EXCEPT ![q] = t] /\ t.pc = "commit"
                          /\ t.seen = task[q].seen
    BY Moved DEF DropTree
  <1>2. /\ lock = q /\ trees # q /\ task[q].seen <= cursor
        /\ read[q].pc = "answer" /\ read[q].asked.from = cursor
    BY KeptCall DEF CallerInv, DropTree, Locked, Syncing
  <1>3. QED
    BY <1>1, <1>2, KeptCall, CallerStep DEF DropTree, Locked, Syncing

LEMMA FindStep ==
  ASSUME TreeInv, NEW q \in Caller, FindTree(q)
  PROVE  TreeInv'
  <1>0. task \in [Caller -> Task] /\ task[q] \in Task
    BY Types DEF TreeInv
  <1>1. lock # q /\ task[q].pc = "tree" /\ task[q].seen <= cursor /\ Fresh(task[q].seen)
        /\ \A r \in Caller : trees # r
    BY KeptCall, NoCaller DEF CallerInv, FindTree, Locked
  <1>2. CASE cache = None
    <2>1. PICK s, r : /\ s = FlattenSeq(chunks) /\ r = [from |-> Deployed, to |-> cursor]
                      /\ s = EventsOf(r)
      BY DEF TreeInv, PoolInv
    <2>2. /\ cursor \in Nat /\ 1 <= cursor /\ cursor <= MaxBlock + 1 /\ MaxBlock \in Nat
          /\ r.from = 1 /\ r.to = cursor
      BY <2>1, Types DEF TreeInv, PoolInv, TypeOK, Deployed
    <2>3. s \in Leaves /\ Len(s) = cursor - 1
      BY <2>1, <2>2, EventsFacts DEF Leaves
    <2>4. Prefix(s) /\ cursor <= Len(s) + 1
      BY <2>1, <2>2, <2>3 DEF Prefix, Deployed
    <2>5. PICK t : t = [task[q] EXCEPT !.pc = "build", !.tree = s]
      OBVIOUS
    <2>6. task' = [task EXCEPT ![q] = t] /\ trees' = q
      BY <1>0, <1>2, <2>1, <2>5 DEF FindTree
    <2>7. t \in Task /\ t.pc = "build" /\ t.tree = s /\ t.seen = task[q].seen
      BY <1>0, <2>3, <2>5 DEF Task
    <2>8. QED
      BY <1>1, <1>2, <2>4, <2>6, <2>7, KeptCall, CallerStep DEF FindTree, Locked, Syncing
  <1>3. CASE cache # None
    <2>1. cache \in Leaves /\ task[q].seen <= Len(cache) + 1
      BY <1>1, <1>3, Types DEF TreeInv, Fresh
    <2>2. PICK t : t = [task[q] EXCEPT !.pc = "done", !.tree = cache]
      OBVIOUS
    <2>3. task' = [task EXCEPT ![q] = t] /\ trees' = trees
      BY <1>0, <1>3, <2>2 DEF FindTree
    <2>4. t \in Task /\ t.pc = "done" /\ t.tree = cache /\ t.seen = task[q].seen
      BY <1>0, <2>1, <2>2 DEF Task
    <2>5. QED
      BY <1>1, <1>3, <2>1, <2>3, <2>4, KeptCall, CallerStep DEF FindTree, Locked, Syncing
  <1>4. QED
    BY <1>2, <1>3

LEMMA InsertStep ==
  ASSUME TreeInv, NEW q \in Caller, InsertTree(q)
  PROVE  TreeInv'
  <1>1. PICK t \in Task : /\ task' = [task EXCEPT ![q] = t] /\ t.pc = "done"
                          /\ t.seen = task[q].seen /\ t.tree = task[q].tree
    BY Moved DEF InsertTree
  <1>2. /\ lock # q /\ trees = q /\ task[q].pc = "build" /\ task[q].seen <= cursor
        /\ task[q].seen <= Len(task[q].tree) + 1
    BY KeptCall DEF CallerInv, InsertTree, Locked
  <1>3. QED
    BY <1>1, <1>2, KeptCall, CallerStep, NoCaller DEF InsertTree, Locked, Syncing

LEMMA EndStep ==
  ASSUME TreeInv, NEW q \in Caller, Return(q) \/ Abort(q)
  PROVE  TreeInv'
  <1>0. /\ Idle \in Task /\ Idle.seen <= cursor
        /\ Idle.pc \notin Locked \cup Syncing \cup {"build", "done", "commit", "drop", "tree"}
    <2>1. Idle \in Task /\ Idle.pc = "idle" /\ Idle.seen = 0
      BY IdleTask
    <2>2. cursor \in Nat
      BY KeptCall
    <2>3. QED
      BY <2>1, <2>2 DEF Locked, Syncing
  <1>1. CASE Return(q)
    <2>1. lock # q /\ trees # q
      BY <1>1, KeptCall DEF CallerInv, Return, Locked
    <2>2. QED
      BY <1>0, <1>1, <2>1, KeptCall, CallerStep DEF Return
  <1>2. CASE Abort(q)
    <2>1. /\ UNCHANGED <<height, cursor, chunks, cache>> /\ task' = [task EXCEPT ![q] = Idle]
          /\ read' = [read EXCEPT ![q] = Off] /\ Off \in Read /\ Reading(Off, height)
      BY <1>2, OffReading DEF Abort
    <2>2. /\ lock' # q /\ lock' \in Caller \cup {None}
          /\ trees' # q /\ trees' \in Caller \cup {None}
          /\ \A r \in Caller \ {q} : (lock' = r <=> lock = r) /\ (trees' = r <=> trees = r)
      BY <1>2, KeptCall, NoCaller DEF Abort
    <2>3. QED
      BY <1>0, <2>1, <2>2, CallerStep
  <1>3. QED
    BY <1>1, <1>2

-----------------------------------------------------------------------------
(* The steps that move the cursor.                                         *)

(* The committed chunks, spliced, grow by what follows the cursor. *)
LEMMA CommittedGrows ==
  ASSUME TypeOK, PoolInv, NEW r, r.from = cursor, r.to \in Nat, cursor <= r.to,
         r.to <= height + 1
  PROVE  /\ Append(chunks, EventsOf(r)) \in Seq(Leaves)
         /\ FlattenSeq(Append(chunks, EventsOf(r))) = EventsOf([from |-> Deployed, to |-> r.to])
         /\ EventsOf(r) = << >> => r.to = cursor
  <1>0. /\ cursor \in Nat /\ 1 <= cursor /\ height \in Nat /\ height <= MaxBlock
        /\ MaxBlock \in Nat /\ chunks \in Seq(Leaves)
    BY Types
  <1>1. EventsOf(r) \in Seq(1..MaxBlock) /\ Len(EventsOf(r)) = r.to - cursor
    <2>1. r.from \in Nat /\ 1 <= r.from /\ r.to <= MaxBlock + 1 /\ r.from <= r.to
      BY <1>0
    <2>2. QED
      BY <1>0, <2>1, EventsFacts
  <1>2. FlattenSeq(Append(chunks, EventsOf(r))) = FlattenSeq(chunks) \o EventsOf(r)
    BY <1>0, <1>1, FlattenAppend DEF Leaves
  <1> DEFINE below == [from |-> Deployed, to |-> cursor]
             all == [from |-> Deployed, to |-> r.to]
  <1>3. /\ below.from = 1 /\ below.to = cursor /\ all.from = 1 /\ all.to = r.to
        /\ FlattenSeq(chunks) = EventsOf(below)
    BY DEF Deployed, PoolInv
  <1>4. EventsOf(below) \o EventsOf(r) = EventsOf(all)
    <2>1. /\ below.from \in Nat /\ below.to \in Nat /\ r.to \in Nat /\ below.from <= below.to
          /\ below.to <= r.to /\ r.from = below.to /\ all.from = below.from /\ all.to = r.to
      BY <1>0, <1>3
    <2>2. QED
      <3> HIDE DEF below, all
      <3> QED BY <2>1, EventsJoin
  <1>5. EventsOf(r) = << >> => r.to = cursor
    BY <1>0, <1>1, EmptySeq
  <1>6. QED
    BY <1>0, <1>1, <1>2, <1>3, <1>4, <1>5, AppendProperties DEF Leaves

(* A caller that has no part in a step that moves the cursor. *)
LEMMA CursorMoves ==
  ASSUME TreeInv, NEW r \in Caller, lock # r, lock' # r, trees' = trees, cache' = cache,
         cursor' \in Nat, cursor <= cursor', task'[r] = task[r],
         \A x \in Caller : task'[x].pc = "build" =>
            task[x].pc = "build" /\ task'[x].tree = task[x].tree
  PROVE  CallerInv(r)'
  <1>1. CallerInv(r) /\ task[r].seen \in Nat /\ cursor \in Nat /\ Len(task[r].tree) \in Nat
    BY Types DEF TreeInv
  <1>2. task[r].pc \notin Locked /\ task[r].pc \notin Syncing /\ task[r].pc \notin {"drop", "commit"}
    BY <1>1 DEF CallerInv, Locked, Syncing
  <1>3. task[r].seen <= cursor' /\ (Len(task[r].tree) < cursor => Len(task[r].tree) < cursor')
    BY <1>1 DEF CallerInv
  <1>4. task[r].pc \in {"commit", "tree"} => Fresh(task[r].seen)'
    BY <1>1 DEF CallerInv, Fresh
  <1>5. QED
    BY <1>1, <1>2, <1>3, <1>4 DEF CallerInv, Prefix

LEMMA CommitStep ==
  ASSUME TreeInv, NEW q \in Caller, Commit(q)
  PROVE  TreeInv'
  <1>0. /\ task[q].pc = "commit" /\ lock = q /\ lock' = None /\ trees # q
        /\ UNCHANGED <<height, trees, cache>>
        /\ read[q].pc = "answer" /\ read[q].asked.from = cursor /\ read[q] \in Read
        /\ Reading(read[q], height) /\ task[q].seen <= cursor /\ Fresh(task[q].seen)
        /\ cursor \in Nat /\ 1 <= cursor /\ height \in Nat
        /\ cursor' = read[q].answer.to
        /\ chunks' = IF read[q].events = << >> THEN chunks ELSE Append(chunks, read[q].events)
    BY KeptCall DEF Commit, CallerInv, Locked, Syncing
  <1>1. PICK r : r = read[q].answer
    OBVIOUS
  <1>2. /\ r.from = cursor /\ r.to \in Nat /\ cursor <= r.to /\ r.to <= height + 1
        /\ read[q].events = EventsOf(r) /\ cursor' = r.to
    BY <1>0, <1>1 DEF Reading, Read, Blocks
  <1>3. /\ Append(chunks, EventsOf(r)) \in Seq(Leaves)
        /\ FlattenSeq(Append(chunks, EventsOf(r))) = EventsOf([from |-> Deployed, to |-> r.to])
        /\ EventsOf(r) = << >> => r.to = cursor
    BY <1>2, CommittedGrows DEF TreeInv
  <1>4. /\ task \in [Caller -> Task] /\ read \in [Caller -> Read] /\ chunks \in Seq(Leaves)
        /\ height <= MaxBlock /\ MaxBlock \in Nat
        /\ task' = [task EXCEPT ![q].pc = "tree"] /\ read' = [read EXCEPT ![q] = Off]
    BY Types DEF TreeInv, Commit
  <1>5. /\ task' \in [Caller -> Task] /\ read' \in [Caller -> Read]
        /\ \A x \in Caller \ {q} : task'[x] = task[x] /\ read'[x] = read[x]
        /\ read'[q] = Off /\ task'[q].pc = "tree" /\ task'[q].seen = task[q].seen
    BY <1>4, OffReading DEF Task
  <1>6. TypeOK'
    <2>1. chunks' \in Seq(Leaves) /\ cursor' \in 1..(MaxBlock + 1)
      BY <1>0, <1>2, <1>3, <1>4
    <2>2. lock' \in Caller \cup {None}
      BY <1>0
    <2>3. QED
      BY <1>0, <1>5, <2>1, <2>2 DEF TreeInv, TypeOK, SyncerTypeOK
  <1>7. PoolInv'
    <2>1. FlattenSeq(chunks') = EventsOf([from |-> Deployed, to |-> cursor'])
      BY <1>0, <1>2, <1>3 DEF TreeInv, PoolInv
    <2>2. TreeIsPrefix'
      BY <1>0, <1>2, Types DEF TreeInv, PoolInv, TreeIsPrefix
    <2>3. QED
      BY <1>0, <1>2, <2>1, <2>2 DEF PoolInv
  <1>8. ASSUME NEW x \in Caller PROVE Reading(read[x], height)'
    <2>1. Reading(read'[x], height')
      BY <1>0, <1>5, OffReading DEF TreeInv
    <2>2. QED
      BY <2>1
  <1>9. \A x \in Caller : task'[x].pc = "build" =>
          task[x].pc = "build" /\ task'[x].tree = task[x].tree
    BY <1>5
  <1>10. ASSUME NEW x \in Caller, x # q PROVE CallerInv(x)'
    BY <1>0, <1>2, <1>5, <1>9, <1>10, CursorMoves, NoCaller
  <1>11. CallerInv(q)'
    <2>1. Fresh(task[q].seen)'
      BY <1>0, <1>5, <1>9 DEF Fresh
    <2>2. task'[q].seen <= cursor'
      BY <1>0, <1>2, <1>5, Types DEF TreeInv
    <2>3. QED
      BY <1>0, <1>5, <2>1, <2>2, NoCaller DEF CallerInv, Locked, Syncing
  <1>12. QED
    BY <1>6, <1>7, <1>8, <1>10, <1>11 DEF TreeInv

LEMMA ElsewhereStep ==
  ASSUME TreeInv, SyncElsewhere
  PROVE  TreeInv'
  <1>0. height \in Nat /\ height <= MaxBlock /\ MaxBlock \in Nat /\ cursor \in Nat /\ 1 <= cursor
    BY Types DEF TreeInv
  <1>1. PICK to \in (cursor + 1)..(height + 1) :
          cursor' = to /\ chunks' = Append(chunks, EventsOf([from |-> cursor, to |-> to]))
    BY DEF SyncElsewhere
  <1>2. lock = None /\ UNCHANGED <<height, read, lock, trees, cache, task>>
    BY DEF SyncElsewhere
  <1>3. PICK r : r = [from |-> cursor, to |-> to]
    OBVIOUS
  <1>4. r.from = cursor /\ r.to = to /\ to \in Nat /\ cursor <= to /\ to <= height + 1
    BY <1>0, <1>3
  <1>5. /\ chunks' \in Seq(Leaves)
        /\ FlattenSeq(chunks') = EventsOf([from |-> Deployed, to |-> cursor'])
    BY <1>1, <1>3, <1>4, CommittedGrows DEF TreeInv
  <1>6. TypeOK'
    <2>1. cursor' \in 1..(MaxBlock + 1)
      BY <1>0, <1>1, <1>4
    <2>2. QED
      BY <1>2, <1>5, <2>1 DEF TreeInv, TypeOK, SyncerTypeOK
  <1>7. PoolInv'
    <2>1. TreeIsPrefix'
      BY <1>0, <1>1, <1>2, <1>4, Types DEF TreeInv, PoolInv, TreeIsPrefix
    <2>2. QED
      BY <1>1, <1>2, <1>4, <1>5, <2>1 DEF PoolInv
  <1>8. ASSUME NEW x \in Caller PROVE CallerInv(x)'
    BY <1>0, <1>1, <1>2, <1>4, CursorMoves, NoCaller
  <1>9. \A x \in Caller : Reading(read[x], height)'
    BY <1>2 DEF TreeInv
  <1>10. QED
    BY <1>6, <1>7, <1>8, <1>9 DEF TreeInv

LEMMA GrowStep ==
  ASSUME TreeInv, Grow, UNCHANGED <<cursor, chunks, lock, trees, cache, task>>
  PROVE  TreeInv'
  <1>0. height \in Nat /\ height' = height + 1 /\ 1 <= height /\ height < MaxBlock
        /\ MaxBlock \in Nat /\ cursor \in Nat /\ UNCHANGED read /\ \A x \in Caller : read[x] \in Read
    BY Types DEF TreeInv, Grow
  <1>1. TypeOK' /\ PoolInv'
    BY <1>0 DEF TreeInv, TypeOK, SyncerTypeOK, PoolInv, TreeIsPrefix
  <1>2. ASSUME NEW x \in Caller PROVE Reading(read[x], height)'
    <2>1. Reading(read[x], height + 1)
      BY <1>0, ReadingGrows DEF TreeInv
    <2>2. QED
      BY <1>0, <2>1
  <1>3. \A x \in Caller : CallerInv(x)'
    BY <1>0 DEF TreeInv, CallerInv, Fresh, Prefix
  <1>4. QED
    BY <1>1, <1>2, <1>3 DEF TreeInv

-----------------------------------------------------------------------------
LEMMA InitTree == Init => TreeInv
  <1> SUFFICES ASSUME Init PROVE TreeInv
    OBVIOUS
  <1>0. MaxBlock \in Nat \ {0} /\ Deployed = 1
    BY SyncerAssumption DEF Deployed
  <1>1. TypeOK
    <2>1. Idle \in Task /\ Off \in Read
      BY IdleTask, OffReading
    <2>2. 1 \in 1..MaxBlock /\ 1 \in 1..(MaxBlock + 1) /\ << >> \in Seq(Leaves)
      BY <1>0
    <2>3. QED
      BY <1>0, <2>1, <2>2 DEF Init, SyncerInit, TypeOK, SyncerTypeOK
  <1>2. PoolInv
    <2>1. PICK r : r = [from |-> Deployed, to |-> cursor]
      OBVIOUS
    <2>2. EventsOf(r) = << >>
      BY <1>0, <2>1, NothingRead DEF Init
    <2>3. QED
      BY <1>0, <2>1, <2>2, FlattenEmpty DEF Init, SyncerInit, PoolInv, TreeIsPrefix
  <1>3. ASSUME NEW q \in Caller PROVE Reading(read[q], height) /\ CallerInv(q)
    <2>1. read[q] = Off /\ task[q].pc = "idle" /\ task[q].seen = 0 /\ lock # q /\ trees # q
      BY NoCaller, IdleTask DEF Init, SyncerInit
    <2>2. 0 <= cursor
      BY <1>0 DEF Init
    <2>3. QED
      BY <2>1, <2>2, OffReading DEF CallerInv, Locked, Syncing
  <1>4. QED
    BY <1>1, <1>2, <1>3 DEF TreeInv

LEMMA NextTree == TreeInv /\ [Next]_vars => TreeInv'
  <1> SUFFICES ASSUME TreeInv, [Next]_vars PROVE TreeInv'
    OBVIOUS
  <1>1. CASE UNCHANGED vars
    BY <1>1 DEF vars, TreeInv, TypeOK, SyncerTypeOK, PoolInv, TreeIsPrefix, CallerInv, Fresh, Prefix
  <1>2. ASSUME NEW q \in Caller,
               \/ WithdrawalInputs(q) \/ TakeLock(q) \/ BeginSync(q) \/ SyncPool(q)
               \/ PutSnapshot(q) \/ DropTree(q) \/ Commit(q)
               \/ FindTree(q) \/ InsertTree(q) \/ Return(q) \/ Abort(q)
        PROVE  TreeInv'
    BY <1>2, BeginStep, LockStep, BeginSyncStep, SyncPoolStep, PutStep, DropStep, CommitStep,
       FindStep, InsertStep, EndStep
  <1>3. QED
    BY <1>1, <1>2, ElsewhereStep, GrowStep DEF Next

LEMMA TreeInvariant == Spec => []TreeInv
  BY InitTree, NextTree, PTL DEF Spec

(* The state of the callers, of the pool and of the cache has its types. *)
THEOREM TypeCorrect == Spec => []TypeOK
  <1>1. TreeInv => TypeOK
    BY DEF TreeInv
  <1>2. QED
    BY TreeInvariant, <1>1, PTL

(* A snapshot is exactly the events of its range, whatever mix of saga and *)
(* endpoint answered and wherever each of them stood.                      *)
THEOREM SnapshotsAreExact == Spec => []AnswerIsExact
  <1>1. TreeInv => AnswerIsExact
    <2> SUFFICES ASSUME TreeInv, NEW q \in Caller, read[q].pc = "answer"
                 PROVE  /\ read[q].answer.from = read[q].asked.from
                        /\ read[q].answer.to \in read[q].answer.from..(height + 1)
                        /\ read[q].events = EventsOf(read[q].answer)
      BY DEF AnswerIsExact
    <2>1. read[q].answer \in Blocks /\ Reading(read[q], height) /\ height \in Nat
      BY Types DEF TreeInv, Read
    <2>2. QED
      BY <2>1 DEF Reading, Blocks
  <1>2. QED
    BY TreeInvariant, <1>1, PTL

(* A cached tree has every leaf of the pool once and at its index.         *)
THEOREM CachedTreeIsPrefix == Spec => []TreeIsPrefix
  <1>1. TreeInv => TreeIsPrefix
    BY DEF TreeInv, PoolInv
  <1>2. QED
    BY TreeInvariant, <1>1, PTL

(* A proof is taken from a tree that holds every leaf that was committed   *)
(* when the call's own sync began.                                         *)
THEOREM ProofsCoverEarlierSyncs == Spec => []ProofCoversEarlierSyncs
  <1>1. TreeInv => ProofCoversEarlierSyncs
    BY DEF TreeInv, CallerInv, ProofCoversEarlierSyncs
  <1>2. QED
    BY TreeInvariant, <1>1, PTL

=============================================================================
