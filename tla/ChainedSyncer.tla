---------------------------- MODULE ChainedSyncer ----------------------------
(***************************************************************************)
(* The syncers of vault/tornadocash/syncer.rs.  A call asks for the events *)
(* of a pool in a half-open block range.  The chained syncer asks the saga *)
(* (a CDN) first and the endpoint for what the saga did not answer; the    *)
(* endpoint is read span by span.  Blocks arrive between any two requests, *)
(* and the saga and the endpoint each answer from behind the head.         *)
(*                                                                         *)
(* Every block holds one deposit, so a block's number is its event.        *)
(* Assumed of the saga: it answers with all events of the range it names,  *)
(* and names no block before the first it was asked for.  Assumed of the   *)
(* endpoint: it has the logs of every block up to the height it reports.   *)
(***************************************************************************)
EXTENDS Integers, Sequences

CONSTANTS
    Caller,     \* the tasks that may have a call under way
    HasSaga,    \* whether an indexer URL is configured
    Span,       \* the most blocks one log request may cover
    MaxBlock    \* bound: the chain stops growing at this height

ASSUME SyncerAssumption ==
    /\ HasSaga \in BOOLEAN
    /\ Span \in Nat \ {0}
    /\ MaxBlock \in Nat \ {0}

Deployed == 1   \* the block that deployed the pool

Blocks == [from : Nat, to : Nat]
NoBlocks == [from |-> 0, to |-> 0]

VARIABLES
    height,     \* the chain's head
    read        \* each caller's call

Read == [pc : {"off", "saga", "height", "span", "answer"},
         asked : Blocks,         \* what the caller asked for
         saga : Blocks,          \* what the saga answered, when it is kept
         rest : Blocks,          \* what the endpoint is asked for
         at : Nat,              \* the next block to request logs from
         answer : Blocks,        \* the range of the snapshot
         events : Seq(Nat)]     \* its events so far

Off == [pc |-> "off", asked |-> NoBlocks, saga |-> NoBlocks, rest |-> NoBlocks,
        at |-> 0, answer |-> NoBlocks, events |-> <<>>]

SyncerTypeOK ==
    /\ height \in 1..MaxBlock
    /\ read \in [Caller -> Read]

SyncerInit ==
    /\ height = 1
    /\ read = [q \in Caller |-> Off]

-----------------------------------------------------------------------------
Larger(a, b) == IF a >= b THEN a ELSE b
Smaller(a, b) == IF a <= b THEN a ELSE b

(* The events of a range, in chain order. *)
EventsOf(r) == [i \in 1..Larger(r.to - r.from, 0) |-> r.from + i - 1]

(* A call to the endpoint, which starts with its height. *)
AskEndpoint(t, r) == [t EXCEPT !.pc = "height", !.rest = r]

(* The saga's answer is dropped and the whole range read from the endpoint. *)
AskWhole(t) == AskEndpoint([t EXCEPT !.saga = NoBlocks, !.events = <<>>], t.asked)

(* A call without a saga. *)
Call(r) ==
    IF HasSaga THEN [Off EXCEPT !.pc = "saga", !.asked = r]
    ELSE AskWhole([Off EXCEPT !.asked = r])

Answer(t, r) == [t EXCEPT !.pc = "answer", !.answer = r]

(* The endpoint has answered with range r: alone, or as the tail of what   *)
(* the saga answered, which it has to continue.                            *)
Join(t, r) ==
    IF t.saga = NoBlocks THEN Answer(t, r)
    ELSE IF r.from # t.saga.to THEN AskWhole(t)
    ELSE Answer(t, [from |-> t.saga.from, to |-> Larger(r.to, t.saga.to)])

(* The saga has answered with range r. *)
SagaAnswered(t, r) ==
    LET kept == [t EXCEPT !.events = EventsOf(r)]
    IN  IF r.from > t.asked.from THEN AskWhole(t)
        ELSE IF r.to >= t.asked.to THEN Answer(kept, r)
        ELSE AskEndpoint([kept EXCEPT !.saga = r], [from |-> r.to, to |-> t.asked.to])

-----------------------------------------------------------------------------
AskSaga(q) ==
    /\ read[q].pc = "saga"
    /\ \E from \in read[q].asked.from..(height + 1) : \E to \in from..(height + 1) :
          read' = [read EXCEPT ![q] = SagaAnswered(@, [from |-> from, to |-> to])]
    /\ UNCHANGED height

(* A pool the saga does not have, or a saga that is down. *)
SagaFails(q) ==
    /\ read[q].pc = "saga"
    /\ read' = [read EXCEPT ![q] = AskWhole(@)]
    /\ UNCHANGED height

(* block_range: no further than the endpoint's head. *)
BlockRange(r, h) ==
    LET from == Larger(r.from, Deployed)
    IN  [from |-> from, to |-> Larger(Smaller(r.to, h + 1), from)]

ReadBlockRange(q) ==
    /\ read[q].pc = "height"
    /\ \E h \in 0..height :
          LET r == BlockRange(read[q].rest, h)
          IN  read' = [read EXCEPT ![q] =
                  IF r.from = r.to THEN Join(@, r)
                  ELSE [@ EXCEPT !.pc = "span", !.rest = r, !.at = r.from]]
    /\ UNCHANGED height

(* Mutant: the next span starts at the end of the last one. *)
ReadSpanAgain(q) ==
    LET t == read[q]
        last == Smaller(t.at + Span - 1, t.rest.to - 1)
        more == [t EXCEPT !.events = @ \o EventsOf([from |-> t.at, to |-> last + 1]),
                          !.at = Larger(last, t.at + 1)]
    IN
    /\ t.pc = "span"
    /\ read' = [read EXCEPT ![q] = IF last >= t.rest.to - 1 THEN Join(more, t.rest) ELSE more]
    /\ UNCHANGED height

(* One log request; the last one ends the read. *)
ReadSpan(q) ==
    LET t == read[q]
        last == Smaller(t.at + Span - 1, t.rest.to - 1)
        more == [t EXCEPT !.events = @ \o EventsOf([from |-> t.at, to |-> last + 1]),
                          !.at = last + 1]
    IN
    /\ t.pc = "span"
    /\ read' = [read EXCEPT ![q] = IF last >= t.rest.to - 1 THEN Join(more, t.rest) ELSE more]
    /\ UNCHANGED height

Grow ==
    /\ height < MaxBlock
    /\ height' = height + 1
    /\ UNCHANGED read

SyncerStep(q) == AskSaga(q) \/ SagaFails(q) \/ ReadBlockRange(q) \/ ReadSpan(q)

-----------------------------------------------------------------------------
(* Whatever mix of saga and endpoint answered, and wherever each of them   *)
(* stood: a snapshot starts where the call asked it to, holds every event  *)
(* of its range once and in order, and never reaches past the chain.       *)
AnswerIsExact ==
    \A q \in Caller : read[q].pc = "answer" =>
        /\ read[q].answer.from = read[q].asked.from
        /\ read[q].answer.to \in read[q].answer.from..(height + 1)
        /\ read[q].events = EventsOf(read[q].answer)
=============================================================================
