------------------------------- MODULE IbcMgr -------------------------------
(***************************************************************************)
(* IBCMgrSvc: a batch is split into parts that several workers process,    *)
(* and their results are merged into one answer.                           *)
(*                                                                         *)
(* The parts of a batch share a key (descriptor, sequence number, message  *)
(* number).  The worker that finishes a part counts it in the record of    *)
(* its key, and the one that counts the last part answers the client.      *)
(* When there are too many records the oldest is answered as it stands and *)
(* removed; a later part of that batch then starts a new record.           *)
(***************************************************************************)
EXTENDS Integers, FiniteSets, FiniteSetsExt

CONSTANTS
  NumBatch,   \* batches, numbered as their message numbers: 1 is the oldest
  Total,      \* parts of a batch
  Workers,    \* threads of IBCMgrSvc
  QueCap,     \* parts that fit in its queues
  MaxRecord   \* max_ibcr_record_

Batches == 1 .. NumBatch

ASSUME IbcAssumption ==
  /\ NumBatch \in Nat /\ Total \in Nat \ {0} /\ QueCap \in Nat /\ MaxRecord \in Nat
  /\ IsFiniteSet(Workers)

VARIABLES
  left,     \* by batch: parts not yet given to IBCMgrSvc
  waiting,  \* by batch: parts in its queues
  hand,     \* by worker: the batch whose part it has processed, or 0
  rec,      \* ibcr_map_: cnum by batch, 0 where there is no record
  answers,  \* history, by batch: the cnums of its answers to ISGWAck, summed up
  lost,     \* history: parts refused by the queues, too old, or dropped
  starved   \* history: batches that found no memory for their last answer

vars == <<left, waiting, hand, rec, answers, lost, starved>>

Zero == [b \in Batches |-> 0]

Init ==
  /\ left = [b \in Batches |-> Total]
  /\ waiting = Zero
  /\ hand = [w \in Workers |-> 0]
  /\ rec = Zero
  /\ answers = Zero
  /\ lost = Zero
  /\ starved = {}

Queued == MapThenSumSet(LAMBDA b : waiting[b], Batches)

\* CMD_TEST gives one more part to IBCMgrSvc, which never waits
PutPart(b) ==
  /\ left[b] > 0
  /\ left' = [left EXCEPT ![b] = @ - 1]
  /\ IF Queued < QueCap
     THEN waiting' = [waiting EXCEPT ![b] = @ + 1] /\ UNCHANGED lost
     ELSE lost' = [lost EXCEPT ![b] = @ + 1] /\ UNCHANGED waiting
  /\ UNCHANGED <<hand, rec, answers, starved>>

\* slip: a worker goes on when the queue gave it nothing
TakeAny(b) == waiting' = [waiting EXCEPT ![b] = @ - 1]

Take(b) ==
  /\ waiting[b] > 0
  /\ waiting' = [waiting EXCEPT ![b] = @ - 1]

\* no operation for its command, or it has waited longer than discard_time_
Discard(w, b) ==
  /\ hand[w] = 0
  /\ Take(b)
  /\ lost' = [lost EXCEPT ![b] = @ + 1]
  /\ UNCHANGED <<left, hand, rec, answers, starved>>

\* the part is processed, outside the lock of the map
Process(w, b) ==
  /\ hand[w] = 0
  /\ Take(b)
  /\ hand' = [hand EXCEPT ![w] = b]
  /\ UNCHANGED <<left, rec, answers, lost, starved>>

-----------------------------------------------------------------------------
(* What a worker does with its part under ibcr_map_lock_.                  *)

Records == {b \in Batches : rec[b] > 0}

\* slip: the limit is tested after the new record is in
TooManyLate == Cardinality(Records) > MaxRecord + 1

TooMany == Cardinality(Records) > MaxRecord
Oldest == Min(Records)

Answer(b, n) == [answers EXCEPT ![b] = @ + n]

\* slip: a batch is never seen to be complete
CountPastEnd(r, as, b) ==
  /\ rec' = [r EXCEPT ![b] = @ + 1]
  /\ answers' = as
  /\ UNCHANGED starved

\* One part of b is counted in the records r; the last one answers the batch
\* (answers so far: as) and removes its record, unless there is no memory.
Count(r, as, b) ==
  LET n == r[b] + 1 IN
  \/ /\ n < Total
     /\ rec' = [r EXCEPT ![b] = n]
     /\ answers' = as
     /\ UNCHANGED starved
  \/ /\ n >= Total
     /\ rec' = [r EXCEPT ![b] = 0]
     /\ answers' = [as EXCEPT ![b] = @ + n]
     /\ UNCHANGED starved
  \/ /\ n >= Total
     /\ rec' = [r EXCEPT ![b] = n]
     /\ answers' = as
     /\ starved' = starved \cup {b}

Merge(w) ==
  LET b == hand[w] IN
  /\ b # 0
  /\ hand' = [hand EXCEPT ![w] = 0]
  /\ Count(rec, answers, b)
  /\ rec[b] = 0 => ~TooMany
  /\ UNCHANGED <<left, waiting, lost>>

\* slip: the new record takes the place of the oldest, which is not answered
MakeRoomSilently(w) ==
  LET b == hand[w] IN
  /\ b # 0
  /\ rec[b] = 0 /\ TooMany
  /\ hand' = [hand EXCEPT ![w] = 0]
  /\ Count([rec EXCEPT ![Oldest] = 0], answers, b)
  /\ UNCHANGED <<left, waiting, lost>>

\* a new record, when there are too many
MergeMakingRoom(w) ==
  LET b == hand[w] IN
  /\ b # 0
  /\ rec[b] = 0 /\ TooMany
  /\ hand' = [hand EXCEPT ![w] = 0]
  /\ Count([rec EXCEPT ![Oldest] = 0], Answer(Oldest, rec[Oldest]), b)
  /\ UNCHANGED <<left, waiting, lost>>

\* no memory to answer the oldest: this part is given up instead
MergeNoRoom(w) ==
  LET b == hand[w] IN
  /\ b # 0
  /\ rec[b] = 0 /\ TooMany
  /\ hand' = [hand EXCEPT ![w] = 0]
  /\ lost' = [lost EXCEPT ![b] = @ + 1]
  /\ UNCHANGED <<left, waiting, rec, answers, starved>>

WorkerStep(w) ==
  \/ \E b \in Batches : Process(w, b) \/ Discard(w, b)
  \/ Merge(w) \/ MergeMakingRoom(w) \/ MergeNoRoom(w)

Next ==
  \/ \E b \in Batches : PutPart(b)
  \/ \E w \in Workers : WorkerStep(w)

Spec == Init /\ [][Next]_vars
FairSpec == Spec /\ \A w \in Workers : WF_vars(WorkerStep(w))

-----------------------------------------------------------------------------
TypeOK ==
  /\ left \in [Batches -> 0 .. Total]
  /\ waiting \in [Batches -> 0 .. Total]
  /\ hand \in [Workers -> Batches \cup {0}]
  /\ rec \in [Batches -> 0 .. Total]
  /\ answers \in [Batches -> 0 .. Total]
  /\ lost \in [Batches -> 0 .. Total]
  /\ starved \subseteq Batches

InHand(b) == Cardinality({w \in Workers : hand[w] = b})

\* Every part of a batch is in one place: not yet given, queued, with a worker,
\* lost, counted in the record or in exactly one answer.  So no part is counted
\* twice although records are evicted and started afresh, and a batch answered
\* in full is never answered again (IBCMgrSvc::process).
EveryPartOnce == \A b \in Batches :
  Total = left[b] + waiting[b] + InHand(b) + lost[b] + rec[b] + answers[b]

\* max_ibcr_record_ bounds the records, but for the one being started.
RecordsBounded == Cardinality(Records) <= MaxRecord + 1

\* A batch all of whose parts were given to IBCMgrSvc is answered, in full or
\* (evicted) in part, unless a part was lost or memory ran out.
EveryBatchAnswered == \A b \in Batches :
  left[b] = 0 ~> answers[b] > 0 \/ lost[b] > 0 \/ b \in starved
=============================================================================
