---------------------------- MODULE IbcMgrProof -----------------------------
(***************************************************************************)
(* Proofs about the merging of the answers of a batch (IBCMgrSvc), for     *)
(* every number of batches, of parts, of workers and of records.           *)
(***************************************************************************)
EXTENDS IbcMgr, Lemmas

\* Where the parts of batch b are.
Account(b) == left[b] + waiting[b] + InHand(b) + lost[b] + rec[b] + answers[b]

\* The counts are natural numbers, of any size.
Counts ==
  /\ left \in [Batches -> Nat] /\ waiting \in [Batches -> Nat]
  /\ rec \in [Batches -> Nat] /\ answers \in [Batches -> Nat]
  /\ lost \in [Batches -> Nat]
  /\ hand \in [Workers -> Batches \cup {0}]
  /\ starved \subseteq Batches

\* The inductive invariant: that the parts add up to the batch is what bounds every
\* count by it.
IbcInv == Counts /\ EveryPartOnce /\ RecordsBounded

LEMMA BatchNumbers == Batches \subseteq Nat \ {0} /\ IsFiniteSet(Batches)
BY IbcAssumption, FS_Interval DEF Batches

\* A batch is in the hands of a number of workers.
LEMMA InHandIsNatural == \A b : InHand(b) \in Nat
<1>1. \A b : IsFiniteSet({w \in Workers : hand[w] = b})
  BY IbcAssumption, FS_Subset
<1> QED BY <1>1, FS_CardinalityType DEF InHand

\* The same of the next state.
LEMMA InHandWillBeNatural == \A b : InHand(b)' \in Nat
<1>1. \A b : IsFiniteSet({w \in Workers : hand'[w] = b})
  BY IbcAssumption, FS_Subset
<1> QED BY <1>1, FS_CardinalityType DEF InHand

LEMMA InvTypeOK == IbcInv => TypeOK
<1> SUFFICES ASSUME IbcInv PROVE TypeOK
  OBVIOUS
<1>1. ASSUME NEW b \in Batches
      PROVE  /\ left[b] \in 0 .. Total /\ waiting[b] \in 0 .. Total
             /\ rec[b] \in 0 .. Total /\ answers[b] \in 0 .. Total
             /\ lost[b] \in 0 .. Total
  <2>1. Total = left[b] + waiting[b] + InHand(b) + lost[b] + rec[b] + answers[b]
    BY DEF IbcInv, EveryPartOnce
  <2>2. /\ left[b] \in Nat /\ waiting[b] \in Nat /\ rec[b] \in Nat
        /\ answers[b] \in Nat /\ lost[b] \in Nat
    BY DEF IbcInv, Counts
  <2>3. PICK n \in Nat : n = InHand(b)
    BY InHandIsNatural
  <2> QED BY <2>1, <2>2, <2>3, IbcAssumption
<1> QED BY <1>1 DEF IbcInv, Counts, TypeOK

\* A worker that takes a part of b has one more of b, and no other batch changes.
LEMMA HandTakes ==
  ASSUME Counts, NEW w \in Workers, NEW b \in Batches,
         hand[w] = 0, hand' = [hand EXCEPT ![w] = b]
  PROVE  /\ InHand(b)' = InHand(b) + 1
         /\ \A c \in Batches \ {b} : InHand(c)' = InHand(c)
<1>0. b # 0
  BY BatchNumbers
<1> DEFINE S(c) == {v \in Workers : hand[v] = c}
<1>1. {v \in Workers : hand'[v] = b} = S(b) \cup {w}
  BY <1>0 DEF Counts
<1>2. w \notin S(b) /\ IsFiniteSet(S(b))
  BY <1>0, IbcAssumption, FS_Subset
<1>3. Cardinality(S(b) \cup {w}) = Cardinality(S(b)) + 1
  BY <1>2, FS_AddElement
<1>4. \A c \in Batches \ {b} : {v \in Workers : hand'[v] = c} = S(c)
  BY <1>0, BatchNumbers DEF Counts
<1> QED BY <1>1, <1>3, <1>4 DEF InHand

\* A worker that puts down its part has one less of it.
LEMMA HandLeaves ==
  ASSUME Counts, NEW w \in Workers, NEW b \in Batches,
         hand[w] = b, hand' = [hand EXCEPT ![w] = 0]
  PROVE  /\ InHand(b) = InHand(b)' + 1
         /\ \A c \in Batches \ {b} : InHand(c)' = InHand(c)
<1>0. b # 0
  BY BatchNumbers
<1> DEFINE T(c) == {v \in Workers : hand'[v] = c}
<1>1. {v \in Workers : hand[v] = b} = T(b) \cup {w}
  BY <1>0 DEF Counts
<1>2. w \notin T(b) /\ IsFiniteSet(T(b))
  BY <1>0, IbcAssumption, FS_Subset DEF Counts
<1>3. Cardinality(T(b) \cup {w}) = Cardinality(T(b)) + 1
  BY <1>2, FS_AddElement
<1>4. \A c \in Batches \ {b} : T(c) = {v \in Workers : hand[v] = c}
  BY <1>0, BatchNumbers DEF Counts
<1> QED BY <1>1, <1>3, <1>4 DEF InHand

LEMMA HandStays ==
  ASSUME UNCHANGED hand
  PROVE  \A b \in Batches : InHand(b)' = InHand(b)
BY DEF InHand

LEMMA RecordsFinite ==
  ASSUME NEW S, S \subseteq Batches
  PROVE  IsFiniteSet(S) /\ Cardinality(S) \in Nat
BY BatchNumbers, FS_Subset, FS_CardinalityType

LEMMA FewRecords ==
  ASSUME IbcInv, Records' \subseteq Records
  PROVE  RecordsBounded'
<1>1. Records \subseteq Batches
  BY DEF Records
<1>2. Cardinality(Records') <= Cardinality(Records)
  BY <1>1, RecordsFinite, FS_Subset
<1>3. Cardinality(Records') \in Nat /\ Cardinality(Records) \in Nat
  BY <1>1, RecordsFinite
<1> QED BY <1>2, <1>3, IbcAssumption DEF IbcInv, RecordsBounded

LEMMA OldestIsThere ==
  ASSUME Counts, TooMany
  PROVE  Oldest \in Records
<1>1. Records \subseteq Batches /\ Records \subseteq Nat
  BY BatchNumbers DEF Records
<1>2. Records # {}
  BY FS_EmptySet, IbcAssumption DEF TooMany
<1>3. \E n \in Records : \A m \in Records : n <= m
  BY <1>1, <1>2, LeastNatural
<1> QED BY <1>3 DEF Oldest, Min

LEMMA Balanced ==
  ASSUME IbcInv, Counts', RecordsBounded',
         \A b \in Batches : Account(b)' = Account(b)
  PROVE  IbcInv'
BY DEF IbcInv, EveryPartOnce, Account

\* Counting one part of b in the records r, with the answers told so far.
\* A part that moves from one count to another keeps the sum.
LEMMA CountMoves ==
  ASSUME NEW r \in [Batches -> Nat], NEW told \in [Batches -> Nat],
         NEW b \in Batches, Count(r, told, b), starved \subseteq Batches
  PROVE  /\ rec' \in [Batches -> Nat] /\ answers' \in [Batches -> Nat]
         /\ starved' \subseteq Batches
         /\ rec'[b] + answers'[b] = r[b] + told[b] + 1
         /\ \A c \in Batches \ {b} : rec'[c] = r[c] /\ answers'[c] = told[c]
<1>1. CASE rec' = [r EXCEPT ![b] = r[b] + 1] /\ answers' = told /\ UNCHANGED starved
  BY <1>1
<1>2. CASE /\ rec' = [r EXCEPT ![b] = 0] /\ answers' = [told EXCEPT ![b] = @ + (r[b] + 1)]
           /\ UNCHANGED starved
  <2>1. r[b] \in Nat /\ told[b] \in Nat
    OBVIOUS
  <2>2. rec'[b] = 0 /\ answers'[b] = told[b] + (r[b] + 1)
    BY <1>2
  <2>3. rec' \in [Batches -> Nat] /\ answers' \in [Batches -> Nat]
    BY <1>2, <2>1
  <2>4. rec'[b] + answers'[b] = r[b] + told[b] + 1
    BY <2>1, <2>2
  <2> QED BY <1>2, <2>3, <2>4
<1>3. CASE rec' = [r EXCEPT ![b] = r[b] + 1] /\ answers' = told /\ starved' = starved \cup {b}
  BY <1>3
<1> QED BY <1>1, <1>2, <1>3 DEF Count

LEMMA OneMore ==
  ASSUME NEW S, IsFiniteSet(S), NEW b
  PROVE  Cardinality(S \cup {b}) <= Cardinality(S) + 1 /\ IsFiniteSet(S \cup {b})
<1>1. CASE b \notin S
  <2>1. Cardinality(S) \in Nat
    BY FS_CardinalityType
  <2> QED BY <1>1, <2>1, FS_AddElement
<1>2. CASE b \in S
  <2>1. S \cup {b} = S
    BY <1>2
  <2>2. \A n \in Nat : n <= n + 1
    OBVIOUS
  <2>3. Cardinality(S) <= Cardinality(S) + 1
    BY <2>2, FS_CardinalityType
  <2> QED BY <2>1, <2>3, Zenon
<1> QED BY <1>1, <1>2

LEMMA RoomForOne ==
  ASSUME NEW S, S \subseteq Batches, Cardinality(S) <= MaxRecord, NEW b \in Batches,
         Records' \subseteq S \cup {b}
  PROVE  RecordsBounded'
<1>1. IsFiniteSet(S) /\ Cardinality(S) \in Nat
  BY RecordsFinite
<1>2. Cardinality(S \cup {b}) <= Cardinality(S) + 1 /\ IsFiniteSet(S \cup {b})
  BY <1>1, OneMore
<1>3. Cardinality(S \cup {b}) \in Nat
  BY <1>2, FS_CardinalityType
<1>4. Cardinality(Records') <= Cardinality(S \cup {b}) /\ Cardinality(Records') \in Nat
  BY <1>2, FS_Subset, FS_CardinalityType
<1> QED BY <1>1, <1>2, <1>3, <1>4, IbcAssumption DEF RecordsBounded

LEMMA PutKeeps ==
  ASSUME IbcInv, NEW b \in Batches, PutPart(b)
  PROVE  IbcInv'
<1>1. \A c \in Batches :
        /\ left[c] \in Nat /\ waiting[c] \in Nat /\ lost[c] \in Nat /\ rec[c] \in Nat
        /\ answers[c] \in Nat /\ InHand(c) \in Nat
  BY InHandIsNatural DEF IbcInv, Counts
<1>2. \A c \in Batches :
        /\ left'[c] + waiting'[c] + lost'[c] = left[c] + waiting[c] + lost[c]
        /\ left'[c] \in Nat /\ waiting'[c] \in Nat /\ lost'[c] \in Nat
  BY <1>1 DEF PutPart, IbcInv, Counts
<1>3. UNCHANGED <<hand, rec, answers, starved>> /\ \A c \in Batches : InHand(c)' = InHand(c)
  BY HandStays DEF PutPart
<1>4. \A c \in Batches : Account(c)' = Account(c)
  BY <1>1, <1>2, <1>3 DEF Account
<1>5. Counts'
  BY <1>2, <1>3 DEF PutPart, IbcInv, Counts
<1>6. RecordsBounded'
  BY <1>3, FewRecords DEF Records
<1> QED BY <1>4, <1>5, <1>6, Balanced

LEMMA DiscardKeeps ==
  ASSUME IbcInv, NEW w \in Workers, NEW b \in Batches, Discard(w, b)
  PROVE  IbcInv'
<1>1. \A c \in Batches :
        /\ left[c] \in Nat /\ waiting[c] \in Nat /\ lost[c] \in Nat /\ rec[c] \in Nat
        /\ answers[c] \in Nat /\ InHand(c) \in Nat
  BY InHandIsNatural DEF IbcInv, Counts
<1>2. \A c \in Batches :
        /\ waiting'[c] + lost'[c] = waiting[c] + lost[c]
        /\ waiting'[c] \in Nat /\ lost'[c] \in Nat
  BY <1>1 DEF Discard, Take, IbcInv, Counts
<1>3. UNCHANGED <<left, hand, rec, answers, starved>> /\ \A c \in Batches : InHand(c)' = InHand(c)
  BY HandStays DEF Discard
<1>4. \A c \in Batches : Account(c)' = Account(c)
  BY <1>1, <1>2, <1>3 DEF Account
<1>5. Counts'
  BY <1>2, <1>3 DEF Discard, Take, IbcInv, Counts
<1>6. RecordsBounded'
  BY <1>3, FewRecords DEF Records
<1> QED BY <1>4, <1>5, <1>6, Balanced

LEMMA ProcessKeeps ==
  ASSUME IbcInv, NEW w \in Workers, NEW b \in Batches, Process(w, b)
  PROVE  IbcInv'
<1>1. \A c \in Batches :
        /\ left[c] \in Nat /\ waiting[c] \in Nat /\ lost[c] \in Nat /\ rec[c] \in Nat
        /\ answers[c] \in Nat /\ InHand(c) \in Nat
  BY InHandIsNatural DEF IbcInv, Counts
<1>2. UNCHANGED <<left, rec, answers, lost, starved>>
  BY DEF Process
<1>3. /\ InHand(b)' = InHand(b) + 1
      /\ \A c \in Batches \ {b} : InHand(c)' = InHand(c)
  BY HandTakes DEF Process, IbcInv
<1>4. /\ waiting'[b] = waiting[b] - 1 /\ waiting[b] > 0
      /\ \A c \in Batches \ {b} : waiting'[c] = waiting[c]
  BY DEF Process, Take, IbcInv, Counts
<1>5. Account(b)' = Account(b)
  BY <1>1, <1>2, <1>3, <1>4 DEF Account
<1>6. \A c \in Batches \ {b} : Account(c)' = Account(c)
  BY <1>2, <1>3, <1>4 DEF Account
<1>7. Counts'
  BY <1>1, <1>2, <1>4 DEF Process, Take, IbcInv, Counts
<1>8. RecordsBounded'
  BY <1>2, FewRecords DEF Records
<1> QED BY <1>5, <1>6, <1>7, <1>8, Balanced

\* A part leaves the hand of w and is counted in r and told, which are what the
\* records and the answers were, but for the oldest being answered.
LEMMA MergeMoves ==
  ASSUME IbcInv, NEW w \in Workers, NEW b \in Batches, hand[w] = b,
         hand' = [hand EXCEPT ![w] = 0], UNCHANGED <<left, waiting, lost>>,
         NEW r \in [Batches -> Nat], NEW told \in [Batches -> Nat], Count(r, told, b),
         \A c \in Batches : r[c] + told[c] = rec[c] + answers[c]
  PROVE  /\ Counts'
         /\ \A c \in Batches : Account(c)' = Account(c)
         /\ \A c \in Batches : rec'[c] > 0 => r[c] > 0 \/ c = b
<1>1. \A c \in Batches :
        /\ left[c] \in Nat /\ waiting[c] \in Nat /\ lost[c] \in Nat /\ rec[c] \in Nat
        /\ answers[c] \in Nat /\ InHand(c) \in Nat /\ InHand(c)' \in Nat
        /\ r[c] \in Nat /\ told[c] \in Nat
  BY InHandIsNatural, InHandWillBeNatural DEF IbcInv, Counts
<1>2. /\ rec' \in [Batches -> Nat] /\ answers' \in [Batches -> Nat]
      /\ starved' \subseteq Batches
      /\ rec'[b] + answers'[b] = r[b] + told[b] + 1
      /\ \A c \in Batches \ {b} : rec'[c] = r[c] /\ answers'[c] = told[c]
  <2>1. starved \subseteq Batches
    BY DEF IbcInv, Counts
  <2> QED BY <2>1, CountMoves
<1>3. /\ InHand(b) = InHand(b)' + 1
      /\ \A c \in Batches \ {b} : InHand(c)' = InHand(c)
  BY HandLeaves DEF IbcInv
<1>4. Account(b)' = Account(b)
  <2>1. rec'[b] \in Nat /\ answers'[b] \in Nat /\ r[b] + told[b] = rec[b] + answers[b]
    BY <1>2
  <2> QED BY <1>1, <1>2, <1>3, <2>1 DEF Account
<1>5. \A c \in Batches \ {b} : Account(c)' = Account(c)
  BY <1>1, <1>2, <1>3 DEF Account
<1>6. Counts'
  BY <1>2 DEF IbcInv, Counts
<1> QED BY <1>2, <1>4, <1>5, <1>6

LEMMA MergeKeeps ==
  ASSUME IbcInv, NEW w \in Workers, Merge(w)
  PROVE  IbcInv'
<1>1. PICK b \in Batches : b = hand[w]
  BY DEF Merge, IbcInv, Counts
<1>2. /\ hand' = [hand EXCEPT ![w] = 0] /\ Count(rec, answers, b)
      /\ UNCHANGED <<left, waiting, lost>> /\ (rec[b] = 0 => ~TooMany)
  BY <1>1 DEF Merge
<1>3. rec \in [Batches -> Nat] /\ answers \in [Batches -> Nat]
  BY DEF IbcInv, Counts
<1>4. /\ Counts' /\ \A c \in Batches : Account(c)' = Account(c)
      /\ \A c \in Batches : rec'[c] > 0 => rec[c] > 0 \/ c = b
  BY <1>1, <1>2, <1>3, MergeMoves
<1>5. Records' \subseteq Records \cup {b} /\ Records \subseteq Batches
  BY <1>4 DEF Records
<1>6. CASE rec[b] > 0
  <2>1. Records' \subseteq Records
    BY <1>5, <1>6 DEF Records
  <2> QED BY <1>4, <2>1, FewRecords, Balanced
<1>7. CASE ~TooMany
  <2>1. Cardinality(Records) <= MaxRecord
    BY <1>5, <1>7, RecordsFinite, IbcAssumption DEF TooMany
  <2>2. RecordsBounded'
    BY <1>5, <2>1, RoomForOne
  <2> QED BY <1>4, <2>2, Balanced
<1> QED BY <1>2, <1>3, <1>6, <1>7

LEMMA MakingRoomKeeps ==
  ASSUME IbcInv, NEW w \in Workers, MergeMakingRoom(w)
  PROVE  IbcInv'
<1>1. PICK b \in Batches : b = hand[w]
  BY DEF MergeMakingRoom, IbcInv, Counts
<1>2. PICK o \in Records : o = Oldest
  BY OldestIsThere DEF MergeMakingRoom, IbcInv
<1> DEFINE r == [rec EXCEPT ![o] = 0]
           told == [answers EXCEPT ![o] = @ + rec[o]]
<1>3. /\ hand' = [hand EXCEPT ![w] = 0] /\ Count(r, told, b)
      /\ UNCHANGED <<left, waiting, lost>>
  BY <1>1, <1>2 DEF MergeMakingRoom, Answer
<1>4. rec \in [Batches -> Nat] /\ answers \in [Batches -> Nat] /\ o \in Batches
  BY DEF IbcInv, Counts, Records
<1>5. r \in [Batches -> Nat] /\ told \in [Batches -> Nat]
      /\ \A c \in Batches : r[c] + told[c] = rec[c] + answers[c]
  BY <1>4
<1>6. \A c \in Batches : r[c] > 0 => rec[c] > 0 /\ c # o
  BY <1>4
<1> HIDE DEF r, told
<1>7. /\ Counts' /\ \A c \in Batches : Account(c)' = Account(c)
      /\ \A c \in Batches : rec'[c] > 0 => r[c] > 0 \/ c = b
  BY <1>1, <1>3, <1>5, MergeMoves
<1>8. Records' \subseteq (Records \ {o}) \cup {b} /\ Records \subseteq Batches
  BY <1>6, <1>7 DEF Records
<1>9. Cardinality(Records \ {o}) <= MaxRecord
  <2>1. IsFiniteSet(Records) /\ Cardinality(Records) \in Nat
    BY <1>8, RecordsFinite
  <2>2. Cardinality(Records \ {o}) = Cardinality(Records) - 1
    BY <1>2, <2>1, FS_RemoveElement
  <2> QED BY <2>1, <2>2, IbcAssumption DEF IbcInv, RecordsBounded
<1>10. RecordsBounded'
  BY <1>8, <1>9, RoomForOne
<1> QED BY <1>7, <1>10, Balanced

LEMMA NoRoomKeeps ==
  ASSUME IbcInv, NEW w \in Workers, MergeNoRoom(w)
  PROVE  IbcInv'
<1>1. PICK b \in Batches : b = hand[w]
  BY DEF MergeNoRoom, IbcInv, Counts
<1>2. /\ hand' = [hand EXCEPT ![w] = 0] /\ lost' = [lost EXCEPT ![b] = @ + 1]
      /\ UNCHANGED <<left, waiting, rec, answers, starved>>
  BY <1>1 DEF MergeNoRoom
<1>3. \A c \in Batches :
        /\ left[c] \in Nat /\ waiting[c] \in Nat /\ lost[c] \in Nat /\ rec[c] \in Nat
        /\ answers[c] \in Nat /\ InHand(c) \in Nat /\ InHand(c)' \in Nat
  BY InHandIsNatural, InHandWillBeNatural DEF IbcInv, Counts
<1>4. /\ InHand(b) = InHand(b)' + 1
      /\ \A c \in Batches \ {b} : InHand(c)' = InHand(c)
  BY <1>1, <1>2, HandLeaves DEF IbcInv
<1>5. lost'[b] = lost[b] + 1 /\ \A c \in Batches \ {b} : lost'[c] = lost[c]
  BY <1>2 DEF IbcInv, Counts
<1>6. Account(b)' = Account(b)
  BY <1>2, <1>3, <1>4, <1>5 DEF Account
<1>7. \A c \in Batches \ {b} : Account(c)' = Account(c)
  BY <1>2, <1>4, <1>5 DEF Account
<1>8. Counts'
  BY <1>2 DEF IbcInv, Counts
<1>9. RecordsBounded'
  BY <1>2, FewRecords DEF Records
<1> QED BY <1>6, <1>7, <1>8, <1>9, Balanced

LEMMA IbcSteps == IbcInv /\ [Next]_vars => IbcInv'
<1> SUFFICES ASSUME IbcInv, [Next]_vars PROVE IbcInv'
  OBVIOUS
<1>1. ASSUME NEW b \in Batches, PutPart(b) PROVE IbcInv'
  BY <1>1, PutKeeps
<1>2. ASSUME NEW w \in Workers, WorkerStep(w) PROVE IbcInv'
  BY <1>2, ProcessKeeps, DiscardKeeps, MergeKeeps, MakingRoomKeeps, NoRoomKeeps
  DEF WorkerStep
<1>3. CASE UNCHANGED vars
  BY <1>3 DEF vars, IbcInv, Counts, EveryPartOnce, RecordsBounded, Records, InHand
<1> QED BY <1>1, <1>2, <1>3 DEF Next

LEMMA IbcFirst == Init => IbcInv
<1> SUFFICES ASSUME Init PROVE IbcInv
  OBVIOUS
<1>1. Counts
  BY IbcAssumption DEF Init, Counts, Zero
<1>2. ASSUME NEW b \in Batches PROVE Total = Account(b)
  <2>1. {w \in Workers : hand[w] = b} = {}
    BY BatchNumbers DEF Init
  <2>2. InHand(b) = 0
    BY <2>1, FS_EmptySet DEF InHand
  <2> QED BY <2>2, IbcAssumption DEF Init, Account, Zero
<1>3. Records = {}
  BY DEF Init, Records, Zero
<1>4. RecordsBounded
  BY <1>3, FS_EmptySet, IbcAssumption DEF RecordsBounded
<1> QED BY <1>1, <1>2, <1>4 DEF IbcInv, EveryPartOnce, Account

\* Every count of a batch is at most the number of its parts, and a worker has a
\* part of a batch or none (IBCMgrSvc::process).
THEOREM TypesHold == Spec => []TypeOK
<1>1. IbcInv /\ [Next]_vars => IbcInv'
  BY IbcSteps
<1> QED BY IbcFirst, <1>1, InvTypeOK, PTL DEF Spec

\* Every part of a batch is at one place: not yet put, in the queue, with a worker,
\* lost for want of room, counted in the record of its batch, or in an answer that
\* was sent. None is counted twice and none disappears, whichever workers take them.
THEOREM PartsCountedOnce == Spec => []EveryPartOnce
<1>1. IbcInv /\ [Next]_vars => IbcInv'
  BY IbcSteps
<1>2. IbcInv => EveryPartOnce
  BY DEF IbcInv
<1> QED BY IbcFirst, <1>1, <1>2, PTL DEF Spec

\* The records of batches are never more than max_ibcr_record_ but for the one being
\* started: where there are too many, the oldest is answered as it is or the part given up.
THEOREM RecordsAreFew == Spec => []RecordsBounded
<1>1. IbcInv /\ [Next]_vars => IbcInv'
  BY IbcSteps
<1>2. IbcInv => RecordsBounded
  BY DEF IbcInv
<1> QED BY IbcFirst, <1>1, <1>2, PTL DEF Spec
=============================================================================
