--------------------------- MODULE ConnPoolProof ----------------------------
(***************************************************************************)
(* Proofs about the pool of blocking connections (PlatConnMgrEx), as the   *)
(* part Conn of Parts. Most facts are about one thread and its slot; the   *)
(* lemmas ConnMoves and ConnTurns say what a step must do to keep them for *)
(* all.                                                                    *)
(***************************************************************************)
EXTENDS Parts, TLAPS, SequenceTheorems

\* Where a thread holds the lock of its slot.
Holding == {"dialling", "redialling", "drain", "send", "recv"}
ConnRecord ==
  [pc : {"idle", "dial", "dialling", "check", "use", "drain", "redialling",
         "send", "recv"},
   op : Conn!Ops, room : Rooms \cup {0}, slot : Conn!Slots,
   buf : Seq(Conn!Piece), got : Seq(Conn!Piece), rest : BOOLEAN]
ConnStates == Conn!Connection \cup {None}

\* Nothing has come over c, and nothing will.
Quiet(c) == c.in = <<>> /\ c.due = <<>>
Cut(s, i, j) == SubSeq(s, i + 1, j)
\* What a receiver has, what has come and what will come are, in this order, the
\* beginning of the answer to its own request.
Exchanging(r, c) ==
  LET A == Conn!Answer IN
  \E i, j, k \in 0 .. Len(A) :
    /\ i <= j /\ j <= k
    /\ r.got = Cut(A, 0, i) /\ c.in = Cut(A, i, j) /\ c.due = Cut(A, j, k)

\* What a caller has got is a beginning of the answer, and all of it when it asked
\* for that and had the room.
IsAnswer(r) ==
  r.got # <<>> =>
    /\ r.got = SubSeq(Conn!Answer, 1, Len(r.got))
    /\ r.op = "send_recv_ex" /\ AnswerLen <= r.room /\ r.buf = <<>>
         => r.got = Conn!Answer

\* A thread that uses a slot holds its lock and finds a connection there; it has
\* room for more while its call is not over.
ConnHolds(t, r, l, c) ==
  /\ r.pc \in Holding => l = t /\ c # None
  /\ r.pc \in {"drain", "send", "recv"} => c.st # "raw"
  /\ r.pc # "idle" => Len(r.got) < r.room

\* While every call of the program is a synchronous one, what is on a connection
\* when a request is sent over it is nothing, unless an answer was cut there, and
\* afterwards its own answer.
ConnExact(r, c, m) ==
  /\ m = None => r = Conn!Idle
  /\ r.op \in Conn!Sync => m # "async"
  /\ m # "async" =>
       /\ r.pc # "idle" => r.op \in Conn!Sync
       /\ r.pc \notin {"idle", "recv"} => r.got = <<>>
       /\ r.pc \in Holding \ {"recv"} /\ ~c.cut => Quiet(c)
       /\ r.pc = "recv" => r.rest = c.cut
       /\ r.pc = "recv" /\ ~c.cut => Exchanging(r, c)
       /\ r.pc = "idle" /\ r.op \in Conn!Sync /\ ~r.rest => IsAnswer(r)

\* A slot nobody holds is not marked busy, and its connection, if there is one, is
\* connected and, unless an answer was cut on it, has nothing on it.
ConnRests(l, b, c, m) ==
  l = None =>
    /\ b = 0
    /\ c # None => c.st # "raw" /\ (m # "async" /\ ~c.cut => Quiet(c))

ConnTypes ==
  /\ conn \in [Conn!Slots -> ConnStates]
  /\ busy \in [Conn!Slots -> {0, 1}]
  /\ slotLock \in [Conn!Slots -> Threads \cup {None}]
  /\ thr \in [Threads -> ConnRecord]

\* The four together: they hold of each thread and its slot, and of each slot.
ConnAll ==
  /\ ConnTypes
  /\ \A t \in Threads : ConnHolds(t, thr[t], slotLock[thr[t].slot], conn[thr[t].slot])
  /\ \A t \in Threads : ConnExact(thr[t], conn[thr[t].slot], mode)
  /\ \A s \in Conn!Slots : ConnRests(slotLock[s], busy[s], conn[s], mode)

ConnCounts ==
  /\ fails \in [Conn!Ips -> 0 .. MaxFails + 1]
  /\ recent \subseteq Conn!Ips
  /\ serving \subseteq Conn!Ips
  /\ mode \in {None, "sync", "async"}

\* The inductive invariant of the pool.
ConnInv == ConnAll /\ ConnCounts

LEMMA ConnInvImplies ==
  ConnInv => Conn!TypeOK /\ Conn!HeldIsLive /\ Conn!BusyIsHeld /\ Conn!AnswerIsMine
<1> SUFFICES ASSUME ConnInv PROVE Conn!TypeOK /\ Conn!HeldIsLive /\ Conn!BusyIsHeld /\ Conn!AnswerIsMine
  OBVIOUS
<1>1. Conn!TypeOK
  BY DEF ConnInv, ConnAll, ConnTypes, ConnCounts, Conn!TypeOK, ConnStates, ConnRecord
<1>2. Conn!HeldIsLive
  BY DEF ConnInv, ConnAll, ConnHolds, Holding, Conn!HeldIsLive
<1>3. Conn!BusyIsHeld
  BY DEF ConnInv, ConnAll, ConnRests, Conn!BusyIsHeld
<1>4. Conn!AnswerIsMine
  BY DEF ConnInv, ConnAll, ConnExact, IsAnswer, Conn!AnswerIsMine
<1> QED BY <1>1, <1>2, <1>3, <1>4

LEMMA ConnIdle == Conn!Idle \in ConnRecord
<1>1. <<0, 0>> \in Conn!Slots
  BY ConnAssumption DEF Conn!Slots, Conn!Ips
<1>2. <<>> \in Seq(Conn!Piece)
  BY EmptySeq
<1> QED BY <1>1, <1>2 DEF ConnRecord, Conn!Idle, Conn!Ops

LEMMA ConnIdleFits ==
  \A t, l, c, m : ConnHolds(t, Conn!Idle, l, c) /\ ConnExact(Conn!Idle, c, m)
BY DEF ConnHolds, ConnExact, Holding, Conn!Idle, Conn!Sync

ModeMoves ==
  /\ mode \in {None, "sync", "async"} /\ mode' \in {None, "sync", "async"}
  /\ mode = None \/ mode' = mode

LEMMA ConnOther ==
  ASSUME ConnAll, ModeMoves, NEW u \in Threads
  PROVE  ConnExact(thr[u], conn[thr[u].slot], mode')
<1>0. ConnExact(thr[u], conn[thr[u].slot], mode)
  BY DEF ConnAll
<1>1. CASE mode = None
  <2>1. thr[u] = Conn!Idle
    BY <1>0, <1>1 DEF ConnExact
  <2> QED BY <2>1, ConnIdleFits
<1>2. CASE mode' = mode
  BY <1>0, <1>2
<1> QED BY <1>1, <1>2 DEF ModeMoves

LEMMA ConnRest ==
  ASSUME ConnAll, ModeMoves, NEW s \in Conn!Slots
  PROVE  ConnRests(slotLock[s], busy[s], conn[s], mode')
BY ConnAssumption DEF ModeMoves, ConnAll, ConnRests

\* a step of a thread that leaves the slots alone
LEMMA ConnGoes ==
  ASSUME ConnAll, ModeMoves, NEW t \in Threads, NEW r \in ConnRecord,
         thr' = [thr EXCEPT ![t] = r], UNCHANGED <<conn, busy, slotLock>>,
         ConnHolds(t, r, slotLock[r.slot], conn[r.slot]),
         ConnExact(r, conn[r.slot], mode')
  PROVE  ConnAll'
<1>1. ConnTypes'
  BY DEF ConnAll, ConnTypes
<1>2. \A u \in Threads : ConnHolds(u, thr'[u], slotLock'[thr'[u].slot], conn'[thr'[u].slot])
  BY DEF ConnAll, ConnTypes
<1>3. \A u \in Threads : ConnExact(thr'[u], conn'[thr'[u].slot], mode')
  BY ConnOther DEF ConnAll, ConnTypes
<1>4. \A s \in Conn!Slots : ConnRests(slotLock'[s], busy'[s], conn'[s], mode')
  BY ConnRest
<1> QED BY <1>1, <1>2, <1>3, <1>4 DEF ConnAll

\* a step of a thread on a slot that it holds, takes or lets go
LEMMA ConnMoves ==
  ASSUME ConnAll, ModeMoves, NEW t \in Threads, NEW r \in ConnRecord,
         NEW s \in Conn!Slots, slotLock[s] \in {t, None},
         NEW c \in ConnStates, NEW b \in {0, 1}, NEW l \in {t, None},
         thr' = [thr EXCEPT ![t] = r], conn' = [conn EXCEPT ![s] = c],
         busy' = [busy EXCEPT ![s] = b], slotLock' = [slotLock EXCEPT ![s] = l],
         ConnRests(l, b, c, mode'),
         \/ r = Conn!Idle
         \/ r.slot = s /\ ConnHolds(t, r, l, c) /\ ConnExact(r, c, mode')
  PROVE  ConnAll'
<1>0. \A q \in Conn!Slots \ {s} :
        conn'[q] = conn[q] /\ busy'[q] = busy[q] /\ slotLock'[q] = slotLock[q]
  BY DEF ConnAll, ConnTypes
<1>9. conn'[s] = c /\ busy'[s] = b /\ slotLock'[s] = l
  BY DEF ConnAll, ConnTypes
<1>1. ConnTypes'
  BY DEF ConnAll, ConnTypes
<1>2. \A u \in Threads : ConnHolds(u, thr'[u], slotLock'[thr'[u].slot], conn'[thr'[u].slot])
                         /\ ConnExact(thr'[u], conn'[thr'[u].slot], mode')
  <2> SUFFICES ASSUME NEW u \in Threads
               PROVE  ConnHolds(u, thr'[u], slotLock'[thr'[u].slot], conn'[thr'[u].slot])
                         /\ ConnExact(thr'[u], conn'[thr'[u].slot], mode')
    OBVIOUS
  <2>1. CASE u = t
    <3>1. thr'[u] = r
      BY <2>1 DEF ConnAll, ConnTypes
    <3>2. CASE r = Conn!Idle
      BY <3>1, <3>2, ConnIdleFits
    <3>3. CASE r # Conn!Idle
      BY <3>1, <3>3, <2>1, <1>9
    <3> QED BY <3>2, <3>3
  <2>2. CASE u # t
    <3>1. thr'[u] = thr[u] /\ thr[u].slot \in Conn!Slots
      BY <2>2 DEF ConnAll, ConnTypes, ConnRecord
    <3>2. /\ ConnHolds(u, thr[u], slotLock[thr[u].slot], conn[thr[u].slot])
          /\ ConnExact(thr[u], conn[thr[u].slot], mode')
      BY ConnOther DEF ConnAll
    <3>3. CASE thr[u].slot # s
      BY <3>1, <3>2, <3>3, <1>0
    <3>4. CASE thr[u].slot = s
      <4>1. thr[u].pc \notin Holding
        BY <2>2, <3>2, <3>4, ConnAssumption DEF ConnHolds
      <4> QED BY <4>1, <3>1, <3>2 DEF ConnHolds, ConnExact, Holding
    <3> QED BY <3>3, <3>4
  <2> QED BY <2>1, <2>2
<1>3. \A q \in Conn!Slots : ConnRests(slotLock'[q], busy'[q], conn'[q], mode')
  BY <1>0, <1>9, ConnRest
<1> QED BY <1>1, <1>2, <1>3 DEF ConnAll

\* a step of the backends: connections turn from c to d
Turned(c, d) ==
  \/ d = c
  \/ /\ c # None /\ d \in Conn!Connection
     /\ d.st = "raw" => c.st = "raw"
     /\ d.cut = c.cut
     /\ Quiet(c) => Quiet(d)
     /\ \A r \in ConnRecord : Exchanging(r, c) => Exchanging(r, d)

LEMMA ConnTurns ==
  ASSUME ConnAll, UNCHANGED <<busy, slotLock, mode, thr>>,
         conn' \in [Conn!Slots -> ConnStates],
         \A s \in Conn!Slots : Turned(conn[s], conn'[s])
  PROVE  ConnAll'
<1>0. None \notin Conn!Connection
  BY ConnAssumption
<1>1. ConnTypes'
  BY DEF ConnAll, ConnTypes
<1>2. ASSUME NEW u \in Threads
      PROVE  ConnHolds(u, thr[u], slotLock[thr[u].slot], conn'[thr[u].slot])
  <2>1. thr[u].slot \in Conn!Slots
    BY DEF ConnAll, ConnTypes, ConnRecord
  <2>2. ConnHolds(u, thr[u], slotLock[thr[u].slot], conn[thr[u].slot])
    BY DEF ConnAll
  <2> QED BY <2>1, <2>2, <1>0 DEF ConnHolds, Turned, Holding
<1>3. ASSUME NEW u \in Threads
      PROVE  ConnExact(thr[u], conn'[thr[u].slot], mode)
  <2>1. thr[u].slot \in Conn!Slots /\ thr[u] \in ConnRecord
    BY DEF ConnAll, ConnTypes, ConnRecord
  <2>2. ConnExact(thr[u], conn[thr[u].slot], mode)
    BY DEF ConnAll
  <2>3. Turned(conn[thr[u].slot], conn'[thr[u].slot])
    BY <2>1
  <2> QED BY <2>1, <2>2, <2>3 DEF ConnExact, Turned
<1>4. ASSUME NEW s \in Conn!Slots
      PROVE  ConnRests(slotLock[s], busy[s], conn'[s], mode)
  <2>1. ConnRests(slotLock[s], busy[s], conn[s], mode) /\ Turned(conn[s], conn'[s])
    BY DEF ConnAll
  <2> QED BY <2>1, <1>0 DEF ConnRests, Turned
<1> QED BY <1>1, <1>2, <1>3, <1>4 DEF ConnAll

-----------------------------------------------------------------------------
\* lemmas on the pieces of an answer

LEMMA ConnAnswer ==
  /\ Conn!Answer \in Seq(Conn!Piece)
  /\ Len(Conn!Answer) = AnswerLen /\ AnswerLen \in Nat /\ AnswerLen > 0
  /\ \A i \in 1 .. AnswerLen : Conn!Answer[i].no = i
<1>1. AnswerLen \in Nat /\ AnswerLen > 0
  BY ConnAssumption
<1>2. Conn!Answer \in [1 .. AnswerLen -> Conn!Piece]
  BY DEF Conn!Answer, Conn!Piece
<1>3. Conn!Answer \in Seq(Conn!Piece) /\ Len(Conn!Answer) = AnswerLen
  BY <1>1, <1>2, SeqDef
<1> QED BY <1>1, <1>3 DEF Conn!Answer

LEMMA CutSeq ==
  ASSUME NEW S, NEW A \in Seq(S), NEW i \in 0 .. Len(A), NEW j \in i .. Len(A)
  PROVE  /\ Cut(A, i, j) \in Seq(S)
         /\ Len(Cut(A, i, j)) = j - i
         /\ \A n \in 1 .. j - i : Cut(A, i, j)[n] = A[i + n]
<1>1. Len(A) \in Nat /\ A \in [1 .. Len(A) -> S]
  BY LenProperties
<1>2. \A n \in i + 1 .. j : A[n] \in S
  BY <1>1
<1> QED BY <1>1, <1>2, SubSeqProperties DEF Cut

LEMMA CutEmpty ==
  ASSUME NEW S, NEW A \in Seq(S), NEW i \in 0 .. Len(A), NEW j \in i .. Len(A)
  PROVE  Cut(A, i, j) = <<>> <=> i = j
<1>1. Len(A) \in Nat
  BY LenProperties
<1>2. ASSUME i = j PROVE Cut(A, i, j) = <<>>
  BY <1>1, <1>2, SubSeqEmpty DEF Cut
<1>3. ASSUME Cut(A, i, j) = <<>> PROVE i = j
  <2>1. PICK none : none = <<>>
    OBVIOUS
  <2>2. Len(<<>>) = 0
    BY EmptySeq
  <2>3. Len(none) = 0 /\ Cut(A, i, j) = none
    BY <1>3, <2>1, <2>2, Zenon
  <2>4. Len(none) = j - i
    BY <2>3, CutSeq
  <2> QED BY <1>1, <2>3, <2>4
<1> QED BY <1>2, <1>3

\* Cuts of one answer that meet join.
LEMMA CutJoin ==
  ASSUME NEW S, NEW A \in Seq(S),
         NEW i \in 0 .. Len(A), NEW j \in i .. Len(A), NEW k \in j .. Len(A)
  PROVE  Cut(A, i, j) \o Cut(A, j, k) = Cut(A, i, k)
<1>1. Len(A) \in Nat
  BY LenProperties
<1>2. i + 1 \in 1 .. Len(A) + 1 /\ j \in (i + 1) - 1 .. Len(A)
  BY <1>1
<1> QED BY <1>2, ConcatAdjacentSubSeq DEF Cut

LEMMA CutWhole ==
  ASSUME NEW S, NEW A \in Seq(S) PROVE Cut(A, 0, Len(A)) = A
BY SubSeqFull DEF Cut

LEMMA CutMoves ==
  ASSUME NEW S, NEW A \in Seq(S),
         NEW i \in 0 .. Len(A), NEW j \in i .. Len(A), NEW k \in j .. Len(A), j < k
  PROVE  /\ Append(Cut(A, i, j), Head(Cut(A, j, k))) = Cut(A, i, j + 1)
         /\ Tail(Cut(A, j, k)) = Cut(A, j + 1, k)
<1>1. Len(A) \in Nat
  BY LenProperties
<1>2. Head(Cut(A, j, k)) = A[j + 1] /\ Tail(Cut(A, j, k)) = Cut(A, j + 1, k)
  <2>1. j + 1 \in 1 .. Len(A) /\ k \in j + 1 .. Len(A)
    BY <1>1
  <2> QED BY <2>1, HeadTailOfSubSeq DEF Cut
<1>3. A[j + 1] \in S
  BY <1>1, LenProperties
<1>4. Append(Cut(A, i, j), A[j + 1]) = Cut(A, i, j + 1)
  <2> DEFINE s == Append(Cut(A, i, j), A[j + 1])
             t == Cut(A, i, j + 1)
  <2>0. Cut(A, i, j) \in Seq(S) /\ Len(Cut(A, i, j)) = j - i
        /\ \A n \in 1 .. j - i : Cut(A, i, j)[n] = A[i + n]
    BY CutSeq
  <2>1. s \in Seq(S) /\ Len(s) = j - i + 1 /\ s[j - i + 1] = A[j + 1]
        /\ \A n \in 1 .. j - i : s[n] = A[i + n]
    BY <2>0, <1>3, AppendProperties
  <2>2. PICK m \in i .. Len(A) : m = j + 1
    BY <1>1
  <2>3. t \in Seq(S) /\ Len(t) = j + 1 - i /\ \A n \in 1 .. j + 1 - i : t[n] = A[i + n]
    BY <2>2, CutSeq
  <2> HIDE DEF s, t
  <2> DEFINE z == j - i + 1
  <2>6. i \in Nat /\ j \in Nat /\ z \in Nat /\ z = j + 1 - i /\ j - i = z - 1 /\ i + z = j + 1
    BY <1>1
  <2> HIDE DEF z
  <2>7. Len(s) = z /\ Len(t) = z
    BY <2>1, <2>3, <2>6
  <2>8. ASSUME NEW n \in 1 .. z PROVE s[n] = t[n]
    BY <2>1, <2>3, <2>6
  <2>4. Len(s) = Len(t) /\ \A n \in 1 .. Len(s) : s[n] = t[n]
    BY <2>7, <2>8
  <2>5. s = t
    BY <2>1, <2>3, <2>4, SeqEqual
  <2> QED BY <2>5 DEF s, t
<1> QED BY <1>2, <1>4

\* A cut of a cut.
LEMMA CutOfCut ==
  ASSUME NEW S, NEW A \in Seq(S),
         NEW i \in 0 .. Len(A), NEW j \in i .. Len(A), NEW n \in 1 .. j - i
  PROVE  /\ SubSeq(Cut(A, i, j), 1, n) = Cut(A, i, i + n)
         /\ SubSeq(Cut(A, i, j), n + 1, j - i) = Cut(A, i + n, j)
<1>1. Len(A) \in Nat
  BY LenProperties
<1>2. i + 1 \in 1 .. Len(A) + 1 /\ j \in i .. Len(A) /\ i + 1 \in Nat
  BY <1>1
<1>3. SubSeq(Cut(A, i, j), 1, n) = Cut(A, i, i + n)
  <2>1. SubSeq(SubSeq(A, i + 1, j), 1, n) = SubSeq(A, i + 1 + 1 - 1, i + 1 + n - 1)
    BY <1>1, <1>2, SubSeqOfSubSeq
  <2> QED BY <1>1, <2>1 DEF Cut
<1>4. SubSeq(Cut(A, i, j), n + 1, j - i) = Cut(A, i + n, j)
  <2>1. CASE n < j - i
    <3>1. SubSeq(SubSeq(A, i + 1, j), n + 1, j - i)
            = SubSeq(A, i + 1 + (n + 1) - 1, i + 1 + (j - i) - 1)
      BY <1>1, <1>2, <2>1, SubSeqOfSubSeq
    <3> QED BY <1>1, <3>1 DEF Cut
  <2>2. CASE n = j - i
    <3>1. Cut(A, i, j) \in Seq(S) /\ Len(Cut(A, i, j)) = j - i
      BY CutSeq
    <3>2. SubSeq(Cut(A, i, j), n + 1, j - i) = <<>>
      BY <1>1, <2>2, <3>1, SubSeqEmpty
    <3>3. Cut(A, i + n, j) = <<>>
      BY <1>1, <2>2, CutEmpty
    <3> QED BY <3>2, <3>3
  <2> QED BY <1>1, <2>1, <2>2
<1> QED BY <1>3, <1>4

\* What the backend sends and what arrives leave the answer in order.
LEMMA ExchangeTurns ==
  ASSUME NEW r \in ConnRecord, NEW c \in Conn!Connection, Exchanging(r, c)
  PROVE  /\ c.due # <<>> =>
              Exchanging(r, [c EXCEPT !.in = Append(@, Head(c.due)), !.due = Tail(@)])
         /\ \A st : Exchanging(r, [c EXCEPT !.st = st, !.due = <<>>])
<1> DEFINE A == Conn!Answer
<1>0. A \in Seq(Conn!Piece) /\ Len(A) \in Nat
  BY ConnAnswer
<1>1. PICK i \in 0 .. Len(A), j \in 0 .. Len(A), k \in 0 .. Len(A) :
        /\ i <= j /\ j <= k
        /\ r.got = Cut(A, 0, i) /\ c.in = Cut(A, i, j) /\ c.due = Cut(A, j, k)
  BY DEF Exchanging
<1> HIDE DEF A
<1>2. j \in i .. Len(A) /\ k \in j .. Len(A)
  BY <1>0, <1>1
<1>3. ASSUME c.due # <<>>
      PROVE  Exchanging(r, [c EXCEPT !.in = Append(@, Head(c.due)), !.due = Tail(@)])
  <2>1. j < k
    BY <1>0, <1>1, <1>2, <1>3, CutEmpty
  <2>2. Append(c.in, Head(c.due)) = Cut(A, i, j + 1) /\ Tail(c.due) = Cut(A, j + 1, k)
    BY <1>0, <1>1, <1>2, <2>1, CutMoves
  <2> DEFINE d == [c EXCEPT !.in = Append(@, Head(c.due)), !.due = Tail(@)]
  <2>3. d.in = Cut(A, i, j + 1) /\ d.due = Cut(A, j + 1, k)
    BY <2>2 DEF Conn!Connection
  <2>4. j + 1 \in 0 .. Len(A) /\ i <= j + 1 /\ j + 1 <= k
    BY <1>0, <1>1, <2>1
  <2> HIDE DEF d
  <2>5. Exchanging(r, d)
    BY <1>1, <2>3, <2>4 DEF Exchanging, A
  <2> QED BY <2>5 DEF d
<1>4. ASSUME NEW st PROVE Exchanging(r, [c EXCEPT !.st = st, !.due = <<>>])
  <2> DEFINE d == [c EXCEPT !.st = st, !.due = <<>>]
  <2>1. <<>> = Cut(A, j, j)
    BY <1>0, <1>1, <1>2, CutEmpty
  <2>2. d.in = Cut(A, i, j) /\ d.due = Cut(A, j, j)
    BY <1>1, <2>1 DEF Conn!Connection
  <2> HIDE DEF d
  <2>5. Exchanging(r, d)
    BY <1>1, <2>2 DEF Exchanging, A
  <2> QED BY <2>5 DEF d
<1> QED BY <1>3, <1>4

-----------------------------------------------------------------------------
LEMMA ConnKnown ==
  ASSUME ConnAll, NEW t \in Threads
  PROVE  /\ thr[t] \in ConnRecord /\ thr[t].slot \in Conn!Slots
         /\ conn[thr[t].slot] \in ConnStates
         /\ busy[thr[t].slot] \in {0, 1}
         /\ slotLock[thr[t].slot] \in Threads \cup {None}
         /\ ConnHolds(t, thr[t], slotLock[thr[t].slot], conn[thr[t].slot])
         /\ ConnExact(thr[t], conn[thr[t].slot], mode)
         /\ ConnRests(slotLock[thr[t].slot], busy[thr[t].slot],
                      conn[thr[t].slot], mode)
BY DEF ConnAll, ConnTypes, ConnRecord

LEMMA ConnSame ==
  ASSUME ConnAll, NEW s \in Conn!Slots
  PROVE  /\ conn = [conn EXCEPT ![s] = conn[s]]
         /\ busy = [busy EXCEPT ![s] = busy[s]]
         /\ slotLock = [slotLock EXCEPT ![s] = slotLock[s]]
BY DEF ConnAll, ConnTypes

LEMMA ConnFresh ==
  /\ Conn!Raw \in Conn!Connection /\ Quiet(Conn!Raw) /\ ~Conn!Raw.cut
  /\ Conn!Open \in Conn!Connection /\ Quiet(Conn!Open) /\ ~Conn!Open.cut
  /\ Conn!Open.st # "raw"
<1>1. <<>> \in Seq(Conn!Piece)
  BY EmptySeq
<1> QED BY <1>1 DEF Conn!Raw, Conn!Open, Conn!Connection, Quiet

LEMMA ConnDrops ==
  ASSUME ConnAll, ConnCounts, NEW t \in Threads, thr[t].pc \in Holding,
         Conn!Drop(t, thr[t].slot)
  PROVE  ConnAll'
<1> DEFINE s == thr[t].slot
<1>1. s \in Conn!Slots /\ slotLock[s] = t
  BY ConnKnown DEF ConnHolds
<1>2. /\ thr' = [thr EXCEPT ![t] = Conn!Idle] /\ conn' = [conn EXCEPT ![s] = None]
      /\ busy' = [busy EXCEPT ![s] = 0] /\ slotLock' = [slotLock EXCEPT ![s] = None]
      /\ mode' = mode
  BY DEF Conn!Drop, Conn!fini, Conn!Release, Conn!Fail
<1>3. ConnRests(None, 0, None, mode')
  BY DEF ConnRests
<1>4. ModeMoves
  BY <1>2 DEF ModeMoves, ConnCounts
<1>5. None \in ConnStates
  BY DEF ConnStates
<1> QED BY <1>1, <1>2, <1>3, <1>4, <1>5, ConnIdle, ConnMoves

LEMMA ConnBegins ==
  ASSUME ConnAll, ConnCounts, NEW t \in Threads, NEW op \in Conn!Ops,
         NEW s \in Conn!Slots, NEW n \in Rooms, Conn!Begin(t, op, s, n)
  PROVE  ConnAll'
<1> DEFINE there == IF Conn!Avoided(s[1]) THEN Conn!Next_ip(s) ELSE s
           pc == IF conn[there] # None THEN "use"
                 ELSE IF Conn!Avoided(s[1]) THEN "idle" ELSE "dial"
           r == IF pc = "idle" THEN Conn!Idle
                ELSE [Conn!Idle EXCEPT !.pc = pc, !.op = op, !.room = n, !.slot = there]
<1>1. there \in Conn!Slots
  BY ConnAssumption DEF Conn!Slots, Conn!Ips, Conn!Next_ip
<1>2. /\ thr' = [thr EXCEPT ![t] = r] /\ mode' = Conn!ModeOf(op)
      /\ mode \in {None, Conn!ModeOf(op)} /\ UNCHANGED <<conn, busy, slotLock>>
  BY DEF Conn!Begin
<1>3. ModeMoves /\ (mode' = "async" \/ (mode' = "sync" /\ op \in Conn!Sync))
      /\ (mode' = "async" => op \notin Conn!Sync) /\ mode' # None
  BY <1>2, ConnAssumption DEF ModeMoves, ConnCounts, Conn!ModeOf
<1> HIDE DEF there
<1>4. CASE pc = "idle"
  BY <1>2, <1>3, <1>4, ConnIdle, ConnIdleFits, ConnGoes
<1>5. CASE pc # "idle"
  <2>1. pc \in {"use", "dial"}
    BY <1>5
  <2> HIDE DEF pc
  <2>2. r \in ConnRecord
    BY <2>1, <1>1, <1>5, ConnIdle DEF ConnRecord
  <2>3. r.pc = pc /\ r.op = op /\ r.got = <<>> /\ r.room = n
    BY <2>1, <1>5 DEF Conn!Idle
  <2> HIDE DEF r
  <2>6. Len(r.got) < r.room
    <3>1. n \in Nat \ {0} /\ Len(<<>>) = 0
      BY ConnAssumption, EmptySeq
    <3> QED BY <2>3, <3>1
  <2>4. ConnHolds(t, r, slotLock[r.slot], conn[r.slot])
    BY <2>1, <2>3, <2>6 DEF ConnHolds, Holding
  <2>5. ConnExact(r, conn[r.slot], mode')
    BY <2>1, <2>3, <1>3 DEF ConnExact, Holding
  <2> QED BY <1>2, <1>3, <2>2, <2>4, <2>5, ConnGoes
<1> QED BY <1>4, <1>5

ConnPcs == {"idle", "dial", "dialling", "check", "use", "drain", "redialling",
            "send", "recv"}

LEMMA ConnRoom == ASSUME NEW r \in ConnRecord PROVE r.room \in Nat
<1>1. r.room \in Rooms \cup {0}
  BY DEF ConnRecord
<1>2. \A n \in Rooms \cup {0} : n \in Nat
  BY ConnAssumption
<1> QED BY <1>1, <1>2

LEMMA ConnGoto ==
  ASSUME NEW r \in ConnRecord, NEW pc \in ConnPcs
  PROVE  /\ [r EXCEPT !.pc = pc] \in ConnRecord
         /\ [r EXCEPT !.pc = pc].pc = pc /\ [r EXCEPT !.pc = pc].slot = r.slot
         /\ [r EXCEPT !.pc = pc].op = r.op /\ [r EXCEPT !.pc = pc].buf = r.buf
         /\ [r EXCEPT !.pc = pc].got = r.got /\ [r EXCEPT !.pc = pc].room = r.room
BY DEF ConnRecord, ConnPcs

LEMMA ConnBusy ==
  ASSUME ConnAll, NEW t \in Threads, thr[t].pc # "idle"
  PROVE  /\ mode # None
         /\ mode # "async" => thr[t].op \in Conn!Sync
         /\ mode # "async" /\ thr[t].pc # "recv" => thr[t].got = <<>>
         /\ mode # "async" /\ thr[t].pc \in Holding \ {"recv"} =>
              conn[thr[t].slot].cut \/ Quiet(conn[thr[t].slot])
         /\ thr[t].op \in Conn!Sync => mode # "async"
         /\ Len(thr[t].got) < thr[t].room
<1>1. /\ ConnExact(thr[t], conn[thr[t].slot], mode)
      /\ ConnHolds(t, thr[t], slotLock[thr[t].slot], conn[thr[t].slot])
  BY ConnKnown
<1> QED BY <1>1 DEF ConnExact, ConnHolds, Conn!Idle

LEMMA ConnDials ==
  ASSUME ConnAll, ConnCounts, NEW t \in Threads, Conn!Dial(t)
  PROVE  ConnAll'
<1> DEFINE s == thr[t].slot
<1>0. ModeMoves /\ mode' = mode
  BY DEF Conn!Dial, ModeMoves, ConnCounts
<1>1. thr[t].pc = "dial" /\ slotLock[s] = None /\ busy' = busy
  BY DEF Conn!Dial, Conn!At
<1>2. CASE conn[s] = None
  <2> DEFINE r == [thr[t] EXCEPT !.pc = "dialling"]
  <2>1. /\ thr' = [thr EXCEPT ![t] = r] /\ conn' = [conn EXCEPT ![s] = Conn!Raw]
        /\ slotLock' = [slotLock EXCEPT ![s] = t]
        /\ busy' = [busy EXCEPT ![s] = busy[s]]
    BY <1>1, <1>2, ConnSame, ConnKnown DEF Conn!Dial, Conn!Goto
  <2>2. /\ r \in ConnRecord /\ r.pc = "dialling" /\ r.slot = s /\ r.op = thr[t].op
        /\ r.room = thr[t].room /\ r.got = thr[t].got
    BY ConnKnown, ConnGoto DEF ConnPcs
  <2>3. Conn!Raw \in ConnStates /\ Conn!Raw # None /\ Quiet(Conn!Raw)
    BY ConnFresh, ConnAssumption DEF ConnStates
  <2> HIDE DEF r
  <2>4. ConnHolds(t, r, t, Conn!Raw) /\ ConnExact(r, Conn!Raw, mode')
    BY <1>0, <1>1, <2>2, <2>3, ConnBusy DEF ConnHolds, ConnExact, Holding
  <2>5. ConnRests(t, busy[s], Conn!Raw, mode')
    BY ConnAssumption DEF ConnRests
  <2>6. s \in Conn!Slots /\ slotLock[s] \in {t, None} /\ busy[s] \in {0, 1}
    BY <1>1, ConnKnown
  <2>7. PICK b \in {0, 1}, l \in {t, None}, c \in ConnStates :
          b = busy[s] /\ l = t /\ c = Conn!Raw
    BY <2>3, <2>6
  <2>8. /\ thr' = [thr EXCEPT ![t] = r] /\ conn' = [conn EXCEPT ![s] = c]
        /\ busy' = [busy EXCEPT ![s] = b] /\ slotLock' = [slotLock EXCEPT ![s] = l]
        /\ ConnRests(l, b, c, mode')
    BY <2>1, <2>5, <2>7
  <2>9. \/ r = Conn!Idle
        \/ r.slot = s /\ ConnHolds(t, r, l, c) /\ ConnExact(r, c, mode')
    BY <2>2, <2>4, <2>7
  <2>10. r \in ConnRecord
    BY <2>2
  <2>11. s \in Conn!Slots /\ slotLock[s] \in {t, None}
    BY <2>6
  <2>12. ModeMoves
    BY <1>0
  <2> HIDE DEF s
  <2> QED BY <2>8, <2>9, <2>10, <2>11, <2>12, ConnMoves
<1>3. CASE conn[s] # None
  <2> DEFINE r == [thr[t] EXCEPT !.pc = "check"]
  <2>1. thr' = [thr EXCEPT ![t] = r] /\ UNCHANGED <<conn, slotLock>>
    BY <1>3 DEF Conn!Dial, Conn!Goto
  <2>2. /\ r \in ConnRecord /\ r.pc = "check" /\ r.slot = s /\ r.op = thr[t].op
        /\ r.room = thr[t].room /\ r.got = thr[t].got
    BY ConnKnown, ConnGoto DEF ConnPcs
  <2> HIDE DEF r
  <2>4. ConnHolds(t, r, slotLock[s], conn[s]) /\ ConnExact(r, conn[s], mode')
    BY <1>0, <1>1, <2>2, ConnBusy DEF ConnHolds, ConnExact, Holding
  <2> QED BY <1>0, <1>1, <2>1, <2>2, <2>4, ConnGoes
<1> QED BY <1>2, <1>3

LEMMA ConnDialled ==
  ASSUME ConnAll, ConnCounts, NEW t \in Threads, Conn!Dialled(t)
  PROVE  ConnAll'
<1> DEFINE s == thr[t].slot
           r == [thr[t] EXCEPT !.pc = "check"]
<1>0. ModeMoves /\ mode' = mode
  BY DEF Conn!Dialled, ModeMoves, ConnCounts
<1>1. thr[t].pc = "dialling" /\ slotLock[s] = t /\ s \in Conn!Slots
  BY ConnKnown DEF Conn!Dialled, Conn!At, ConnHolds, Holding
<1>2. PICK c \in {Conn!Open, None} : conn' = [conn EXCEPT ![s] = c]
  BY DEF Conn!Dialled, Conn!Connected, Conn!fini
<1>3. /\ thr' = [thr EXCEPT ![t] = r] /\ slotLock' = [slotLock EXCEPT ![s] = None]
      /\ busy' = [busy EXCEPT ![s] = 0]
  BY DEF Conn!Dialled, Conn!Connected, Conn!fini, Conn!Goto, Conn!Release
<1>4. /\ r \in ConnRecord /\ r.pc = "check" /\ r.slot = s /\ r.op = thr[t].op
      /\ r.room = thr[t].room /\ r.got = thr[t].got
  BY ConnKnown, ConnGoto DEF ConnPcs
<1>5. c \in ConnStates /\ (c # None => c.st # "raw" /\ Quiet(c))
  BY ConnFresh DEF ConnStates
<1> HIDE DEF r
<1>6. ConnHolds(t, r, None, c) /\ ConnExact(r, c, mode')
  BY <1>0, <1>1, <1>4, ConnBusy DEF ConnHolds, ConnExact, Holding
<1>7. ConnRests(None, 0, c, mode')
  BY <1>5 DEF ConnRests
<1> QED BY <1>0, <1>1, <1>2, <1>3, <1>4, <1>5, <1>6, <1>7, ConnMoves

LEMMA ConnChecks ==
  ASSUME ConnAll, ConnCounts, NEW t \in Threads, Conn!Check(t)
  PROVE  ConnAll'
<1> DEFINE s == thr[t].slot
           r == [thr[t] EXCEPT !.pc = "use"]
<1>0. ModeMoves /\ mode' = mode /\ UNCHANGED <<conn, busy, slotLock>>
  BY DEF Conn!Check, ModeMoves, ConnCounts
<1>1. thr[t].pc = "check"
  BY DEF Conn!Check, Conn!At
<1>2. CASE conn[s] = None
  BY <1>0, <1>2, ConnIdle, ConnIdleFits, ConnGoes DEF Conn!Check, Conn!Fail
<1>3. CASE conn[s] # None
  <2>1. thr' = [thr EXCEPT ![t] = r]
    BY <1>3 DEF Conn!Check, Conn!Goto
  <2>2. /\ r \in ConnRecord /\ r.pc = "use" /\ r.slot = s /\ r.op = thr[t].op
        /\ r.room = thr[t].room /\ r.got = thr[t].got
    BY ConnKnown, ConnGoto DEF ConnPcs
  <2> HIDE DEF r
  <2>3. ConnHolds(t, r, slotLock[s], conn[s]) /\ ConnExact(r, conn[s], mode')
    BY <1>0, <1>1, <2>2, ConnBusy DEF ConnHolds, ConnExact, Holding
  <2> QED BY <1>0, <2>1, <2>2, <2>3, ConnGoes
<1> QED BY <1>2, <1>3

LEMMA ConnUses ==
  ASSUME ConnAll, ConnCounts, NEW t \in Threads, Conn!Use(t)
  PROVE  ConnAll'
<1> DEFINE s == thr[t].slot
           pc == CASE thr[t].op = "send" -> "send"
                   [] thr[t].op = "recv" -> "recv"
                   [] OTHER -> "drain"
           r == [thr[t] EXCEPT !.pc = pc]
<1>0. ModeMoves /\ mode' = mode
  BY DEF Conn!Use, ModeMoves, ConnCounts
<1>1. thr[t].pc = "use" /\ slotLock[s] = None /\ s \in Conn!Slots
  BY ConnKnown DEF Conn!Use, Conn!At
<1>2. CASE conn[s] = None
  BY <1>0, <1>2, ConnIdle, ConnIdleFits, ConnGoes
     DEF Conn!Use, Conn!Usable, Conn!Fail
<1>3. CASE conn[s] # None
  <2>1. /\ thr' = [thr EXCEPT ![t] = r] /\ conn' = [conn EXCEPT ![s] = conn[s]]
        /\ slotLock' = [slotLock EXCEPT ![s] = t] /\ busy' = [busy EXCEPT ![s] = 1]
    BY <1>1, <1>3, ConnSame DEF Conn!Use, Conn!Usable, Conn!Goto
  <2>2. pc \in {"send", "recv", "drain"} /\ (thr[t].op \in Conn!Sync => pc = "drain")
    BY DEF Conn!Sync
  <2> HIDE DEF pc
  <2>3. /\ r \in ConnRecord /\ r.pc = pc /\ r.slot = s /\ r.op = thr[t].op
        /\ r.room = thr[t].room /\ r.got = thr[t].got
    <3>1. pc \in ConnPcs
      BY <2>2 DEF ConnPcs
    <3> QED BY <3>1, ConnKnown, ConnGoto
  <2> HIDE DEF r
  <2>4. conn[s].st # "raw" /\ (mode # "async" /\ ~conn[s].cut => Quiet(conn[s]))
    BY <1>1, <1>3, ConnKnown DEF ConnRests
  <2>5. ConnHolds(t, r, t, conn[s])
    BY <1>1, <1>3, <2>3, <2>4, ConnBusy DEF ConnHolds
  <2>6. ConnExact(r, conn[s], mode')
    BY <1>0, <1>1, <2>2, <2>3, <2>4, ConnBusy DEF ConnExact, Holding
  <2>7. ConnRests(t, 1, conn[s], mode')
    BY ConnAssumption DEF ConnRests
  <2> QED BY <1>0, <1>1, <2>1, <2>3, <2>5, <2>6, <2>7, ConnKnown, ConnMoves
<1> QED BY <1>2, <1>3

LEMMA ConnHeld ==
  ASSUME ConnAll, NEW t \in Threads, thr[t].pc \in Holding
  PROVE  /\ thr[t].slot \in Conn!Slots /\ slotLock[thr[t].slot] = t
         /\ slotLock = [slotLock EXCEPT ![thr[t].slot] = t]
         /\ conn[thr[t].slot] \in Conn!Connection
         /\ thr[t].pc \in {"drain", "send", "recv"} => conn[thr[t].slot].st # "raw"
BY ConnKnown, ConnSame DEF ConnHolds, ConnStates

LEMMA ConnDrains ==
  ASSUME ConnAll, ConnCounts, NEW t \in Threads, Conn!Drain(t)
  PROVE  ConnAll'
<1> DEFINE s == thr[t].slot
           in == conn[s].in
           n == IF Len(in) < thr[t].room THEN Len(in) ELSE thr[t].room
           left == SubSeq(in, n + 1, Len(in))
           buf == SubSeq(in, 1, n)
           cutted == conn[s].cut /\ ~Conn!AllHere(t)
           r == [thr[t] EXCEPT !.pc = "send", !.buf = buf]
           c == [conn[s] EXCEPT !.in = left, !.cut = cutted]
<1>0. ModeMoves /\ mode' = mode
  BY DEF Conn!Drain, ModeMoves, ConnCounts
<1>1. thr[t].pc = "drain"
  BY DEF Conn!Drain, Conn!At
<1>2. s \in Conn!Slots /\ slotLock[s] = t /\ conn[s] \in Conn!Connection
      /\ conn[s].st # "raw" /\ slotLock = [slotLock EXCEPT ![s] = t]
  BY <1>1, ConnHeld DEF Holding
<1>3. /\ thr' = [thr EXCEPT ![t] = r] /\ conn' = [conn EXCEPT ![s] = c]
      /\ slotLock' = [slotLock EXCEPT ![s] = t] /\ busy' = [busy EXCEPT ![s] = busy[s]]
  <2>1. thr' = [thr EXCEPT ![t] = r]
    BY DEF Conn!Drain, ConnAll, ConnTypes
  <2>2. conn' = [conn EXCEPT ![s] = c]
    BY <1>2 DEF Conn!Drain, ConnAll, ConnTypes
  <2>3. UNCHANGED <<slotLock, busy>>
    BY DEF Conn!Drain
  <2> QED BY <1>2, <2>1, <2>2, <2>3, ConnSame
<1>4. in \in Seq(Conn!Piece) /\ Len(in) \in Nat
  BY <1>2, LenProperties DEF Conn!Connection
<1>12. thr[t].room \in Nat /\ n \in 0 .. Len(in)
  <2>1. thr[t].room \in Nat
    BY ConnKnown, ConnRoom
  <2> HIDE DEF in
  <2> QED BY <1>4, <2>1
<1>13. buf \in Seq(Conn!Piece) /\ left \in Seq(Conn!Piece)
  <2> HIDE DEF n, in
  <2>1. \A i \in 1 .. Len(in) : in[i] \in Conn!Piece
    BY <1>4, LenProperties
  <2> QED BY <1>4, <1>12, <2>1, SubSeqProperties
\* what has arrived is read away when there is room for it
<1>14. Conn!AllHere(t) => conn[s].due = <<>> /\ left = <<>>
  <2>1. ASSUME Conn!AllHere(t) PROVE conn[s].due = <<>> /\ n = Len(in)
    BY <1>4, <1>12, <2>1 DEF Conn!AllHere
  <2>2. n = Len(in) => left = <<>>
    <3> HIDE DEF n, in
    <3> QED BY <1>4, SubSeqEmpty
  <2> QED BY <2>1, <2>2
<1>15. in = <<>> => left = <<>>
  <2>1. Len(<<>>) = 0
    BY EmptySeq
  <2>2. in = <<>> => Len(in) = 0
    BY <2>1, Zenon
  <2>3. in = <<>> => n = 0
    BY <1>12, <2>2
  <2> HIDE DEF n, in
  <2> QED BY <1>4, <2>2, <2>3, SubSeqEmpty
<1>5. /\ r \in ConnRecord /\ r.pc = "send" /\ r.slot = s /\ r.op = thr[t].op
      /\ r.room = thr[t].room /\ r.got = thr[t].got
  <2> HIDE DEF buf
  <2> QED BY <1>13, ConnKnown DEF ConnRecord
<1>6. /\ c \in Conn!Connection /\ c.in = left /\ c.due = conn[s].due
      /\ c.st = conn[s].st /\ c.cut = cutted
  <2>1. cutted \in BOOLEAN
    OBVIOUS
  <2> HIDE DEF left, cutted
  <2> QED BY <1>2, <1>13, <2>1 DEF Conn!Connection
<1>16. mode # "async" /\ ~cutted => Quiet(c)
  <2>1. mode # "async" => conn[s].cut \/ Quiet(conn[s])
    BY <1>1, ConnBusy DEF Holding
  <2> HIDE DEF c, left
  <2> QED BY <1>6, <1>14, <1>15, <2>1 DEF Quiet
<1> HIDE DEF r, c, cutted, left, buf, n, in
<1>7. c \in ConnStates /\ c # None
  BY <1>6, ConnAssumption DEF ConnStates
<1>8. ConnHolds(t, r, t, c)
  BY <1>1, <1>2, <1>5, <1>6, <1>7, ConnBusy DEF ConnHolds
<1>9. ConnExact(r, c, mode')
  BY <1>0, <1>1, <1>5, <1>6, <1>16, ConnBusy DEF ConnExact, Holding
<1>10. ConnRests(t, busy[s], c, mode')
  BY ConnAssumption DEF ConnRests
<1>11. busy[s] \in {0, 1} /\ r \in ConnRecord /\ r.slot = s /\ slotLock[s] \in {t, None}
  BY <1>2, <1>5, ConnKnown
<1> HIDE DEF s
<1> QED BY <1>0, <1>2, <1>3, <1>7, <1>8, <1>9, <1>10, <1>11, ConnMoves

LEMMA ConnDrainsClosed ==
  ASSUME ConnAll, ConnCounts, NEW t \in Threads, Conn!DrainClosed(t)
  PROVE  ConnAll'
<1> DEFINE s == thr[t].slot
           r == [thr[t] EXCEPT !.pc = "redialling"]
<1>0. ModeMoves /\ mode' = mode
  BY DEF Conn!DrainClosed, ModeMoves, ConnCounts
<1>1. thr[t].pc = "drain"
  BY DEF Conn!DrainClosed, Conn!At
<1>2. s \in Conn!Slots /\ slotLock[s] = t /\ slotLock = [slotLock EXCEPT ![s] = t]
  BY <1>1, ConnHeld DEF Holding
<1>3. /\ thr' = [thr EXCEPT ![t] = r] /\ conn' = [conn EXCEPT ![s] = Conn!Raw]
      /\ slotLock' = [slotLock EXCEPT ![s] = t] /\ busy' = [busy EXCEPT ![s] = 0]
  BY <1>2 DEF Conn!DrainClosed, Conn!Goto
<1>4. /\ r \in ConnRecord /\ r.pc = "redialling" /\ r.slot = s /\ r.op = thr[t].op
      /\ r.room = thr[t].room /\ r.got = thr[t].got
  BY ConnKnown, ConnGoto DEF ConnPcs
<1>5. Conn!Raw \in ConnStates /\ Conn!Raw # None /\ Quiet(Conn!Raw)
  BY ConnFresh, ConnAssumption DEF ConnStates
<1> HIDE DEF r
<1>6. ConnHolds(t, r, t, Conn!Raw)
  BY <1>1, <1>4, <1>5, ConnBusy DEF ConnHolds
<1>7. ConnExact(r, Conn!Raw, mode')
  BY <1>0, <1>1, <1>4, <1>5, ConnBusy DEF ConnExact, Holding
<1>8. ConnRests(t, 0, Conn!Raw, mode')
  BY ConnAssumption DEF ConnRests
<1> QED BY <1>0, <1>2, <1>3, <1>4, <1>5, <1>6, <1>7, <1>8, ConnMoves

LEMMA ConnRedialled ==
  ASSUME ConnAll, ConnCounts, NEW t \in Threads, Conn!Redialled(t)
  PROVE  ConnAll'
<1> DEFINE s == thr[t].slot
           r == [thr[t] EXCEPT !.pc = "send"]
<1>1. thr[t].pc = "redialling"
  BY DEF Conn!Redialled, Conn!At
<1>2. s \in Conn!Slots /\ slotLock[s] = t /\ slotLock = [slotLock EXCEPT ![s] = t]
  BY <1>1, ConnHeld DEF Holding
<1>3. CASE Conn!Drop(t, s)
  BY <1>1, <1>3, ConnDrops DEF Holding
<1>4. CASE ~Conn!Drop(t, s)
  <2>0. ModeMoves /\ mode' = mode
    BY <1>4 DEF Conn!Redialled, ModeMoves, ConnCounts
  <2>1. /\ thr' = [thr EXCEPT ![t] = r] /\ conn' = [conn EXCEPT ![s] = Conn!Open]
        /\ slotLock' = [slotLock EXCEPT ![s] = t] /\ busy' = [busy EXCEPT ![s] = 0]
    BY <1>2, <1>4 DEF Conn!Redialled, Conn!Connected, Conn!Goto
  <2>2. /\ r \in ConnRecord /\ r.pc = "send" /\ r.slot = s /\ r.op = thr[t].op
        /\ r.room = thr[t].room /\ r.got = thr[t].got
    BY ConnKnown, ConnGoto DEF ConnPcs
  <2>3. Conn!Open \in ConnStates /\ Conn!Open # None /\ Quiet(Conn!Open)
        /\ Conn!Open.st # "raw"
    BY ConnFresh, ConnAssumption DEF ConnStates
  <2> HIDE DEF r
  <2>4. ConnHolds(t, r, t, Conn!Open)
    BY <1>1, <2>2, <2>3, ConnBusy DEF ConnHolds
  <2>5. ConnExact(r, Conn!Open, mode')
    BY <2>0, <1>1, <2>2, <2>3, ConnBusy DEF ConnExact, Holding
  <2>6. ConnRests(t, 0, Conn!Open, mode')
    BY ConnAssumption DEF ConnRests
  <2> QED BY <2>0, <1>2, <2>1, <2>2, <2>3, <2>4, <2>5, <2>6, ConnMoves
<1> QED BY <1>3, <1>4

LEMMA OldSeq ==
  ASSUME NEW p \in Seq(Conn!Piece)
  PROVE  Conn!Old(p) \in Seq(Conn!Piece) /\ (p = <<>> => Conn!Old(p) = <<>>)
<1>1. Len(p) \in Nat /\ DOMAIN p = 1 .. Len(p) /\ p \in [1 .. Len(p) -> Conn!Piece]
  BY LenProperties
<1>2. Conn!Old(p) \in [1 .. Len(p) -> Conn!Piece]
  BY <1>1 DEF Conn!Old, Conn!Piece
<1>3. Conn!Old(p) \in Seq(Conn!Piece) /\ Len(Conn!Old(p)) = Len(p)
  BY <1>1, <1>2, SeqDef
<1>4. ASSUME p = <<>> PROVE Conn!Old(p) = <<>>
  <2>1. Len(<<>>) = 0 /\ \A q \in Seq(Conn!Piece) : q # <<>> => Len(q) \in Nat \ {0}
    BY EmptySeq
  <2>2. Len(p) = 0
    BY <1>4, <2>1, Zenon
  <2>3. ~(Len(Conn!Old(p)) \in Nat \ {0})
    BY <1>3, <2>2
  <2> QED BY <1>3, <2>1, <2>3, Zenon
<1> QED BY <1>3, <1>4

LEMMA ConnFinishes ==
  ASSUME ConnAll, ConnCounts, NEW t \in Threads, thr[t].pc \in {"send", "recv"},
         NEW c \in Conn!Connection, c.st # "raw", NEW got \in Seq(Conn!Piece),
         Conn!Finish(t, thr[t].slot, c, got),
         mode # "async" /\ ~c.cut => Quiet(c),
         mode # "async" /\ ~thr[t].rest => IsAnswer([thr[t] EXCEPT !.got = got])
  PROVE  ConnAll'
<1> DEFINE s == thr[t].slot
           r == [thr[t] EXCEPT !.pc = "idle", !.got = got]
           d == [c EXCEPT !.in = Conn!Old(@), !.due = Conn!Old(@)]
<1>0. ModeMoves /\ mode' = mode
  BY DEF Conn!Finish, ModeMoves, ConnCounts
<1>1. s \in Conn!Slots /\ slotLock[s] = t
  BY ConnHeld DEF Holding
<1>2. /\ thr' = [thr EXCEPT ![t] = r] /\ conn' = [conn EXCEPT ![s] = d]
      /\ slotLock' = [slotLock EXCEPT ![s] = None] /\ busy' = [busy EXCEPT ![s] = 0]
  BY DEF Conn!Finish, Conn!Release, ConnAll, ConnTypes
<1>4. r \in ConnRecord /\ r.pc = "idle" /\ r.slot = s /\ r.op = thr[t].op
      /\ r.rest = thr[t].rest /\ (IsAnswer([thr[t] EXCEPT !.got = got]) => IsAnswer(r))
  BY ConnKnown DEF ConnRecord, IsAnswer
<1>5. d \in Conn!Connection /\ d.st = c.st /\ d.cut = c.cut /\ (Quiet(c) => Quiet(d))
  <2>1. c.in \in Seq(Conn!Piece) /\ c.due \in Seq(Conn!Piece)
    BY DEF Conn!Connection
  <2>2. /\ Conn!Old(c.in) \in Seq(Conn!Piece) /\ Conn!Old(c.due) \in Seq(Conn!Piece)
        /\ c.in = <<>> => Conn!Old(c.in) = <<>>
        /\ c.due = <<>> => Conn!Old(c.due) = <<>>
    BY <2>1, OldSeq
  <2> QED BY <2>2 DEF Conn!Connection, Quiet
<1> HIDE DEF r, d
<1>6. ConnHolds(t, r, None, d)
  BY <1>4 DEF ConnHolds, Holding
<1>7. ConnExact(r, d, mode')
  BY <1>0, <1>4, ConnBusy DEF ConnExact, Holding
<1>8. ConnRests(None, 0, d, mode')
  BY <1>0, <1>5 DEF ConnRests
<1>9. d \in ConnStates
  BY <1>5 DEF ConnStates
<1> HIDE DEF s
<1> QED BY <1>0, <1>1, <1>2, <1>4, <1>6, <1>7, <1>8, <1>9, ConnMoves DEF s

LEMMA ConnSends ==
  ASSUME ConnAll, ConnCounts, NEW t \in Threads, Conn!Send(t)
  PROVE  ConnAll'
<1> DEFINE s == thr[t].slot
           op == thr[t].op
           A == Conn!Answer
           posted == IF conn[s].st = "open"
                   THEN [conn[s] EXCEPT !.due = @ \o A] ELSE conn[s]
           r == [thr[t] EXCEPT !.pc = "recv", !.rest = conn[s].cut]
<1>0. ModeMoves /\ mode' = mode
  BY DEF Conn!Send, Conn!Finish, ModeMoves, ConnCounts
<1>1. thr[t].pc = "send"
  BY DEF Conn!Send, Conn!At
<1>2. /\ s \in Conn!Slots /\ slotLock[s] = t /\ slotLock = [slotLock EXCEPT ![s] = t]
      /\ conn[s] \in Conn!Connection /\ conn[s].st # "raw"
  BY <1>1, ConnHeld DEF Holding
<1>3. A \in Seq(Conn!Piece) /\ Len(A) \in Nat /\ Len(A) > 0
  BY ConnAnswer
<1>4. /\ posted \in Conn!Connection /\ posted.st # "raw" /\ posted.in = conn[s].in
      /\ posted.due \in {conn[s].due, conn[s].due \o A} /\ posted.cut = conn[s].cut
  <2>1. conn[s].due \o A \in Seq(Conn!Piece)
    BY <1>2, <1>3, ConcatProperties DEF Conn!Connection
  <2> HIDE DEF A
  <2> QED BY <1>2, <2>1 DEF Conn!Connection
<1>5. PICK c \in {posted, conn[s]} :
        IF op = "send" THEN Conn!Finish(t, s, c, <<>>)
        ELSE /\ conn' = [conn EXCEPT ![s] = c]
             /\ thr' = [thr EXCEPT ![t].pc = "recv", ![t].rest = conn[s].cut]
             /\ UNCHANGED <<busy, slotLock, fails, recent, serving, mode>>
  BY DEF Conn!Send
<1>6. /\ c \in Conn!Connection /\ c.st # "raw" /\ c.in = conn[s].in
      /\ c.due \in {conn[s].due, conn[s].due \o A} /\ c.cut = conn[s].cut
  <2> HIDE DEF posted, A
  <2>1. CASE c = posted
    BY <1>4, <2>1
  <2>2. CASE c = conn[s]
    BY <1>2, <2>2
  <2> QED BY <1>5, <2>1, <2>2
<1> HIDE DEF posted
<1>7. CASE op = "send"
  <2>1. mode = "async"
    BY <1>1, <1>7, ConnBusy DEF Conn!Sync
  <2>2. <<>> \in Seq(Conn!Piece)
    BY EmptySeq
  <2> QED BY <1>1, <1>5, <1>6, <1>7, <2>1, <2>2, ConnFinishes
<1>8. CASE op # "send"
  <2>1. /\ thr' = [thr EXCEPT ![t] = r] /\ conn' = [conn EXCEPT ![s] = c]
        /\ slotLock' = [slotLock EXCEPT ![s] = t]
        /\ busy' = [busy EXCEPT ![s] = busy[s]]
    BY <1>2, <1>5, <1>8, ConnSame DEF ConnAll, ConnTypes
  <2>2. /\ r \in ConnRecord /\ r.pc = "recv" /\ r.slot = s /\ r.op = thr[t].op
        /\ r.room = thr[t].room /\ r.got = thr[t].got /\ r.rest = c.cut
    BY <1>2, <1>6, ConnKnown DEF ConnRecord, Conn!Connection
  <2> HIDE DEF r
  <2>3. c \in ConnStates /\ c # None
    BY <1>6, ConnAssumption DEF ConnStates
  <2>4. ConnHolds(t, r, t, c)
    BY <1>1, <1>6, <2>2, <2>3, ConnBusy DEF ConnHolds
  <2>5. ASSUME mode # "async", ~c.cut PROVE Exchanging(r, c)
    <3>1. Quiet(conn[s]) /\ thr[t].got = <<>>
      BY <1>1, <1>6, <2>5, ConnBusy DEF Holding
    <3>2. Cut(A, 0, 0) = <<>> /\ Cut(A, 0, Len(A)) = A
      BY <1>3, CutEmpty, CutWhole
    <3>3. <<>> \o A = A
      BY <1>3, ConcatEmptySeq
    <3>4. c.due \in {<<>>, A}
      BY <1>6, <3>1, <3>3, Zenon DEF Quiet
    <3>5. PICK k \in {0, Len(A)} : c.due = Cut(A, 0, k)
      BY <3>2, <3>4
    <3>6. r.got = Cut(A, 0, 0) /\ c.in = Cut(A, 0, 0)
      BY <1>6, <2>2, <3>1, <3>2 DEF Quiet
    <3>7. 0 \in 0 .. Len(A) /\ k \in 0 .. Len(A) /\ 0 <= k
      BY <1>3, <3>5
    <3> HIDE DEF A, op
    <3> QED BY <1>3, <2>2, <3>5, <3>6, <3>7 DEF Exchanging, A
  <2>6. ConnExact(r, c, mode')
    BY <1>0, <1>1, <2>2, <2>5, ConnBusy DEF ConnExact, Holding
  <2>7. ConnRests(t, busy[s], c, mode')
    BY ConnAssumption DEF ConnRests
  <2>8. busy[s] \in {0, 1}
    BY ConnKnown
  <2> HIDE DEF s, A, op
  <2> QED BY <1>0, <1>2, <2>1, <2>2, <2>3, <2>4, <2>6, <2>7, <2>8, ConnMoves DEF s
<1> QED BY <1>7, <1>8

\* How much a receiver takes: something, and no more than there is and it has room for.
LEMMA ConnTakes ==
  ASSUME ConnAll, NEW t \in Threads, thr[t].pc = "recv",
         conn[thr[t].slot].in # <<>>
  PROVE  LET in == conn[thr[t].slot].in
             got == thr[t].got
             n == Conn!Taken(t)
             R == Conn!Received(t)
         IN /\ in \in Seq(Conn!Piece) /\ Len(in) \in Nat
            /\ got \in Seq(Conn!Piece) /\ Len(got) \in Nat
            /\ n \in 1 .. Len(in)
            /\ R \in Seq(Conn!Piece) /\ Len(R) \in Nat /\ Len(R) <= thr[t].room
            /\ SubSeq(in, n + 1, Len(in)) \in Seq(Conn!Piece)
<1> DEFINE in == conn[thr[t].slot].in
           got == thr[t].got
           n == Conn!Taken(t)
           room == thr[t].room
<1>1. conn[thr[t].slot] \in Conn!Connection
  BY ConnHeld DEF Holding
<1>2. in \in Seq(Conn!Piece) /\ Len(in) \in Nat /\ Len(in) > 0
  BY <1>1, EmptySeq, LenProperties DEF Conn!Connection
<1>3. got \in Seq(Conn!Piece) /\ Len(got) \in Nat /\ room \in Nat /\ Len(got) < room
  <2>1. thr[t] \in ConnRecord /\ room \in Nat
    BY ConnKnown, ConnRoom
  <2>2. got \in Seq(Conn!Piece)
    BY <2>1 DEF ConnRecord
  <2>3. Len(got) < room
    BY ConnBusy
  <2> HIDE DEF got, room
  <2> QED BY <2>1, <2>2, <2>3, LenProperties
<1>9. n = IF Len(in) < room - Len(got) THEN Len(in) ELSE room - Len(got)
  BY DEF Conn!Taken
<1>4. n \in 1 .. Len(in) /\ n <= room - Len(got)
  <2> HIDE DEF in, got, n, room
  <2> QED BY <1>2, <1>3, <1>9
<1>5. Conn!Received(t) = got \o SubSeq(in, 1, n)
  BY DEF Conn!Received
<1> HIDE DEF in, got, n, room
<1>6. \A i \in 1 .. Len(in) : in[i] \in Conn!Piece
  BY <1>2, LenProperties
<1>7. /\ SubSeq(in, 1, n) \in Seq(Conn!Piece) /\ Len(SubSeq(in, 1, n)) = n
      /\ SubSeq(in, n + 1, Len(in)) \in Seq(Conn!Piece)
  BY <1>2, <1>4, <1>6, SubSeqProperties
<1>8. /\ got \o SubSeq(in, 1, n) \in Seq(Conn!Piece)
      /\ Len(got \o SubSeq(in, 1, n)) = Len(got) + n
  BY <1>3, <1>7, ConcatProperties
<1> QED BY <1>2, <1>3, <1>4, <1>5, <1>7, <1>8 DEF in, got, n, room

LEMMA ConnReceives ==
  ASSUME ConnAll, ConnCounts, NEW t \in Threads, Conn!Recv(t)
  PROVE  ConnAll'
<1> DEFINE s == thr[t].slot
           op == thr[t].op
           in == conn[s].in
           n == Conn!Taken(t)
           left == SubSeq(in, n + 1, Len(in))
           A == Conn!Answer
           R == Conn!Received(t)
           c == [conn[s] EXCEPT !.in = left]
           r == [thr[t] EXCEPT !.got = R]
<1>0. ModeMoves /\ mode' = mode
  BY DEF Conn!Recv, Conn!Finish, ModeMoves, ConnCounts
<1>1. thr[t].pc = "recv" /\ in # <<>>
  BY DEF Conn!Recv, Conn!At
<1>2. /\ s \in Conn!Slots /\ slotLock[s] = t /\ slotLock = [slotLock EXCEPT ![s] = t]
      /\ conn[s] \in Conn!Connection /\ conn[s].st # "raw"
  BY <1>1, ConnHeld DEF Holding
<1>3. /\ A \in Seq(Conn!Piece) /\ Len(A) \in Nat /\ Len(A) > 0 /\ Len(A) = AnswerLen
      /\ \A i \in 1 .. Len(A) : A[i].no = i
  BY ConnAnswer
<1>5. /\ in \in Seq(Conn!Piece) /\ Len(in) \in Nat
      /\ thr[t].got \in Seq(Conn!Piece) /\ Len(thr[t].got) \in Nat
      /\ n \in 1 .. Len(in) /\ left \in Seq(Conn!Piece)
      /\ R \in Seq(Conn!Piece) /\ Len(R) \in Nat /\ Len(R) <= thr[t].room
  BY <1>1, ConnTakes
<1>4. /\ c \in Conn!Connection /\ c.in = left /\ c.due = conn[s].due
      /\ c.st = conn[s].st /\ c.cut = conn[s].cut
  <2> HIDE DEF left
  <2> QED BY <1>2, <1>5 DEF Conn!Connection
<1>9. mode # "async" => thr[t].rest = conn[s].cut
  <2>1. ConnExact(thr[t], conn[s], mode)
    BY ConnKnown
  <2> QED BY <1>1, <2>1 DEF ConnExact
\* what was received is the answer up to a piece h; to j has come, to k will come
<1>6. ASSUME mode # "async", ~conn[s].cut
      PROVE  \E h, j, k \in 0 .. Len(A) :
               /\ h <= j /\ j <= k /\ h > 0
               /\ R = Cut(A, 0, h) /\ c.in = Cut(A, h, j) /\ c.due = Cut(A, j, k)
  <2>0. Exchanging(thr[t], conn[s])
    <3>1. ConnExact(thr[t], conn[s], mode)
      BY ConnKnown
    <3> QED BY <1>1, <1>6, <3>1 DEF ConnExact
  <2>1. PICK i, j, k \in 0 .. Len(A) :
          /\ i <= j /\ j <= k
          /\ thr[t].got = Cut(A, 0, i) /\ in = Cut(A, i, j)
          /\ conn[s].due = Cut(A, j, k)
    BY <2>0 DEF Exchanging
  <2>8. R = thr[t].got \o SubSeq(in, 1, n)
    BY DEF Conn!Received
  <2>9. left = SubSeq(in, n + 1, Len(in))
    OBVIOUS
  <2> HIDE DEF A, R, c, left, n, in
  <2>2. i \in 0 .. Len(A) /\ j \in i .. Len(A) /\ k \in j .. Len(A) /\ 0 \in 0 .. Len(A)
    BY <1>3, <2>1
  <2>3. Len(in) = j - i
    BY <1>3, <2>1, <2>2, CutSeq
  <2>4. SubSeq(in, 1, n) = Cut(A, i, i + n) /\ left = Cut(A, i + n, j)
    <3>1. n \in 1 .. j - i
      BY <1>5, <2>3
    <3>2. /\ SubSeq(Cut(A, i, j), 1, n) = Cut(A, i, i + n)
          /\ SubSeq(Cut(A, i, j), n + 1, j - i) = Cut(A, i + n, j)
      BY <1>3, <2>2, <3>1, CutOfCut
    <3> QED BY <2>1, <2>3, <2>9, <3>2
  <2>5. i + n \in i .. Len(A) /\ i + n \in 0 .. Len(A) /\ i + n <= j /\ i + n > 0
    BY <1>3, <1>5, <2>1, <2>2, <2>3
  <2>6. Cut(A, 0, i) \o Cut(A, i, i + n) = Cut(A, 0, i + n)
    BY <1>3, <2>2, <2>5, CutJoin
  <2>7. R = Cut(A, 0, i + n)
    BY <2>1, <2>4, <2>6, <2>8
  <2> QED BY <1>4, <2>1, <2>4, <2>5, <2>7
<1>10. ASSUME mode # "async", ~conn[s].cut
       PROVE  /\ R = SubSeq(A, 1, Len(R))
              /\ DOMAIN R = 1 .. Len(R) /\ Len(R) \in 1 .. Len(A)
              /\ \A i \in 1 .. Len(R) : R[i].no = i
              /\ Len(R) = Len(A) => R = A /\ Quiet(c)
  <2> HIDE DEF A, R, c
  <2>1. PICK h, j, k \in 0 .. Len(A) :
               /\ h <= j /\ j <= k /\ h > 0
               /\ R = Cut(A, 0, h) /\ c.in = Cut(A, h, j) /\ c.due = Cut(A, j, k)
    BY <1>6, <1>10
  <2>2. 0 \in 0 .. Len(A) /\ h \in 0 .. Len(A)
    BY <1>3
  <2>3. Len(R) = h /\ \A i \in 1 .. h : R[i] = A[i]
    <3>1. Len(R) = h - 0 /\ \A i \in 1 .. h - 0 : R[i] = A[0 + i]
      BY <1>3, <2>1, <2>2, CutSeq
    <3> QED BY <1>3, <3>1
  <2>4. R = SubSeq(A, 1, Len(R))
    BY <1>3, <2>1, <2>3 DEF Cut
  <2>5. DOMAIN R = 1 .. Len(R) /\ Len(R) \in 1 .. Len(A)
    BY <1>3, <1>5, <2>1, <2>3, LenProperties
  <2>6. \A i \in 1 .. Len(R) : R[i].no = i
    BY <1>3, <2>1, <2>3
  <2>7. ASSUME Len(R) = Len(A) PROVE R = A /\ Quiet(c)
    <3>1. h = Len(A) /\ j = Len(A) /\ k = Len(A)
      BY <1>3, <2>1, <2>3, <2>7
    <3>2. R = A
      BY <1>3, <2>1, <3>1, CutWhole
    <3>3. Len(A) \in 0 .. Len(A) /\ Len(A) \in Len(A) .. Len(A)
      BY <1>3
    <3>4. Cut(A, Len(A), Len(A)) = <<>>
      BY <1>3, <3>3, CutEmpty
    <3> QED BY <2>1, <3>1, <3>2, <3>4 DEF Quiet
  <2> QED BY <2>4, <2>5, <2>6, <2>7
<1>7. CASE Conn!Complete(t) /\ Conn!Finish(t, s, [c EXCEPT !.cut = @ \/ ~Conn!Ends(R)], R)
  <2> DEFINE d == [c EXCEPT !.cut = @ \/ ~Conn!Ends(R)]
  <2> HIDE DEF A, R, c, s, op, in, n, left
  <2>1. /\ d \in Conn!Connection /\ d.st = c.st /\ d.cut = (c.cut \/ ~Conn!Ends(R))
        /\ Quiet(c) => Quiet(d)
    BY <1>4 DEF Conn!Connection, Quiet
  <2>2. ASSUME mode # "async", ~d.cut PROVE Quiet(d)
    <3>1. ~conn[s].cut /\ Conn!Ends(R)
      BY <1>4, <2>1, <2>2
    <3>2. PICK i \in DOMAIN R : R[i].no = AnswerLen
      BY <3>1 DEF Conn!Ends
    <3>3. Len(R) = Len(A)
      BY <1>3, <1>10, <2>2, <3>1, <3>2
    <3> QED BY <1>10, <2>1, <2>2, <3>1, <3>3
  <2>3. ASSUME mode # "async", ~thr[t].rest
        PROVE  IsAnswer([thr[t] EXCEPT !.got = R])
    <3>0. ~conn[s].cut
      BY <1>9, <2>3
    <3>1. R = SubSeq(A, 1, Len(R))
      BY <1>10, <2>3, <3>0
    <3>2. ASSUME thr[t].op = "send_recv_ex", AnswerLen <= thr[t].room, thr[t].buf = <<>>
          PROVE  R = A
      <4>1. CASE Len(R) = thr[t].room
        <5>1. Len(R) = Len(A)
          BY <1>3, <1>10, <2>3, <3>0, <3>2, <4>1
        <5> QED BY <1>10, <2>3, <3>0, <5>1
      <4>2. CASE Conn!Ends(Conn!Buffer(t))
        <5>1. Conn!Buffer(t) = R
          <6>1. PICK none : none = <<>>
            OBVIOUS
          <6>2. none \in Seq(Conn!Piece) /\ Len(none) = 0
            <7>1. <<>> \in Seq(Conn!Piece) /\ Len(<<>>) = 0
              BY EmptySeq
            <7> QED BY <6>1, <7>1, Zenon
          <6>3. Len(R) + 1 \in Int /\ Len(none) < Len(R) + 1
            BY <1>5, <6>2, LenProperties
          <6>4. SubSeq(none, Len(R) + 1, Len(none)) = <<>>
            BY <6>2, <6>3, SubSeqEmpty
          <6>5. R \o <<>> = R
            BY <1>5, ConcatEmptySeq
          <6>6. Conn!Buffer(t) = R \o SubSeq(none, Len(R) + 1, Len(none))
            BY <3>2, <6>1, Zenon DEF Conn!Buffer, R
          <6> QED BY <6>4, <6>5, <6>6, Zenon
        <5>2. PICK i \in DOMAIN R : R[i].no = AnswerLen
          BY <4>2, <5>1 DEF Conn!Ends
        <5>3. Len(R) = Len(A)
          BY <1>3, <1>10, <2>3, <3>0, <5>2
        <5> QED BY <1>10, <2>3, <3>0, <5>3
      <4> QED BY <1>7, <3>2, <4>1, <4>2 DEF Conn!Complete, R
    <3>3. /\ [thr[t] EXCEPT !.got = R].got = R
          /\ [thr[t] EXCEPT !.got = R].op = thr[t].op
          /\ [thr[t] EXCEPT !.got = R].room = thr[t].room
          /\ [thr[t] EXCEPT !.got = R].buf = thr[t].buf
      BY ConnKnown DEF ConnRecord
    <3> QED BY <3>1, <3>2, <3>3 DEF IsAnswer, A
  <2>4. Conn!Finish(t, thr[t].slot, d, R) /\ d.st # "raw"
    BY <1>2, <1>4, <1>7, <2>1 DEF s
  <2> HIDE DEF d
  <2> QED BY <1>1, <1>5, <2>1, <2>2, <2>3, <2>4, ConnFinishes
<1>8. CASE /\ ~Conn!Complete(t)
           /\ conn' = [conn EXCEPT ![s] = c]
           /\ thr' = [thr EXCEPT ![t].got = R]
           /\ UNCHANGED <<busy, slotLock, fails, recent, serving, mode>>
  <2>1. /\ thr' = [thr EXCEPT ![t] = r] /\ conn' = [conn EXCEPT ![s] = c]
        /\ slotLock' = [slotLock EXCEPT ![s] = t]
        /\ busy' = [busy EXCEPT ![s] = busy[s]]
    BY <1>2, <1>8, ConnSame
  <2>2. /\ r \in ConnRecord /\ r.pc = "recv" /\ r.slot = s /\ r.op = thr[t].op
        /\ r.room = thr[t].room /\ r.got = R /\ r.rest = thr[t].rest
    BY <1>1, <1>5, ConnKnown DEF ConnRecord
  <2> HIDE DEF r, c, R
  <2>3. c \in ConnStates /\ c # None
    BY <1>4, ConnAssumption DEF ConnStates
  <2>9. Len(R) < thr[t].room
    <3>1. Len(R) # thr[t].room
      BY <1>8 DEF Conn!Complete, R
    <3>2. thr[t].room \in Nat
      BY ConnKnown, ConnRoom
    <3> QED BY <1>5, <3>1, <3>2
  <2>4. ConnHolds(t, r, t, c)
    BY <1>2, <1>4, <2>2, <2>3, <2>9 DEF ConnHolds
  <2>5. ASSUME mode # "async", ~c.cut PROVE Exchanging(r, c)
    <3> HIDE DEF A
    <3>1. PICK h, j, k \in 0 .. Len(A) :
               /\ h <= j /\ j <= k /\ h > 0
               /\ R = Cut(A, 0, h) /\ c.in = Cut(A, h, j) /\ c.due = Cut(A, j, k)
      BY <1>4, <1>6, <2>5
    <3> QED BY <2>2, <3>1 DEF Exchanging, A
  <2>6. ConnExact(r, c, mode')
    BY <1>0, <1>1, <1>4, <1>9, <2>2, <2>5, ConnBusy DEF ConnExact, Holding
  <2>7. ConnRests(t, busy[s], c, mode')
    BY ConnAssumption DEF ConnRests
  <2>8. busy[s] \in {0, 1}
    BY ConnKnown
  <2> HIDE DEF s, A, op, in, n, left
  <2> QED BY <1>0, <1>2, <2>1, <2>2, <2>3, <2>4, <2>6, <2>7, <2>8, ConnMoves DEF s
<1> QED BY <1>7, <1>8 DEF Conn!Recv

LEMMA ConnArrives ==
  ASSUME ConnAll, NEW s \in Conn!Slots, Conn!AnswerArrives(s)
  PROVE  ConnAll'
<1> DEFINE c == conn[s]
           d == [c EXCEPT !.in = Append(@, Head(c.due)), !.due = Tail(@)]
<1>1. /\ c \in Conn!Connection /\ c # None /\ c.due # <<>>
      /\ conn' = [conn EXCEPT ![s] = d]
      /\ UNCHANGED <<busy, slotLock, mode, thr>>
  BY DEF Conn!AnswerArrives, ConnAll, ConnTypes, ConnStates
<1>2. c.in \in Seq(Conn!Piece) /\ c.due \in Seq(Conn!Piece)
  BY <1>1 DEF Conn!Connection
<1>3. Append(c.in, Head(c.due)) \in Seq(Conn!Piece) /\ Tail(c.due) \in Seq(Conn!Piece)
  <2> HIDE DEF c
  <2> QED BY <1>1, <1>2, HeadTailProperties, AppendProperties
<1>4. d \in Conn!Connection /\ d.st = c.st /\ d.cut = c.cut
  BY <1>1, <1>3 DEF Conn!Connection
<1>5. \A r \in ConnRecord : Exchanging(r, c) => Exchanging(r, d)
  BY <1>1, ExchangeTurns
<1>6. ~Quiet(c)
  BY <1>1 DEF Quiet
<1> HIDE DEF d
<1>7. Turned(c, d)
  BY <1>1, <1>4, <1>5, <1>6 DEF Turned
<1>8. conn' \in [Conn!Slots -> ConnStates] /\ \A q \in Conn!Slots : Turned(conn[q], conn'[q])
  BY <1>1, <1>4, <1>7 DEF ConnAll, ConnTypes, ConnStates, Turned
<1> QED BY <1>1, <1>8, ConnTurns

LEMMA ConnShut ==
  ASSUME NEW c \in ConnStates
  PROVE  Conn!Shut(c) \in ConnStates /\ Turned(c, Conn!Shut(c))
<1>1. CASE c = None \/ c.st = "raw"
  BY <1>1 DEF Conn!Shut, Turned
<1>2. CASE ~(c = None \/ c.st = "raw")
  <2> DEFINE d == [c EXCEPT !.st = "shut", !.due = <<>>]
  <2>1. Conn!Shut(c) = d /\ c \in Conn!Connection
    BY <1>2 DEF Conn!Shut, ConnStates
  <2>2. <<>> \in Seq(Conn!Piece)
    BY EmptySeq
  <2>3. d \in Conn!Connection /\ d.st = "shut" /\ d.in = c.in /\ d.due = <<>>
        /\ d.cut = c.cut
    BY <2>1, <2>2 DEF Conn!Connection
  <2>4. \A r \in ConnRecord : Exchanging(r, c) => Exchanging(r, d)
    BY <2>1, ExchangeTurns
  <2> HIDE DEF d
  <2> QED BY <1>2, <2>1, <2>3, <2>4 DEF Turned, Quiet, ConnStates
<1> QED BY <1>1, <1>2

LEMMA ConnCloses ==
  ASSUME ConnAll, NEW s \in Conn!Slots, Conn!PeerCloses(s)
  PROVE  ConnAll'
<1>1. /\ conn' = [conn EXCEPT ![s] = Conn!Shut(conn[s])]
      /\ UNCHANGED <<busy, slotLock, mode, thr>>
  BY DEF Conn!PeerCloses
<1>2. \A q \in Conn!Slots : conn[q] \in ConnStates
  BY DEF ConnAll, ConnTypes
<1>3. conn' \in [Conn!Slots -> ConnStates] /\ \A q \in Conn!Slots : Turned(conn[q], conn'[q])
  BY <1>1, <1>2, ConnShut DEF ConnAll, ConnTypes, Turned
<1> QED BY <1>1, <1>3, ConnTurns

LEMMA ConnStops ==
  ASSUME ConnAll, NEW ip \in Conn!Ips, Conn!BackendStops(ip)
  PROVE  ConnAll'
<1>1. /\ conn' = [s \in Conn!Slots |->
                   IF s[1] = ip THEN Conn!Shut(conn[s]) ELSE conn[s]]
      /\ UNCHANGED <<busy, slotLock, mode, thr>>
  BY DEF Conn!BackendStops
<1>2. \A q \in Conn!Slots : conn[q] \in ConnStates
  BY DEF ConnAll, ConnTypes
<1>3. conn' \in [Conn!Slots -> ConnStates] /\ \A q \in Conn!Slots : Turned(conn[q], conn'[q])
  BY <1>1, <1>2, ConnShut DEF Turned
<1> QED BY <1>1, <1>3, ConnTurns

LEMMA ConnUnchanged ==
  ASSUME ConnAll, UNCHANGED <<conn, busy, slotLock, mode, thr>>
  PROVE  ConnAll'
BY DEF ConnAll, ConnTypes

\* the counters of failures, and the mode
LEMMA ConnCountsFailure ==
  ASSUME ConnCounts, NEW s \in Conn!Slots, Conn!CountFailure(s)
  PROVE  fails' \in [Conn!Ips -> 0 .. MaxFails + 1] /\ recent' \subseteq Conn!Ips
<1>1. s[1] \in Conn!Ips
  BY DEF Conn!Slots
<1>2. fails[s[1]] \in 0 .. MaxFails + 1
  BY <1>1 DEF ConnCounts
<1>3. \A n \in Conn!FailsAfter(s[1], s) : n \in 0 .. MaxFails + 1
  BY <1>2, ConnAssumption DEF Conn!FailsAfter
<1> QED BY <1>1, <1>3 DEF Conn!CountFailure, ConnCounts

LEMMA ConnCountsStep == ConnInv /\ [Conn!Next]_(Conn!vars) => ConnCounts'
<1> SUFFICES ASSUME ConnInv, [Conn!Next]_(Conn!vars) PROVE ConnCounts'
  OBVIOUS
<1>0. ConnAll /\ ConnCounts
  BY DEF ConnInv
<1>a. ASSUME UNCHANGED <<fails, recent, serving, mode>> PROVE ConnCounts'
  BY <1>0, <1>a DEF ConnCounts
<1>b. ASSUME NEW s \in Conn!Slots, Conn!CountFailure(s), UNCHANGED <<serving, mode>>
      PROVE  ConnCounts'
  BY <1>0, <1>b, ConnCountsFailure DEF ConnCounts
<1>c. ASSUME NEW s \in Conn!Slots, Conn!Connected(s), UNCHANGED <<serving, mode>>
      PROVE  ConnCounts'
  <2>1. 0 \in 0 .. MaxFails + 1
    BY ConnAssumption
  <2> QED BY <1>0, <1>c, <2>1 DEF ConnCounts, Conn!Connected
<1>s. \A t \in Threads : thr[t].slot \in Conn!Slots
  BY <1>0, ConnKnown
<1>1. ASSUME NEW t \in Threads, NEW op \in Conn!Ops, NEW s \in Conn!Slots,
             NEW n \in Rooms, Conn!Begin(t, op, s, n)
      PROVE  ConnCounts'
  BY <1>0, <1>1 DEF Conn!Begin, Conn!ModeOf, ConnCounts
<1>2. ASSUME NEW t \in Threads,
             Conn!Dial(t) \/ Conn!Check(t) \/ Conn!Use(t) \/ Conn!Drain(t)
               \/ Conn!Send(t) \/ Conn!Recv(t)
      PROVE  ConnCounts'
  BY <1>2, <1>a DEF Conn!Dial, Conn!Check, Conn!Use, Conn!Drain, Conn!Send,
                    Conn!Recv, Conn!Finish
<1>3. ASSUME NEW t \in Threads, Conn!Dialled(t) PROVE ConnCounts'
  BY <1>3, <1>b, <1>c, <1>s DEF Conn!Dialled, Conn!fini
<1>4. ASSUME NEW t \in Threads, Conn!DrainClosed(t) PROVE ConnCounts'
  BY <1>4, <1>b, <1>s DEF Conn!DrainClosed
<1>5. ASSUME NEW t \in Threads, Conn!Redialled(t) PROVE ConnCounts'
  BY <1>5, <1>b, <1>c, <1>s DEF Conn!Redialled, Conn!Drop, Conn!fini
<1>6. ASSUME NEW t \in Threads, Conn!SendFails(t) \/ Conn!RecvFails(t)
      PROVE  ConnCounts'
  BY <1>6, <1>b, <1>s DEF Conn!SendFails, Conn!RecvFails, Conn!Drop, Conn!fini
<1>7. ASSUME NEW s \in Conn!Slots, Conn!AnswerArrives(s) \/ Conn!PeerCloses(s)
      PROVE  ConnCounts'
  BY <1>7, <1>a DEF Conn!AnswerArrives, Conn!PeerCloses
<1>8. ASSUME NEW ip \in Conn!Ips,
             Conn!BackendStops(ip) \/ Conn!BackendStarts(ip) \/ Conn!IntervalPasses(ip)
      PROVE  ConnCounts'
  BY <1>0, <1>8 DEF ConnCounts, Conn!BackendStops, Conn!BackendStarts, Conn!IntervalPasses
<1>9. CASE UNCHANGED Conn!vars
  BY <1>9, <1>a DEF Conn!vars
<1> QED BY <1>1, <1>2, <1>3, <1>4, <1>5, <1>6, <1>7, <1>8, <1>9 DEF Conn!Next

LEMMA ConnAllStep == ConnInv /\ [Conn!Next]_(Conn!vars) => ConnAll'
<1> SUFFICES ASSUME ConnInv, [Conn!Next]_(Conn!vars) PROVE ConnAll'
  OBVIOUS
<1>0. ConnAll /\ ConnCounts
  BY DEF ConnInv
<1>s. \A t \in Threads : thr[t].slot \in Conn!Slots
  BY <1>0, ConnKnown
<1>1. ASSUME NEW t \in Threads, NEW op \in Conn!Ops, NEW s \in Conn!Slots,
             NEW n \in Rooms, Conn!Begin(t, op, s, n)
      PROVE  ConnAll'
  BY <1>0, <1>1, ConnBegins
<1>2. ASSUME NEW t \in Threads, Conn!Dial(t) PROVE ConnAll'
  BY <1>0, <1>2, ConnDials
<1>3. ASSUME NEW t \in Threads, Conn!Dialled(t) PROVE ConnAll'
  BY <1>0, <1>3, ConnDialled
<1>4. ASSUME NEW t \in Threads, Conn!Check(t) PROVE ConnAll'
  BY <1>0, <1>4, ConnChecks
<1>5. ASSUME NEW t \in Threads, Conn!Use(t) PROVE ConnAll'
  BY <1>0, <1>5, ConnUses
<1>6. ASSUME NEW t \in Threads, Conn!Drain(t) PROVE ConnAll'
  BY <1>0, <1>6, ConnDrains
<1>7. ASSUME NEW t \in Threads, Conn!DrainClosed(t) PROVE ConnAll'
  BY <1>0, <1>7, ConnDrainsClosed
<1>8. ASSUME NEW t \in Threads, Conn!Redialled(t) PROVE ConnAll'
  BY <1>0, <1>8, ConnRedialled
<1>9. ASSUME NEW t \in Threads, Conn!Send(t) PROVE ConnAll'
  BY <1>0, <1>9, ConnSends
<1>10. ASSUME NEW t \in Threads, Conn!SendFails(t) \/ Conn!RecvFails(t) PROVE ConnAll'
  BY <1>0, <1>10, ConnDrops DEF Conn!SendFails, Conn!RecvFails, Conn!At, Holding
<1>11. ASSUME NEW t \in Threads, Conn!Recv(t) PROVE ConnAll'
  BY <1>0, <1>11, ConnReceives
<1>12. ASSUME NEW s \in Conn!Slots, Conn!AnswerArrives(s) \/ Conn!PeerCloses(s)
       PROVE  ConnAll'
  BY <1>0, <1>12, ConnArrives, ConnCloses
<1>13. ASSUME NEW ip \in Conn!Ips, Conn!BackendStops(ip) PROVE ConnAll'
  BY <1>0, <1>13, ConnStops
<1>14. ASSUME NEW ip \in Conn!Ips, Conn!BackendStarts(ip) \/ Conn!IntervalPasses(ip)
       PROVE  ConnAll'
  BY <1>0, <1>14, ConnUnchanged DEF Conn!BackendStarts, Conn!IntervalPasses
<1>15. CASE UNCHANGED Conn!vars
  BY <1>0, <1>15, ConnUnchanged DEF Conn!vars
<1> QED BY <1>1, <1>2, <1>3, <1>4, <1>5, <1>6, <1>7, <1>8, <1>9, <1>10, <1>11,
           <1>12, <1>13, <1>14, <1>15 DEF Conn!Next

LEMMA ConnFirst == Conn!Init => ConnInv
<1> SUFFICES ASSUME Conn!Init PROVE ConnInv
  OBVIOUS
<1>1. ConnTypes
  BY ConnIdle, ConnFresh DEF Conn!Init, ConnTypes, ConnStates
<1>2. \A s \in Conn!Slots : ConnRests(slotLock[s], busy[s], conn[s], mode)
  BY ConnFresh DEF Conn!Init, ConnRests
<1>3. \A t \in Threads : thr[t] = Conn!Idle
  BY DEF Conn!Init
<1>4. ConnCounts
  BY ConnAssumption DEF Conn!Init, ConnCounts
<1> QED BY <1>1, <1>2, <1>3, <1>4, ConnIdleFits DEF ConnInv, ConnAll

LEMMA ConnStep == [Next]_vars => [Conn!Next]_(Conn!vars)
BY DEF Next, vars, others, connVars, Conn!vars

\* The invariant holds in every state of every execution of the parts.
THEOREM ConnAlways == Spec => []ConnInv
<1>1. Init => ConnInv
  BY ConnFirst DEF Init
<1>2. ConnInv /\ [Next]_vars => ConnInv'
  BY ConnStep, ConnAllStep, ConnCountsStep DEF ConnInv
<1> QED BY <1>1, <1>2, PTL DEF Spec

\* A thread that drains, sends or receives holds the lock of its slot and finds the
\* connection of the slot there, connected (PlatConnMgrEx: send, recv, send_recv, send_recv_ex).
THEOREM UsedIsLocked == Spec => []HeldIsLive
<1>1. ConnInv => HeldIsLive
  BY ConnInvImplies DEF HeldIsLive
<1> QED BY <1>1, ConnAlways, PTL

\* A slot is marked busy only while a thread holds its lock: every return of the
\* pooled calls, of failure too, clears the mark.
THEOREM MarkIsCleared == Spec => []BusyIsHeld
<1>1. ConnInv => BusyIsHeld
  BY ConnInvImplies DEF BusyIsHeld
<1> QED BY <1>1, ConnAlways, PTL

\* As long as the program makes no asynchronous calls, what a synchronous call
\* returns is the beginning of the answer to the request it sent, and all of it with
\* a separator and the room for it, after whatever closes and losses before: a failed
\* exchange closes its connection.  Calls that follow one that returned a part only
\* are excepted, up to the one that reads the rest away.
THEOREM NoOthersAnswer == Spec => []AnswerIsMine
<1>1. ConnInv => AnswerIsMine
  BY ConnInvImplies DEF AnswerIsMine
<1> QED BY <1>1, ConnAlways, PTL
=============================================================================
