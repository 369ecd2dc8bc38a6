----------------------------- MODULE FramingProof -----------------------------
(***************************************************************************)
(* Proofs about how the bytes of a connection are cut into messages, as    *)
(* the part Frame of Parts.                                                *)
(*                                                                         *)
(* The sequences the properties are stated with are made with folds, the   *)
(* loops of the handlers with recursive functions; both are first replaced *)
(* by what they give: FrameSets has where each message ends (P), what is   *)
(* wanted of it (W) and the stream (S); CutLoop and WalkLoop say how a     *)
(* loop goes on, LoopGives what it has given at its end.  CintfText and    *)
(* BinExact then say of the three exact kinds that the messages that are   *)
(* complete are given and the rest stays, IntfText of the fourth that what *)
(* it gives is a run of bytes in order.  The invariant, FrameInv, is that  *)
(* the last recvLen bytes received are in the buffer, and those before     *)
(* them are the messages that were given.                                  *)
(***************************************************************************)
EXTENDS Parts, Lemmas

-----------------------------------------------------------------------------
(* Sequences that are put one behind the other.                            *)

LEMMA Joined ==
  ASSUME NEW T, NEW s \in Seq(T), NEW t \in Seq(T), NEW u, u = s \o t
  PROVE  /\ u \in Seq(T) /\ Len(s) \in Nat /\ Len(t) \in Nat
         /\ Len(u) = Len(s) + Len(t)
         /\ \A k \in 1 .. Len(s) : u[k] = s[k]
         /\ \A k \in 1 .. Len(t) : u[Len(s) + k] = t[k]
<1>1. Len(s) \in Nat /\ Len(t) \in Nat
  BY LenProperties
<1>2. /\ u \in Seq(T) /\ Len(u) = Len(s) + Len(t)
      /\ \A i \in 1 .. Len(s) + Len(t) : u[i] = IF i <= Len(s) THEN s[i] ELSE t[i - Len(s)]
  BY ConcatProperties
<1>3. ASSUME NEW k \in 1 .. Len(t) PROVE u[Len(s) + k] = t[k]
  <2>1. /\ Len(s) + k \in 1 .. Len(s) + Len(t) /\ ~ (Len(s) + k <= Len(s))
        /\ Len(s) + k - Len(s) = k
    BY <1>1
  <2> QED BY <1>2, <2>1
<1>4. ASSUME NEW k \in 1 .. Len(s) PROVE u[k] = s[k]
  <2>1. k \in 1 .. Len(s) + Len(t) /\ k <= Len(s)
    BY <1>1
  <2> QED BY <1>2, <2>1
<1> QED BY <1>1, <1>2, <1>3, <1>4

\* P[i] is where the i-th of the sequences of g ends.
AreEnds(P, g) ==
  /\ P \in [0 .. Len(g) -> Nat]
  /\ P[0] = 0
  /\ \A i \in 1 .. Len(g) : P[i] = P[i - 1] + Len(g[i])

LEMMA FlatChain ==
  ASSUME NEW T, NEW g \in Seq(Seq(T))
  PROVE  \A n \in 1 .. Len(g) :
           \E c \in [1 .. n -> Seq(T)] :
             /\ c[1] = g[1]
             /\ \A i \in 2 .. n : c[i] = c[i - 1] \o g[i]
<1> DEFINE Chain(n) == \E c \in [1 .. n -> Seq(T)] :
                         /\ c[1] = g[1]
                         /\ \A i \in 2 .. n : c[i] = c[i - 1] \o g[i]
           Bad == {n \in 1 .. Len(g) : ~ Chain(n)}
<1>0. Len(g) \in Nat /\ \A i \in 1 .. Len(g) : g[i] \in Seq(T)
  BY LenProperties, ElementOfSeq
<1> HIDE DEF Chain
<1>2. /\ Bad \in SUBSET Nat
      /\ \A n : n \in Bad <=> n \in 1 .. Len(g) /\ ~ Chain(n)
  BY <1>0
<1> HIDE DEF Bad
<1>1. ASSUME Bad # {} PROVE FALSE
  <2>1. PICK n \in Bad : \A m \in Bad : n <= m
    BY <1>1, <1>2, LeastNatural
  <2>2. n \in 1 .. Len(g) /\ ~ Chain(n) /\ n \in Nat
    BY <1>2
  <2>3. CASE n = 1
    <3> DEFINE c == [i \in 1 .. 1 |-> g[1]]
    <3>1. c \in [1 .. 1 -> Seq(T)] /\ c[1] = g[1] /\ \A i \in 2 .. 1 : c[i] = c[i - 1] \o g[i]
      BY <1>0, <2>2, <2>3
    <3> QED BY <2>2, <2>3, <3>1 DEF Chain
  <2>4. CASE n # 1
    <3>1. n - 1 \in 1 .. Len(g) /\ n - 1 \notin Bad
      BY <1>0, <1>2, <2>1, <2>2, <2>4
    <3>2. PICK c \in [1 .. n - 1 -> Seq(T)] :
            c[1] = g[1] /\ \A i \in 2 .. n - 1 : c[i] = c[i - 1] \o g[i]
      BY <1>2, <3>1 DEF Chain
    <3> DEFINE d == [i \in 1 .. n |-> IF i = n THEN c[n - 1] \o g[n] ELSE c[i]]
    <3>3. c[n - 1] \in Seq(T) /\ g[n] \in Seq(T)
      BY <1>0, <2>2, <3>1
    <3>4. c[n - 1] \o g[n] \in Seq(T)
      BY <3>3, ConcatProperties
    <3>5. d \in [1 .. n -> Seq(T)]
      <4>1. \A i \in 1 .. n : i # n => i \in 1 .. n - 1
        BY <2>2
      <4> QED BY <3>4, <4>1
    <3>6. d[1] = g[1]
      BY <2>2, <2>4, <3>2
    <3>7. ASSUME NEW i \in 2 .. n PROVE d[i] = d[i - 1] \o g[i]
      <4>1. CASE i = n
        <5>1. n \in 1 .. n /\ n - 1 \in 1 .. n /\ n - 1 # n
          BY <2>2, <2>4
        <5> QED BY <4>1, <5>1
      <4>2. CASE i # n
        <5>1. i \in 2 .. n - 1 /\ i \in 1 .. n /\ i - 1 \in 1 .. n /\ i - 1 # n
          BY <2>2, <3>7, <4>2
        <5> QED BY <3>2, <4>2, <5>1
      <4> QED BY <4>1, <4>2
    <3> QED BY <2>2, <3>5, <3>6, <3>7 DEF Chain
  <2> QED BY <2>3, <2>4
<1> QED BY <1>1, <1>2 DEF Chain

\* FlattenSeq of what comes first of g.
LEMMA FlatPrefix ==
  ASSUME NEW T, NEW g \in Seq(Seq(T)), NEW n \in 1 .. Len(g), NEW c \in [1 .. n -> Seq(T)],
         c[1] = g[1], \A i \in 2 .. n : c[i] = c[i - 1] \o g[i],
         NEW m \in 1 .. n
  PROVE  Frame!FlattenSeq(SubSeq(g, 1, m)) = c[m]
<1> DEFINE s == SubSeq(g, 1, m)
           Flattens(f) == f = [i \in 1 .. m |-> IF i = 1 THEN s[i] ELSE f[i - 1] \o s[i]]
           fl == CHOOSE f : Flattens(f)
<1>0. Len(g) \in Nat /\ m \in Nat /\ m <= Len(g)
  BY LenProperties
<1>1. Len(s) = m /\ \A i \in 1 .. m : s[i] = g[i]
  BY <1>0, SubSeqProperties
<1>2. Frame!FlattenSeq(s) = fl[m]
  BY <1>0, <1>1 DEF Frame!FlattenSeq
<1> DEFINE d == [i \in 1 .. m |-> c[i]]
<1>3. Flattens(d)
  <2>1. ASSUME NEW i \in 1 .. m
        PROVE  d[i] = IF i = 1 THEN s[i] ELSE d[i - 1] \o s[i]
    <3>1. CASE i = 1
      BY <1>1, <2>1, <3>1
    <3>2. CASE i # 1
      <4>1. i \in 2 .. n /\ i - 1 \in 1 .. m
        BY <2>1, <3>2
      <4> QED BY <1>1, <3>2, <4>1
    <3> QED BY <3>1, <3>2
  <2> QED BY <2>1
<1>4. Flattens(fl)
  BY <1>3
<1> HIDE DEF fl, s
<1>5. \A i \in 1 .. m : fl[i] = IF i = 1 THEN s[i] ELSE fl[i - 1] \o s[i]
  BY <1>4
<1> DEFINE Bad == {i \in 1 .. m : fl[i] # c[i]}
<1>6. ASSUME Bad # {} PROVE FALSE
  <2>1. Bad \in SUBSET Nat
    OBVIOUS
  <2>2. PICK i \in Bad : \A j \in Bad : i <= j
    BY <1>6, <2>1, LeastNatural
  <2>3. i \in 1 .. m /\ fl[i] # c[i]
    OBVIOUS
  <2>4. CASE i = 1
    BY <1>1, <1>5, <2>3, <2>4
  <2>5. CASE i # 1
    <3>1. i - 1 \in 1 .. m /\ i \in 2 .. n
      BY <2>3, <2>5
    <3>2. fl[i - 1] = c[i - 1]
      BY <2>2, <3>1
    <3>3. fl[i] = fl[i - 1] \o s[i]
      BY <1>5, <2>3, <2>5
    <3>4. s[i] = g[i] /\ c[i] = c[i - 1] \o g[i]
      BY <1>1, <2>3, <3>1
    <3> QED BY <2>3, <3>2, <3>3, <3>4
  <2> QED BY <2>4, <2>5
<1>7. m \in 1 .. m
  BY <1>0
<1> QED BY <1>2, <1>6, <1>7 DEF s

LEMMA EndsGrow ==
  ASSUME NEW T, NEW g \in Seq(Seq(T)), NEW P, AreEnds(P, g)
  PROVE  /\ \A i, j \in 0 .. Len(g) : i <= j => P[i] <= P[j]
         /\ \A i \in 1 .. Len(g) : Len(g[i]) \in Nat
<1>0. Len(g) \in Nat /\ \A i \in 1 .. Len(g) : Len(g[i]) \in Nat
  BY LenProperties, ElementOfSeq
<1>1. ASSUME NEW i \in 0 .. Len(g) PROVE \A j \in 0 .. Len(g) : i <= j => P[i] <= P[j]
  <2> DEFINE Bad == {j \in 0 .. Len(g) : i <= j /\ ~ (P[i] <= P[j])}
  <2>1. ASSUME Bad # {} PROVE FALSE
    <3>1. Bad \in SUBSET Nat
      OBVIOUS
    <3>2. PICK j \in Bad : \A k \in Bad : j <= k
      BY <2>1, <3>1, LeastNatural
    <3>3. j \in 0 .. Len(g) /\ i <= j /\ ~ (P[i] <= P[j]) /\ P[i] \in Nat /\ P[j] \in Nat
      BY DEF AreEnds
    <3>4. i # j
      BY <3>3
    <3>5. j \in 1 .. Len(g) /\ j - 1 \in 0 .. Len(g) /\ i <= j - 1
      BY <1>0, <3>3, <3>4
    <3>6. P[i] <= P[j - 1]
      BY <3>2, <3>5
    <3>7. P[j] = P[j - 1] + Len(g[j]) /\ P[j - 1] \in Nat
      BY <3>5 DEF AreEnds
    <3> QED BY <1>0, <3>3, <3>5, <3>6, <3>7
  <2> QED BY <2>1
<1> QED BY <1>0, <1>1

\* s is the sequences of g, one behind the other.
IsFlat(P, g, s) ==
  /\ Len(s) = P[Len(g)]
  /\ \A i \in 1 .. Len(g) : \A k \in 1 .. Len(g[i]) : s[P[i - 1] + k] = g[i][k]

LEMMA FlatEnds ==
  ASSUME NEW T, NEW g \in Seq(Seq(T))
  PROVE  \E P :
           /\ AreEnds(P, g)
           /\ \A i \in 0 .. Len(g) : Len(Frame!FlattenSeq(SubSeq(g, 1, i))) = P[i]
           /\ Frame!FlattenSeq(g) \in Seq(T)
           /\ IsFlat(P, g, Frame!FlattenSeq(g))
<1>0. Len(g) \in Nat /\ \A i \in 1 .. Len(g) : g[i] \in Seq(T) /\ Len(g[i]) \in Nat
  BY LenProperties, ElementOfSeq
<1>1. Frame!FlattenSeq(SubSeq(g, 1, 0)) = <<>>
  <2>1. SubSeq(g, 1, 0) = <<>>
    BY <1>0, SubSeqEmpty
  <2> QED BY <2>1 DEF Frame!FlattenSeq
<1>2. CASE Len(g) = 0
  <2> DEFINE P == [i \in 0 .. 0 |-> 0]
  <2>1. AreEnds(P, g)
    BY <1>2 DEF AreEnds
  <2>2. g = <<>>
    BY <1>2, EmptySeq
  <2>3. Frame!FlattenSeq(g) = <<>>
    BY <2>2 DEF Frame!FlattenSeq
  <2>4. Frame!FlattenSeq(g) \in Seq(T) /\ IsFlat(P, g, Frame!FlattenSeq(g))
    BY <1>2, <2>3, EmptySeq DEF IsFlat
  <2> QED BY <1>1, <1>2, <2>1, <2>4
<1>3. CASE Len(g) # 0
  <2> DEFINE n == Len(g)
  <2>0. n \in 1 .. n
    BY <1>0, <1>3
  <2>1. PICK c \in [1 .. n -> Seq(T)] :
          c[1] = g[1] /\ \A i \in 2 .. n : c[i] = c[i - 1] \o g[i]
    BY <2>0, FlatChain
  <2>2. \A i \in 1 .. n : Frame!FlattenSeq(SubSeq(g, 1, i)) = c[i]
    BY <2>0, <2>1, FlatPrefix
  <2>3. \A i \in 1 .. n : c[i] \in Seq(T) /\ Len(c[i]) \in Nat
    BY <2>1, LenProperties
  <2> DEFINE P == [i \in 0 .. n |-> IF i = 0 THEN 0 ELSE Len(c[i])]
  <2>4. AreEnds(P, g)
    <3>1. P \in [0 .. n -> Nat] /\ P[0] = 0
      BY <1>0, <2>3
    <3>2. ASSUME NEW i \in 1 .. n PROVE P[i] = P[i - 1] + Len(g[i])
      <4>1. CASE i = 1
        BY <1>0, <2>0, <2>1, <4>1
      <4>2. CASE i # 1
        <5>1. i \in 2 .. n /\ i - 1 \in 1 .. n /\ i - 1 # 0 /\ i # 0 /\ i - 1 \in 0 .. n /\ i \in 0 .. n
          BY <1>0, <3>2, <4>2
        <5>2. Len(c[i]) = Len(c[i - 1]) + Len(g[i])
          <6>1. c[i] = c[i - 1] \o g[i] /\ c[i - 1] \in Seq(T) /\ g[i] \in Seq(T)
            BY <1>0, <2>1, <2>3, <5>1
          <6> QED BY <6>1, Joined
        <5> QED BY <5>1, <5>2
      <4> QED BY <4>1, <4>2
    <3> QED BY <3>1, <3>2 DEF AreEnds
  <2>5. \A i \in 0 .. n : Len(Frame!FlattenSeq(SubSeq(g, 1, i))) = P[i]
    <3>1. Len(Frame!FlattenSeq(SubSeq(g, 1, 0))) = 0
      BY <1>1
    <3> QED BY <1>0, <2>2, <3>1
  <2>6. \A i \in 1 .. n : P[i] = Len(c[i])
    BY <1>0
  <2>7. P[0] = 0
    BY <1>0
  <2> DEFINE Fits(m) == \A i \in 1 .. m : \A k \in 1 .. Len(g[i]) : c[m][P[i - 1] + k] = g[i][k]
             Bad == {m \in 1 .. n : ~ Fits(m)}
  <2> HIDE DEF P, Fits
  <2>8. ASSUME Bad # {} PROVE FALSE
    <3>1. Bad \in SUBSET Nat
      BY <1>0
    <3>2. PICK m \in Bad : \A k \in Bad : m <= k
      BY <2>8, <3>1, LeastNatural
    <3>3. m \in 1 .. n /\ ~ Fits(m)
      OBVIOUS
    <3>10. PICK i \in 1 .. m : \E k \in 1 .. Len(g[i]) : c[m][P[i - 1] + k] # g[i][k]
      BY <3>3 DEF Fits
    <3>4. PICK k \in 1 .. Len(g[i]) : c[m][P[i - 1] + k] # g[i][k]
      BY <3>10
    <3>5. CASE m = 1
      <4>1. i = 1 /\ k \in Nat /\ P[i - 1] + k = k
        BY <1>0, <2>7, <3>4, <3>5
      <4> QED BY <2>1, <3>4, <3>5, <4>1
    <3>6. CASE m # 1
      <4>1. m - 1 \in 1 .. n /\ m \in 2 .. n /\ i \in 1 .. n
        BY <1>0, <3>3, <3>4, <3>6
      <4>2. c[m] = c[m - 1] \o g[m] /\ c[m - 1] \in Seq(T) /\ g[m] \in Seq(T)
        BY <1>0, <2>1, <3>3, <4>1
      <4>3. /\ \A x \in 1 .. Len(c[m - 1]) : c[m][x] = c[m - 1][x]
            /\ \A x \in 1 .. Len(g[m]) : c[m][Len(c[m - 1]) + x] = g[m][x]
        <5>1. PICK a \in Seq(T), b \in Seq(T) : a = c[m - 1] /\ b = g[m]
          BY <4>2
        <5>2. PICK u : u = c[m]
          OBVIOUS
        <5>3. u = a \o b
          BY <4>2, <5>1, <5>2
        <5>4. \A x \in 1 .. Len(a) : u[x] = a[x]
          BY <5>3, Joined
        <5>5. \A x \in 1 .. Len(b) : u[Len(a) + x] = b[x]
          BY <5>3, Joined
        <5> QED BY <5>1, <5>2, <5>4, <5>5
      <4>4. CASE i = m
        BY <2>6, <3>4, <4>1, <4>3, <4>4
      <4>5. CASE i # m
        <5>1. i \in 1 .. m - 1 /\ i - 1 \in 0 .. n /\ i \in 0 .. n /\ m - 1 \in 0 .. n /\ i <= m - 1
          <6>1. n \in Nat /\ m \in Nat /\ i \in Nat /\ 1 <= i /\ i <= m /\ m <= n
            BY <1>0, <3>3, <3>10
          <6> HIDE DEF n
          <6> QED BY <4>5, <6>1
        <5>2. P[i] <= P[m - 1] /\ P[i] = P[i - 1] + Len(g[i]) /\ P[i - 1] \in Nat /\ P[i] \in Nat
          BY <2>4, <4>1, <5>1, EndsGrow DEF AreEnds
        <5>3. P[m - 1] = Len(c[m - 1]) /\ Len(c[m - 1]) \in Nat /\ Len(g[i]) \in Nat
          BY <1>0, <2>3, <2>6, <4>1
        <5>4. P[i - 1] + k \in 1 .. Len(c[m - 1])
          <6>1. PICK p, q, r, l \in Nat :
                  p = P[i - 1] /\ q = P[i] /\ r = P[m - 1] /\ l = Len(g[i])
            BY <5>2, <5>3
          <6>2. k \in Nat /\ 1 <= k /\ k <= l
            BY <3>4, <6>1
          <6>3. q <= r /\ q = p + l
            BY <5>2, <6>1
          <6>4. p + k \in 1 .. r
            BY <6>2, <6>3
          <6> QED BY <5>3, <6>1, <6>4
        <5>5. Fits(m - 1)
          BY <3>2, <4>1
        <5> QED BY <3>4, <4>3, <5>1, <5>4, <5>5 DEF Fits
      <4> QED BY <4>4, <4>5
    <3> QED BY <3>5, <3>6
  <2>9. Fits(n)
    BY <2>0, <2>8
  <2>10. Frame!FlattenSeq(g) = c[n]
    <3>1. SubSeq(g, 1, Len(g)) = g
      BY <1>0, SubSeqFull
    <3> QED BY <2>0, <2>2, <3>1
  <2>11. Frame!FlattenSeq(g) \in Seq(T) /\ IsFlat(P, g, Frame!FlattenSeq(g))
    BY <2>0, <2>3, <2>6, <2>9, <2>10 DEF IsFlat, Fits
  <2> QED BY <2>4, <2>5, <2>11
<1> QED BY <1>2, <1>3

\* A position of the whole is one of one of the sequences.
LEMMA EndsCover ==
  ASSUME NEW T, NEW g \in Seq(Seq(T)), NEW P, AreEnds(P, g), NEW p \in 1 .. P[Len(g)]
  PROVE  \E i \in 1 .. Len(g) :
           /\ P[i - 1] < p /\ p <= P[i] /\ P[i - 1] \in Nat
           /\ p - P[i - 1] \in 1 .. Len(g[i])
<1>0. Len(g) \in Nat /\ P[Len(g)] \in Nat /\ P[0] = 0 /\ p \in Nat
  <2>1. Len(g) \in Nat
    BY LenProperties
  <2>2. P[Len(g)] \in Nat /\ P[0] = 0
    BY <2>1 DEF AreEnds
  <2> QED BY <2>1, <2>2
<1> DEFINE S == {i \in 0 .. Len(g) : p <= P[i]}
<1>1. S \in SUBSET Nat /\ Len(g) \in S
  BY <1>0
<1>2. PICK i \in S : \A j \in S : i <= j
  BY <1>1, LeastNatural
<1>3. i \in 0 .. Len(g) /\ p <= P[i]
  OBVIOUS
<1>4. i # 0
  BY <1>0, <1>3
<1>5. i \in 1 .. Len(g) /\ i - 1 \in 0 .. Len(g) /\ ~ (i <= i - 1)
  BY <1>0, <1>3, <1>4
<1>6. ~ (p <= P[i - 1])
  BY <1>2, <1>5
<1>9. P[i] = P[i - 1] + Len(g[i]) /\ P[i] \in Nat /\ P[i - 1] \in Nat
  BY <1>3, <1>5 DEF AreEnds
<1>10. Len(g[i]) \in Nat
  BY <1>5, EndsGrow
<1>7. PICK a, b, l \in Nat : a = P[i - 1] /\ b = P[i] /\ l = Len(g[i]) /\ b = a + l
  BY <1>9, <1>10
<1>8. a < p /\ p <= b /\ p - a \in 1 .. l
  BY <1>0, <1>3, <1>6, <1>7
<1> QED BY <1>5, <1>7, <1>8

\* Positions that only grow, from above lo up to hi.
IsRun(g, lo, hi) ==
  /\ \A i \in 1 .. Len(g) : \A k \in 1 .. Len(g[i]) : lo < g[i][k] /\ g[i][k] <= hi
  /\ \A i \in 1 .. Len(g) : \A k, l \in 1 .. Len(g[i]) : k < l => g[i][k] < g[i][l]
  /\ \A i, j \in 1 .. Len(g) : i < j =>
       \A k \in 1 .. Len(g[i]) : \A l \in 1 .. Len(g[j]) : g[i][k] < g[j][l]

LEMMA RunFlat ==
  ASSUME NEW g \in Seq(Seq(Int)), NEW hi \in Int, IsRun(g, 0, hi),
         NEW all, all = Frame!FlattenSeq(g), NEW x \in DOMAIN all
  PROVE  all[x] > 0 /\ (x > 1 => all[x - 1] < all[x])
<1>1. PICK P : AreEnds(P, g) /\ all \in Seq(Int) /\ IsFlat(P, g, all)
  BY FlatEnds
<1>0. Len(g) \in Nat
  BY LenProperties
<1>2. Len(all) = P[Len(g)] /\ Len(all) \in Nat /\ x \in 1 .. P[Len(g)] /\ all[x] \in Int
  BY <1>1, LenProperties, ElementOfSeq DEF IsFlat
<1>3. PICK i \in 1 .. Len(g) : /\ P[i - 1] < x /\ x <= P[i] /\ P[i - 1] \in Nat
                               /\ x - P[i - 1] \in 1 .. Len(g[i])
  BY <1>1, <1>2, EndsCover
<1>4. PICK a \in Nat : a = P[i - 1]
  BY <1>3
<1>5. PICK k \in 1 .. Len(g[i]) : k = x - a
  BY <1>3, <1>4
<1>l. Len(g[i]) \in Nat /\ k \in Nat /\ x \in Nat /\ 1 <= k
  <2>1. Len(g[i]) \in Nat
    BY <1>1, EndsGrow
  <2> QED BY <1>2, <1>5, <2>1
<1>6. a + k = x
  BY <1>4, <1>5, <1>l
<1>7. all[x] = g[i][k]
  BY <1>1, <1>4, <1>6 DEF IsFlat
<1>8. all[x] > 0
  BY <1>2, <1>7 DEF IsRun
<1>9. ASSUME x > 1 PROVE all[x - 1] < all[x]
  <2>1. CASE k > 1
    <3>1. k - 1 \in 1 .. Len(g[i]) /\ a + (k - 1) = x - 1 /\ k - 1 < k
      <4>1. k - 1 \in 1 .. Len(g[i]) /\ k - 1 < k
        BY <1>5, <1>l, <2>1
      <4>2. a + (k - 1) = x - 1
        BY <1>4, <1>6, <1>l
      <4> QED BY <4>1, <4>2
    <3>2. all[x - 1] = g[i][k - 1]
      BY <1>1, <1>4, <3>1 DEF IsFlat
    <3> QED BY <1>7, <3>1, <3>2 DEF IsRun
  <2>2. CASE ~ (k > 1)
    <3>0. k = 1 /\ x - 1 = a
      BY <1>4, <1>6, <1>l, <2>2
    <3>1. x - 1 \in 1 .. P[Len(g)]
      BY <1>2, <1>9, <1>l
    <3>2. PICK j \in 1 .. Len(g) : /\ P[j - 1] < x - 1 /\ P[j - 1] \in Nat
                                   /\ (x - 1) - P[j - 1] \in 1 .. Len(g[j])
      BY <1>1, <3>1, EndsCover
    <3>3. PICK b \in Nat : b = P[j - 1]
      BY <3>2
    <3>4. PICK l \in 1 .. Len(g[j]) : l = (x - 1) - b
      BY <3>2, <3>3
    <3>5. Len(g[j]) \in Nat /\ l \in Nat /\ b + l = x - 1
      <4>1. Len(g[j]) \in Nat
        BY <1>1, EndsGrow
      <4>2. l \in Nat /\ l = (x - 1) - b /\ b \in Nat
        BY <3>3, <3>4, <4>1
      <4>3. b + l = x - 1
        BY <1>l, <4>2
      <4> QED BY <4>1, <4>2, <4>3
    <3>6. all[x - 1] = g[j][l]
      BY <1>1, <3>3, <3>5 DEF IsFlat
    <3>7. j < i
      <4>1. ASSUME ~ (j < i) PROVE FALSE
        <5>1. i - 1 \in 0 .. Len(g) /\ j - 1 \in 0 .. Len(g) /\ i - 1 <= j - 1
          BY <1>0, <4>1
        <5>2. P[i - 1] <= P[j - 1]
          BY <1>1, <5>1, EndsGrow
        <5>3. b < x - 1 /\ x - 1 = a /\ a <= b
          BY <1>4, <3>0, <3>2, <3>3, <5>2
        <5>4. ~ (b < a)
          BY <5>3
        <5> QED BY <5>3, <5>4
      <4> QED BY <4>1
    <3> QED BY <1>7, <3>6, <3>7 DEF IsRun
  <2> QED BY <2>1, <2>2
<1> QED BY <1>8, <1>9

LEMMA RunJoined ==
  ASSUME NEW g \in Seq(Seq(Int)), NEW h \in Seq(Seq(Int)),
         NEW lo \in Int, NEW mid \in Int, NEW hi \in Int, lo <= mid, mid <= hi,
         IsRun(g, lo, mid), IsRun(h, mid, hi)
  PROVE  g \o h \in Seq(Seq(Int)) /\ IsRun(g \o h, lo, hi)
<1>1. PICK u : u = g \o h
  OBVIOUS
<1>2. /\ u \in Seq(Seq(Int)) /\ Len(g) \in Nat /\ Len(h) \in Nat
      /\ Len(u) = Len(g) + Len(h)
      /\ \A k \in 1 .. Len(g) : u[k] = g[k]
      /\ \A k \in 1 .. Len(h) : u[Len(g) + k] = h[k]
  BY <1>1, Joined
<1>3. \A i \in 1 .. Len(u) :
        \/ i \in 1 .. Len(g) /\ u[i] = g[i]
        \/ /\ i > Len(g) /\ i - Len(g) \in 1 .. Len(h)
           /\ u[i] = h[i - Len(g)]
  <2> TAKE i \in 1 .. Len(u)
  <2>3. i \in Nat /\ 1 <= i /\ i <= Len(g) + Len(h)
    BY <1>2
  <2>1. CASE i <= Len(g)
    <3>1. i \in 1 .. Len(g)
      BY <1>2, <2>1, <2>3
    <3> QED BY <1>2, <3>1
  <2>2. CASE ~ (i <= Len(g))
    <3>1. i - Len(g) \in 1 .. Len(h) /\ Len(g) + (i - Len(g)) = i
      BY <1>2, <2>2, <2>3
    <3>2. PICK m \in 1 .. Len(h) : m = i - Len(g) /\ Len(g) + m = i
      BY <3>1
    <3>3. u[i] = h[m]
      BY <1>2, <3>2
    <3>4. i > Len(g)
      BY <1>2, <2>2, <2>3
    <3> QED BY <3>2, <3>3, <3>4
  <2> QED BY <2>1, <2>2
<1>4. /\ \A i \in 1 .. Len(g) : \A k \in 1 .. Len(g[i]) : g[i][k] \in Int
      /\ \A i \in 1 .. Len(h) : \A k \in 1 .. Len(h[i]) : h[i][k] \in Int
  BY ElementOfSeq
<1>5. ASSUME NEW i \in 1 .. Len(u), NEW k \in 1 .. Len(u[i])
      PROVE  lo < u[i][k] /\ u[i][k] <= hi
  <2>1. CASE i \in 1 .. Len(g) /\ u[i] = g[i]
    <3>1. k \in 1 .. Len(g[i]) /\ g[i][k] \in Int
      BY <1>4, <2>1
    <3>2. lo < g[i][k] /\ g[i][k] <= mid
      BY <2>1, <3>1 DEF IsRun
    <3> QED BY <2>1, <3>1, <3>2
  <2>2. CASE i - Len(g) \in 1 .. Len(h) /\ u[i] = h[i - Len(g)]
    <3>1. PICK m \in 1 .. Len(h) : m = i - Len(g) /\ u[i] = h[m]
      BY <2>2
    <3>2. k \in 1 .. Len(h[m]) /\ h[m][k] \in Int
      BY <1>4, <3>1
    <3>3. mid < h[m][k] /\ h[m][k] <= hi
      BY <3>1, <3>2 DEF IsRun
    <3> QED BY <3>1, <3>2, <3>3
  <2> QED BY <1>3, <2>1, <2>2
<1>6. ASSUME NEW i \in 1 .. Len(u), NEW k \in 1 .. Len(u[i]), NEW l \in 1 .. Len(u[i]), k < l
      PROVE  u[i][k] < u[i][l]
  <2>1. CASE i \in 1 .. Len(g) /\ u[i] = g[i]
    BY <1>6, <2>1 DEF IsRun
  <2>2. CASE i - Len(g) \in 1 .. Len(h) /\ u[i] = h[i - Len(g)]
    <3>1. PICK m \in 1 .. Len(h) : m = i - Len(g) /\ u[i] = h[m]
      BY <2>2
    <3> QED BY <1>6, <3>1 DEF IsRun
  <2> QED BY <1>3, <2>1, <2>2
<1>7. ASSUME NEW i \in 1 .. Len(u), NEW j \in 1 .. Len(u), i < j,
             NEW k \in 1 .. Len(u[i]), NEW l \in 1 .. Len(u[j])
      PROVE  u[i][k] < u[j][l]
  <2>1. CASE j \in 1 .. Len(g) /\ u[j] = g[j]
    <3>1. i \in 1 .. Len(g)
      <4>1. i \in Nat /\ j \in Nat
        BY <1>2
      <4> QED BY <1>2, <1>7, <2>1, <4>1
    <3>2. u[i] = g[i]
      BY <1>2, <3>1
    <3> QED BY <1>7, <2>1, <3>1, <3>2 DEF IsRun
  <2>2. CASE j - Len(g) \in 1 .. Len(h) /\ u[j] = h[j - Len(g)]
    <3>0. PICK n \in 1 .. Len(h) : n = j - Len(g) /\ u[j] = h[n]
      BY <2>2
    <3>1. CASE i \in 1 .. Len(g) /\ u[i] = g[i]
      <4>1. u[i][k] <= mid /\ mid < u[j][l]
        BY <3>0, <3>1 DEF IsRun
      <4>2. u[i][k] \in Int
        BY <1>4, <3>1
      <4>3. u[j][l] \in Int
        BY <1>4, <3>0
      <4>4. PICK y \in Int, z \in Int : y = u[i][k] /\ z = u[j][l]
        BY <4>2, <4>3
      <4>5. y < z
        <5>1. y <= mid /\ mid < z
          BY <4>1, <4>4
        <5> QED BY <5>1
      <4> QED BY <4>4, <4>5
    <3>2. CASE i - Len(g) \in 1 .. Len(h) /\ u[i] = h[i - Len(g)]
      <4>1. PICK m \in 1 .. Len(h) : m = i - Len(g) /\ u[i] = h[m]
        BY <3>2
      <4>2. m < n
        <5>1. i \in Nat /\ j \in Nat
          BY <1>2
        <5> QED BY <1>2, <1>7, <3>0, <4>1, <5>1
      <4> QED BY <3>0, <4>1, <4>2 DEF IsRun
    <3> QED BY <1>3, <3>1, <3>2
  <2> QED BY <1>3, <2>1, <2>2
<1>8. IsRun(u, lo, hi)
  BY <1>5, <1>6, <1>7 DEF IsRun
<1> QED BY <1>1, <1>2, <1>8

-----------------------------------------------------------------------------
(* The loops over the messages in the buffer.                              *)

FrameOut == [msgs : Seq(Seq(Int)), at : Int, next : Int, bad : BOOLEAN]

LEMMA GivesFields ==
  ASSUME NEW r \in FrameOut, NEW m \in Seq(Int)
  PROVE  /\ Frame!Gives(m, r) \in FrameOut
         /\ Frame!Gives(m, r).msgs = <<m>> \o r.msgs
         /\ Frame!Gives(m, r).at = r.at /\ Frame!Gives(m, r).next = r.next
         /\ Frame!Gives(m, r).bad = r.bad
<1>1. <<m>> \in Seq(Seq(Int)) /\ r.msgs \in Seq(Seq(Int))
  BY DEF FrameOut
<1>2. <<m>> \o r.msgs \in Seq(Seq(Int))
  BY <1>1, ConcatProperties
<1>3. PICK v \in Seq(Seq(Int)) : v = <<m>> \o r.msgs
  BY <1>2
<1>4. Frame!Gives(m, r) = [r EXCEPT !.msgs = v]
  BY <1>3 DEF Frame!Gives
<1>5. /\ [r EXCEPT !.msgs = v] \in FrameOut /\ [r EXCEPT !.msgs = v].msgs = v
      /\ [r EXCEPT !.msgs = v].at = r.at /\ [r EXCEPT !.msgs = v].next = r.next
      /\ [r EXCEPT !.msgs = v].bad = r.bad
  BY DEF FrameOut
<1> QED BY <1>3, <1>4, <1>5

\* A loop that only moves on comes to an end.
GoesOn(next, M) ==
  \A s \in 1 .. M : next[s] # 0 => next[s] \in 1 .. M /\ s < next[s]
IsLooped(f, M, next, stop, piece) ==
  \A s \in 1 .. M :
    f[s] = IF next[s] = 0 THEN stop[s] ELSE Frame!Gives(piece[s], f[next[s]])

LEMMA LoopExists ==
  ASSUME NEW M \in Nat, NEW next \in [1 .. M -> Nat],
         GoesOn(next, M), NEW stop \in [1 .. M -> FrameOut],
         NEW piece \in [1 .. M -> Seq(Int)]
  PROVE  \E f \in [1 .. M -> FrameOut] : IsLooped(f, M, next, stop, piece)
<1> DEFINE Fits(f, s) ==
             f[s] = IF next[s] = 0 THEN stop[s] ELSE Frame!Gives(piece[s], f[next[s]])
           Good(k) == \E f \in [1 .. M -> FrameOut] :
                        \A s \in 1 .. M : M < s + k => Fits(f, s)
           Bad == {k \in 0 .. M : ~ Good(k)}
<1> HIDE DEF Good
<1>1. Bad \in SUBSET Nat /\ \A k : k \in Bad <=> k \in 0 .. M /\ ~ Good(k)
  OBVIOUS
<1> HIDE DEF Bad
<1>2. ASSUME Bad # {} PROVE FALSE
  <2>1. PICK k \in Bad : \A j \in Bad : k <= j
    BY <1>1, <1>2, LeastNatural
  <2>2. k \in 0 .. M /\ ~ Good(k)
    BY <1>1
  <2>3. CASE k = 0
    <3>1. \A s \in 1 .. M : ~ (M < s + 0)
      OBVIOUS
    <3> QED BY <2>2, <2>3, <3>1 DEF Good
  <2>4. CASE k # 0
    <3>1. k - 1 \in 0 .. M /\ ~ (k <= k - 1)
      BY <2>2, <2>4
    <3>2. Good(k - 1)
      BY <1>1, <2>1, <3>1
    <3>3. PICK f \in [1 .. M -> FrameOut] :
            \A s \in 1 .. M : M < s + (k - 1) => Fits(f, s)
      BY <3>2 DEF Good
    <3>4. PICK z \in 1 .. M : z = M + 1 - k
      BY <2>2, <2>4
    <3> DEFINE v == IF next[z] = 0 THEN stop[z] ELSE Frame!Gives(piece[z], f[next[z]])
               g == [f EXCEPT ![z] = v]
    <3>5. v \in FrameOut
      <4>1. CASE next[z] = 0
        BY <3>4, <4>1
      <4>2. CASE next[z] # 0
        <5>1. f[next[z]] \in FrameOut /\ piece[z] \in Seq(Int)
          BY <3>3, <3>4, <4>2 DEF GoesOn
        <5>2. Frame!Gives(piece[z], f[next[z]]) \in FrameOut
          BY <5>1, GivesFields
        <5> QED BY <4>2, <5>2
      <4> QED BY <4>1, <4>2
    <3> HIDE DEF v
    <3>6. g \in [1 .. M -> FrameOut] /\ g[z] = v /\ \A s \in 1 .. M : s # z => g[s] = f[s]
      BY <3>3, <3>4, <3>5
    <3> HIDE DEF g
    <3>7. ASSUME NEW s \in 1 .. M, M < s + k PROVE Fits(g, s)
      <4>1. z <= s
        BY <2>2, <3>4, <3>7
      <4>2. next[s] # 0 => next[s] \in 1 .. M /\ next[s] # z
        BY <4>1, <3>4 DEF GoesOn
      <4>3. next[s] # 0 => g[next[s]] = f[next[s]]
        BY <3>6, <4>2
      <4>4. CASE s = z
        BY <3>6, <4>3, <4>4 DEF v
      <4>5. CASE s # z
        <5>1. M < s + (k - 1)
          BY <2>2, <3>4, <3>7, <4>1, <4>5
        <5>2. Fits(f, s) /\ g[s] = f[s]
          BY <3>3, <3>6, <4>5, <5>1
        <5> QED BY <4>3, <5>2
      <4> QED BY <4>4, <4>5
    <3> QED BY <2>2, <3>6, <3>7 DEF Good
  <2> QED BY <2>3, <2>4
<1>3. Good(M)
  <2>1. M \in 0 .. M
    OBVIOUS
  <2>2. M \notin Bad
    BY <1>2
  <2> QED BY <1>1, <2>1, <2>2
<1>4. \A s \in 1 .. M : M < s + M
  OBVIOUS
<1>5. PICK f \in [1 .. M -> FrameOut] : \A s \in 1 .. M : Fits(f, s)
  BY <1>3, <1>4 DEF Good
<1> QED BY <1>5 DEF IsLooped

\* One round after the other gives the next message of W, and the last none.
IsLoop(c, q, W, k) ==
  /\ \A j \in 0 .. k - 1 : c[q[j]] = Frame!Gives(W[j + 1], c[q[j + 1]])
  /\ c[q[k]] \in FrameOut /\ c[q[k]].msgs = <<>>

LoopGave(a, z, W) ==
  a \in FrameOut /\ a.msgs = W /\ a.at = z.at /\ a.next = z.next /\ a.bad = z.bad

\* What a loop gives that finds the messages of W one after the other.
LEMMA LoopGives ==
  ASSUME NEW c, NEW k \in Nat, NEW q \in [0 .. k -> Int], NEW W \in [1 .. k -> Seq(Int)],
         IsLoop(c, q, W, k)
  PROVE  LoopGave(c[q[0]], c[q[k]], W)
<1> DEFINE r(m) == c[q[k - m]]
           From(m) == [i \in 1 .. m |-> W[k - m + i]]
           Good(m) == /\ r(m) \in FrameOut /\ r(m).msgs = From(m)
                      /\ r(m).at = c[q[k]].at /\ r(m).next = c[q[k]].next
                      /\ r(m).bad = c[q[k]].bad
           Bad == {m \in 0 .. k : ~ Good(m)}
<1> HIDE DEF Good
<1>1. Bad \in SUBSET Nat /\ \A m : m \in Bad <=> m \in 0 .. k /\ ~ Good(m)
  OBVIOUS
<1> HIDE DEF Bad
<1>2. ASSUME Bad # {} PROVE FALSE
  <2>1. PICK m \in Bad : \A j \in Bad : m <= j
    BY <1>1, <1>2, LeastNatural
  <2>2. m \in 0 .. k /\ ~ Good(m)
    BY <1>1
  <2>3. CASE m = 0
    <3>1. k - 0 = k /\ From(0) = <<>>
      OBVIOUS
    <3>2. Good(0)
      BY <3>1 DEF Good, IsLoop
    <3> QED BY <2>2, <2>3, <3>2
  <2>4. CASE m # 0
    <3>1. m - 1 \in 0 .. k /\ ~ (m <= m - 1)
      BY <2>2, <2>4
    <3>2. Good(m - 1)
      BY <1>1, <2>1, <3>1
    <3>3. PICK j \in 0 .. k - 1 : j = k - m /\ j + 1 = k - (m - 1) /\ j + 1 \in 1 .. k
      BY <2>2, <2>4
    <3>4. r(m) = Frame!Gives(W[j + 1], r(m - 1)) /\ W[j + 1] \in Seq(Int)
      BY <3>3 DEF IsLoop
    <3>5. r(m - 1) \in FrameOut /\ r(m - 1).msgs = From(m - 1)
      BY <3>2 DEF Good
    <3>6. /\ r(m) \in FrameOut /\ r(m).msgs = <<W[j + 1]>> \o From(m - 1)
          /\ r(m).at = r(m - 1).at /\ r(m).next = r(m - 1).next /\ r(m).bad = r(m - 1).bad
      <4>0. PICK b : b = r(m)
        OBVIOUS
      <4>1. PICK a \in FrameOut, w \in Seq(Int) : a = r(m - 1) /\ w = W[j + 1]
        BY <3>4, <3>5
      <4>2. b = Frame!Gives(w, a) /\ a.msgs = From(m - 1)
        BY <3>4, <3>5, <4>0, <4>1
      <4>3. /\ b \in FrameOut /\ b.msgs = <<w>> \o a.msgs
            /\ b.at = a.at /\ b.next = a.next /\ b.bad = a.bad
        BY <4>2, GivesFields
      <4> QED BY <4>0, <4>1, <4>2, <4>3
    <3>7. <<W[j + 1]>> \o From(m - 1) = From(m)
      <4>1. PICK s \in Seq(Seq(Int)), t \in Seq(Seq(Int)) : s = <<W[j + 1]>> /\ t = From(m - 1)
        <5>1. <<W[j + 1]>> \in Seq(Seq(Int))
          BY <3>4
        <5>2. \A a \in FrameOut : a.msgs \in Seq(Seq(Int))
          BY DEF FrameOut
        <5>3. From(m - 1) \in Seq(Seq(Int))
          BY <3>5, <5>2
        <5> QED BY <5>1, <5>3
      <4>2. PICK u : u = s \o t
        OBVIOUS
      <4>3. Len(s) = 1 /\ s[1] = W[j + 1] /\ Len(t) = m - 1
        BY <2>2, <2>4, <4>1
      <4>4. /\ u \in Seq(Seq(Int)) /\ Len(u) = m
            /\ u[1] = W[j + 1]
            /\ \A i \in 1 .. m - 1 : u[1 + i] = t[i]
        <5>1. /\ u \in Seq(Seq(Int)) /\ Len(u) = Len(s) + Len(t)
              /\ \A i \in 1 .. Len(s) : u[i] = s[i]
              /\ \A i \in 1 .. Len(t) : u[Len(s) + i] = t[i]
          BY <4>2, Joined
        <5> QED BY <2>2, <4>3, <5>1
      <4>5. ASSUME NEW i \in 1 .. m PROVE u[i] = W[k - m + i]
        <5>1. CASE i = 1
          BY <3>3, <4>4, <5>1
        <5>2. CASE i # 1
          <6>1. PICK h \in 1 .. m - 1 : h = i - 1 /\ 1 + h = i
            BY <2>2, <4>5, <5>2
          <6>2. u[i] = t[h]
            BY <4>4, <6>1
          <6>3. t[h] = W[k - (m - 1) + h]
            BY <4>1
          <6>4. k - (m - 1) + h = k - m + i
            BY <2>2, <6>1
          <6> QED BY <6>2, <6>3, <6>4
        <5> QED BY <5>1, <5>2
      <4>6. u \in [1 .. m -> Seq(Int)]
        BY <4>4, LenProperties
      <4>7. u = From(m)
        BY <4>5, <4>6
      <4> QED BY <4>1, <4>2, <4>7
    <3>8. Good(m)
      BY <3>2, <3>6, <3>7 DEF Good
    <3> QED BY <2>2, <3>8
  <2> QED BY <2>3, <2>4
<1>3. Good(k)
  <2>1. k \in 0 .. k /\ k \notin Bad
    BY <1>2
  <2> QED BY <1>1, <2>1
<1>4. From(k) = W /\ k - k = 0
  <2>1. \A i \in 1 .. k : k - k + i = i
    OBVIOUS
  <2> QED BY <2>1
<1> QED BY <1>3, <1>4 DEF Good, LoopGave

-----------------------------------------------------------------------------
(* What the peer sends.                                                    *)

FrameTokens == {"c", "n", "x"} \cup Nat
FrameSent(k) == IF k \in {"intf_text", "cintf_text"} THEN Frame!TextMessages
                ELSE Frame!BinMessages(k)

\* A text message is one separator at its end, behind its command word.
LEMMA FrameText ==
  ASSUME NEW s \in Frame!TextMessages
  PROVE  /\ s \in Seq(FrameTokens) /\ Len(s) \in {2, 3}
         /\ s[Len(s)] = "n" /\ s[Len(s) - 1] = "c"
         /\ \A k \in 1 .. Len(s) : s[k] \in {"c", "n", "x"} /\ (s[k] = "n" => k = Len(s))
<1>1. CASE s = <<"c", "n">>
  <2>1. s \in Seq(FrameTokens)
    BY <1>1 DEF FrameTokens
  <2>2. Len(s) = 2 /\ s[1] = "c" /\ s[2] = "n"
    BY <1>1
  <2> QED BY <2>1, <2>2
<1>2. CASE s = <<"x", "c", "n">>
  <2>1. s \in Seq(FrameTokens)
    BY <1>2 DEF FrameTokens
  <2>2. Len(s) = 3 /\ s[1] = "x" /\ s[2] = "c" /\ s[3] = "n"
    BY <1>2
  <2> QED BY <2>1, <2>2
<1> QED BY <1>1, <1>2 DEF Frame!TextMessages

\* The length of a binary message is that of what follows it, or of the whole.
LEMMA FrameBin ==
  ASSUME NEW k, NEW s \in Frame!BinMessages(k)
  PROVE  /\ s \in Seq(FrameTokens) /\ s \in Seq(Nat) /\ s[1] \in Nat
         /\ Len(s) = s[1] + IF k \in {"intf_self", "cintf_self"} THEN 0 ELSE LenSize
         /\ LenSize <= Len(s)
<1>1. PICK l \in Lens :
        /\ k \in {"intf_self", "cintf_self"} => l >= LenSize
        /\ s = <<l>> \o Frame!Rest(LenSize - 1) \o
               Frame!Rest(IF k \in {"intf_self", "cintf_self"} THEN l - LenSize ELSE l)
  BY DEF Frame!BinMessages
<1>2. l \in Nat /\ LenSize \in Nat \ {0}
  BY FrameAssumption
<1> DEFINE Self == k \in {"intf_self", "cintf_self"}
<1>3. PICK d \in Nat : d = IF Self THEN l - LenSize ELSE l
  <2>1. CASE Self
    <3>1. l - LenSize \in Nat
      BY <1>1, <1>2, <2>1
    <3> QED BY <2>1, <3>1
  <2>2. CASE ~ Self
    BY <1>2, <2>2
  <2> QED BY <2>1, <2>2
<1>4. \A n \in Nat : Frame!Rest(n) \in Seq(Nat) /\ Len(Frame!Rest(n)) = n
  <2> TAKE n \in Nat
  <2>1. Frame!Rest(n) \in [1 .. n -> Nat]
    BY DEF Frame!Rest
  <2> QED BY <2>1, SeqDef
<1>5. PICK e \in Nat : e = LenSize - 1
  BY <1>2
<1>6. PICK a \in Seq(Nat), b \in Seq(Nat), c \in Seq(Nat) :
        /\ a = <<l>> /\ b = Frame!Rest(e) /\ c = Frame!Rest(d)
        /\ Len(a) = 1 /\ a[1] = l /\ Len(b) = e /\ Len(c) = d
  <2>1. <<l>> \in Seq(Nat) /\ Len(<<l>>) = 1 /\ <<l>>[1] = l
    BY <1>2
  <2>2. /\ Frame!Rest(e) \in Seq(Nat) /\ Len(Frame!Rest(e)) = e
        /\ Frame!Rest(d) \in Seq(Nat) /\ Len(Frame!Rest(d)) = d
    BY <1>4
  <2> HIDE DEF Self
  <2> QED BY <2>1, <2>2
<1>7. PICK u : u = a \o b
  OBVIOUS
<1>8. u \in Seq(Nat) /\ Len(u) = 1 + e /\ u[1] = l
  BY <1>6, <1>7, Joined
<1>9. s = u \o c
  BY <1>1, <1>3, <1>5, <1>6, <1>7
<1>10. s \in Seq(Nat) /\ Len(s) = 1 + e + d /\ s[1] = l
  <2>1. 1 \in 1 .. Len(u)
    BY <1>5, <1>8
  <2>3. /\ s \in Seq(Nat) /\ Len(s) = Len(u) + Len(c)
        /\ \A i \in 1 .. Len(u) : s[i] = u[i]
    <3>1. u \in Seq(Nat) /\ c \in Seq(Nat) /\ s = u \o c
      BY <1>6, <1>8, <1>9
    <3> QED BY <3>1, Joined
  <2>2. s \in Seq(Nat) /\ Len(s) = Len(u) + Len(c) /\ s[1] = u[1]
    BY <2>1, <2>3
  <2> QED BY <1>6, <1>8, <2>2
<1>11. s \in Seq(FrameTokens)
  <2>1. s \in [1 .. Len(s) -> Nat] /\ Len(s) \in Nat
    BY <1>10, LenProperties
  <2>2. s \in [1 .. Len(s) -> FrameTokens]
    BY <2>1 DEF FrameTokens
  <2>3. PICK n \in Nat : n = Len(s)
    BY <2>1
  <2>4. s \in [1 .. n -> FrameTokens]
    BY <2>2, <2>3
  <2> QED BY <2>4, SeqDef
<1> QED BY <1>1, <1>2, <1>3, <1>5, <1>10, <1>11

\* P[i] is where message i ends in the stream S, W[i] what is wanted of it.
FrameSetting(P, W, S) ==
  /\ P \in [0 .. MsgNum -> Nat] /\ P[0] = 0
  /\ \A i, j \in 0 .. MsgNum : i < j => P[i] < P[j]
  /\ \A i \in 0 .. MsgNum : Frame!EndOf(i) = P[i]
  /\ \A i \in 1 .. MsgNum : Frame!Wanted(i) = W[i]
  /\ W \in [1 .. MsgNum -> Seq(Int)]
  /\ \A i \in 1 .. MsgNum :
       W[i] = LET x == IF Frame!IsText THEN 0 ELSE Frame!Extra
              IN [k \in 1 .. P[i] - P[i - 1] - x |-> P[i - 1] + x + k]
  /\ S = Frame!Stream /\ S \in Seq(FrameTokens) /\ Len(S) = P[MsgNum]
  /\ Frame!IsText =>
       /\ \A p \in 1 .. Len(S) : /\ S[p] \in {"c", "n", "x"}
                                 /\ S[p] = "n" => \E i \in 1 .. MsgNum : p = P[i]
       /\ \A i \in 1 .. MsgNum : /\ S[P[i]] = "n" /\ S[P[i] - 1] = "c"
                                 /\ P[i - 1] < P[i] - 1
  /\ ~ Frame!IsText =>
       /\ \A p \in 1 .. Len(S) : S[p] \in Nat
       /\ \A i \in 1 .. MsgNum : /\ P[i] = P[i - 1] + Frame!Extra + S[P[i - 1] + 1]
                                 /\ P[i - 1] + LenSize <= P[i]

LEMMA FrameSettingStays ==
  ASSUME NEW P, NEW W, NEW S, FrameSetting(P, W, S), UNCHANGED <<kind, sent>>
  PROVE  FrameSetting(P, W, S)'
<1>1. UNCHANGED <<Frame!IsText, Frame!Extra, Frame!Stream>>
  BY DEF Frame!IsText, Frame!Extra, Frame!Stream
<1>2. \A i : Frame!EndOf(i)' = Frame!EndOf(i)
  BY DEF Frame!EndOf
<1>3. \A i : Frame!Wanted(i)' = Frame!Wanted(i)
  BY DEF Frame!Wanted, Frame!BeginOf, Frame!EndOf, Frame!IsText, Frame!Extra
<1> QED BY <1>1, <1>2, <1>3 DEF FrameSetting

LEMMA FrameSets ==
  ASSUME kind \in Frame!AllKinds, sent \in [1 .. MsgNum -> FrameSent(kind)]
  PROVE  \E P, W, S : FrameSetting(P, W, S)
<1>1. MsgNum \in Nat /\ LenSize \in Nat \ {0}
  BY FrameAssumption
<1>2. \A s \in FrameSent(kind) : s \in Seq(FrameTokens)
  BY FrameText, FrameBin DEF FrameSent
<1>3. sent \in Seq(Seq(FrameTokens)) /\ Len(sent) = MsgNum
  <2>1. sent \in [1 .. MsgNum -> Seq(FrameTokens)]
    BY <1>2
  <2> QED BY <1>1, <2>1, SeqDef
<1>4. PICK P : /\ AreEnds(P, sent)
               /\ \A i \in 0 .. MsgNum : Frame!EndOf(i) = P[i]
               /\ Frame!Stream \in Seq(FrameTokens)
               /\ IsFlat(P, sent, Frame!Stream)
  BY <1>3, FlatEnds DEF Frame!EndOf, Frame!Stream
<1>5. /\ P \in [0 .. MsgNum -> Nat] /\ P[0] = 0
      /\ \A i \in 1 .. MsgNum : P[i] = P[i - 1] + Len(sent[i])
  BY <1>3, <1>4 DEF AreEnds
<1>16. ASSUME NEW i \in 1 .. MsgNum
       PROVE  /\ i - 1 \in 0 .. MsgNum /\ i \in 0 .. MsgNum
              /\ P[i - 1] \in Nat /\ P[i] \in Nat
  <2>1. i - 1 \in 0 .. MsgNum /\ i \in 0 .. MsgNum
    BY <1>1
  <2> QED BY <1>5, <2>1
<1> DEFINE x == IF Frame!IsText THEN 0 ELSE Frame!Extra
<1>6. x \in Nat /\ (Frame!IsText <=> kind \in {"intf_text", "cintf_text"})
  BY <1>1 DEF Frame!IsText, Frame!Extra
<1>7. \A i \in 1 .. MsgNum : Len(sent[i]) \in Nat /\ Len(sent[i]) >= x /\ Len(sent[i]) > 0
  <2> TAKE i \in 1 .. MsgNum
  <2>1. CASE Frame!IsText
    <3>1. sent[i] \in Frame!TextMessages
      BY <1>6, <2>1 DEF FrameSent
    <3>2. Len(sent[i]) \in {2, 3}
      BY <3>1, FrameText
    <3> QED BY <2>1, <3>2
  <2>2. CASE ~ Frame!IsText
    <3>1. sent[i] \in Frame!BinMessages(kind)
      BY <1>6, <2>2 DEF FrameSent
    <3>2. /\ Len(sent[i]) = sent[i][1] + Frame!Extra /\ sent[i][1] \in Nat
          /\ LenSize <= Len(sent[i])
      BY <3>1, FrameBin DEF Frame!Extra
    <3>3. Frame!Extra \in Nat
      BY <1>1 DEF Frame!Extra
    <3> QED BY <1>1, <2>2, <3>2, <3>3
  <2> QED BY <2>1, <2>2
<1>8. ASSUME NEW i \in 0 .. MsgNum, NEW j \in 0 .. MsgNum, i < j PROVE P[i] < P[j]
  <2>1. i + 1 \in 1 .. MsgNum /\ i + 1 <= j /\ (i + 1) - 1 = i
    BY <1>1, <1>8
  <2>2. P[i + 1] = P[i] + Len(sent[i + 1]) /\ Len(sent[i + 1]) > 0 /\ Len(sent[i + 1]) \in Nat
    BY <1>5, <1>7, <2>1
  <2>3. P[i + 1] <= P[j]
    BY <1>3, <1>4, <2>1, EndsGrow
  <2>4. P[i] \in Nat /\ P[j] \in Nat
    BY <1>5
  <2> QED BY <2>2, <2>3, <2>4
<1> DEFINE W == [i \in 1 .. MsgNum |-> Frame!Wanted(i)]
           S == Frame!Stream
<1> HIDE DEF x
<1>9. ASSUME NEW i \in 1 .. MsgNum
      PROVE  /\ W[i] = [k \in 1 .. P[i] - P[i - 1] - x |-> P[i - 1] + x + k]
             /\ W[i] \in Seq(Int)
  <2>1. PICK a \in Nat, b \in Nat, l \in Nat :
          a = P[i - 1] /\ b = P[i] /\ l = Len(sent[i]) /\ b = a + l /\ l >= x
    <3>1. P[i] = P[i - 1] + Len(sent[i]) /\ Len(sent[i]) \in Nat /\ Len(sent[i]) >= x
      BY <1>5, <1>7
    <3> QED BY <1>16, <3>1
  <2>2. Frame!EndOf(i) = b /\ Frame!EndOf(i - 1) = a
    BY <1>4, <1>16, <2>1
  <2>3. W[i] = [k \in 1 .. b - (a + 1 + x) + 1 |-> (a + 1 + x) + k - 1]
    BY <2>2 DEF Frame!Wanted, Frame!BeginOf, x
  <2>4. PICK n \in Nat : n = b - a - x
    BY <1>6, <2>1
  <2>5. W[i] = [k \in 1 .. n |-> a + x + k]
    <3>1. b - (a + 1 + x) + 1 = n /\ \A k \in 1 .. n : (a + 1 + x) + k - 1 = a + x + k
      BY <1>6, <2>4
    <3> QED BY <2>3, <3>1
  <2>6. [k \in 1 .. n |-> a + x + k] \in [1 .. n -> Int]
    BY <1>6
  <2>7. W[i] \in Seq(Int)
    BY <2>5, <2>6, SeqDef
  <2>8. P[i] - P[i - 1] - x = n
    BY <2>1, <2>4
  <2>9. W[i] = [k \in 1 .. P[i] - P[i - 1] - x |-> P[i - 1] + x + k]
    BY <2>1, <2>5, <2>8
  <2> QED BY <2>7, <2>9
<1>10. S \in Seq(FrameTokens) /\ Len(S) = P[MsgNum]
  BY <1>3, <1>4 DEF IsFlat
<1>11. \A i \in 1 .. MsgNum : \A k \in 1 .. Len(sent[i]) : S[P[i - 1] + k] = sent[i][k]
  BY <1>3, <1>4 DEF IsFlat
<1>12. ASSUME NEW p \in 1 .. Len(S)
       PROVE  \E i \in 1 .. MsgNum : \E k \in 1 .. Len(sent[i]) :
                p = P[i - 1] + k /\ S[p] = sent[i][k]
  <2>1. PICK i \in 1 .. MsgNum : P[i - 1] \in Nat /\ p - P[i - 1] \in 1 .. Len(sent[i])
    BY <1>3, <1>4, <1>10, EndsCover
  <2>2. PICK k \in 1 .. Len(sent[i]) : k = p - P[i - 1]
    BY <2>1
  <2>3. p = P[i - 1] + k
    BY <1>7, <1>10, <2>1, <2>2
  <2> QED BY <1>11, <2>3
<1>13. ASSUME Frame!IsText
       PROVE  /\ \A p \in 1 .. Len(S) : /\ S[p] \in {"c", "n", "x"}
                                        /\ S[p] = "n" => \E i \in 1 .. MsgNum : p = P[i]
              /\ \A i \in 1 .. MsgNum : /\ S[P[i]] = "n" /\ S[P[i] - 1] = "c"
                                        /\ P[i - 1] < P[i] - 1
  <2>1. \A i \in 1 .. MsgNum : sent[i] \in Frame!TextMessages
    BY <1>6, <1>13 DEF FrameSent
  <2>2. ASSUME NEW p \in 1 .. Len(S)
        PROVE  /\ S[p] \in {"c", "n", "x"}
               /\ S[p] = "n" => \E i \in 1 .. MsgNum : p = P[i]
    <3>1. PICK i \in 1 .. MsgNum : \E k \in 1 .. Len(sent[i]) :
                p = P[i - 1] + k /\ S[p] = sent[i][k]
      BY <1>12
    <3>2. PICK k \in 1 .. Len(sent[i]) : p = P[i - 1] + k /\ S[p] = sent[i][k]
      BY <3>1
    <3>3. sent[i][k] \in {"c", "n", "x"} /\ (sent[i][k] = "n" => k = Len(sent[i]))
      BY <2>1, FrameText
    <3>4. P[i] = P[i - 1] + Len(sent[i])
      BY <1>5
    <3> QED BY <3>2, <3>3, <3>4
  <2>3. ASSUME NEW i \in 1 .. MsgNum
        PROVE  S[P[i]] = "n" /\ S[P[i] - 1] = "c" /\ P[i - 1] < P[i] - 1
    <3>1. PICK l \in {2, 3} : l = Len(sent[i])
      BY <2>1, FrameText
    <3>2. PICK a \in Nat : a = P[i - 1] /\ P[i] = a + l
      BY <1>5, <1>16, <3>1
    <3>3. sent[i][l] = "n" /\ sent[i][l - 1] = "c"
      BY <2>1, <3>1, FrameText
    <3>4. S[a + l] = "n" /\ S[a + (l - 1)] = "c"
      <4>1. l \in 1 .. Len(sent[i]) /\ l - 1 \in 1 .. Len(sent[i])
        BY <3>1
      <4>2. S[P[i - 1] + l] = sent[i][l] /\ S[P[i - 1] + (l - 1)] = sent[i][l - 1]
        BY <1>11, <4>1
      <4> QED BY <3>2, <3>3, <4>2
    <3>5. P[i] - 1 = a + (l - 1) /\ a < a + (l - 1)
      BY <3>2
    <3> QED BY <3>2, <3>4, <3>5
  <2> QED BY <2>2, <2>3
<1>14. ASSUME ~ Frame!IsText
       PROVE  /\ \A p \in 1 .. Len(S) : S[p] \in Nat
              /\ \A i \in 1 .. MsgNum : /\ P[i] = P[i - 1] + Frame!Extra + S[P[i - 1] + 1]
                                        /\ P[i - 1] + LenSize <= P[i]
  <2>1. \A i \in 1 .. MsgNum : sent[i] \in Frame!BinMessages(kind)
    BY <1>6, <1>14 DEF FrameSent
  <2>2. ASSUME NEW p \in 1 .. Len(S) PROVE S[p] \in Nat
    <3>1. PICK i \in 1 .. MsgNum : \E k \in 1 .. Len(sent[i]) : S[p] = sent[i][k]
      BY <1>12
    <3>2. sent[i] \in Seq(Nat)
      BY <2>1, FrameBin
    <3> QED BY <3>1, <3>2, ElementOfSeq
  <2>3. ASSUME NEW i \in 1 .. MsgNum
        PROVE  /\ P[i] = P[i - 1] + Frame!Extra + S[P[i - 1] + 1]
               /\ P[i - 1] + LenSize <= P[i]
    <3>1. /\ Len(sent[i]) = sent[i][1] + Frame!Extra /\ sent[i][1] \in Nat
          /\ LenSize <= Len(sent[i])
      BY <2>1, FrameBin DEF Frame!Extra
    <3>2. PICK a \in Nat, l \in Nat, e \in Nat, f \in Nat :
            a = P[i - 1] /\ l = Len(sent[i]) /\ e = Frame!Extra /\ f = sent[i][1]
      <4>1. Frame!Extra \in Nat
        BY <1>1 DEF Frame!Extra
      <4>2. P[i - 1] \in Nat /\ Len(sent[i]) \in Nat
        BY <1>7, <1>16
      <4> QED BY <3>1, <4>1, <4>2
    <3>3. P[i] = a + l /\ l = f + e /\ LenSize <= l
      BY <1>5, <3>1, <3>2
    <3>4. S[a + 1] = f
      <4>1. 1 \in 1 .. Len(sent[i])
        BY <1>7
      <4> QED BY <1>11, <3>2, <4>1
    <3>5. a + l = a + e + f /\ a + LenSize <= a + l
      BY <1>1, <3>3
    <3> QED BY <3>2, <3>3, <3>4, <3>5
  <2> QED BY <2>2, <2>3
<1>15. FrameSetting(P, W, S)
  <2>1. W \in [1 .. MsgNum -> Seq(Int)]
    BY <1>9
  <2> HIDE DEF W, S
  <2> QED BY <1>4, <1>5, <1>8, <1>9, <1>10, <1>13, <1>14, <2>1 DEF FrameSetting, W, S, x
<1> QED BY <1>15

-----------------------------------------------------------------------------
(* The loops of the two protocols.                                         *)

LEMMA MinIs ==
  ASSUME NEW S \in SUBSET Nat, S # {}
  PROVE  Frame!Min(S) \in S /\ \A x \in S : Frame!Min(S) <= x
<1>1. \E k \in S : \A j \in S : k <= j
  BY LeastNatural
<1> QED BY <1>1 DEF Frame!Min

StopsAt(r, s, l, bad) ==
  r \in FrameOut /\ r.msgs = <<>> /\ r.at = s /\ r.next = l /\ r.bad = bad

LEMMA StopFields ==
  ASSUME NEW s \in Int, NEW l \in Int, NEW bad \in BOOLEAN
  PROVE  StopsAt(Frame!Stop(s, l, bad), s, l, bad)
<1>1. <<>> \in Seq(Seq(Int))
  OBVIOUS
<1> QED BY <1>1 DEF Frame!Stop, FrameOut, StopsAt

FrameMax == MaxRecvLen + 1

LEMMA PieceTyped ==
  ASSUME NEW b \in [Frame!Cells -> Int], NEW i \in 1 .. FrameMax, NEW j \in Int,
         j <= MaxRecvLen, i <= j + 1
  PROVE  Frame!Piece(b, i, j) \in Seq(Int)
<1>1. MaxRecvLen \in Nat /\ i \in Nat /\ 1 <= i
  BY FrameAssumption DEF FrameMax
<1>2. PICK n \in Nat : n = j - i + 1
  BY <1>1
<1>3. ASSUME NEW k \in 1 .. n PROVE b[i + k - 1] \in Int
  <2>1. i + k - 1 \in 1 .. MaxRecvLen
    BY <1>1, <1>2
  <2> QED BY <2>1 DEF Frame!Cells
<1>4. Frame!Piece(b, i, j) \in [1 .. n -> Int]
  BY <1>2, <1>3 DEF Frame!Piece
<1> QED BY <1>4, SeqDef

\* The separators from cell s on.
CutEnds(b, n, s) == {i \in Frame!Ends(b, n) : i >= s}

LEMMA CutLoop ==
  ASSUME NEW b \in [Frame!Cells -> Int], NEW n
  PROVE  \E c :
           /\ Frame!Cut(b, n) = c[1]
           /\ \A s \in 1 .. FrameMax :
                c[s] = IF CutEnds(b, n, s) = {} THEN Frame!Stop(s, 0, FALSE)
                       ELSE Frame!Gives(Frame!Piece(b, s, Frame!Min(CutEnds(b, n, s))),
                                        c[Frame!Min(CutEnds(b, n, s)) + 1])
<1>0. MaxRecvLen \in Nat /\ FrameMax \in Nat
  BY FrameAssumption DEF FrameMax
<1> DEFINE E(s) == CutEnds(b, n, s)
           e(s) == Frame!Min(E(s))
           Loops(c) == c = [s \in 1 .. FrameMax |->
                              IF E(s) = {} THEN Frame!Stop(s, 0, FALSE)
                              ELSE Frame!Gives(Frame!Piece(b, s, e(s)), c[e(s) + 1])]
           c == CHOOSE f : Loops(f)
<1>1. Frame!Cut(b, n) = c[1]
  BY DEF Frame!Cut, CutEnds, FrameMax
<1>2. ASSUME NEW s \in 1 .. FrameMax, E(s) # {}
      PROVE  e(s) \in E(s) /\ e(s) \in 1 .. MaxRecvLen /\ s <= e(s)
  <2>1. E(s) \in SUBSET (1 .. MaxRecvLen)
    BY DEF CutEnds, Frame!Ends, Frame!Separators, Frame!Visible, Frame!Cells
  <2>2. E(s) \in SUBSET Nat
    BY <2>1
  <2>3. e(s) \in E(s)
    BY <1>2, <2>2, MinIs
  <2> QED BY <2>1, <2>3 DEF CutEnds
<1> HIDE DEF c
<1> DEFINE next == [s \in 1 .. FrameMax |-> IF E(s) = {} THEN 0 ELSE e(s) + 1]
           stop == [s \in 1 .. FrameMax |-> Frame!Stop(s, 0, FALSE)]
           piece == [s \in 1 .. FrameMax |-> IF E(s) = {} THEN <<>> ELSE Frame!Piece(b, s, e(s))]
<1> HIDE DEF E, e
<1>3. /\ next \in [1 .. FrameMax -> Nat]
      /\ \A s \in 1 .. FrameMax : next[s] # 0 => next[s] \in 1 .. FrameMax /\ s < next[s]
  <2>1. ASSUME NEW s \in 1 .. FrameMax, E(s) # {}
        PROVE  e(s) + 1 \in 1 .. FrameMax /\ s < e(s) + 1
    BY <1>0, <1>2, <2>1 DEF FrameMax
  <2> QED BY <1>0, <2>1
<1>4. stop \in [1 .. FrameMax -> FrameOut]
  <2>1. ASSUME NEW s \in 1 .. FrameMax PROVE Frame!Stop(s, 0, FALSE) \in FrameOut
    <3>1. s \in Int /\ 0 \in Int /\ FALSE \in BOOLEAN
      OBVIOUS
    <3> QED BY <3>1, StopFields DEF StopsAt
  <2> QED BY <2>1
<1>5. piece \in [1 .. FrameMax -> Seq(Int)]
  <2>1. ASSUME NEW s \in 1 .. FrameMax, E(s) # {}
        PROVE  Frame!Piece(b, s, e(s)) \in Seq(Int)
    <3>1. e(s) \in Int /\ e(s) <= MaxRecvLen /\ s <= e(s) + 1
      BY <1>0, <1>2, <2>1 DEF FrameMax
    <3> QED BY <3>1, PieceTyped
  <2>2. <<>> \in Seq(Int)
    OBVIOUS
  <2> QED BY <2>1, <2>2
<1> HIDE DEF next, stop, piece
<1>6. PICK f \in [1 .. FrameMax -> FrameOut] : \A s \in 1 .. FrameMax :
           f[s] = IF next[s] = 0 THEN stop[s] ELSE Frame!Gives(piece[s], f[next[s]])
  <2>1. GoesOn(next, FrameMax)
    BY <1>3 DEF GoesOn
  <2>2. \E f \in [1 .. FrameMax -> FrameOut] : IsLooped(f, FrameMax, next, stop, piece)
    BY <1>0, <1>3, <1>4, <1>5, <2>1, LoopExists
  <2> QED BY <2>2 DEF IsLooped
<1>7. Loops(f)
  <2>1. ASSUME NEW s \in 1 .. FrameMax
        PROVE  f[s] = IF E(s) = {} THEN Frame!Stop(s, 0, FALSE)
                      ELSE Frame!Gives(Frame!Piece(b, s, e(s)), f[e(s) + 1])
    <3>1. CASE E(s) = {}
      <4>1. next[s] = 0 /\ stop[s] = Frame!Stop(s, 0, FALSE)
        BY <3>1 DEF next, stop
      <4> QED BY <1>6, <3>1, <4>1
    <3>2. CASE E(s) # {}
      <4>1. next[s] = e(s) + 1 /\ piece[s] = Frame!Piece(b, s, e(s)) /\ next[s] # 0
        BY <1>2, <3>2 DEF next, piece
      <4> QED BY <1>6, <3>2, <4>1
    <3> QED BY <3>1, <3>2
  <2> QED BY <1>6, <2>1
<1>8. Loops(c)
  BY <1>7 DEF c
<1>9. \A s \in 1 .. FrameMax :
         c[s] = IF E(s) = {} THEN Frame!Stop(s, 0, FALSE)
                ELSE Frame!Gives(Frame!Piece(b, s, e(s)), c[e(s) + 1])
  BY <1>8
<1> QED BY <1>1, <1>9 DEF E, e

\* The message in cell s is whole, and its length is accepted.
WalkOn(b, n, s) ==
  LET l == Frame!Token(b[s]) IN
  /\ ~ (n + 1 - s < LenSize)
  /\ ~ IF s = 1 THEN msgLen = 0 /\ Frame!BadFirstLen(l) ELSE Frame!BadLen(l)
  /\ ~ (n + 1 - s < Frame!Extra + l)

\* ... and what is left where it is not.
WalkEnd(b, n, s) ==
  LET l == Frame!Token(b[s]) IN
  IF n + 1 - s < LenSize THEN Frame!Stop(s, 0, FALSE)
  ELSE IF IF s = 1 THEN msgLen = 0 /\ Frame!BadFirstLen(l) ELSE Frame!BadLen(l)
       THEN Frame!Stop(s, 0, TRUE)
       ELSE Frame!Stop(s, l, FALSE)

LEMMA WalkLoop ==
  ASSUME NEW b \in [Frame!Cells -> Int], NEW n \in 0 .. MaxRecvLen,
         \A s \in 1 .. n : Frame!Token(b[s]) \in Nat,
         LenSize <= n /\ Frame!Extra = 0 => Frame!Token(b[1]) > 0
  PROVE  \E c :
           /\ Frame!Walk(b, n) = c[1]
           /\ \A s \in 1 .. FrameMax :
                c[s] = IF WalkOn(b, n, s)
                       THEN Frame!Gives(Frame!Body(b, s, Frame!Token(b[s])),
                                        c[s + Frame!Extra + Frame!Token(b[s])])
                       ELSE WalkEnd(b, n, s)
<1>0. /\ MaxRecvLen \in Nat /\ FrameMax \in Nat /\ LenSize \in Nat \ {0}
      /\ Frame!Extra \in {0, LenSize} /\ n \in Nat /\ n <= MaxRecvLen
  BY FrameAssumption DEF FrameMax, Frame!Extra
<1> DEFINE l(s) == Frame!Token(b[s])
           to(s) == s + Frame!Extra + l(s)
           body(s) == Frame!Body(b, s, l(s))
           Loops(c) == c = [s \in 1 .. FrameMax |->
                              IF WalkOn(b, n, s) THEN Frame!Gives(body(s), c[to(s)])
                              ELSE WalkEnd(b, n, s)]
           c == CHOOSE f : Loops(f)
<1>1. Frame!Walk(b, n) = c[1]
  BY DEF Frame!Walk, WalkOn, WalkEnd, FrameMax
<1> HIDE DEF c
<1>2. ASSUME NEW s \in 1 .. FrameMax, ~ (n + 1 - s < LenSize)
      PROVE  s \in 1 .. n /\ l(s) \in Nat
  BY <1>0, <1>2 DEF FrameMax
<1>3. ASSUME NEW s \in 1 .. FrameMax, WalkOn(b, n, s)
      PROVE  /\ s \in 1 .. n /\ l(s) \in Nat
             /\ to(s) \in 1 .. FrameMax /\ s < to(s)
             /\ s + Frame!Extra \in 1 .. FrameMax /\ s + Frame!Extra <= (to(s) - 1) + 1
             /\ to(s) - 1 \in Int /\ to(s) - 1 <= MaxRecvLen
  <2>1. s \in 1 .. n /\ l(s) \in Nat
    BY <1>2, <1>3 DEF WalkOn
  <2>2. PICK m \in Nat, x \in {0, LenSize} : m = l(s) /\ x = Frame!Extra
    BY <1>0, <2>1
  <2>3. ~ (n + 1 - s < x + m)
    BY <1>3, <2>2 DEF WalkOn
  <2>4. x + m > 0
    <3>1. CASE x = LenSize
      BY <1>0, <2>2, <3>1
    <3>2. CASE x = 0 /\ s = 1
      <4>1. LenSize <= n
        BY <1>0, <1>3, <3>2 DEF WalkOn
      <4> QED BY <2>2, <3>2, <4>1
    <3>3. CASE x = 0 /\ s # 1
      <4>1. ~ (m <= LenSize)
        BY <1>3, <2>2, <3>3 DEF WalkOn, Frame!BadLen
      <4> QED BY <1>0, <2>2, <3>3, <4>1
    <3> QED BY <2>2, <3>1, <3>2, <3>3
  <2>5. s + x + m \in 1 .. FrameMax /\ s < s + x + m /\ s + x + m <= n + 1
    BY <1>0, <2>1, <2>2, <2>3, <2>4 DEF FrameMax
  <2>6. s + x \in 1 .. FrameMax
    BY <1>0, <2>1, <2>2, <2>5 DEF FrameMax
  <2> QED BY <1>0, <2>1, <2>2, <2>5, <2>6
<1> DEFINE next == [s \in 1 .. FrameMax |-> IF WalkOn(b, n, s) THEN to(s) ELSE 0]
           stop == [s \in 1 .. FrameMax |->
                      IF WalkOn(b, n, s) THEN Frame!Stop(0, 0, FALSE) ELSE WalkEnd(b, n, s)]
           piece == [s \in 1 .. FrameMax |-> IF WalkOn(b, n, s) THEN body(s) ELSE <<>>]
<1>4. ASSUME NEW s \in 1 .. FrameMax PROVE WalkEnd(b, n, s) \in FrameOut
  <2>1. s \in Int /\ 0 \in Int /\ FALSE \in BOOLEAN /\ TRUE \in BOOLEAN
    OBVIOUS
  <2>2. Frame!Stop(s, 0, FALSE) \in FrameOut /\ Frame!Stop(s, 0, TRUE) \in FrameOut
    BY <2>1, StopFields DEF StopsAt
  <2>3. CASE n + 1 - s < LenSize
    BY <2>2, <2>3 DEF WalkEnd
  <2>4. CASE ~ (n + 1 - s < LenSize)
    <3>1. Frame!Stop(s, l(s), FALSE) \in FrameOut
      <4>1. l(s) \in Int
        BY <1>2, <2>4
      <4> QED BY <2>1, <4>1, StopFields DEF StopsAt
    <3> QED BY <2>2, <2>4, <3>1 DEF WalkEnd
  <2> QED BY <2>3, <2>4
<1>5. ASSUME NEW s \in 1 .. FrameMax, WalkOn(b, n, s) PROVE body(s) \in Seq(Int)
  <2>1. body(s) = Frame!Piece(b, s + Frame!Extra, to(s) - 1)
    <3>1. PICK m \in Nat : m = l(s)
      BY <1>3, <1>5
    <3> HIDE DEF l
    <3>2. Frame!Body(b, s, m) = Frame!Piece(b, s + Frame!Extra, s + Frame!Extra + m - 1)
      BY DEF Frame!Body
    <3>3. s + Frame!Extra + m - 1 = (s + Frame!Extra + m) - 1
      BY <1>0, <3>1
    <3> QED BY <3>1, <3>2, <3>3
  <2> QED BY <1>3, <1>5, <2>1, PieceTyped
<1> HIDE DEF to, body
<1>6. /\ next \in [1 .. FrameMax -> Nat]
      /\ \A s \in 1 .. FrameMax : next[s] # 0 => next[s] \in 1 .. FrameMax /\ s < next[s]
  <2>1. \A s \in 1 .. FrameMax : WalkOn(b, n, s) => to(s) \in 1 .. FrameMax /\ s < to(s)
    BY <1>3 DEF to
  <2> HIDE DEF l
  <2> QED BY <1>0, <2>1
<1>7. stop \in [1 .. FrameMax -> FrameOut]
  <2>1. Frame!Stop(0, 0, FALSE) \in FrameOut
    <3>1. 0 \in Int /\ FALSE \in BOOLEAN
      OBVIOUS
    <3> QED BY <3>1, StopFields DEF StopsAt
  <2> QED BY <1>4, <2>1
<1>8. piece \in [1 .. FrameMax -> Seq(Int)]
  <2>1. <<>> \in Seq(Int)
    OBVIOUS
  <2> QED BY <1>5, <2>1
<1> HIDE DEF next, stop, piece
<1>9. PICK f \in [1 .. FrameMax -> FrameOut] : \A s \in 1 .. FrameMax :
           f[s] = IF next[s] = 0 THEN stop[s] ELSE Frame!Gives(piece[s], f[next[s]])
  <2>1. GoesOn(next, FrameMax)
    BY <1>6 DEF GoesOn
  <2>2. \E f \in [1 .. FrameMax -> FrameOut] : IsLooped(f, FrameMax, next, stop, piece)
    BY <1>0, <1>6, <1>7, <1>8, <2>1, LoopExists
  <2> QED BY <2>2 DEF IsLooped
<1>10. Loops(f)
  <2>1. ASSUME NEW s \in 1 .. FrameMax
        PROVE  f[s] = IF WalkOn(b, n, s) THEN Frame!Gives(body(s), f[to(s)])
                      ELSE WalkEnd(b, n, s)
    <3>1. CASE ~ WalkOn(b, n, s)
      <4>1. next[s] = 0 /\ stop[s] = WalkEnd(b, n, s)
        BY <3>1 DEF next, stop
      <4> QED BY <1>9, <3>1, <4>1
    <3>2. CASE WalkOn(b, n, s)
      <4>1. next[s] = to(s) /\ piece[s] = body(s)
        BY <3>2 DEF next, piece
      <4>2. next[s] # 0
        BY <1>3, <3>2, <4>1 DEF to
      <4> QED BY <1>9, <3>2, <4>1, <4>2
    <3> QED BY <3>1, <3>2
  <2> QED BY <1>9, <2>1
<1>11. Loops(c)
  BY <1>10 DEF c
<1>12. \A s \in 1 .. FrameMax :
         c[s] = IF WalkOn(b, n, s) THEN Frame!Gives(body(s), c[to(s)]) ELSE WalkEnd(b, n, s)
  BY <1>11
<1> QED BY <1>1, <1>12 DEF to, body

-----------------------------------------------------------------------------
(* What was given so far.                                                  *)

Upto(W, m) == [i \in 1 .. m |-> W[i]]

Then(W, m, d) == [i \in 1 .. d |-> W[m + i]]

LEMMA UptoTyped ==
  ASSUME NEW N \in Nat, NEW W \in [1 .. N -> Seq(Int)], NEW m \in Nat, m <= N
  PROVE  /\ Upto(W, m) \in Seq(Seq(Int)) /\ Len(Upto(W, m)) = m
         /\ \A i \in 1 .. m : i \in 1 .. N /\ Upto(W, m)[i] = W[i]
<1>1. \A i \in 1 .. m : i \in 1 .. N
  OBVIOUS
<1>2. Upto(W, m) \in [1 .. m -> Seq(Int)]
  BY <1>1 DEF Upto
<1>3. \A i \in 1 .. m : Upto(W, m)[i] = W[i]
  BY DEF Upto
<1> QED BY <1>1, <1>2, <1>3, SeqDef

LEMMA ThenTyped ==
  ASSUME NEW N \in Nat, NEW W \in [1 .. N -> Seq(Int)], NEW m \in Nat, NEW d \in Nat, m + d <= N
  PROVE  /\ Then(W, m, d) \in [1 .. d -> Seq(Int)]
         /\ Then(W, m, d) \in Seq(Seq(Int)) /\ Len(Then(W, m, d)) = d
         /\ \A i \in 1 .. d : Then(W, m, d)[i] = W[m + i]
<1>1. \A i \in 1 .. d : m + i \in 1 .. N
  OBVIOUS
<1>2. Then(W, m, d) \in [1 .. d -> Seq(Int)]
  BY <1>1 DEF Then
<1>3. \A i \in 1 .. d : Then(W, m, d)[i] = W[m + i]
  BY DEF Then
<1> QED BY <1>2, <1>3, SeqDef

LEMMA UptoJoined ==
  ASSUME NEW N \in Nat, NEW W \in [1 .. N -> Seq(Int)], NEW m \in Nat, NEW d \in Nat, m + d <= N
  PROVE  Upto(W, m) \o Then(W, m, d) = Upto(W, m + d)
<1> DEFINE j == m + d
<1>1. j \in Nat /\ j <= N /\ m <= N
  OBVIOUS
<1>2. PICK s \in Seq(Seq(Int)) :
        s = Upto(W, m) /\ Len(s) = m /\ \A i \in 1 .. m : s[i] = W[i]
  BY <1>1, UptoTyped
<1>3. PICK w \in Seq(Seq(Int)) :
        w = Then(W, m, d) /\ Len(w) = d /\ \A i \in 1 .. d : w[i] = W[m + i]
  BY ThenTyped
<1>7. PICK u : u = s \o w
  OBVIOUS
<1>8. /\ u \in Seq(Seq(Int)) /\ Len(u) = Len(s) + Len(w)
      /\ \A k \in 1 .. Len(s) : u[k] = s[k]
      /\ \A k \in 1 .. Len(w) : u[Len(s) + k] = w[k]
  BY <1>7, Joined
<1>9. /\ Len(u) = j /\ \A k \in 1 .. m : u[k] = s[k]
      /\ \A k \in 1 .. d : u[m + k] = w[k]
  BY <1>2, <1>3, <1>8
<1>10. u \in [1 .. j -> Seq(Int)]
  BY <1>8, <1>9, LenProperties
<1>11. ASSUME NEW i \in 1 .. j PROVE u[i] = W[i]
  <2>1. CASE i <= m
    <3>1. i \in 1 .. m
      BY <2>1
    <3> QED BY <1>2, <1>9, <3>1
  <2>2. CASE ~ (i <= m)
    <3>1. PICK k \in 1 .. d : m + k = i
      <4>1. i - m \in 1 .. d /\ m + (i - m) = i
        BY <2>2
      <4> QED BY <4>1
    <3> QED BY <1>3, <1>9, <3>1
  <2> QED BY <2>1, <2>2
<1>12. u = Upto(W, j)
  BY <1>10, <1>11 DEF Upto
<1> QED BY <1>2, <1>3, <1>7, <1>12

\* A message is refused: what comes before it was given.
LEMMA ThenRefused ==
  ASSUME NEW N \in Nat, NEW W \in [1 .. N -> Seq(Int)], NEW m \in Nat, NEW d \in Nat, m + d <= N,
         NEW k \in DOMAIN Then(W, m, d)
  PROVE  k \in 1 .. d /\ SubSeq(Then(W, m, d), 1, k - 1) = Then(W, m, k - 1)
<1>1. k \in 1 .. d /\ k \in Nat
  BY DEF Then
<1>2. PICK w \in [1 .. d -> Seq(Int)] : w = Then(W, m, d) /\ \A i \in 1 .. d : w[i] = W[m + i]
  BY ThenTyped
<1>3. PICK n \in Nat : n = k - 1 /\ \A i \in 1 .. n : i \in 1 .. d
  BY <1>1
<1>4. SubSeq(w, 1, n) = [i \in 1 .. n |-> w[i]]
  <2>1. SubSeq(w, 1, n) = [i \in 1 .. n - 1 + 1 |-> w[i + 1 - 1]]
    OBVIOUS
  <2>2. n - 1 + 1 = n /\ \A i \in 1 .. n : i + 1 - 1 = i
    BY <1>3
  <2> QED BY <2>1, <2>2
<1>5. SubSeq(w, 1, n) = [i \in 1 .. n |-> W[m + i]]
  BY <1>2, <1>3, <1>4
<1> QED BY <1>1, <1>2, <1>3, <1>5 DEF Then

LEMMA UptoRun ==
  ASSUME NEW P, NEW W, NEW S, FrameSetting(P, W, S), NEW m \in 0 .. MsgNum
  PROVE  IsRun(Upto(W, m), 0, P[m])
<1>1. MsgNum \in Nat /\ W \in [1 .. MsgNum -> Seq(Int)]
  BY FrameAssumption DEF FrameSetting
<1>2. Len(Upto(W, m)) = m /\ \A i \in 1 .. m : Upto(W, m)[i] = W[i] /\ i \in 1 .. MsgNum
  <2>1. m \in Nat /\ m <= MsgNum
    BY <1>1
  <2> QED BY <1>1, <2>1, UptoTyped
<1> DEFINE x == IF Frame!IsText THEN 0 ELSE Frame!Extra
<1>3. x \in Nat
  BY FrameAssumption DEF Frame!Extra
<1> HIDE DEF x
<1>4. ASSUME NEW i \in 1 .. m, NEW k \in 1 .. Len(W[i])
      PROVE  /\ W[i][k] = P[i - 1] + x + k
             /\ k \in Nat /\ P[i - 1] \in Nat /\ P[i] \in Nat
             /\ P[i - 1] < W[i][k] /\ W[i][k] <= P[i]
  <2>1. W[i] = [h \in 1 .. P[i] - P[i - 1] - x |-> P[i - 1] + x + h] /\ W[i] \in Seq(Int)
    BY <1>2 DEF FrameSetting, x
  <2>2. i - 1 \in 0 .. MsgNum /\ i \in 0 .. MsgNum
    BY <1>1, <1>2
  <2>3. PICK a \in Nat, b \in Nat : a = P[i - 1] /\ b = P[i]
    BY <2>2 DEF FrameSetting
  <2>4. DOMAIN W[i] = 1 .. Len(W[i]) /\ Len(W[i]) \in Nat
    BY <2>1, LenProperties
  <2>7. W[i] = [h \in 1 .. b - a - x |-> a + x + h]
    BY <2>1, <2>3
  <2>8. DOMAIN W[i] = 1 .. b - a - x
    BY <2>7
  <2>5. k \in 1 .. b - a - x /\ k \in Nat
    <3>1. k \in DOMAIN W[i] /\ k \in Nat
      BY <2>4
    <3> QED BY <2>8, <3>1
  <2>6. W[i][k] = a + x + k
    BY <2>5, <2>7
  <2>9. a < a + x + k /\ a + x + k <= b
    BY <1>3, <2>5
  <2> QED BY <2>3, <2>5, <2>6, <2>9
<1>5. \A i \in 1 .. m : P[i] <= P[m] /\ P[i] \in Nat /\ P[m] \in Nat
  <2> TAKE i \in 1 .. m
  <2>1. i \in 0 .. MsgNum /\ (i = m \/ i < m)
    BY <1>1
  <2>2. P[i] \in Nat /\ P[m] \in Nat
    BY <2>1 DEF FrameSetting
  <2>3. i < m => P[i] < P[m]
    BY <2>1 DEF FrameSetting
  <2> QED BY <2>1, <2>2, <2>3
<1>6. ASSUME NEW i \in 1 .. m, NEW k \in 1 .. Len(W[i]) PROVE 0 < W[i][k] /\ W[i][k] <= P[m]
  <2>1. PICK a \in Nat, p \in Nat, q \in Nat : a = P[i - 1] /\ p = P[i] /\ q = P[m]
    BY <1>4, <1>5
  <2>2. W[i][k] = a + x + k /\ k \in Nat
    BY <1>4, <2>1
  <2>3. a < W[i][k] /\ W[i][k] <= p
    BY <1>4, <2>1
  <2>4. p <= q
    BY <1>5, <2>1
  <2>5. PICK w \in Nat : w = W[i][k]
    BY <1>3, <2>2
  <2>6. a < w /\ w <= p
    BY <2>3, <2>5
  <2>7. 0 < w /\ w <= q
    BY <2>4, <2>6
  <2> QED BY <2>1, <2>5, <2>7
<1>7. ASSUME NEW i \in 1 .. m, NEW k \in 1 .. Len(W[i]), NEW l \in 1 .. Len(W[i]), k < l
      PROVE  W[i][k] < W[i][l]
  <2>1. PICK a \in Nat : a = P[i - 1]
    BY <1>4
  <2>2. W[i][k] = a + x + k /\ W[i][l] = a + x + l /\ k \in Nat /\ l \in Nat
    BY <1>4, <2>1
  <2> QED BY <1>3, <1>7, <2>2
<1>8. ASSUME NEW i \in 1 .. m, NEW j \in 1 .. m, i < j,
             NEW k \in 1 .. Len(W[i]), NEW l \in 1 .. Len(W[j])
      PROVE  W[i][k] < W[j][l]
  <2>1. W[i][k] <= P[i] /\ P[j - 1] < W[j][l]
    <3>1. W[i][k] <= P[i]
      BY <1>4
    <3>2. P[j - 1] < W[j][l]
      BY <1>4
    <3> QED BY <3>1, <3>2
  <2>2. P[i] <= P[j - 1] /\ P[i] \in Nat /\ P[j - 1] \in Nat
    <3>1. i \in 0 .. MsgNum /\ j - 1 \in 0 .. MsgNum /\ (i = j - 1 \/ i < j - 1)
      BY <1>1, <1>8
    <3>2. PICK h \in 0 .. MsgNum : h = j - 1
      BY <3>1
    <3>3. P[i] \in Nat /\ P[h] \in Nat /\ (i = h \/ P[i] < P[h])
      BY <3>1, <3>2 DEF FrameSetting
    <3> QED BY <3>2, <3>3
  <2>3. W[i][k] \in Int /\ W[j][l] \in Int
    <3>1. PICK a \in Nat, b \in Nat : a = P[i - 1] /\ b = P[j - 1]
      <4>1. P[i - 1] \in Nat
        BY <1>4
      <4>2. P[j - 1] \in Nat
        BY <1>4
      <4> QED BY <4>1, <4>2
    <3>2. W[i][k] = a + x + k /\ k \in Nat
      BY <1>4, <3>1
    <3>3. W[j][l] = b + x + l /\ l \in Nat
      BY <1>4, <3>1
    <3>4. a + x + k \in Int /\ b + x + l \in Int
      BY <1>3, <3>2, <3>3
    <3> QED BY <3>2, <3>3, <3>4
  <2>4. PICK p \in Nat, q \in Nat : p = P[i] /\ q = P[j - 1] /\ p <= q
    BY <2>2
  <2>5. PICK y \in Int : y = W[i][k]
    BY <2>3
  <2>6. PICK z \in Int : z = W[j][l]
    BY <2>3
  <2>7. y <= p /\ q < z
    BY <2>1, <2>4, <2>5, <2>6
  <2>8. y < z
    BY <2>4, <2>7
  <2> QED BY <2>5, <2>6, <2>8
<1> HIDE DEF Upto
<1> QED BY <1>2, <1>6, <1>7, <1>8 DEF IsRun

-----------------------------------------------------------------------------
(* The messages that are complete in what was received.                    *)

LastWhole(P, m, n) == m \in 0 .. MsgNum /\ P[m] <= n /\ (m < MsgNum => n < P[m + 1])

LEMMA LastWholeIs ==
  ASSUME NEW P, NEW W, NEW S, FrameSetting(P, W, S), NEW n \in Nat
  PROVE  \E m \in 0 .. MsgNum : LastWhole(P, m, n)
<1>1. MsgNum \in Nat /\ P \in [0 .. MsgNum -> Nat] /\ P[0] = 0
  BY FrameAssumption DEF FrameSetting
<1> DEFINE T == {i \in 1 .. MsgNum : n < P[i]}
<1>2. CASE T = {}
  <2>1. LastWhole(P, MsgNum, n) /\ MsgNum \in 0 .. MsgNum
    <3>1. CASE MsgNum = 0
      BY <1>1, <3>1 DEF LastWhole
    <3>2. CASE MsgNum # 0
      <4>1. MsgNum \in 1 .. MsgNum /\ MsgNum \notin T /\ P[MsgNum] \in Nat
        BY <1>1, <1>2, <3>2
      <4> QED BY <1>1, <4>1 DEF LastWhole
    <3> QED BY <3>1, <3>2
  <2> QED BY <2>1
<1>3. CASE T # {}
  <2>1. PICK i \in T : \A j \in T : i <= j
    <3>1. T \in SUBSET Nat
      OBVIOUS
    <3> QED BY <1>3, <3>1, LeastNatural
  <2>2. i \in 1 .. MsgNum /\ n < P[i]
    OBVIOUS
  <2>3. PICK m \in 0 .. MsgNum : m + 1 = i
    <3>1. i - 1 \in 0 .. MsgNum /\ (i - 1) + 1 = i
      BY <1>1, <2>2
    <3> QED BY <3>1
  <2>4. P[m] <= n
    <3>1. CASE m = 0
      BY <1>1, <3>1
    <3>2. CASE m # 0
      <4>1. m \in 1 .. MsgNum /\ m \notin T
        BY <1>1, <2>1, <2>2, <2>3, <3>2
      <4>2. ~ (n < P[m]) /\ P[m] \in Nat
        BY <1>1, <4>1
      <4> QED BY <4>2
    <3> QED BY <3>1, <3>2
  <2> QED BY <2>2, <2>3, <2>4 DEF LastWhole
<1> QED BY <1>2, <1>3

LEMMA CompleteIs ==
  ASSUME NEW P, NEW W, NEW S, FrameSetting(P, W, S), NEW n \in Nat, NEW m, LastWhole(P, m, n),
         DOMAIN sent = 1 .. MsgNum
  PROVE  Frame!Complete(n) = Upto(W, m)
<1>1. MsgNum \in Nat /\ P \in [0 .. MsgNum -> Nat] /\ P[0] = 0
  BY FrameAssumption DEF FrameSetting
<1>2. m \in 0 .. MsgNum /\ P[m] <= n /\ (m < MsgNum => n < P[m + 1])
  BY DEF LastWhole
<1> DEFINE T == {0} \cup {i \in DOMAIN sent : Frame!EndOf(i) <= n}
<1>3. T = {0} \cup {i \in 1 .. MsgNum : P[i] <= n}
  <2>1. \A i \in 1 .. MsgNum : Frame!EndOf(i) = P[i]
    BY <1>1 DEF FrameSetting
  <2> QED BY <2>1
<1>4. m \in T
  BY <1>1, <1>2, <1>3
<1>5. ASSUME NEW i \in T PROVE m >= i /\ i \in Nat
  <2>1. i \in 0 .. MsgNum /\ (i # 0 => P[i] <= n)
    BY <1>1, <1>3
  <2>2. ASSUME m < i PROVE FALSE
    <3>1. PICK k \in 0 .. MsgNum : k = m + 1 /\ m < MsgNum /\ (k < i \/ k = i)
      BY <1>1, <1>2, <2>1, <2>2
    <3>2. P[k] <= P[i] /\ P[i] \in Nat /\ P[k] \in Nat
      <4>1. P[k] \in Nat /\ P[i] \in Nat /\ (k < i => P[k] < P[i])
        BY <1>1, <2>1 DEF FrameSetting
      <4> QED BY <3>1, <4>1
    <3>3. n < P[k] /\ P[i] <= n
      BY <1>1, <1>2, <2>1, <2>2, <3>1
    <3> QED BY <3>2, <3>3
  <2> QED BY <1>1, <1>2, <2>1, <2>2
<1> HIDE DEF T
<1>6. Frame!Max(T) = m
  <2>1. Frame!Max(T) \in T /\ \A y \in T : Frame!Max(T) >= y
    <3>1. \E x \in T : \A y \in T : x >= y
      BY <1>4, <1>5
    <3> QED BY <3>1 DEF Frame!Max
  <2>2. PICK x \in T : x = Frame!Max(T)
    BY <2>1
  <2>3. m >= x /\ x >= m /\ x \in Nat
    BY <1>4, <1>5, <2>1, <2>2
  <2> QED BY <1>1, <1>2, <2>2, <2>3
<1>7. Frame!Complete(n) = [i \in 1 .. m |-> Frame!Wanted(i)]
  BY <1>6 DEF Frame!Complete, T
<1>8. \A i \in 1 .. m : Frame!Wanted(i) = W[i]
  BY <1>1, <1>2 DEF FrameSetting
<1> QED BY <1>7, <1>8 DEF Upto

\* What comes first of a longer sequence of messages.
LEMMA UptoPrefix ==
  ASSUME NEW N \in Nat, NEW W \in [1 .. N -> Seq(Int)], NEW m \in Nat, NEW j \in Nat,
         m <= j, j <= N
  PROVE  Frame!IsPrefix(Upto(W, m), Upto(W, j))
<1>0. m <= N
  OBVIOUS
<1>1. /\ Upto(W, m) \in Seq(Seq(Int)) /\ Len(Upto(W, m)) = m
      /\ \A i \in 1 .. m : Upto(W, m)[i] = W[i]
  BY <1>0, UptoTyped
<1>2. /\ Upto(W, j) \in Seq(Seq(Int)) /\ Len(Upto(W, j)) = j
      /\ \A i \in 1 .. j : Upto(W, j)[i] = W[i]
  BY UptoTyped
<1>3. SubSeq(Upto(W, j), 1, m) = Upto(W, m)
  <2>1. SubSeq(Upto(W, j), 1, m) = [i \in 1 .. m - 1 + 1 |-> Upto(W, j)[i + 1 - 1]]
    OBVIOUS
  <2>2. m - 1 + 1 = m /\ \A i \in 1 .. m : i + 1 - 1 = i /\ i \in 1 .. j
    OBVIOUS
  <2> QED BY <1>2, <2>1, <2>2 DEF Upto
<1> QED BY <1>1, <1>2, <1>3 DEF Frame!IsPrefix

-----------------------------------------------------------------------------
(* ISGWIntf, text: what it gives are pieces of the stream.                 *)

\* Byte o + i is in cell i.
Holds(b, o, n) == \A i \in 1 .. n : b[i] = o + i

LEMMA PieceRun ==
  ASSUME NEW b \in [Frame!Cells -> Int], NEW n \in Nat, n <= MaxRecvLen, NEW o \in Nat, Holds(b, o, n),
         NEW s \in Nat, NEW e \in Nat, 1 <= s, s <= e, e <= n
  PROVE  /\ Frame!Piece(b, s, e) \in Seq(Int)
         /\ <<Frame!Piece(b, s, e)>> \in Seq(Seq(Int))
         /\ IsRun(<<Frame!Piece(b, s, e)>>, o + s - 1, o + e)
<1>1. PICK d \in Nat : d = e - s + 1
  OBVIOUS
<1> DEFINE p == Frame!Piece(b, s, e)
<1>2. MaxRecvLen \in Nat
  BY FrameAssumption
<1>3. p \in Seq(Int)
  <2>1. s \in 1 .. FrameMax /\ e \in Int /\ e <= MaxRecvLen /\ s <= e + 1
    BY <1>2 DEF FrameMax
  <2> QED BY <2>1, PieceTyped
<1>4. p = [k \in 1 .. d |-> b[s + k - 1]]
  BY <1>1 DEF Frame!Piece
<1>5. Len(p) = d
  BY <1>3, <1>4, LenProperties
<1>6. ASSUME NEW k \in 1 .. d PROVE p[k] = o + s + k - 1
  <2>1. s + k - 1 \in 1 .. n
    BY <1>1
  <2>2. p[k] = b[s + k - 1]
    BY <1>4
  <2>3. b[s + k - 1] = o + (s + k - 1)
    BY <2>1 DEF Holds
  <2> QED BY <2>2, <2>3
<1> HIDE DEF p
<1>7. PICK g : g = <<p>>
  OBVIOUS
<1>8. g \in Seq(Seq(Int)) /\ Len(g) = 1 /\ \A i \in 1 .. Len(g) : i = 1 /\ g[i] = p
  BY <1>3, <1>7
<1>9. \A k \in 1 .. Len(p) : o + s - 1 < p[k] /\ p[k] <= o + e
  BY <1>1, <1>5, <1>6
<1>10. \A k, l \in 1 .. Len(p) : k < l => p[k] < p[l]
  BY <1>1, <1>5, <1>6
<1>11. IsRun(g, o + s - 1, o + e)
  BY <1>8, <1>9, <1>10 DEF IsRun
<1> QED BY <1>3, <1>7, <1>8, <1>11 DEF p

LEMMA CutRun ==
  ASSUME kind = "intf_text", NEW b \in [Frame!Cells -> Int], NEW n \in Nat, n <= MaxRecvLen,
         NEW o \in Nat, Holds(b, o, n)
  PROVE  /\ Frame!Cut(b, n) \in FrameOut
         /\ Frame!Cut(b, n).next = 0 /\ Frame!Cut(b, n).bad = FALSE
         /\ \E at1 \in 1 .. n + 1 : /\ Frame!Cut(b, n).at = at1
                                    /\ IsRun(Frame!Cut(b, n).msgs, o, o + at1 - 1)
<1>0. MaxRecvLen \in Nat
  BY FrameAssumption
<1>1. PICK c : /\ Frame!Cut(b, n) = c[1]
               /\ \A s \in 1 .. FrameMax :
                    c[s] = IF CutEnds(b, n, s) = {} THEN Frame!Stop(s, 0, FALSE)
                           ELSE Frame!Gives(Frame!Piece(b, s, Frame!Min(CutEnds(b, n, s))),
                                            c[Frame!Min(CutEnds(b, n, s)) + 1])
  BY CutLoop
<1> DEFINE Good(s) == /\ c[s] \in FrameOut /\ c[s].next = 0 /\ c[s].bad = FALSE
                      /\ \E a \in s .. n + 1 : /\ c[s].at = a
                                               /\ IsRun(c[s].msgs, o + s - 1, o + a - 1)
           Bad == {k \in 0 .. n : ~ Good(n + 1 - k)}
<1> HIDE DEF Good
<1>2. Bad \in SUBSET Nat /\ \A k : k \in Bad <=> k \in 0 .. n /\ ~ Good(n + 1 - k)
  OBVIOUS
<1> HIDE DEF Bad
<1>3. ASSUME Bad # {} PROVE FALSE
  <2>1. PICK k \in Bad : \A j \in Bad : k <= j
    BY <1>2, <1>3, LeastNatural
  <2>2. k \in 0 .. n /\ ~ Good(n + 1 - k)
    BY <1>2
  <2>3. PICK s \in 1 .. n + 1 : s = n + 1 - k /\ s \in 1 .. FrameMax
    BY <1>0, <2>2 DEF FrameMax
  <2> DEFINE E == CutEnds(b, n, s)
  <2>4. CASE E = {}
    <3>1. c[s] = Frame!Stop(s, 0, FALSE)
      BY <1>1, <2>3, <2>4
    <3>2. s \in Int /\ 0 \in Int /\ FALSE \in BOOLEAN
      OBVIOUS
    <3>3. /\ c[s] \in FrameOut /\ c[s].msgs = <<>> /\ c[s].at = s
          /\ c[s].next = 0 /\ c[s].bad = FALSE
      <4>1. PICK x \in Int, l \in Int, y \in BOOLEAN : x = s /\ l = 0 /\ y = FALSE
        BY <3>2
      <4>2. StopsAt(Frame!Stop(x, l, y), x, l, y)
        BY StopFields
      <4>3. StopsAt(c[s], s, 0, FALSE)
        BY <3>1, <4>1, <4>2
      <4> QED BY <4>3 DEF StopsAt
    <3>4. IsRun(<<>>, o + s - 1, o + s - 1)
      <4>1. \A i \in 1 .. Len(<<>>) : FALSE
        OBVIOUS
      <4> QED BY <4>1 DEF IsRun
    <3>5. s \in s .. n + 1
      OBVIOUS
    <3> QED BY <2>2, <2>3, <3>3, <3>4, <3>5 DEF Good
  <2>5. CASE E # {}
    <3>1. E \in SUBSET (s .. n) /\ E \in SUBSET Nat
      <4>1. \A i \in E : i \in 1 .. MaxRecvLen /\ i >= s /\ i <= n
        BY DEF CutEnds, Frame!Ends, Frame!Separators, Frame!Visible, Frame!Cells
      <4> QED BY <4>1
    <3>2. PICK e \in s .. n : e = Frame!Min(E)
      <4>1. Frame!Min(E) \in E
        BY <2>5, <3>1, MinIs
      <4> QED BY <3>1, <4>1
    <3>3. PICK t \in 1 .. n + 1 : t = e + 1 /\ n + 1 - t \in 0 .. n /\ ~ (k <= n + 1 - t)
      <4>1. e \in Nat /\ s <= e /\ e <= n
        BY <3>2
      <4>2. /\ e + 1 \in 1 .. n + 1 /\ n + 1 - (e + 1) \in 0 .. n
            /\ ~ (k <= n + 1 - (e + 1))
        BY <2>2, <2>3, <4>1
      <4> QED BY <4>2
    <3>4. Good(t)
      <4>1. n + 1 - t \notin Bad
        BY <2>1, <3>3
      <4>2. n + 1 - (n + 1 - t) = t
        OBVIOUS
      <4> QED BY <1>2, <3>3, <4>1, <4>2
    <3>5. c[s] = Frame!Gives(Frame!Piece(b, s, e), c[t])
      <4> HIDE DEF E
      <4>1. c[s] = Frame!Gives(Frame!Piece(b, s, Frame!Min(E)), c[Frame!Min(E) + 1])
        BY <1>1, <2>3, <2>5 DEF E
      <4> QED BY <3>2, <3>3, <4>1
    <3>6. PICK r \in FrameOut : r = c[t]
      BY <3>4 DEF Good
    <3>7. PICK a \in t .. n + 1 : r.at = a /\ IsRun(r.msgs, o + t - 1, o + a - 1)
      BY <3>4, <3>6 DEF Good
    <3>8. r.next = 0 /\ r.bad = FALSE /\ r.msgs \in Seq(Seq(Int))
      BY <3>4, <3>6 DEF Good, FrameOut
    <3>9. s \in Nat /\ e \in Nat /\ 1 <= s /\ s <= e /\ e <= n
      BY <3>2
    <3>10. PICK p \in Seq(Int) :
             /\ p = Frame!Piece(b, s, e) /\ <<p>> \in Seq(Seq(Int))
             /\ IsRun(<<p>>, o + s - 1, o + e)
      BY <3>9, PieceRun
    <3>11. /\ c[s] \in FrameOut /\ c[s].msgs = <<p>> \o r.msgs
           /\ c[s].at = a /\ c[s].next = 0 /\ c[s].bad = FALSE
      <4>1. /\ Frame!Gives(p, r) \in FrameOut
            /\ Frame!Gives(p, r).msgs = <<p>> \o r.msgs
            /\ Frame!Gives(p, r).at = r.at /\ Frame!Gives(p, r).next = r.next
            /\ Frame!Gives(p, r).bad = r.bad
        BY GivesFields
      <4>2. c[s] = Frame!Gives(p, r)
        BY <3>5, <3>6, <3>10
      <4> QED BY <3>7, <3>8, <4>1, <4>2
    <3>12. IsRun(<<p>> \o r.msgs, o + s - 1, o + a - 1)
      <4>1. PICK g \in Seq(Seq(Int)), h \in Seq(Seq(Int)) : g = <<p>> /\ h = r.msgs
        BY <3>8, <3>10
      <4>2. PICK lo \in Int, mid \in Int, hi \in Int :
              /\ lo = o + s - 1 /\ mid = o + e /\ hi = o + a - 1
              /\ lo <= mid /\ mid <= hi
        BY <3>3, <3>9
      <4>3. o + t - 1 = mid
        BY <3>3, <3>9, <4>2
      <4>4. IsRun(g, lo, mid) /\ IsRun(h, mid, hi)
        BY <3>7, <3>10, <4>1, <4>2, <4>3
      <4>5. IsRun(g \o h, lo, hi)
        BY <4>2, <4>4, RunJoined
      <4> QED BY <4>1, <4>2, <4>5
    <3>13. a \in s .. n + 1
      BY <3>3, <3>9
    <3> QED BY <2>2, <2>3, <3>11, <3>12, <3>13 DEF Good
  <2> QED BY <2>4, <2>5
<1>4. Good(1)
  <2>1. n \in 0 .. n /\ n + 1 - n = 1
    OBVIOUS
  <2> QED BY <1>2, <1>3, <2>1
<1>5. o + 1 - 1 = o
  OBVIOUS
<1> QED BY <1>1, <1>4, <1>5 DEF Good

\* What is left of the buffer when the rest begins in cell a.
BufferLeft(buf, V, o, n, a) ==
  /\ buf \in [Frame!Cells -> V]
  /\ Holds(buf, o + a - 1, n + 1 - a)
  /\ kind = "cintf_text" => \A i \in Frame!Cells : i > n + 1 - a => buf[i] = Frame!Blank

\* What After makes of a loop w that stopped at cell a
AfterIs(w, V, b, n, o, a) ==
  LET out == Frame!After(w, b, n) IN
  /\ out.msgs = w.msgs /\ out.len = n + 1 - a /\ out.next = w.next /\ out.bad = w.bad
  /\ BufferLeft(out.buf, V, o, n, a)

LEMMA AfterLeaves ==
  ASSUME NEW V, 0 \in V, NEW b \in [Frame!Cells -> V], NEW n \in Nat, n <= MaxRecvLen,
         NEW o \in Nat, Holds(b, o, n), NEW w \in FrameOut, NEW a \in 1 .. n + 1, w.at = a
  PROVE  AfterIs(w, V, b, n, o, a)
<1>0. MaxRecvLen \in Nat
  BY FrameAssumption
<1> DEFINE m == Frame!Moved(b, a - 1, n)
<1>1. /\ Frame!After(w, b, n).msgs = w.msgs /\ Frame!After(w, b, n).len = n + 1 - a
      /\ Frame!After(w, b, n).next = w.next /\ Frame!After(w, b, n).bad = w.bad
      /\ Frame!After(w, b, n).buf = m
  BY DEF Frame!After
<1>2. PICK last \in 0 .. n : last = a - 1 /\ n - last = n + 1 - a /\ n - last \in Nat
  <2>1. a - 1 \in 0 .. n /\ n - (a - 1) = n + 1 - a /\ n - (a - 1) \in Nat
    OBVIOUS
  <2> QED BY <2>1
<1>3. m = [i \in Frame!Cells |-> IF i <= n - last THEN b[last + i]
                                 ELSE IF Frame!Clears THEN Frame!Blank ELSE b[i]]
  BY <1>2 DEF Frame!Moved
<1> HIDE DEF m
<1>4. ASSUME NEW i \in Frame!Cells, i <= n - last
      PROVE  last + i \in Frame!Cells /\ last + i \in 1 .. n
  BY <1>0, <1>2, <1>4 DEF Frame!Cells
<1>5. m \in [Frame!Cells -> V]
  <2>1. ASSUME NEW i \in Frame!Cells PROVE m[i] \in V
    <3>1. CASE i <= n - last
      BY <1>3, <1>4, <3>1
    <3>2. CASE ~ (i <= n - last)
      BY <1>3, <3>2 DEF Frame!Blank
    <3> QED BY <3>1, <3>2
  <2> QED BY <1>3, <2>1
<1>6. ASSUME NEW i \in 1 .. n - last PROVE m[i] = o + last + i
  <2>1. i \in Frame!Cells /\ i <= n - last /\ i \in Nat
    BY <1>0, <1>2 DEF Frame!Cells
  <2>2. m[i] = b[last + i] /\ last + i \in 1 .. n
    BY <1>3, <1>4, <2>1
  <2>3. b[last + i] = o + (last + i)
    BY <2>2 DEF Holds
  <2> QED BY <1>2, <2>1, <2>2, <2>3
<1>7. Holds(m, o + a - 1, n + 1 - a)
  <2>1. o + a - 1 = o + last /\ n + 1 - a = n - last
    BY <1>2
  <2> QED BY <1>6, <2>1 DEF Holds
<1>8. ASSUME kind = "cintf_text", NEW i \in Frame!Cells, i > n + 1 - a PROVE m[i] = Frame!Blank
  <2>1. ~ (i <= n - last)
    BY <1>0, <1>2, <1>8 DEF Frame!Cells
  <2> QED BY <1>3, <1>8, <2>1 DEF Frame!Clears
<1>9. BufferLeft(m, V, o, n, a)
  BY <1>5, <1>7, <1>8 DEF BufferLeft
<1> QED BY <1>1, <1>9 DEF AfterIs

LEMMA EmptyRun ==
  ASSUME NEW lo, NEW hi
  PROVE  IsRun(<<>>, lo, hi)
<1>1. \A i \in 1 .. Len(<<>>) : FALSE
  OBVIOUS
<1> QED BY <1>1 DEF IsRun

\* Whatever ISGWIntf finds to be a message is of the bytes that were not given.
LEMMA IntfText ==
  ASSUME kind = "intf_text", NEW V, 0 \in V, V \subseteq Int,
         NEW b \in [Frame!Cells -> V], NEW n \in Nat, n <= MaxRecvLen,
         NEW o \in Nat, Holds(b, o, n), NEW in, in = Frame!TextInput(b, n)
  PROVE  \E a \in 1 .. n + 1 :
           /\ in.msgs \in Seq(Seq(Int)) /\ IsRun(in.msgs, o, o + a - 1)
           /\ in.len = n + 1 - a /\ in.next = 0 /\ in.bad \in BOOLEAN
           /\ BufferLeft(in.buf, V, o, n, a)
<1>0. MaxRecvLen \in Nat /\ ~ Frame!Clears /\ <<>> \in Seq(Seq(Int))
  BY FrameAssumption DEF Frame!Clears
<1>1. CASE Frame!Separators(b) = {}
  <2>1. /\ in.msgs = <<>> /\ in.buf = b /\ in.len = n /\ in.next = 0
        /\ in.bad = (n = MaxRecvLen)
    BY <1>1 DEF Frame!TextInput
  <2>2. 1 \in 1 .. n + 1 /\ o + 1 - 1 = o /\ n + 1 - 1 = n
    OBVIOUS
  <2>3. BufferLeft(b, V, o, n, 1)
    BY <2>2 DEF BufferLeft
  <2>4. in.bad \in BOOLEAN
    BY <2>1
  <2> QED BY <1>0, <2>1, <2>2, <2>3, <2>4, EmptyRun
<1>2. CASE Frame!Separators(b) # {} /\ ~ Frame!is_legal(b)
  <2>1. in.msgs = <<>> /\ in.buf = b /\ in.len = 0 /\ in.next = 0 /\ in.bad = FALSE
    BY <1>0, <1>2 DEF Frame!TextInput
  <2>2. n + 1 \in 1 .. n + 1 /\ n + 1 - (n + 1) = 0
    OBVIOUS
  <2>3. BufferLeft(b, V, o, n, n + 1)
    <3>1. \A i \in 1 .. n + 1 - (n + 1) : FALSE
      OBVIOUS
    <3> QED BY <3>1 DEF BufferLeft, Holds
  <2> QED BY <1>0, <2>1, <2>2, <2>3, EmptyRun
<1>3. CASE Frame!Separators(b) # {} /\ Frame!is_legal(b)
  <2>1. in = Frame!After(Frame!Cut(b, n), b, n)
    BY <1>3 DEF Frame!TextInput
  <2>2. b \in [Frame!Cells -> Int]
    OBVIOUS
  <2>3. /\ Frame!Cut(b, n) \in FrameOut
        /\ Frame!Cut(b, n).next = 0 /\ Frame!Cut(b, n).bad = FALSE
        /\ \E a \in 1 .. n + 1 : /\ Frame!Cut(b, n).at = a
                                 /\ IsRun(Frame!Cut(b, n).msgs, o, o + a - 1)
    BY <2>2, CutRun
  <2>4. PICK w \in FrameOut : w = Frame!Cut(b, n)
    BY <2>3
  <2>5. PICK a \in 1 .. n + 1 : w.at = a /\ IsRun(w.msgs, o, o + a - 1)
    BY <2>3, <2>4
  <2>6. AfterIs(w, V, b, n, o, a)
    BY <2>5, AfterLeaves
  <2>7. w.msgs \in Seq(Seq(Int))
    BY DEF FrameOut
  <2>8. in = Frame!After(w, b, n) /\ w.next = 0 /\ w.bad = FALSE
    BY <2>1, <2>3, <2>4
  <2> QED BY <2>5, <2>6, <2>7, <2>8 DEF AfterIs
<1> QED BY <1>1, <1>2, <1>3

-----------------------------------------------------------------------------
(* The other three handlers: what they give is what was sent.              *)

LEMMA SettingGrows ==
  ASSUME NEW P, NEW W, NEW S, FrameSetting(P, W, S)
  PROVE  /\ MsgNum \in Nat /\ \A i \in 0 .. MsgNum : P[i] \in Nat
         /\ \A i, j \in 0 .. MsgNum : /\ i < j <=> P[i] < P[j]
                                      /\ i <= j <=> P[i] <= P[j]
<1>1. MsgNum \in Nat /\ \A i \in 0 .. MsgNum : P[i] \in Nat
  BY FrameAssumption DEF FrameSetting
<1>2. ASSUME NEW i \in 0 .. MsgNum, NEW j \in 0 .. MsgNum
      PROVE  (i < j <=> P[i] < P[j]) /\ (i <= j <=> P[i] <= P[j])
  <2>1. PICK a \in Nat, b \in Nat : a = P[i] /\ b = P[j]
    BY <1>1
  <2>2. (i < j => a < b) /\ (j < i => b < a) /\ (i = j => a = b)
    BY <2>1 DEF FrameSetting
  <2>3. i \in Nat /\ j \in Nat
    OBVIOUS
  <2>4. (i < j <=> a < b) /\ (i <= j <=> a <= b)
    BY <2>2, <2>3
  <2> QED BY <2>1, <2>4
<1> QED BY <1>1, <1>2

Ahead == IF Frame!IsText THEN 0 ELSE Frame!Extra

\* Cells s to e hold what is wanted of message i + 1.
Covers(P, o, n, i, s, e) ==
  /\ i \in 0 .. MsgNum - 1 /\ s \in Nat /\ e \in Nat /\ 1 <= s /\ e <= n
  /\ o + s = P[i] + Ahead + 1 /\ o + e = P[i + 1]

LEMMA PieceIs ==
  ASSUME NEW P, NEW W, NEW S, FrameSetting(P, W, S),
         NEW b \in [Frame!Cells -> Int], NEW n \in Nat, n <= MaxRecvLen,
         NEW o \in Nat, Holds(b, o, n), NEW i, NEW s, NEW e, Covers(P, o, n, i, s, e)
  PROVE  Frame!Piece(b, s, e) = W[i + 1]
<1>8. /\ i \in 0 .. MsgNum - 1 /\ s \in Nat /\ e \in Nat /\ 1 <= s /\ e <= n
      /\ o + s = P[i] + Ahead + 1 /\ o + e = P[i + 1]
  BY DEF Covers
<1>0. MsgNum \in Nat /\ Ahead \in Nat
  BY FrameAssumption DEF Ahead, Frame!Extra
<1>1. PICK j \in 1 .. MsgNum : j = i + 1 /\ j - 1 = i /\ i \in 0 .. MsgNum /\ j \in 0 .. MsgNum
  <2>1. i + 1 \in 1 .. MsgNum /\ (i + 1) - 1 = i /\ i \in 0 .. MsgNum /\ i + 1 \in 0 .. MsgNum
    BY <1>0, <1>8
  <2> QED BY <2>1
<1>2. PICK p \in Nat, q \in Nat : p = P[i] /\ q = P[j]
  BY <1>1, SettingGrows
<1>3. W[j] = [k \in 1 .. q - p - Ahead |-> p + Ahead + k]
  <2>1. W[j] = [k \in 1 .. P[j] - P[j - 1] - Ahead |-> P[j - 1] + Ahead + k]
    BY DEF FrameSetting, Ahead
  <2>2. P[j - 1] = p /\ P[j] = q
    BY <1>1, <1>2
  <2> QED BY <2>1, <2>2
<1>4. PICK d \in Int : d = e - s + 1 /\ d = q - p - Ahead
  <2>1. e - s + 1 = q - p - Ahead /\ e - s + 1 \in Int
    BY <1>0, <1>1, <1>2, <1>8
  <2> QED BY <2>1
<1>5. ASSUME NEW k \in 1 .. d PROVE b[s + k - 1] = p + Ahead + k
  <2>1. s + k - 1 \in 1 .. n
    BY <1>4, <1>8
  <2>2. b[s + k - 1] = o + (s + k - 1)
    BY <2>1 DEF Holds
  <2> QED BY <1>0, <1>2, <1>8, <2>2
<1>6. Frame!Piece(b, s, e) = [k \in 1 .. d |-> b[s + k - 1]]
  BY <1>4 DEF Frame!Piece
<1>7. [k \in 1 .. d |-> b[s + k - 1]] = [k \in 1 .. d |-> p + Ahead + k]
  BY <1>5
<1> QED BY <1>1, <1>3, <1>4, <1>6, <1>7

\* d more messages are given, all that are complete unless the rest is refused.
Exact(in, P, W, S, V, o, n, m, d) ==
  /\ m + d <= MsgNum /\ in.msgs = Then(W, m, d) /\ P[m + d] <= o + n
  /\ P[m + d] - o + 1 \in 1 .. n + 1 /\ in.len = n + 1 - (P[m + d] - o + 1)
  /\ BufferLeft(in.buf, V, o, n, P[m + d] - o + 1)
  /\ in.bad \in BOOLEAN /\ in.next \in 0 .. MaxRecvLen
  /\ ~ in.bad => /\ m + d < MsgNum => o + n < P[m + d + 1]
                 /\ in.next # 0 => in.len > 0 /\ in.next = S[P[m + d] + 1]

\* Messages that are complete are not before those that were given.
LEMMA WholeAfter ==
  ASSUME NEW P, NEW W, NEW S, FrameSetting(P, W, S), NEW m \in 0 .. MsgNum,
         NEW o \in Nat, P[m] = o, NEW n \in Nat
  PROVE  \E d \in Nat : m + d \in 0 .. MsgNum /\ LastWhole(P, m + d, o + n)
<1>0. MsgNum \in Nat /\ \A i \in 0 .. MsgNum : P[i] \in Nat
  BY SettingGrows
<1>1. PICK l \in 0 .. MsgNum : LastWhole(P, l, o + n)
  <2>1. o + n \in Nat
    OBVIOUS
  <2> QED BY <2>1, LastWholeIs
<1>2. m <= l
  <2>1. ASSUME l < m PROVE FALSE
    <3>1. PICK k \in 0 .. MsgNum : k = l + 1 /\ k <= m /\ l < MsgNum
      <4>1. l + 1 \in 0 .. MsgNum /\ l + 1 <= m /\ l < MsgNum
        BY <1>0, <2>1
      <4> QED BY <4>1
    <3>2. P[k] <= P[m] /\ P[k] \in Nat
      BY <1>0, <3>1, SettingGrows
    <3>3. o + n < P[k]
      BY <1>1, <3>1 DEF LastWhole
    <3> QED BY <3>2, <3>3
  <2> QED BY <1>0, <2>1
<1>3. l - m \in Nat /\ m + (l - m) = l
  BY <1>0, <1>2
<1> QED BY <1>1, <1>3

\* The cells where messages end, and those of them from cell s on.
MessageEnds(P, o, n) == {i \in 1 .. n : \E j \in 1 .. MsgNum : o + i = P[j]}
EndsFrom(P, o, n, s) == {e \in MessageEnds(P, o, n) : e >= s}

\* ISGWCIntf, text.  What is behind the bytes received is zero.
LEMMA CintfSees ==
  ASSUME NEW P, NEW W, NEW S, FrameSetting(P, W, S), kind = "cintf_text",
         NEW b \in [Frame!Cells -> Int], NEW n \in Nat, n <= MaxRecvLen,
         NEW o \in Nat, Holds(b, o, n), o + n <= Len(S),
         \A i \in Frame!Cells : i > n => b[i] = Frame!Blank
  PROVE  /\ Frame!Visible(b) = 1 .. n
         /\ \A i \in 1 .. n : Frame!Token(b[i]) = S[o + i] /\ o + i \in 1 .. Len(S)
         /\ Frame!Ends(b, n) = Frame!Separators(b)
         /\ Frame!Separators(b) = MessageEnds(P, o, n)
<1>0. /\ MaxRecvLen \in Nat /\ Frame!Cells = 1 .. MaxRecvLen /\ Frame!IsText
      /\ Len(S) \in Nat
  <2>1. Len(S) \in Nat
    BY LenProperties DEF FrameSetting
  <2> QED BY <2>1, FrameAssumption DEF Frame!Cells, Frame!IsText
<1>1. \A p \in 1 .. Len(S) : /\ S[p] \in {"c", "n", "x"}
                             /\ S[p] = "n" => \E i \in 1 .. MsgNum : p = P[i]
  BY <1>0 DEF FrameSetting
<1>2. ASSUME NEW i \in 1 .. n
      PROVE  /\ i \in Frame!Cells /\ o + i \in 1 .. Len(S)
             /\ Frame!Token(b[i]) = S[o + i]
  <2>1. i \in Frame!Cells /\ o + i \in 1 .. Len(S)
    BY <1>0
  <2>2. b[i] = o + i
    BY DEF Holds
  <2>3. o + i # -1 /\ o + i # 0
    OBVIOUS
  <2>4. S = Frame!Stream
    BY DEF FrameSetting
  <2> QED BY <2>1, <2>2, <2>3, <2>4 DEF Frame!Token, Frame!Junk, Frame!Blank
<1>3. ASSUME NEW i \in Frame!Cells, i > n PROVE Frame!Token(b[i]) = "end"
  <2>1. b[i] = 0
    BY <1>3 DEF Frame!Blank
  <2> QED BY <2>1 DEF Frame!Token, Frame!Blank, Frame!Junk
<1>4. Frame!Visible(b) = 1 .. n
  <2>1. ASSUME NEW i \in 1 .. n PROVE i \in Frame!Visible(b)
    <3>1. ASSUME NEW j \in 1 .. i PROVE Frame!Token(b[j]) # "end"
      <4>1. j \in 1 .. n
        OBVIOUS
      <4>2. S[o + j] \in {"c", "n", "x"} /\ Frame!Token(b[j]) = S[o + j]
        BY <1>1, <1>2, <4>1
      <4> QED BY <4>2
    <3> QED BY <1>2, <3>1 DEF Frame!Visible
  <2>2. ASSUME NEW i \in Frame!Visible(b) PROVE i \in 1 .. n
    <3>1. i \in Frame!Cells /\ \A j \in 1 .. i : Frame!Token(b[j]) # "end"
      BY DEF Frame!Visible
    <3>2. i \in 1 .. i /\ i \in Nat
      BY <1>0, <3>1
    <3>3. ~ (i > n)
      BY <1>3, <3>1, <3>2
    <3> QED BY <1>0, <3>1, <3>3
  <2> QED BY <2>1, <2>2
<1>5. Frame!Separators(b) = {i \in 1 .. n : \E j \in 1 .. MsgNum : o + i = P[j]}
  <2>1. ASSUME NEW i \in 1 .. n
        PROVE  Frame!Token(b[i]) = "n" <=> \E j \in 1 .. MsgNum : o + i = P[j]
    <3>1. Frame!Token(b[i]) = S[o + i] /\ o + i \in 1 .. Len(S)
      BY <1>2
    <3>2. \A j \in 1 .. MsgNum : S[P[j]] = "n"
      BY <1>0 DEF FrameSetting
    <3> QED BY <1>1, <3>1, <3>2
  <2> QED BY <1>4, <2>1 DEF Frame!Separators
<1>6. Frame!Ends(b, n) = Frame!Separators(b)
  BY DEF Frame!Ends
<1> QED BY <1>2, <1>4, <1>5, <1>6 DEF MessageEnds

\* From the end of one message the next separator is the end of the next.
LEMMA CintfNext ==
  ASSUME NEW P, NEW W, NEW S, FrameSetting(P, W, S), NEW n \in Nat, NEW o \in Nat,
         NEW i \in 0 .. MsgNum, NEW s \in Nat, o + s = P[i] + 1, 1 <= s
  PROVE  /\ i = MsgNum \/ (i < MsgNum /\ o + n < P[i + 1]) => EndsFrom(P, o, n, s) = {}
         /\ i < MsgNum /\ P[i + 1] <= o + n =>
              /\ EndsFrom(P, o, n, s) # {}
              /\ Frame!Min(EndsFrom(P, o, n, s)) = P[i + 1] - o
              /\ P[i + 1] - o \in s .. n
<1>0. MsgNum \in Nat /\ \A j \in 0 .. MsgNum : P[j] \in Nat
  BY SettingGrows
<1> DEFINE T == EndsFrom(P, o, n, s)
<1> USE DEF EndsFrom, MessageEnds
<1>1. ASSUME NEW e \in T
      PROVE  /\ e \in 1 .. n /\ e >= s
             /\ \E j \in 1 .. MsgNum : o + e = P[j] /\ i < j /\ i < MsgNum /\ P[i + 1] <= o + e
  <2>1. PICK j \in 1 .. MsgNum : o + e = P[j]
    OBVIOUS
  <2>2. PICK p \in Nat, q \in Nat : p = P[i] /\ q = P[j] /\ j \in 0 .. MsgNum
    BY <1>0
  <2>3. e \in 1 .. n /\ e >= s
    OBVIOUS
  <2>4. p < q
    BY <2>1, <2>2, <2>3
  <2>5. i < j
    BY <2>2, <2>4, SettingGrows
  <2>6. PICK k \in 0 .. MsgNum : k = i + 1 /\ k <= j /\ i < MsgNum
    <3>1. i + 1 \in 0 .. MsgNum /\ i + 1 <= j /\ i < MsgNum
      BY <1>0, <2>5
    <3> QED BY <3>1
  <2>7. P[k] <= P[j]
    BY <2>2, <2>6, SettingGrows
  <2> QED BY <2>1, <2>3, <2>5, <2>6, <2>7
<1>2. ASSUME i = MsgNum \/ (i < MsgNum /\ o + n < P[i + 1]), NEW e \in T PROVE FALSE
  <2>1. e \in 1 .. n /\ i < MsgNum /\ P[i + 1] <= o + e
    BY <1>1
  <2>2. PICK q \in Nat : q = P[i + 1]
    BY <1>0, <2>1
  <2>3. q <= o + e /\ o + n < q
    BY <1>0, <1>2, <2>1, <2>2
  <2> QED BY <2>1, <2>2, <2>3
<1>3. ASSUME i < MsgNum, P[i + 1] <= o + n
      PROVE  T # {} /\ Frame!Min(T) = P[i + 1] - o /\ P[i + 1] - o \in s .. n
  <2>1. PICK k \in 1 .. MsgNum : k = i + 1 /\ k \in 0 .. MsgNum
    BY <1>0, <1>3
  <2>2. PICK p \in Nat, q \in Nat : p = P[i] /\ q = P[k] /\ p < q
    <3>1. P[i] < P[k]
      BY <1>0, <2>1, SettingGrows
    <3> QED BY <1>0, <2>1, <3>1
  <2>3. PICK e \in s .. n : e = q - o /\ o + e = q
    <3>1. q - o \in s .. n /\ o + (q - o) = q
      BY <1>3, <2>1, <2>2
    <3> QED BY <3>1
  <2>4. e \in T
    BY <2>1, <2>2, <2>3
  <2>5. \A f \in T : e <= f /\ f \in Nat
    <3> TAKE f \in T
    <3>1. f \in 1 .. n /\ P[i + 1] <= o + f
      BY <1>1
    <3> QED BY <2>1, <2>2, <2>3, <3>1
  <2>6. T \in SUBSET Nat /\ T # {}
    BY <2>4, <2>5
  <2> HIDE DEF T, EndsFrom, MessageEnds
  <2>7. Frame!Min(T) \in T /\ \A x \in T : Frame!Min(T) <= x
    BY <2>6, MinIs
  <2>8. Frame!Min(T) = e
    <3>1. PICK f \in T : f = Frame!Min(T)
      BY <2>7
    <3>2. e <= f /\ f <= e /\ f \in Nat
      BY <2>4, <2>5, <2>7, <3>1
    <3> QED BY <3>1, <3>2
  <2> QED BY <2>1, <2>2, <2>3, <2>6, <2>8
<1> QED BY <1>2, <1>3

LEMMA CintfText ==
  ASSUME NEW P, NEW W, NEW S, FrameSetting(P, W, S), kind = "cintf_text",
         NEW V, 0 \in V, V \subseteq Int, NEW b \in [Frame!Cells -> V],
         NEW n \in Nat, n <= MaxRecvLen, NEW o \in Nat, Holds(b, o, n), o + n <= Len(S),
         \A i \in Frame!Cells : i > n => b[i] = Frame!Blank,
         NEW m \in 0 .. MsgNum, P[m] = o, NEW in, in = Frame!TextInput(b, n)
  PROVE  \E d \in Nat : Exact(in, P, W, S, V, o, n, m, d)
<1>0. /\ MaxRecvLen \in Nat /\ MsgNum \in Nat /\ W \in [1 .. MsgNum -> Seq(Int)]
      /\ \A j \in 0 .. MsgNum : P[j] \in Nat
      /\ b \in [Frame!Cells -> Int]
  <2>1. MaxRecvLen \in Nat
    BY FrameAssumption
  <2>2. W \in [1 .. MsgNum -> Seq(Int)]
    BY DEF FrameSetting
  <2>3. b \in [Frame!Cells -> Int]
    OBVIOUS
  <2> QED BY <2>1, <2>2, <2>3, SettingGrows
<1>1. PICK E : /\ E = Frame!Separators(b) /\ E = Frame!Ends(b, n)
               /\ E = MessageEnds(P, o, n)
               /\ Frame!Visible(b) = 1 .. n
               /\ \A i \in 1 .. n : Frame!Token(b[i]) = S[o + i] /\ o + i \in 1 .. Len(S)
  <2>1. /\ Frame!Visible(b) = 1 .. n
        /\ \A i \in 1 .. n : Frame!Token(b[i]) = S[o + i] /\ o + i \in 1 .. Len(S)
        /\ Frame!Ends(b, n) = Frame!Separators(b)
        /\ Frame!Separators(b) = MessageEnds(P, o, n)
    <3>1. b \in [Frame!Cells -> Int]
      BY <1>0
    <3> QED BY <3>1, CintfSees
  <2> QED BY <2>1
<1>2. PICK d \in Nat : m + d \in 0 .. MsgNum /\ LastWhole(P, m + d, o + n)
  BY WholeAfter
<1>3. PICK l \in 0 .. MsgNum : l = m + d
  BY <1>2
<1>4. P[l] <= o + n /\ (l < MsgNum => o + n < P[l + 1])
  BY <1>2, <1>3 DEF LastWhole
<1>5. ASSUME NEW j \in 0 .. d PROVE m + j \in 0 .. MsgNum /\ o <= P[m + j] /\ P[m + j] <= P[l]
  <2>1. PICK k \in 0 .. MsgNum : k = m + j /\ m <= k /\ k <= l
    <3>1. m + j \in 0 .. MsgNum /\ m <= m + j /\ m + j <= l
      BY <1>0, <1>3
    <3> QED BY <3>1
  <2>2. P[m] <= P[k] /\ P[k] <= P[l]
    BY <2>1, SettingGrows
  <2> QED BY <2>1, <2>2
<1>6. CASE E = {}
  <2>1. /\ in.msgs = <<>> /\ in.buf = b /\ in.len = n /\ in.next = 0
        /\ in.bad = (n = MaxRecvLen)
    BY <1>1, <1>6 DEF Frame!TextInput
  <2>2. d = 0
    <3>1. ASSUME d # 0 PROVE FALSE
      <4>1. m < l /\ l \in 1 .. MsgNum
        BY <1>0, <1>3, <3>1
      <4>2. PICK q \in Nat : q = P[l]
        BY <1>0
      <4>3. P[m] < P[l]
        BY <4>1, SettingGrows
      <4>4. PICK i \in 1 .. n : o + i = q
        <5>1. q - o \in 1 .. n /\ o + (q - o) = q
          BY <1>4, <4>2, <4>3
        <5> QED BY <5>1
      <4>5. i \in E
        BY <1>1, <4>1, <4>2, <4>4 DEF MessageEnds
      <4> QED BY <1>6, <4>5
    <3> QED BY <3>1
  <2>3. l = m /\ m + d = m /\ P[m + d] - o + 1 = 1 /\ n + 1 - 1 = n /\ o + 1 - 1 = o
    BY <1>3, <2>2
  <2>4. BufferLeft(b, V, o, n, 1)
    BY <2>3 DEF BufferLeft
  <2>5. Then(W, m, 0) = <<>>
    BY DEF Then
  <2>6. in.bad \in BOOLEAN
    BY <2>1
  <2>7. P[m] <= o + n /\ (m < MsgNum => o + n < P[m + 1])
    BY <1>4, <2>3
  <2>8. Exact(in, P, W, S, V, o, n, m, 0)
    <3>1. m + 0 = m /\ P[m + 0] - o + 1 = 1 /\ 1 \in 1 .. n + 1 /\ 0 \in 0 .. MaxRecvLen /\ m <= MsgNum
      BY <1>0
    <3>2. n + 1 - (P[m + 0] - o + 1) = n
      BY <3>1
    <3> QED BY <2>1, <2>4, <2>5, <2>6, <2>7, <3>1, <3>2 DEF Exact
  <2> QED BY <2>8
<1>7. CASE E # {}
  <2>1. Frame!is_legal(b)
    <3>1. PICK i \in E : TRUE
      BY <1>7
    <3>2. PICK j \in 1 .. MsgNum : o + i = P[j] /\ i \in 1 .. n
      BY <1>1 DEF MessageEnds
    <3>3. PICK h \in 0 .. MsgNum : h = j - 1 /\ j \in 0 .. MsgNum
      BY <1>0
    <3>4. PICK p \in Nat, q \in Nat : p = P[h] /\ q = P[j]
      BY <1>0, <3>3
    <3>5. kind = "cintf_text" /\ Frame!IsText
      BY DEF Frame!IsText
    <3>6. S[q - 1] = "c" /\ p < q - 1
      BY <3>3, <3>4, <3>5 DEF FrameSetting
    <3>7. o <= p
      <4>1. P[m] < P[j]
        BY <3>2, <3>3, <3>4
      <4>2. m < j
        BY <3>3, <4>1, SettingGrows
      <4>3. m <= h
        BY <3>3, <4>2
      <4> QED BY <3>4, <4>3, SettingGrows
    <3>8. PICK k \in 1 .. n : o + k = q - 1
      <4>1. i \in 1 .. n /\ o + i = q
        BY <3>2, <3>4
      <4>2. p < q - 1
        BY <3>6
      <4>3. i - 1 \in 1 .. n /\ o + (i - 1) = q - 1
        BY <3>7, <4>1, <4>2
      <4> QED BY <4>3
    <3>9. k \in Frame!Visible(b) /\ Frame!Token(b[k]) = "c"
      BY <1>1, <3>6, <3>8
    <3> QED BY <3>9 DEF Frame!is_legal
  <2>2. in = Frame!After(Frame!Cut(b, n), b, n)
    BY <1>1, <1>7, <2>1 DEF Frame!TextInput
  <2>3. PICK c : /\ Frame!Cut(b, n) = c[1]
                 /\ \A s \in 1 .. FrameMax :
                      c[s] = IF CutEnds(b, n, s) = {} THEN Frame!Stop(s, 0, FALSE)
                             ELSE Frame!Gives(Frame!Piece(b, s, Frame!Min(CutEnds(b, n, s))),
                                              c[Frame!Min(CutEnds(b, n, s)) + 1])
    BY <1>0, CutLoop
  <2>4. \A s : CutEnds(b, n, s) = EndsFrom(P, o, n, s)
    BY <1>1 DEF CutEnds, EndsFrom
  <2> DEFINE q == [j \in 0 .. d |-> P[m + j] - o + 1]
  <2>5. ASSUME NEW j \in 0 .. d
        PROVE  /\ q[j] \in 1 .. n + 1 /\ q[j] \in 1 .. FrameMax /\ q[j] \in Nat /\ q[j] \in Int
               /\ o + q[j] = P[m + j] + 1 /\ q[j] = P[m + j] - o + 1
    <3>1. PICK p \in Nat : p = P[m + j] /\ o <= p /\ p <= o + n
      <4>1. P[m + j] \in Nat /\ P[l] \in Nat /\ o <= P[m + j] /\ P[m + j] <= P[l]
        BY <1>0, <1>5
      <4> QED BY <1>4, <4>1
    <3>2. q[j] = p - o + 1
      BY <3>1
    <3> HIDE DEF q
    <3>3. PICK y \in Nat : y = p - o + 1
      BY <3>1
    <3>5. o <= p /\ p <= o + n
      BY <3>1
    <3>4. y \in 1 .. n + 1 /\ y \in 1 .. MaxRecvLen + 1 /\ y \in Int /\ o + y = p + 1
      BY <1>0, <3>3, <3>5
    <3> QED BY <3>1, <3>2, <3>3, <3>4 DEF FrameMax
  <2>6. q \in [0 .. d -> Int]
    <3>1. \A j \in 0 .. d : q[j] \in Int
      BY <2>5
    <3> QED BY <3>1
  <2>7. q[0] = 1
    <3>1. 0 \in 0 .. d /\ m + 0 = m
      OBVIOUS
    <3> QED BY <2>5, <3>1
  <2> HIDE DEF q
  <2>8. c[q[d]] = Frame!Stop(q[d], 0, FALSE)
    <3>1. PICK s \in Nat : s = q[d] /\ s \in 1 .. FrameMax /\ o + s = P[l] + 1 /\ 1 <= s
      <4>1. d \in 0 .. d
        OBVIOUS
      <4>2. /\ q[d] \in 1 .. n + 1 /\ q[d] \in 1 .. FrameMax /\ q[d] \in Nat
            /\ o + q[d] = P[m + d] + 1
        BY <2>5, <4>1
      <4>3. 1 <= q[d] /\ P[m + d] = P[l]
        BY <1>3, <4>2
      <4> QED BY <4>2, <4>3
    <3>2. l = MsgNum \/ (l < MsgNum /\ o + n < P[l + 1])
      BY <1>0, <1>4
    <3>3. EndsFrom(P, o, n, s) = {}
      <4>1. o + s = P[l] + 1 /\ 1 <= s
        BY <3>1
      <4>2. l = MsgNum \/ (l < MsgNum /\ o + n < P[l + 1]) => EndsFrom(P, o, n, s) = {}
        BY <4>1, CintfNext
      <4> QED BY <3>2, <4>2
    <3> QED BY <2>3, <2>4, <3>1, <3>3
  <2>9. ASSUME NEW j \in 0 .. d - 1
        PROVE  c[q[j]] = Frame!Gives(Then(W, m, d)[j + 1], c[q[j + 1]])
    <3>1. j \in 0 .. d /\ j + 1 \in 0 .. d /\ j + 1 \in 1 .. d
      OBVIOUS
    <3>2. PICK i \in 0 .. MsgNum : i = m + j /\ i < MsgNum /\ i + 1 = m + (j + 1) /\ i \in 0 .. MsgNum - 1
      <4>1. m + j \in 0 .. MsgNum /\ m + j < MsgNum /\ (m + j) + 1 = m + (j + 1)
        BY <1>0, <1>2
      <4> QED BY <1>0, <4>1
    <3>3. PICK s \in Nat : s = q[j] /\ s \in 1 .. FrameMax /\ o + s = P[i] + 1 /\ 1 <= s
      BY <2>5, <3>1, <3>2
    <3>4. PICK z \in Nat : z = P[i + 1] /\ z <= o + n
      <4>1. P[m + (j + 1)] <= P[l] /\ m + (j + 1) \in 0 .. MsgNum
        BY <1>5, <3>1
      <4> QED BY <1>0, <1>4, <3>2, <4>1
    <3>5. PICK e \in s .. n : /\ e = z - o /\ EndsFrom(P, o, n, s) # {}
                              /\ Frame!Min(EndsFrom(P, o, n, s)) = e
      <4>1. o + s = P[i] + 1 /\ 1 <= s
        BY <3>3
      <4>2. i < MsgNum /\ P[i + 1] <= o + n =>
              /\ EndsFrom(P, o, n, s) # {}
              /\ Frame!Min(EndsFrom(P, o, n, s)) = P[i + 1] - o
              /\ P[i + 1] - o \in s .. n
        BY <4>1, CintfNext
      <4> QED BY <3>2, <3>4, <4>2
    <3>6. c[s] = Frame!Gives(Frame!Piece(b, s, e), c[e + 1])
      BY <2>3, <2>4, <3>3, <3>5
    <3>7. Frame!Piece(b, s, e) = W[i + 1]
      <4>1. Ahead = 0
        BY DEF Ahead, Frame!IsText
      <4>2. e \in Nat /\ 1 <= s /\ e <= n
        BY <3>3, <3>5
      <4>3. o + s = P[i] + Ahead + 1 /\ o + e = P[i + 1]
        <5>1. PICK p \in Nat : p = P[i]
          BY <1>0
        <5>2. o + s = p + Ahead + 1
          BY <3>3, <4>1, <5>1
        <5>3. o + e = P[i + 1]
          BY <3>4, <3>5
        <5> QED BY <5>1, <5>2, <5>3
      <4>4. Covers(P, o, n, i, s, e)
        BY <3>2, <4>2, <4>3 DEF Covers
      <4>5. PICK b1 \in [Frame!Cells -> Int] : b1 = b
        BY <1>0
      <4>6. Holds(b1, o, n)
        BY <4>5
      <4>7. Frame!Piece(b1, s, e) = W[i + 1]
        BY <4>4, <4>6, PieceIs
      <4> QED BY <4>5, <4>7
    <3>8. q[j + 1] = e + 1
      BY <2>5, <3>1, <3>2, <3>4, <3>5
    <3>9. Then(W, m, d)[j + 1] = W[i + 1]
      BY <3>1, <3>2 DEF Then
    <3> QED BY <3>3, <3>6, <3>7, <3>8, <3>9
  <2>10. PICK t \in Nat : t = q[d] /\ t \in 1 .. n + 1 /\ t = P[m + d] - o + 1
    <3>1. d \in 0 .. d
      OBVIOUS
    <3> QED BY <2>5, <3>1
  <2>11. PICK w \in FrameOut : /\ w = c[q[d]] /\ w.msgs = <<>> /\ w.at = t
                               /\ w.next = 0 /\ w.bad = FALSE
    <3>1. PICK y \in Int, z \in BOOLEAN : y = 0 /\ z = FALSE
      OBVIOUS
    <3>2. t \in Int
      OBVIOUS
    <3>3. StopsAt(Frame!Stop(t, y, z), t, y, z)
      BY <3>2, StopFields
    <3>4. StopsAt(c[q[d]], t, 0, FALSE)
      BY <2>8, <2>10, <3>1, <3>3
    <3> QED BY <3>4 DEF StopsAt
  <2>12. PICK g \in [1 .. d -> Seq(Int)] : g = Then(W, m, d)
    <3>1. m \in Nat /\ m + d <= MsgNum
      BY <1>0, <1>2
    <3>2. Then(W, m, d) \in [1 .. d -> Seq(Int)]
      BY <1>0, <3>1, ThenTyped
    <3> QED BY <3>2
  <2>13. /\ c[q[0]] \in FrameOut /\ c[q[0]].msgs = g /\ c[q[0]].at = c[q[d]].at
         /\ c[q[0]].next = c[q[d]].next /\ c[q[0]].bad = c[q[d]].bad
    <3>3. PICK q1 \in [0 .. d -> Int] : q1 = q
      BY <2>6
    <3>4. IsLoop(c, q1, g, d)
      BY <2>9, <2>11, <2>12, <3>3 DEF IsLoop
    <3>5. LoopGave(c[q1[0]], c[q1[d]], g)
      BY <3>4, LoopGives
    <3> QED BY <3>3, <3>5 DEF LoopGave
  <2>14. PICK v \in FrameOut : /\ v = Frame!Cut(b, n) /\ v.msgs = g /\ v.at = t
                               /\ v.next = 0 /\ v.bad = FALSE
    BY <2>3, <2>7, <2>11, <2>13
  <2>15. AfterIs(v, V, b, n, o, t)
    <3>1. PICK a \in 1 .. n + 1 : a = t
      BY <2>10
    <3>2. v.at = a
      BY <2>14, <3>1
    <3>3. AfterIs(v, V, b, n, o, a)
      BY <3>2, AfterLeaves
    <3> QED BY <3>1, <3>3
  <2>16. Exact(in, P, W, S, V, o, n, m, d)
    <3>1. m + d <= MsgNum /\ 0 \in 0 .. MaxRecvLen
      BY <1>0, <1>2
    <3>2. P[m + d] <= o + n /\ (m + d < MsgNum => o + n < P[m + d + 1])
      BY <1>3, <1>4
    <3>3. /\ in.msgs = g /\ in.len = n + 1 - t /\ in.next = 0 /\ in.bad = FALSE
          /\ BufferLeft(in.buf, V, o, n, t)
      BY <2>2, <2>14, <2>15 DEF AfterIs
    <3> QED BY <2>10, <2>12, <3>1, <3>2, <3>3 DEF Exact
  <2> QED BY <2>16
<1> QED BY <1>6, <1>7

-----------------------------------------------------------------------------
(* The binary protocols.                                                   *)

\* A buffer of whole bytes of the stream, from byte o + 1 on.
Buffer(S, b, n, o) ==
  /\ b \in [Frame!Cells -> Int] /\ n \in Nat /\ n <= MaxRecvLen
  /\ o \in Nat /\ Holds(b, o, n) /\ o + n <= Len(S)

\* Message i + 1 begins in cell s.
Begins(P, o, n, i, s) == i \in 0 .. MsgNum /\ s \in Nat /\ 1 <= s /\ s <= n + 1 /\ o + s = P[i] + 1

LEMMA BinAt ==
  ASSUME NEW P, NEW W, NEW S, FrameSetting(P, W, S), ~ Frame!IsText,
         NEW b, NEW n, NEW o, Buffer(S, b, n, o), NEW i, NEW s, Begins(P, o, n, i, s), s <= n
  PROVE  /\ i < MsgNum /\ Frame!Token(b[s]) = S[P[i] + 1] /\ Frame!Token(b[s]) \in Nat
         /\ P[i + 1] = P[i] + Frame!Extra + Frame!Token(b[s])
         /\ P[i] + LenSize <= P[i + 1]
<1>0. /\ MsgNum \in Nat /\ \A j \in 0 .. MsgNum : P[j] \in Nat
      /\ n \in Nat /\ o \in Nat /\ i \in 0 .. MsgNum /\ s \in Nat
      /\ 1 <= s /\ o + s = P[i] + 1 /\ Holds(b, o, n) /\ o + n <= Len(S) /\ Len(S) = P[MsgNum]
  <2>1. MsgNum \in Nat /\ \A j \in 0 .. MsgNum : P[j] \in Nat
    BY SettingGrows
  <2>2. Len(S) = P[MsgNum]
    BY DEF FrameSetting
  <2> QED BY <2>1, <2>2 DEF Buffer, Begins
<1>1. PICK p \in Nat, z \in Nat : p = P[i] /\ z = P[MsgNum]
  BY <1>0
<1>2. o + s \in 1 .. z /\ o + s = p + 1
  BY <1>0, <1>1
<1>3. b[s] = o + s
  <2>1. s \in 1 .. n
    BY <1>0
  <2> QED BY <1>0, <2>1 DEF Holds
<1>4. Frame!Token(b[s]) = S[p + 1] /\ S[p + 1] \in Nat
  <2>1. o + s # -1 /\ o + s # 0
    BY <1>0
  <2>2. S = Frame!Stream /\ \A x \in 1 .. z : S[x] \in Nat
    BY <1>0, <1>1 DEF FrameSetting
  <2> QED BY <1>2, <1>3, <2>1, <2>2 DEF Frame!Token, Frame!Junk, Frame!Blank
<1>5. i < MsgNum
  <2>1. p < z
    BY <1>2
  <2>2. i \in 0 .. MsgNum /\ MsgNum \in 0 .. MsgNum /\ P[i] < P[MsgNum]
    BY <1>0, <1>1, <2>1
  <2> QED BY <2>2, SettingGrows
<1>6. PICK j \in 1 .. MsgNum : j = i + 1 /\ j - 1 = i
  <2>1. i + 1 \in 1 .. MsgNum /\ (i + 1) - 1 = i
    BY <1>0, <1>5
  <2> QED BY <2>1
<1>7. P[j] = P[j - 1] + Frame!Extra + S[P[j - 1] + 1] /\ P[j - 1] + LenSize <= P[j]
  BY DEF FrameSetting
<1> QED BY <1>1, <1>4, <1>5, <1>6, <1>7

\* What the loop leaves where it stops.
Stopped(w, P, S, o, n, i, s) ==
  /\ w \in FrameOut /\ w.msgs = <<>> /\ w.at = s
  /\ w.next \in 0 .. MaxRecvLen
  /\ ~ w.bad => /\ i < MsgNum => o + n < P[i + 1]
                /\ w.next # 0 => n + 1 - s > 0 /\ w.next = S[P[i] + 1]

Stops(P, S, o, n, i, s, l, bad) ==
  /\ s \in Int /\ l \in 0 .. MaxRecvLen /\ bad \in BOOLEAN
  /\ ~ bad => /\ i < MsgNum => o + n < P[i + 1]
              /\ l # 0 => n + 1 - s > 0 /\ l = S[P[i] + 1]

LEMMA StopIs ==
  ASSUME NEW P, NEW S, NEW o, NEW n, NEW i, NEW s, NEW l, NEW bad,
         Stops(P, S, o, n, i, s, l, bad)
  PROVE  Stopped(Frame!Stop(s, l, bad), P, S, o, n, i, s)
<1>1. s \in Int /\ l \in Int /\ bad \in BOOLEAN
  BY FrameAssumption DEF Stops
<1>2. PICK w : w = Frame!Stop(s, l, bad)
  OBVIOUS
<1>3. w \in FrameOut /\ w.msgs = <<>> /\ w.at = s /\ w.next = l /\ w.bad = bad
  <2>1. StopsAt(w, s, l, bad)
    BY <1>1, <1>2, StopFields
  <2> QED BY <2>1 DEF StopsAt
<1> QED BY <1>2, <1>3 DEF Stopped, Stops

LEMMA WalkStops ==
  ASSUME NEW P, NEW W, NEW S, FrameSetting(P, W, S), ~ Frame!IsText,
         NEW b, NEW n, NEW o, Buffer(S, b, n, o), NEW i, NEW s, Begins(P, o, n, i, s),
         msgLen \in 0 .. MaxRecvLen, msgLen # 0 => msgLen = S[o + 1],
         ~ WalkOn(b, n, s)
  PROVE  Stopped(WalkEnd(b, n, s), P, S, o, n, i, s)
<1>0. /\ MaxRecvLen \in Nat /\ LenSize \in Nat \ {0} /\ Frame!Extra \in Nat
      /\ MsgNum \in Nat /\ \A j \in 0 .. MsgNum : P[j] \in Nat
      /\ n \in Nat /\ o \in Nat /\ i \in 0 .. MsgNum /\ s \in Nat /\ s \in Int
      /\ 1 <= s /\ s <= n + 1 /\ o + s = P[i] + 1 /\ 0 \in 0 .. MaxRecvLen
  BY FrameAssumption, SettingGrows DEF Buffer, Begins, Frame!Extra
<1> DEFINE l == Frame!Token(b[s])
           w == WalkEnd(b, n, s)
<1>1. CASE n + 1 - s < LenSize
  <2>1. w = Frame!Stop(s, 0, FALSE)
    BY <1>1 DEF WalkEnd
  <2>2. ASSUME i < MsgNum PROVE o + n < P[i + 1]
    <3>1. PICK j \in 1 .. MsgNum : j = i + 1 /\ j - 1 = i
      <4>1. i + 1 \in 1 .. MsgNum /\ (i + 1) - 1 = i
        BY <1>0, <2>2
      <4> QED BY <4>1
    <3>2. P[j - 1] + LenSize <= P[j]
      BY DEF FrameSetting
    <3>3. PICK p \in Nat, q \in Nat : p = P[i] /\ q = P[i + 1]
      BY <1>0, <2>2
    <3>4. p + LenSize <= q /\ o + s = p + 1
      BY <1>0, <3>1, <3>2, <3>3
    <3>5. o + n < q
      BY <1>0, <1>1, <3>3, <3>4
    <3> QED BY <3>3, <3>5
  <2>3. Stops(P, S, o, n, i, s, 0, FALSE)
    BY <1>0, <2>2 DEF Stops
  <2> QED BY <2>1, <2>3, StopIs
<1>2. CASE ~ (n + 1 - s < LenSize)
  <2>0. s <= n /\ n + 1 - s > 0
    BY <1>0, <1>2
  <2>1. /\ i < MsgNum /\ l = S[P[i] + 1] /\ l \in Nat
        /\ P[i + 1] = P[i] + Frame!Extra + l
    BY <2>0, BinAt
  <2> DEFINE Bad == IF s = 1 THEN msgLen = 0 /\ Frame!BadFirstLen(l) ELSE Frame!BadLen(l)
  <2>2. CASE Bad
    <3>1. w = Frame!Stop(s, 0, TRUE)
      BY <1>2, <2>2 DEF WalkEnd
    <3>2. Stops(P, S, o, n, i, s, 0, TRUE)
      BY <1>0 DEF Stops
    <3> QED BY <3>1, <3>2, StopIs
  <2>3. CASE ~ Bad
    <3>1. w = Frame!Stop(s, l, FALSE)
      BY <1>2, <2>3 DEF WalkEnd
    <3>2. n + 1 - s < Frame!Extra + l
      BY <1>2, <2>3 DEF WalkOn
    <3>3. l \in 0 .. MaxRecvLen
      <4>1. CASE s = 1 /\ msgLen # 0
        <5>1. PICK p \in Nat : p = P[i]
          BY <1>0
        <5>2. p = o
          BY <1>0, <4>1, <5>1
        <5>3. l = msgLen
          BY <2>1, <4>1, <5>1, <5>2
        <5> QED BY <5>3
      <4>2. CASE s = 1 /\ msgLen = 0
        <5>1. ~ Frame!BadFirstLen(l)
          BY <2>3, <4>2
        <5>2. ~ (l > MaxRecvLen)
          <6> HIDE DEF l
          <6> QED BY <5>1 DEF Frame!BadFirstLen, Frame!BadLen
        <5> QED BY <1>0, <2>1, <5>2
      <4>3. CASE s # 1
        <5>1. ~ Frame!BadLen(l)
          BY <2>3, <4>3
        <5>2. ~ (l > MaxRecvLen)
          <6> HIDE DEF l
          <6> QED BY <5>1 DEF Frame!BadLen
        <5> QED BY <1>0, <2>1, <5>2
      <4> QED BY <4>1, <4>2, <4>3
    <3>4. o + n < P[i + 1]
      <4>1. PICK p \in Nat, q \in Nat, t \in Nat, x \in Nat :
              p = P[i] /\ q = P[i + 1] /\ t = l /\ x = Frame!Extra
        <5>1. P[i + 1] \in Nat
          BY <1>0, <2>1
        <5> QED BY <1>0, <2>1, <5>1
      <4>2. q = p + x + t /\ n + 1 - s < x + t /\ o + s = p + 1
        BY <1>0, <2>1, <3>2, <4>1
      <4>3. o + n < q
        BY <1>0, <4>1, <4>2
      <4> QED BY <4>1, <4>3
    <3>5. Stops(P, S, o, n, i, s, l, FALSE)
      <4> HIDE DEF l
      <4> QED BY <1>0, <2>0, <2>1, <3>3, <3>4 DEF Stops
    <3> QED BY <3>1, <3>5, StopIs
  <2> QED BY <2>2, <2>3
<1> QED BY <1>1, <1>2

LEMMA WalkGoes ==
  ASSUME NEW P, NEW W, NEW S, FrameSetting(P, W, S), ~ Frame!IsText,
         NEW b, NEW n, NEW o, Buffer(S, b, n, o), NEW i, NEW s, Begins(P, o, n, i, s),
         WalkOn(b, n, s)
  PROVE  /\ i < MsgNum /\ P[i + 1] <= o + n
         /\ Frame!Body(b, s, Frame!Token(b[s])) = W[i + 1]
         /\ s + Frame!Extra + Frame!Token(b[s]) = P[i + 1] - o + 1
<1>0. /\ MaxRecvLen \in Nat /\ LenSize \in Nat \ {0} /\ Frame!Extra \in Nat
      /\ MsgNum \in Nat /\ \A j \in 0 .. MsgNum : P[j] \in Nat
      /\ n \in Nat /\ o \in Nat /\ i \in 0 .. MsgNum /\ s \in Nat
      /\ 1 <= s /\ s <= n + 1 /\ o + s = P[i] + 1
  <2>1. MsgNum \in Nat /\ \A j \in 0 .. MsgNum : P[j] \in Nat
    BY SettingGrows
  <2> QED BY <2>1, FrameAssumption DEF Buffer, Begins, Frame!Extra
<1>1. s <= n
  <2>1. ~ (n + 1 - s < LenSize)
    BY DEF WalkOn
  <2> QED BY <1>0, <2>1
<1>2. /\ i < MsgNum /\ Frame!Token(b[s]) \in Nat
      /\ P[i + 1] = P[i] + Frame!Extra + Frame!Token(b[s])
  BY <1>1, BinAt
<1>3. PICK p \in Nat, q \in Nat, l \in Nat, x \in Nat :
        /\ p = P[i] /\ q = P[i + 1] /\ l = Frame!Token(b[s]) /\ x = Frame!Extra
        /\ q = p + x + l /\ o + s = p + 1
  <2>1. P[i + 1] \in Nat /\ P[i] \in Nat
    BY <1>0, <1>2
  <2> QED BY <1>0, <1>2, <2>1
<1>4. ~ (n + 1 - s < x + l)
  BY <1>3 DEF WalkOn
<1>5. q <= o + n /\ s + x + l = q - o + 1 /\ s + x \in Nat /\ 1 <= s + x
  BY <1>0, <1>3, <1>4
<1>6. PICK e \in Nat : e = s + x + l - 1 /\ o + e = q /\ e <= n
  <2>1. s + x + l - 1 \in Nat /\ o + (s + x + l - 1) = q /\ s + x + l - 1 <= n
    BY <1>0, <1>3, <1>4
  <2> QED BY <2>1
<1>7. Covers(P, o, n, i, s + x, e)
  <2>1. Ahead = x
    BY <1>3 DEF Ahead
  <2>2. i \in 0 .. MsgNum - 1
    BY <1>0, <1>2
  <2>3. o + (s + x) = p + x + 1
    BY <1>0, <1>3
  <2>4. o + (s + x) = P[i] + Ahead + 1 /\ o + e = P[i + 1]
    BY <1>3, <1>6, <2>1, <2>3
  <2> QED BY <1>5, <1>6, <2>2, <2>4 DEF Covers
<1>8. Frame!Piece(b, s + x, e) = W[i + 1]
  <2>1. PICK b1 \in [Frame!Cells -> Int], n1 \in Nat, o1 \in Nat : b1 = b /\ n1 = n /\ o1 = o
    BY DEF Buffer
  <2>2. Holds(b1, o1, n1) /\ n1 <= MaxRecvLen /\ Covers(P, o1, n1, i, s + x, e)
    BY <1>7, <2>1 DEF Buffer
  <2>3. Frame!Piece(b1, s + x, e) = W[i + 1]
    BY <2>2, PieceIs
  <2> QED BY <2>1, <2>3
<1>9. Frame!Body(b, s, l) = Frame!Piece(b, s + x, e)
  BY <1>3, <1>6 DEF Frame!Body
<1> QED BY <1>2, <1>3, <1>5, <1>8, <1>9

LEMMA BinExact ==
  ASSUME NEW P, NEW W, NEW S, FrameSetting(P, W, S), ~ Frame!IsText,
         NEW V, 0 \in V, V \subseteq Int, NEW b \in [Frame!Cells -> V],
         NEW n, NEW o, Buffer(S, b, n, o), NEW m \in 0 .. MsgNum, P[m] = o,
         msgLen \in 0 .. MaxRecvLen, msgLen # 0 => msgLen = S[o + 1],
         kind \in Frame!AllKinds, NEW in, in = Frame!BinInput(b, n)
  PROVE  \E d \in Nat : Exact(in, P, W, S, V, o, n, m, d)
<1>0. /\ MaxRecvLen \in Nat /\ MsgNum \in Nat /\ W \in [1 .. MsgNum -> Seq(Int)]
      /\ \A j \in 0 .. MsgNum : P[j] \in Nat
      /\ n \in Nat /\ n <= MaxRecvLen /\ o \in Nat /\ Holds(b, o, n)
      /\ b \in [Frame!Cells -> Int]
  <2>1. MaxRecvLen \in Nat
    BY FrameAssumption
  <2>2. W \in [1 .. MsgNum -> Seq(Int)]
    BY DEF FrameSetting
  <2>3. MsgNum \in Nat /\ \A j \in 0 .. MsgNum : P[j] \in Nat
    BY SettingGrows
  <2> QED BY <2>1, <2>2, <2>3 DEF Buffer
<1>1. PICK f \in Nat : m + f \in 0 .. MsgNum /\ LastWhole(P, m + f, o + n)
  BY <1>0, WholeAfter
<1>2. PICK l \in 0 .. MsgNum : l = m + f
  BY <1>1
<1>3. P[l] <= o + n /\ (l < MsgNum => o + n < P[l + 1])
  BY <1>1, <1>2 DEF LastWhole
<1> DEFINE q == [j \in 0 .. f |-> P[m + j] - o + 1]
<1>4. ASSUME NEW j \in 0 .. f
      PROVE  /\ m + j \in 0 .. MsgNum /\ P[m + j] <= o + n
             /\ Begins(P, o, n, m + j, q[j])
             /\ q[j] \in 1 .. n + 1 /\ q[j] \in 1 .. FrameMax /\ q[j] = P[m + j] - o + 1
  <2>1. PICK k \in 0 .. MsgNum : k = m + j /\ m <= k /\ k <= l
    <3>1. m + j \in 0 .. MsgNum /\ m <= m + j /\ m + j <= l
      BY <1>0, <1>2
    <3> QED BY <3>1
  <2>2. P[m] <= P[k] /\ P[k] <= P[l]
    BY <2>1, SettingGrows
  <2>3. PICK p \in Nat, z \in Nat : p = P[k] /\ z = P[l]
    BY <1>0
  <2>4. o <= p /\ p <= o + n
    BY <1>0, <1>3, <2>2, <2>3
  <2>5. PICK y \in Nat : y = p - o + 1
    BY <1>0, <2>4
  <2>6. /\ y \in 1 .. n + 1 /\ y \in 1 .. MaxRecvLen + 1 /\ 1 <= y /\ y <= n + 1 /\ o + y = p + 1
    BY <1>0, <2>4, <2>5
  <2>7. q[j] = y
    BY <2>1, <2>3, <2>5
  <2>8. Begins(P, o, n, k, y)
    BY <2>3, <2>6 DEF Begins
  <2> HIDE DEF q
  <2> QED BY <2>1, <2>3, <2>4, <2>5, <2>6, <2>7, <2>8 DEF FrameMax
<1>5. q[0] = 1
  <2>1. 0 \in 0 .. f /\ m + 0 = m
    OBVIOUS
  <2>2. q[0] = P[m + 0] - o + 1
    BY <2>1
  <2> HIDE DEF q
  <2> QED BY <1>0, <2>1, <2>2
<1>6. q \in [0 .. f -> Int]
  <2>1. ASSUME NEW j \in 0 .. f PROVE q[j] \in Int
    <3>1. q[j] \in 1 .. n + 1
      BY <1>4
    <3> HIDE DEF q
    <3> QED BY <3>1
  <2> QED BY <2>1
<1> HIDE DEF q
<1>7. PICK c :
        /\ Frame!Walk(b, n) = c[1]
        /\ \A s \in 1 .. FrameMax :
             c[s] = IF WalkOn(b, n, s)
                    THEN Frame!Gives(Frame!Body(b, s, Frame!Token(b[s])),
                                     c[s + Frame!Extra + Frame!Token(b[s])])
                    ELSE WalkEnd(b, n, s)
  <2>1. \A s \in 1 .. n : Frame!Token(b[s]) \in Nat
    <3> TAKE s \in 1 .. n
    <3>1. b[s] = o + s
      BY <1>0 DEF Holds
    <3>2. o + s \in 1 .. Len(S) /\ o + s # -1 /\ o + s # 0
      <4>1. o + n <= Len(S) /\ Len(S) \in Nat
        BY LenProperties DEF Buffer, FrameSetting
      <4> QED BY <1>0, <4>1
    <3>3. S = Frame!Stream /\ S[o + s] \in Nat
      BY <3>2 DEF FrameSetting
    <3> QED BY <3>1, <3>2, <3>3 DEF Frame!Token, Frame!Junk, Frame!Blank
  <2>2. LenSize <= n /\ Frame!Extra = 0 => Frame!Token(b[1]) > 0
    <3>1. ASSUME LenSize <= n, Frame!Extra = 0 PROVE Frame!Token(b[1]) > 0
      <4>1. LenSize \in Nat \ {0}
        BY FrameAssumption
      <4>2. Begins(P, o, n, m, 1) /\ 1 <= n
        BY <1>0, <3>1, <4>1 DEF Begins
      <4>3. /\ m < MsgNum /\ Frame!Token(b[1]) \in Nat
            /\ P[m + 1] = P[m] + Frame!Extra + Frame!Token(b[1])
            /\ P[m] + LenSize <= P[m + 1]
        BY <4>2, BinAt
      <4>4. PICK t \in Nat : t = Frame!Token(b[1])
        BY <4>3
      <4>5. o + LenSize <= o + 0 + t
        BY <1>0, <3>1, <4>3, <4>4
      <4> QED BY <1>0, <4>1, <4>4, <4>5
    <3> QED BY <3>1
  <2>3. PICK b1 \in [Frame!Cells -> Int], n1 \in 0 .. MaxRecvLen : b1 = b /\ n1 = n
    BY <1>0
  <2>4. /\ \A s \in 1 .. n1 : Frame!Token(b1[s]) \in Nat
        /\ LenSize <= n1 /\ Frame!Extra = 0 => Frame!Token(b1[1]) > 0
    BY <2>1, <2>2, <2>3
  <2>5. \E c :
          /\ Frame!Walk(b1, n1) = c[1]
          /\ \A s \in 1 .. FrameMax :
               c[s] = IF WalkOn(b1, n1, s)
                      THEN Frame!Gives(Frame!Body(b1, s, Frame!Token(b1[s])),
                                       c[s + Frame!Extra + Frame!Token(b1[s])])
                      ELSE WalkEnd(b1, n1, s)
    BY <2>4, WalkLoop
  <2> QED BY <2>3, <2>5
<1> DEFINE T == {j \in 0 .. f : ~ WalkOn(b, n, q[j])}
<1>8. f \in T
  <2>1. ASSUME WalkOn(b, n, q[f]) PROVE FALSE
    <3>1. f \in 0 .. f
      OBVIOUS
    <3>2. Begins(P, o, n, m + f, q[f])
      BY <1>4, <3>1
    <3>3. m + f < MsgNum /\ P[m + f + 1] <= o + n
      BY <2>1, <3>2, WalkGoes
    <3>4. PICK z \in Nat : z = P[l + 1] /\ z <= o + n /\ o + n < z
      BY <1>0, <1>2, <1>3, <3>3
    <3> QED BY <1>0, <3>4
  <2> QED BY <2>1
<1>9. PICK d \in T : \A j \in T : d <= j
  <2>1. T \in SUBSET Nat /\ T # {}
    BY <1>8
  <2> HIDE DEF T
  <2> QED BY <2>1, LeastNatural
<1>10. d \in 0 .. f /\ ~ WalkOn(b, n, q[d]) /\ d \in Nat /\ m + d \in 0 .. MsgNum
  BY <1>4
<1>11. ASSUME NEW j \in 0 .. d - 1
       PROVE  c[q[j]] = Frame!Gives(Then(W, m, d)[j + 1], c[q[j + 1]])
  <2>1. j \in 0 .. f /\ j + 1 \in 0 .. f /\ j + 1 \in 1 .. d /\ ~ (d <= j)
    BY <1>10
  <2>2. WalkOn(b, n, q[j])
    BY <1>9, <2>1
  <2>3. PICK s \in 1 .. FrameMax, i \in Int : s = q[j] /\ i = m + j /\ Begins(P, o, n, i, s)
    BY <1>4, <2>1
  <2>4. /\ Frame!Body(b, s, Frame!Token(b[s])) = W[i + 1]
        /\ s + Frame!Extra + Frame!Token(b[s]) = P[i + 1] - o + 1
    BY <2>2, <2>3, WalkGoes
  <2>5. c[s] = Frame!Gives(W[i + 1], c[P[i + 1] - o + 1])
    BY <1>7, <2>2, <2>3, <2>4
  <2>6. m + (j + 1) = i + 1
    BY <1>0, <2>1, <2>3
  <2>7. q[j + 1] = P[i + 1] - o + 1
    BY <1>4, <2>1, <2>6
  <2>8. Then(W, m, d)[j + 1] = W[i + 1]
    BY <2>1, <2>6 DEF Then
  <2> QED BY <2>3, <2>5, <2>7, <2>8
<1>12. PICK t \in Nat : /\ t = q[d] /\ t \in 1 .. n + 1 /\ t \in 1 .. FrameMax
                        /\ t = P[m + d] - o + 1 /\ Begins(P, o, n, m + d, t)
                        /\ P[m + d] <= o + n
  <2>1. /\ q[d] \in 1 .. n + 1 /\ q[d] \in 1 .. FrameMax /\ q[d] = P[m + d] - o + 1
        /\ Begins(P, o, n, m + d, q[d]) /\ P[m + d] <= o + n
    BY <1>4, <1>10
  <2> QED BY <2>1
<1>13. PICK w \in FrameOut : w = c[t] /\ Stopped(w, P, S, o, n, m + d, t)
  <2>1. Stopped(WalkEnd(b, n, t), P, S, o, n, m + d, t)
    BY <1>10, <1>12, WalkStops
  <2>2. c[t] = WalkEnd(b, n, t)
    BY <1>7, <1>10, <1>12
  <2> QED BY <2>1, <2>2 DEF Stopped
<1>14. PICK g \in [1 .. d -> Seq(Int)] : g = Then(W, m, d)
  <2>1. m \in Nat /\ m + d <= MsgNum
    BY <1>0, <1>10
  <2>2. Then(W, m, d) \in [1 .. d -> Seq(Int)]
    BY <1>0, <1>10, <2>1, ThenTyped
  <2> QED BY <2>2
<1>15. LoopGave(c[1], w, g)
  <2> DEFINE q1 == [j \in 0 .. d |-> q[j]]
  <2>1. ASSUME NEW j \in 0 .. d PROVE j \in 0 .. f /\ q1[j] = q[j]
    BY <1>10
  <2>2. q1 \in [0 .. d -> Int]
    BY <1>6, <2>1
  <2>3. \A j \in 0 .. d - 1 : j \in 0 .. d /\ j + 1 \in 0 .. d
    BY <1>10
  <2>4. q1[0] = 1 /\ q1[d] = t
    <3>1. 0 \in 0 .. d /\ d \in 0 .. d
      BY <1>10
    <3> QED BY <1>5, <1>12, <2>1, <3>1
  <2> HIDE DEF q1
  <2>5. \A j \in 0 .. d - 1 : c[q1[j]] = Frame!Gives(g[j + 1], c[q1[j + 1]])
    BY <1>11, <1>14, <2>1, <2>3
  <2>6. IsLoop(c, q1, g, d)
    BY <1>13, <2>4, <2>5 DEF IsLoop, Stopped
  <2>7. PICK q2 \in [0 .. d -> Int], d2 \in Nat : q2 = q1 /\ d2 = d
    BY <1>10, <2>2
  <2>8. LoopGave(c[q1[0]], c[q1[d]], g)
    BY <1>10, <2>2, <2>6, LoopGives
  <2> QED BY <1>13, <2>4, <2>8
<1>16. PICK v \in FrameOut : /\ v = Frame!Walk(b, n) /\ v.msgs = g /\ v.at = w.at
                             /\ v.next = w.next /\ v.bad = w.bad
  BY <1>7, <1>15 DEF LoopGave
<1>17. AfterIs(v, V, b, n, o, t)
  <2>1. PICK n1 \in Nat, o1 \in Nat : n1 = n /\ o1 = o
    BY <1>0
  <2>2. PICK a \in 1 .. n1 + 1 : a = t
    BY <1>12, <2>1
  <2>3. v.at = a /\ Holds(b, o1, n1) /\ n1 <= MaxRecvLen
    BY <1>0, <1>13, <1>16, <2>1, <2>2 DEF Stopped
  <2>4. AfterIs(v, V, b, n1, o1, a)
    BY <2>3, AfterLeaves
  <2> QED BY <2>1, <2>2, <2>4
<1>18. Exact(in, P, W, S, V, o, n, m, d)
  <2>1. in = Frame!After(v, b, n)
    BY <1>16 DEF Frame!BinInput
  <2>2. in.msgs = Then(W, m, d) /\ in.len = n + 1 - t /\ BufferLeft(in.buf, V, o, n, t)
    BY <1>14, <1>16, <1>17, <2>1 DEF AfterIs
  <2>3. in.next = w.next /\ in.bad = w.bad
    BY <1>16, <1>17, <2>1 DEF AfterIs
  <2>4. w.bad \in BOOLEAN /\ w.next \in 0 .. MaxRecvLen
    BY <1>13 DEF FrameOut, Stopped
  <2>5. m + d <= MsgNum
    BY <1>0, <1>10
  <2>6. ~ w.bad => /\ m + d < MsgNum => o + n < P[m + d + 1]
                   /\ w.next # 0 => n + 1 - t > 0 /\ w.next = S[P[m + d] + 1]
    BY <1>13 DEF Stopped
  <2> QED BY <1>12, <2>2, <2>3, <2>4, <2>5, <2>6 DEF Exact
<1> QED BY <1>10, <1>18

-----------------------------------------------------------------------------
(* The invariant.                                                          *)

FrameTyped ==
  /\ kind \in Frame!AllKinds /\ sent \in [1 .. MsgNum -> FrameSent(kind)]
  /\ rcvd \in 0 .. Len(Frame!Stream)
  /\ recvBuf \in [Frame!Cells -> {Frame!Junk} \cup 0 .. Len(Frame!Stream)]
  /\ recvLen \in 0 .. MaxRecvLen /\ msgLen \in 0 .. MaxRecvLen
  /\ closed \in BOOLEAN /\ given \in Seq(Seq(Int))

\* The last recvLen bytes that were received are in the buffer.
FrameBuffer ==
  /\ recvLen <= rcvd
  /\ ~ closed => Holds(recvBuf, rcvd - recvLen, recvLen)
  /\ ~ closed /\ kind = "cintf_text" =>
       \A i \in Frame!Cells : i > recvLen => recvBuf[i] = Frame!Blank

\* The first m messages were given, and what follows them is in the buffer.
FrameWhole(m) ==
  /\ given = [i \in 1 .. m |-> Frame!Wanted(i)]
  /\ Frame!EndOf(m) <= rcvd
  /\ ~ closed => /\ Frame!EndOf(m) = rcvd - recvLen
                 /\ m < MsgNum => rcvd < Frame!EndOf(m + 1)
                 /\ msgLen # 0 => msgLen = Frame!Stream[Frame!EndOf(m) + 1]

FrameGiven ==
  IF kind = "intf_text"
  THEN IsRun(given, 0, IF closed THEN rcvd ELSE rcvd - recvLen)
  ELSE \E m \in 0 .. MsgNum : FrameWhole(m)

FrameInv == FrameTyped /\ FrameBuffer /\ FrameGiven

\* The same with what FrameSets has picked.
WholeIs(P, W, S, m) ==
  /\ given = Upto(W, m) /\ P[m] <= rcvd
  /\ ~ closed => /\ P[m] = rcvd - recvLen
                 /\ m < MsgNum => rcvd < P[m + 1]
                 /\ msgLen # 0 => msgLen = S[P[m] + 1]

LEMMA WholeSame ==
  ASSUME NEW P, NEW W, NEW S, FrameSetting(P, W, S), NEW m \in 0 .. MsgNum
  PROVE  FrameWhole(m) <=> WholeIs(P, W, S, m)
<1>1. MsgNum \in Nat
  BY FrameAssumption
<1>2. Frame!EndOf(m) = P[m] /\ (m < MsgNum => Frame!EndOf(m + 1) = P[m + 1])
  <2>1. m < MsgNum => m + 1 \in 0 .. MsgNum
    BY <1>1
  <2> QED BY <2>1 DEF FrameSetting
<1>3. [i \in 1 .. m |-> Frame!Wanted(i)] = Upto(W, m)
  <2>1. \A i \in 1 .. m : Frame!Wanted(i) = W[i]
    BY <1>1 DEF FrameSetting
  <2> QED BY <2>1 DEF Upto
<1>4. Frame!Stream = S
  BY DEF FrameSetting
<1> QED BY <1>2, <1>3, <1>4 DEF FrameWhole, WholeIs

LEMMA WholeSameThen ==
  ASSUME NEW P, NEW W, NEW S, FrameSetting(P, W, S)', NEW m \in 0 .. MsgNum
  PROVE  FrameWhole(m)' <=> WholeIs(P, W, S, m)'
<1>1. MsgNum \in Nat
  BY FrameAssumption
<1>2. Frame!EndOf(m)' = P[m] /\ (m < MsgNum => Frame!EndOf(m + 1)' = P[m + 1])
  <2>1. m < MsgNum => m + 1 \in 0 .. MsgNum
    BY <1>1
  <2>2. \A i \in 0 .. MsgNum : Frame!EndOf(i)' = P[i]
    BY DEF FrameSetting
  <2> QED BY <2>1, <2>2
<1>3. [i \in 1 .. m |-> Frame!Wanted(i)]' = Upto(W, m)
  <2>1. \A i \in 1 .. m : Frame!Wanted(i)' = W[i]
    BY <1>1 DEF FrameSetting
  <2> QED BY <2>1 DEF Upto
<1>4. Frame!Stream' = S
  BY DEF FrameSetting
<1> QED BY <1>2, <1>3, <1>4 DEF FrameWhole, WholeIs, Upto

LEMMA FrameFirst == Frame!Init => FrameInv
<1> SUFFICES ASSUME Frame!Init PROVE FrameInv
  OBVIOUS
<1>1. kind \in Frame!AllKinds /\ sent \in [1 .. MsgNum -> FrameSent(kind)]
  BY FrameAssumption DEF Frame!Init, FrameSent, Frame!IsText
<1>2. PICK P, W, S : FrameSetting(P, W, S)
  BY <1>1, FrameSets
<1>3. Len(Frame!Stream) \in Nat
  <2>1. Len(S) \in Nat
    BY <1>2, LenProperties DEF FrameSetting
  <2> QED BY <1>2, <2>1 DEF FrameSetting
<1>4. FrameTyped
  <2>1. recvBuf \in [Frame!Cells -> {Frame!Junk} \cup 0 .. Len(Frame!Stream)]
    <3>1. 0 \in 0 .. Len(Frame!Stream)
      BY <1>3
    <3>2. recvBuf \in [Frame!Cells -> {Frame!Blank, Frame!Junk}]
      BY DEF Frame!Init
    <3> QED BY <3>1, <3>2 DEF Frame!Blank
  <2>2. 0 \in 0 .. Len(Frame!Stream) /\ 0 \in 0 .. MaxRecvLen /\ <<>> \in Seq(Seq(Int))
    BY <1>3, FrameAssumption
  <2> QED BY <1>1, <2>1, <2>2 DEF FrameTyped, Frame!Init
<1>5. FrameBuffer
  <2>1. kind = "cintf_text" => \A i \in Frame!Cells : recvBuf[i] = Frame!Blank
    BY DEF Frame!Init
  <2>2. recvLen = 0 /\ rcvd = 0 /\ \A i \in 1 .. 0 : FALSE
    BY DEF Frame!Init
  <2> QED BY <2>1, <2>2 DEF FrameBuffer, Holds
<1>6. FrameGiven
  <2>1. CASE kind = "intf_text"
    BY <2>1, EmptyRun DEF FrameGiven, Frame!Init
  <2>2. CASE kind # "intf_text"
    <3>1. MsgNum \in Nat /\ 0 \in 0 .. MsgNum
      BY FrameAssumption
    <3>2. P[0] = 0 /\ (0 < MsgNum => 0 < P[0 + 1])
      <4>1. 0 < MsgNum => 1 \in 0 .. MsgNum /\ 0 < 1 /\ 0 + 1 = 1
        BY <3>1
      <4> QED BY <1>2, <3>1, <4>1 DEF FrameSetting
    <3>3. given = Upto(W, 0)
      BY DEF Frame!Init, Upto
    <3>4. WholeIs(P, W, S, 0)
      BY <3>2, <3>3 DEF Frame!Init, WholeIs
    <3>5. FrameWhole(0)
      BY <1>2, <3>1, <3>4, WholeSame
    <3> QED BY <2>2, <3>1, <3>5 DEF FrameGiven
  <2> QED BY <2>1, <2>2
<1> QED BY <1>4, <1>5, <1>6 DEF FrameInv

-----------------------------------------------------------------------------
(* A step keeps the invariant.                                             *)

LEMMA RunWider ==
  ASSUME NEW g \in Seq(Seq(Int)), NEW lo \in Int, NEW hi \in Int, NEW wide \in Int,
         hi <= wide, IsRun(g, lo, hi)
  PROVE  IsRun(g, lo, wide)
<1>1. ASSUME NEW i \in 1 .. Len(g), NEW k \in 1 .. Len(g[i])
      PROVE  lo < g[i][k] /\ g[i][k] <= wide
  <2>1. g[i] \in Seq(Int)
    BY ElementOfSeq
  <2>2. PICK x \in Int : x = g[i][k]
    BY <2>1, ElementOfSeq
  <2>3. lo < x /\ x <= hi
    BY <2>2 DEF IsRun
  <2>4. lo < x /\ x <= wide
    BY <2>3
  <2> QED BY <2>2, <2>4
<1> QED BY <1>1 DEF IsRun

LEMMA RunCut ==
  ASSUME NEW g \in Seq(Seq(Int)), NEW lo, NEW hi, IsRun(g, lo, hi), NEW i \in DOMAIN g
  PROVE  SubSeq(g, 1, i - 1) \in Seq(Seq(Int)) /\ IsRun(SubSeq(g, 1, i - 1), lo, hi)
<1>1. Len(g) \in Nat /\ i \in 1 .. Len(g)
  BY LenProperties
<1>2. PICK n \in Nat : n = i - 1 /\ n <= Len(g)
  BY <1>1
<1>3. PICK s \in Seq(Seq(Int)) :
        s = SubSeq(g, 1, n) /\ Len(s) = n /\ \A j \in 1 .. n : s[j] = g[j]
  <2>1. /\ SubSeq(g, 1, n) \in Seq(Seq(Int))
        /\ Len(SubSeq(g, 1, n)) = IF 1 <= n THEN n - 1 + 1 ELSE 0
        /\ \A j \in 1 .. n - 1 + 1 : SubSeq(g, 1, n)[j] = g[1 + j - 1]
    BY <1>1, <1>2, SubSeqProperties
  <2>2. n - 1 + 1 = n /\ (~ (1 <= n) => n = 0) /\ \A j \in 1 .. n : 1 + j - 1 = j
    OBVIOUS
  <2>3. Len(SubSeq(g, 1, n)) = n /\ \A j \in 1 .. n : SubSeq(g, 1, n)[j] = g[j]
    BY <2>1, <2>2
  <2> QED BY <2>1, <2>3
<1>4. \A j \in 1 .. n : j \in 1 .. Len(g) /\ s[j] = g[j]
  BY <1>1, <1>2, <1>3
<1>5. IsRun(s, lo, hi)
  <2>1. \A j \in 1 .. n : \A k \in 1 .. Len(s[j]) : lo < s[j][k] /\ s[j][k] <= hi
    BY <1>4 DEF IsRun
  <2>2. \A j \in 1 .. n : \A k, l \in 1 .. Len(s[j]) : k < l => s[j][k] < s[j][l]
    BY <1>4 DEF IsRun
  <2>3. \A j, h \in 1 .. n : j < h =>
          \A k \in 1 .. Len(s[j]) : \A l \in 1 .. Len(s[h]) : s[j][k] < s[h][l]
    <3> SUFFICES ASSUME NEW j \in 1 .. n, NEW h \in 1 .. n, j < h
                 PROVE  \A k \in 1 .. Len(s[j]) : \A l \in 1 .. Len(s[h]) : s[j][k] < s[h][l]
      OBVIOUS
    <3>1. \A k \in 1 .. Len(g[j]) : \A l \in 1 .. Len(g[h]) : g[j][k] < g[h][l]
      BY <1>4 DEF IsRun
    <3> QED BY <1>4, <3>1
  <2>4. Len(s) = n
    BY <1>3
  <2> QED BY <2>1, <2>2, <2>3, <2>4 DEF IsRun
<1> QED BY <1>2, <1>3, <1>5

\* What a cell may hold.
FrameByte == {Frame!Junk} \cup 0 .. Len(Frame!Stream)

\* The buffer b after k bytes were received, n in all, from byte o + 1 on
Received(b, k, n, o) ==
  /\ k \in Nat /\ k > 0 /\ n \in Nat /\ o \in Nat
  /\ n = recvLen + k /\ o = rcvd - recvLen /\ o + n = rcvd + k
  /\ n <= MaxRecvLen /\ o + n <= Len(Frame!Stream)
  /\ b \in [Frame!Cells -> FrameByte]
  /\ Holds(b, o, n)
  /\ kind = "cintf_text" => \A i \in Frame!Cells : i > n => b[i] = Frame!Blank

FrameTakes(in, k) ==
  /\ given' = given \o in.msgs
  /\ recvBuf' = in.buf /\ recvLen' = in.len /\ msgLen' = in.next
  /\ closed' = in.bad
  /\ rcvd' = rcvd + k

FrameDrops(in, k) ==
  \E i \in DOMAIN in.msgs :
    /\ given' = given \o SubSeq(in.msgs, 1, i - 1)
    /\ closed' = TRUE
    /\ rcvd' = rcvd + k
    /\ UNCHANGED <<recvBuf, recvLen, msgLen>>

LEMMA FrameSizes ==
  ASSUME FrameTyped
  PROVE  /\ Len(Frame!Stream) \in Nat /\ rcvd \in Nat /\ rcvd <= Len(Frame!Stream)
         /\ recvLen \in Nat /\ recvLen <= MaxRecvLen /\ MaxRecvLen \in Nat
         /\ MsgNum \in Nat /\ 0 \in FrameByte /\ FrameByte \subseteq Int
         /\ recvBuf \in [Frame!Cells -> FrameByte]
<1>1. PICK P, W, S : FrameSetting(P, W, S)
  BY FrameSets DEF FrameTyped
<1>2. Len(Frame!Stream) \in Nat
  <2>1. Len(S) \in Nat
    BY <1>1, LenProperties DEF FrameSetting
  <2> QED BY <1>1, <2>1 DEF FrameSetting
<1>3. MaxRecvLen \in Nat /\ MsgNum \in Nat
  BY FrameAssumption
<1>4. 0 \in FrameByte /\ FrameByte \subseteq Int
  BY <1>2 DEF FrameByte, Frame!Junk
<1>5. rcvd \in Nat /\ rcvd <= Len(Frame!Stream) /\ recvLen \in Nat /\ recvLen <= MaxRecvLen
  BY <1>2, <1>3 DEF FrameTyped
<1>6. recvBuf \in [Frame!Cells -> FrameByte]
  BY DEF FrameTyped, FrameByte
<1> QED BY <1>2, <1>3, <1>4, <1>5, <1>6

LEMMA FrameReceives ==
  ASSUME FrameInv, ~ closed,
         NEW k \in 1 .. Frame!Min({MaxRecvLen - recvLen, Len(Frame!Stream) - rcvd})
  PROVE  \E n, o : Received(Frame!Filled(k), k, n, o)
<1>1. /\ Len(Frame!Stream) \in Nat /\ rcvd \in Nat /\ rcvd <= Len(Frame!Stream)
      /\ recvLen \in Nat /\ recvLen <= MaxRecvLen /\ MaxRecvLen \in Nat
      /\ recvBuf \in [Frame!Cells -> FrameByte]
  BY FrameSizes DEF FrameInv
<1>2. /\ recvLen <= rcvd /\ Holds(recvBuf, rcvd - recvLen, recvLen)
      /\ kind = "cintf_text" => \A i \in Frame!Cells : i > recvLen => recvBuf[i] = Frame!Blank
  BY DEF FrameInv, FrameBuffer
<1>3. PICK room \in Nat, more \in Nat :
        room = MaxRecvLen - recvLen /\ more = Len(Frame!Stream) - rcvd
  <2>1. PICK l \in Nat : l = Len(Frame!Stream)
    BY <1>1
  <2>2. MaxRecvLen - recvLen \in Nat /\ l - rcvd \in Nat
    BY <1>1, <2>1
  <2> QED BY <2>1, <2>2
<1>4. k \in Nat /\ k > 0 /\ k <= room /\ k <= more
  <2>1. PICK x \in Nat : x = Frame!Min({room, more}) /\ x <= room /\ x <= more
    <3>1. {room, more} \in SUBSET Nat /\ {room, more} # {}
      OBVIOUS
    <3> HIDE DEF Frame!Min
    <3>2. Frame!Min({room, more}) \in {room, more} /\ \A y \in {room, more} : Frame!Min({room, more}) <= y
      BY <3>1, MinIs
    <3> QED BY <3>2
  <2>2. k \in 1 .. x
    BY <1>3, <2>1
  <2> QED BY <2>1, <2>2
<1>5. PICK n \in Nat, o \in Nat : n = recvLen + k /\ o = rcvd - recvLen
  BY <1>1, <1>2, <1>4
<1>6. o + n = rcvd + k /\ n <= MaxRecvLen /\ o + n <= Len(Frame!Stream)
  BY <1>1, <1>3, <1>4, <1>5
<1> DEFINE b == Frame!Filled(k)
<1>7. b = [i \in Frame!Cells |-> IF i \in recvLen + 1 .. n THEN rcvd + i - recvLen ELSE recvBuf[i]]
  BY <1>5 DEF Frame!Filled
<1>8. ASSUME NEW i \in Frame!Cells, i \in recvLen + 1 .. n
      PROVE  rcvd + i - recvLen = o + i /\ o + i \in FrameByte
  <2>1. rcvd + i - recvLen = o + i /\ o + i \in 0 .. Len(Frame!Stream)
    BY <1>1, <1>5, <1>6, <1>8
  <2> QED BY <2>1 DEF FrameByte
<1>9. b \in [Frame!Cells -> FrameByte]
  BY <1>1, <1>7, <1>8
<1>10. Holds(b, o, n)
  <2>1. ASSUME NEW i \in 1 .. n PROVE b[i] = o + i
    <3>1. i \in Frame!Cells
      BY <1>1, <1>6 DEF Frame!Cells
    <3>2. CASE i \in recvLen + 1 .. n
      BY <1>7, <1>8, <3>1, <3>2
    <3>3. CASE i \notin recvLen + 1 .. n
      <4>1. i \in 1 .. recvLen
        BY <1>1, <3>3
      <4>2. recvBuf[i] = o + i
        BY <1>2, <1>5, <4>1 DEF Holds
      <4> QED BY <1>7, <3>1, <3>3, <4>2
    <3> QED BY <3>2, <3>3
  <2> QED BY <2>1 DEF Holds
<1>11. kind = "cintf_text" => \A i \in Frame!Cells : i > n => b[i] = Frame!Blank
  <2> SUFFICES ASSUME kind = "cintf_text", NEW i \in Frame!Cells, i > n PROVE b[i] = Frame!Blank
    OBVIOUS
  <2>1. i \notin recvLen + 1 .. n /\ i > recvLen
    BY <1>1, <1>4, <1>5 DEF Frame!Cells
  <2> QED BY <1>2, <1>7, <2>1
<1>12. Received(b, k, n, o)
  BY <1>4, <1>5, <1>6, <1>9, <1>10, <1>11 DEF Received
<1> QED BY <1>12

\* What was found in the buffer is taken from it.
LEMMA FrameTaken ==
  ASSUME FrameTyped, NEW b, NEW k, NEW n, NEW o, Received(b, k, n, o), UNCHANGED <<kind, sent>>,
         NEW in, FrameTakes(in, k), given' \in Seq(Seq(Int)), NEW a \in 1 .. n + 1,
         in.len = n + 1 - a, in.next \in 0 .. MaxRecvLen, in.bad \in BOOLEAN,
         BufferLeft(in.buf, FrameByte, o, n, a)
  PROVE  FrameTyped' /\ FrameBuffer' /\ rcvd' - recvLen' = o + a - 1 /\ rcvd' = o + n
<1>1. /\ n \in Nat /\ o \in Nat /\ o + n = rcvd + k /\ n <= MaxRecvLen
      /\ o + n <= Len(Frame!Stream) /\ MaxRecvLen \in Nat /\ Len(Frame!Stream) \in Nat
  BY FrameSizes DEF Received
<1>2. Frame!Stream' = Frame!Stream
  BY DEF Frame!Stream
<1>3. rcvd' = o + n /\ recvLen' = n + 1 - a /\ recvBuf' = in.buf /\ msgLen' = in.next /\ closed' = in.bad
  BY <1>1 DEF FrameTakes
<1>4. /\ recvLen' \in 0 .. MaxRecvLen /\ recvLen' <= rcvd' /\ rcvd' \in 0 .. Len(Frame!Stream)
      /\ rcvd' - recvLen' = o + a - 1
  BY <1>1, <1>3
<1>5. /\ in.buf \in [Frame!Cells -> FrameByte] /\ Holds(in.buf, o + a - 1, n + 1 - a)
      /\ kind = "cintf_text" => \A i \in Frame!Cells : i > n + 1 - a => in.buf[i] = Frame!Blank
  BY DEF BufferLeft
<1>6. FrameTyped'
  <2>1. sent' \in [1 .. MsgNum -> FrameSent(kind')]
    BY DEF FrameTyped
  <2>2. recvBuf' \in [Frame!Cells -> {Frame!Junk} \cup 0 .. Len(Frame!Stream')]
    BY <1>2, <1>3, <1>5 DEF FrameByte
  <2>3. kind' \in Frame!AllKinds /\ msgLen' \in 0 .. MaxRecvLen /\ closed' \in BOOLEAN
    BY <1>3 DEF FrameTyped
  <2> QED BY <1>2, <1>4, <2>1, <2>2, <2>3 DEF FrameTyped
<1>7. FrameBuffer'
  BY <1>3, <1>4, <1>5 DEF FrameBuffer, Holds
<1> QED BY <1>3, <1>4, <1>6, <1>7

\* process() refuses a message: the buffer is left as it was.
LEMMA FrameDropped ==
  ASSUME FrameTyped, FrameBuffer, NEW b, NEW k, NEW n, NEW o, Received(b, k, n, o),
         UNCHANGED <<kind, sent>>, rcvd' = rcvd + k, closed' = TRUE,
         UNCHANGED <<recvBuf, recvLen, msgLen>>, given' \in Seq(Seq(Int))
  PROVE  FrameTyped' /\ FrameBuffer' /\ rcvd' = o + n
<1>1. /\ n \in Nat /\ o \in Nat /\ k \in Nat /\ o + n = rcvd + k /\ o + n <= Len(Frame!Stream)
      /\ Len(Frame!Stream) \in Nat /\ rcvd \in Nat /\ recvLen \in Nat
  BY FrameSizes DEF Received
<1>2. Frame!Stream' = Frame!Stream
  BY DEF Frame!Stream
<1>3. rcvd' = o + n /\ rcvd' \in 0 .. Len(Frame!Stream)
  BY <1>1
<1>4. FrameTyped'
  <2>1. sent' \in [1 .. MsgNum -> FrameSent(kind')]
    BY DEF FrameTyped
  <2>2. /\ recvBuf' \in [Frame!Cells -> {Frame!Junk} \cup 0 .. Len(Frame!Stream')]
        /\ kind' \in Frame!AllKinds /\ msgLen' \in 0 .. MaxRecvLen /\ closed' \in BOOLEAN
        /\ recvLen' \in 0 .. MaxRecvLen
    BY <1>2 DEF FrameTyped
  <2> QED BY <1>2, <1>3, <2>1, <2>2 DEF FrameTyped
<1>5. FrameBuffer'
  <2>1. recvLen' <= rcvd'
    BY <1>1 DEF FrameBuffer
  <2> QED BY <2>1 DEF FrameBuffer
<1> QED BY <1>3, <1>4, <1>5

-----------------------------------------------------------------------------
LEMMA FrameRunStep ==
  ASSUME FrameInv, ~ closed, kind = "intf_text", NEW b, NEW k, NEW n, NEW o, Received(b, k, n, o),
         UNCHANGED <<kind, sent>>, NEW in, in = Frame!TextInput(b, n),
         FrameTakes(in, k) \/ FrameDrops(in, k)
  PROVE  FrameInv'
<1>0. FrameTyped /\ FrameBuffer
  BY DEF FrameInv
<1>1. /\ n \in Nat /\ o \in Nat /\ n <= MaxRecvLen /\ Holds(b, o, n) /\ rcvd - recvLen = o
      /\ b \in [Frame!Cells -> FrameByte] /\ 0 \in FrameByte /\ FrameByte \subseteq Int
  BY <1>0, FrameSizes DEF Received
<1>2. PICK a \in 1 .. n + 1 :
        /\ in.msgs \in Seq(Seq(Int)) /\ IsRun(in.msgs, o, o + a - 1)
        /\ in.len = n + 1 - a /\ in.next = 0 /\ in.bad \in BOOLEAN
        /\ BufferLeft(in.buf, FrameByte, o, n, a)
  BY <1>1, IntfText
<1>3. given \in Seq(Seq(Int)) /\ IsRun(given, 0, o)
  BY <1>1 DEF FrameInv, FrameTyped, FrameGiven
<1>4. PICK e \in Int : e = o + a - 1 /\ o <= e /\ e <= o + n
  BY <1>1, <1>2
<1>5. CASE FrameTakes(in, k)
  <2>1. given' \in Seq(Seq(Int)) /\ IsRun(given', 0, e)
    <3>1. given \o in.msgs \in Seq(Seq(Int)) /\ IsRun(given \o in.msgs, 0, e)
      <4>1. IsRun(in.msgs, o, e) /\ 0 <= o /\ o \in Int /\ 0 \in Int
        BY <1>1, <1>2, <1>4
      <4> QED BY <1>2, <1>3, <1>4, <4>1, RunJoined
    <3> QED BY <1>5, <3>1 DEF FrameTakes
  <2>2. 0 \in 0 .. MaxRecvLen
    BY FrameAssumption
  <2>3. FrameTyped' /\ FrameBuffer' /\ rcvd' - recvLen' = e /\ rcvd' = o + n
    <3>1. in.next \in 0 .. MaxRecvLen
      BY <1>2, <2>2
    <3> QED BY <1>0, <1>2, <1>4, <1>5, <2>1, <3>1, FrameTaken
  <2>4. IsRun(given', 0, rcvd')
    <3>1. o + n \in Int /\ 0 \in Int
      BY <1>1
    <3> QED BY <1>4, <2>1, <2>3, <3>1, RunWider
  <2>5. FrameGiven'
    BY <2>1, <2>3, <2>4 DEF FrameGiven
  <2> QED BY <2>3, <2>5 DEF FrameInv
<1>6. CASE FrameDrops(in, k)
  <2>1. PICK i \in DOMAIN in.msgs : given' = given \o SubSeq(in.msgs, 1, i - 1)
    BY <1>6 DEF FrameDrops
  <2>2. closed' = TRUE /\ rcvd' = rcvd + k /\ UNCHANGED <<recvBuf, recvLen, msgLen>>
    BY <1>6 DEF FrameDrops
  <2>3. PICK s \in Seq(Seq(Int)) : s = SubSeq(in.msgs, 1, i - 1) /\ IsRun(s, o, e)
    BY <1>2, <1>4, RunCut
  <2>4. given \o s \in Seq(Seq(Int)) /\ IsRun(given \o s, 0, e)
    <3>1. 0 <= o /\ o \in Int /\ 0 \in Int
      BY <1>1
    <3> QED BY <1>3, <1>4, <2>3, <3>1, RunJoined
  <2>5. given' \in Seq(Seq(Int)) /\ IsRun(given', 0, e)
    BY <2>1, <2>3, <2>4
  <2>6. FrameTyped' /\ FrameBuffer' /\ rcvd' = o + n
    BY <1>0, <2>2, <2>5, FrameDropped
  <2>7. IsRun(given', 0, rcvd')
    <3>1. o + n \in Int /\ 0 \in Int
      BY <1>1
    <3> QED BY <1>4, <2>5, <2>6, <3>1, RunWider
  <2>8. FrameGiven'
    BY <2>2, <2>7 DEF FrameGiven
  <2> QED BY <2>6, <2>8 DEF FrameInv
<1> QED BY <1>5, <1>6

-----------------------------------------------------------------------------
\* The setting is that of the step, too, and the first m messages are given.
LEMMA FrameGivenThen ==
  ASSUME NEW P, NEW W, NEW S, FrameSetting(P, W, S), UNCHANGED <<kind, sent>>,
         kind # "intf_text", NEW m \in 0 .. MsgNum, WholeIs(P, W, S, m)'
  PROVE  FrameGiven'
<1>1. FrameSetting(P, W, S)'
  BY FrameSettingStays
<1>2. FrameWhole(m)'
  BY <1>1, WholeSameThen
<1> QED BY <1>2 DEF FrameGiven

LEMMA FrameExact ==
  ASSUME FrameInv, ~ closed, kind # "intf_text", NEW P, NEW W, NEW S, FrameSetting(P, W, S),
         NEW b, NEW k, NEW n, NEW o, Received(b, k, n, o),
         NEW in, in = IF Frame!IsText THEN Frame!TextInput(b, n) ELSE Frame!BinInput(b, n),
         NEW m \in 0 .. MsgNum, WholeIs(P, W, S, m)
  PROVE  \E d \in Nat : Exact(in, P, W, S, FrameByte, o, n, m, d)
<1>0. FrameTyped
  BY DEF FrameInv
<1>1. /\ n \in Nat /\ o \in Nat /\ n <= MaxRecvLen /\ Holds(b, o, n) /\ rcvd - recvLen = o
      /\ b \in [Frame!Cells -> FrameByte] /\ 0 \in FrameByte /\ FrameByte \subseteq Int
      /\ kind = "cintf_text" => \A i \in Frame!Cells : i > n => b[i] = Frame!Blank
  BY <1>0, FrameSizes DEF Received
<1>2. o + n <= Len(S)
  BY DEF FrameSetting, Received
<1>3. P[m] = o /\ (msgLen # 0 => msgLen = S[o + 1])
  BY <1>1 DEF WholeIs
<1>4. CASE Frame!IsText
  <2>1. kind = "cintf_text"
    BY <1>4 DEF Frame!IsText
  <2>2. in = Frame!TextInput(b, n)
    BY <1>4
  <2>3. \A i \in Frame!Cells : i > n => b[i] = Frame!Blank
    BY <1>1, <2>1
  <2> QED BY <1>1, <1>2, <1>3, <2>1, <2>2, <2>3, CintfText
<1>5. CASE ~ Frame!IsText
  <2>1. in = Frame!BinInput(b, n)
    BY <1>5
  <2>2. b \in [Frame!Cells -> Int]
    BY <1>1
  <2>3. Buffer(S, b, n, o)
    BY <1>1, <1>2, <2>2 DEF Buffer
  <2>4. msgLen \in 0 .. MaxRecvLen /\ kind \in Frame!AllKinds
    BY <1>0 DEF FrameTyped
  <2> QED BY <1>1, <1>3, <1>5, <2>1, <2>3, <2>4, BinExact
<1> QED BY <1>4, <1>5

LEMMA WholeJoined ==
  ASSUME NEW P, NEW W, NEW S, FrameSetting(P, W, S), NEW m \in Nat, NEW d \in Nat, m + d <= MsgNum
  PROVE  Upto(W, m) \o Then(W, m, d) = Upto(W, m + d)
<1>1. MsgNum \in Nat /\ W \in [1 .. MsgNum -> Seq(Int)]
  BY FrameAssumption DEF FrameSetting
<1> QED BY <1>1, UptoJoined

LEMMA FrameWholeStep ==
  ASSUME FrameInv, ~ closed, kind # "intf_text", NEW b, NEW k, NEW n, NEW o, Received(b, k, n, o),
         UNCHANGED <<kind, sent>>,
         NEW in, in = IF Frame!IsText THEN Frame!TextInput(b, n) ELSE Frame!BinInput(b, n),
         FrameTakes(in, k) \/ FrameDrops(in, k)
  PROVE  FrameInv'
<1>0. FrameTyped /\ FrameBuffer
  BY DEF FrameInv
<1>1. PICK P, W, S : FrameSetting(P, W, S)
  BY <1>0, FrameSets DEF FrameTyped
<1>2. PICK m \in 0 .. MsgNum : WholeIs(P, W, S, m)
  <2>1. PICK m \in 0 .. MsgNum : FrameWhole(m)
    BY DEF FrameInv, FrameGiven
  <2>2. WholeIs(P, W, S, m)
    BY <1>1, <2>1, WholeSame
  <2> QED BY <2>2
<1>3. PICK d \in Nat : Exact(in, P, W, S, FrameByte, o, n, m, d)
  BY <1>1, <1>2, FrameExact
<1>4. /\ MsgNum \in Nat /\ m \in Nat /\ m + d <= MsgNum /\ m + d \in 0 .. MsgNum
      /\ W \in [1 .. MsgNum -> Seq(Int)] /\ n \in Nat /\ o \in Nat
  <2>1. MsgNum \in Nat /\ n \in Nat /\ o \in Nat
    BY FrameAssumption DEF Received
  <2>2. m + d <= MsgNum
    BY <1>3 DEF Exact
  <2>3. W \in [1 .. MsgNum -> Seq(Int)]
    BY <1>1 DEF FrameSetting
  <2> QED BY <2>1, <2>2, <2>3
<1>11. MsgNum \in Nat /\ W \in [1 .. MsgNum -> Seq(Int)] /\ m \in Nat /\ m + d <= MsgNum
  BY <1>4
<1>5. PICK q \in Nat : q = P[m + d]
  BY <1>1, <1>4 DEF FrameSetting
<1>6. in.msgs = Then(W, m, d) /\ q <= o + n
  BY <1>3, <1>5 DEF Exact
<1>7. PICK a \in 1 .. n + 1 :
        /\ a = q - o + 1 /\ in.len = n + 1 - a
        /\ BufferLeft(in.buf, FrameByte, o, n, a)
        /\ in.bad \in BOOLEAN /\ in.next \in 0 .. MaxRecvLen
  <2>1. q - o + 1 \in 1 .. n + 1
    BY <1>3, <1>5 DEF Exact
  <2>2. PICK a \in 1 .. n + 1 : a = q - o + 1
    BY <2>1
  <2>3. in.len = n + 1 - a /\ BufferLeft(in.buf, FrameByte, o, n, a)
    <3>1. in.len = n + 1 - (q - o + 1) /\ BufferLeft(in.buf, FrameByte, o, n, q - o + 1)
      BY <1>3, <1>5 DEF Exact
    <3> QED BY <2>2, <3>1
  <2>4. in.bad \in BOOLEAN /\ in.next \in 0 .. MaxRecvLen
    BY <1>3 DEF Exact
  <2> QED BY <2>2, <2>3, <2>4
<1>8. given = Upto(W, m)
  BY <1>2 DEF WholeIs
<1>9. CASE FrameTakes(in, k)
  <2>1. given' = Upto(W, m + d)
    <3>1. given' = given \o in.msgs
      BY <1>9 DEF FrameTakes
    <3>2. given' = Upto(W, m) \o Then(W, m, d)
      BY <1>6, <1>8, <3>1
    <3>3. Upto(W, m) \o Then(W, m, d) = Upto(W, m + d)
      BY <1>1, <1>11, WholeJoined
    <3> QED BY <3>2, <3>3
  <2>2. given' \in Seq(Seq(Int))
    <3>1. m + d \in Nat
      BY <1>4
    <3> QED BY <1>4, <2>1, <3>1, UptoTyped
  <2>3. FrameTyped' /\ FrameBuffer' /\ rcvd' - recvLen' = o + a - 1 /\ rcvd' = o + n
    BY <1>0, <1>7, <1>9, <2>2, FrameTaken
  <2>4. o + a - 1 = q
    BY <1>4, <1>7
  <2>5. closed' = in.bad /\ msgLen' = in.next
    BY <1>9 DEF FrameTakes
  <2>6. WholeIs(P, W, S, m + d)'
    <3>1. ~ in.bad => /\ m + d < MsgNum => o + n < P[m + d + 1]
                      /\ in.next # 0 => in.next = S[q + 1]
      BY <1>3, <1>5 DEF Exact
    <3> QED BY <1>5, <1>6, <2>1, <2>3, <2>4, <2>5, <3>1 DEF WholeIs, Upto
  <2>7. FrameGiven'
    <3>1. PICK j \in 0 .. MsgNum : j = m + d
      BY <1>4
    <3>2. WholeIs(P, W, S, j)'
      BY <2>6, <3>1 DEF WholeIs, Upto
    <3> QED BY <1>1, <3>2, FrameGivenThen
  <2> QED BY <2>3, <2>7 DEF FrameInv
<1>10. CASE FrameDrops(in, k)
  <2>1. PICK i \in DOMAIN in.msgs : given' = given \o SubSeq(in.msgs, 1, i - 1)
    BY <1>10 DEF FrameDrops
  <2>2. closed' = TRUE /\ rcvd' = rcvd + k /\ UNCHANGED <<recvBuf, recvLen, msgLen>>
    BY <1>10 DEF FrameDrops
  <2>3. i \in 1 .. d /\ SubSeq(in.msgs, 1, i - 1) = Then(W, m, i - 1)
    <3>1. i \in DOMAIN Then(W, m, d)
      BY <1>6, <2>1
    <3>2. i \in 1 .. d /\ SubSeq(Then(W, m, d), 1, i - 1) = Then(W, m, i - 1)
      BY <1>11, <3>1, ThenRefused
    <3> QED BY <1>6, <3>2
  <2>4. PICK c \in Nat : c = i - 1 /\ m + c <= MsgNum /\ m + c < m + d
    <3>1. i - 1 \in Nat /\ m + (i - 1) <= MsgNum /\ m + (i - 1) < m + d
      BY <1>4, <2>3
    <3> QED BY <3>1
  <2>5. given' = Upto(W, m + c)
    <3>1. given' = Upto(W, m) \o Then(W, m, c)
      BY <1>8, <2>1, <2>3, <2>4
    <3>2. m + c <= MsgNum
      BY <2>4
    <3>3. Upto(W, m) \o Then(W, m, c) = Upto(W, m + c)
      BY <1>1, <1>11, <3>2, WholeJoined
    <3> QED BY <3>1, <3>3
  <2>6. PICK j \in 0 .. MsgNum : j = m + c /\ j < m + d /\ j \in Nat
    BY <1>4, <2>4
  <2>7. given' \in Seq(Seq(Int))
    BY <1>4, <2>5, <2>6, UptoTyped
  <2>8. FrameTyped' /\ FrameBuffer' /\ rcvd' = o + n
    BY <1>0, <2>2, <2>7, FrameDropped
  <2>9. P[j] <= o + n
    <3>1. PICK p \in Nat : p = P[j] /\ p < q
      <4>1. P[j] \in Nat /\ P[j] < P[m + d]
        BY <1>1, <1>4, <2>6 DEF FrameSetting
      <4> QED BY <1>5, <4>1
    <3> QED BY <1>4, <1>6, <3>1
  <2>10. WholeIs(P, W, S, j)'
    BY <2>2, <2>5, <2>6, <2>8, <2>9 DEF WholeIs, Upto
  <2>11. FrameGiven'
    BY <1>1, <2>10, FrameGivenThen
  <2> QED BY <2>8, <2>11 DEF FrameInv
<1> QED BY <1>9, <1>10

-----------------------------------------------------------------------------
LEMMA FrameHandles == FrameInv /\ Frame!handle_input => FrameInv'
<1> SUFFICES ASSUME FrameInv, Frame!handle_input PROVE FrameInv'
  OBVIOUS
<1>1. ~ closed /\ UNCHANGED <<kind, sent>>
  BY DEF Frame!handle_input
<1>2. PICK k \in 1 .. Frame!Min({MaxRecvLen - recvLen, Len(Frame!Stream) - rcvd}) :
        LET in == IF Frame!IsText THEN Frame!TextInput(Frame!Filled(k), recvLen + k)
                  ELSE Frame!BinInput(Frame!Filled(k), recvLen + k)
        IN \/ /\ given' = given \o in.msgs
              /\ recvBuf' = in.buf /\ recvLen' = in.len /\ msgLen' = in.next
              /\ closed' = in.bad
              /\ rcvd' = rcvd + k
           \/ \E i \in DOMAIN in.msgs :
                /\ given' = given \o SubSeq(in.msgs, 1, i - 1)
                /\ closed' = TRUE
                /\ rcvd' = rcvd + k
                /\ UNCHANGED <<recvBuf, recvLen, msgLen>>
  BY DEF Frame!handle_input
<1>3. PICK n, o : Received(Frame!Filled(k), k, n, o)
  BY <1>1, FrameReceives
<1>4. PICK in : in = IF Frame!IsText THEN Frame!TextInput(Frame!Filled(k), recvLen + k)
                     ELSE Frame!BinInput(Frame!Filled(k), recvLen + k)
  OBVIOUS
<1>5. FrameTakes(in, k) \/ FrameDrops(in, k)
  BY <1>2, <1>4 DEF FrameTakes, FrameDrops
<1>6. n = recvLen + k
  BY <1>3 DEF Received
<1>7. in = IF Frame!IsText THEN Frame!TextInput(Frame!Filled(k), n)
           ELSE Frame!BinInput(Frame!Filled(k), n)
  BY <1>4, <1>6
<1>8. CASE kind = "intf_text"
  <2>1. in = Frame!TextInput(Frame!Filled(k), n)
    BY <1>7, <1>8 DEF Frame!IsText
  <2> QED BY <1>1, <1>3, <1>5, <1>8, <2>1, FrameRunStep
<1>9. CASE kind # "intf_text"
  BY <1>1, <1>3, <1>5, <1>7, <1>9, FrameWholeStep
<1> QED BY <1>8, <1>9

LEMMA FrameKept == FrameInv /\ [Frame!Next]_(Frame!vars) => FrameInv'
<1> SUFFICES ASSUME FrameInv, [Frame!Next]_(Frame!vars) PROVE FrameInv'
  OBVIOUS
<1>1. CASE Frame!handle_input
  BY <1>1, FrameHandles
<1>2. ASSUME UNCHANGED <<kind, sent>>, UNCHANGED <<rcvd, recvBuf, recvLen, msgLen, given>>,
             closed' = closed \/ closed' = TRUE
      PROVE  FrameInv'
  <2>0. FrameTyped /\ FrameBuffer /\ FrameGiven
    BY DEF FrameInv
  <2>1. Frame!Stream' = Frame!Stream
    BY <1>2 DEF Frame!Stream
  <2>2. FrameTyped'
    BY <1>2, <2>0, <2>1 DEF FrameTyped
  <2>3. FrameBuffer'
    BY <1>2, <2>0 DEF FrameBuffer
  <2>4. CASE kind = "intf_text"
    <3>1. given \in Seq(Seq(Int)) /\ IsRun(given, 0, IF closed THEN rcvd ELSE rcvd - recvLen)
      BY <2>0, <2>4 DEF FrameTyped, FrameGiven
    <3>2. PICK lo \in Int : lo = rcvd - recvLen
      BY <2>0, FrameSizes
    <3>3. lo <= rcvd /\ rcvd \in Int /\ 0 \in Int
      BY <2>0, <3>2, FrameSizes
    <3>4. IsRun(given, 0, lo) => IsRun(given, 0, rcvd)
      BY <3>1, <3>3, RunWider
    <3>5. IsRun(given, 0, IF closed' THEN rcvd ELSE lo)
      BY <1>2, <3>1, <3>2, <3>4
    <3>6. IsRun(given, 0, IF closed' THEN rcvd ELSE rcvd - recvLen)
      BY <3>2, <3>5
    <3>7. FrameGiven' = IsRun(given, 0, IF closed' THEN rcvd ELSE rcvd - recvLen)
      BY <1>2, <2>4 DEF FrameGiven, IsRun
    <3> QED BY <2>2, <2>3, <3>6, <3>7 DEF FrameInv
  <2>5. CASE kind # "intf_text"
    <3>1. PICK P, W, S : FrameSetting(P, W, S)
      BY <2>0, FrameSets DEF FrameTyped
    <3>2. PICK m \in 0 .. MsgNum : FrameWhole(m)
      BY <2>0, <2>5 DEF FrameGiven
    <3>3. WholeIs(P, W, S, m)
      BY <3>1, <3>2, WholeSame
    <3>4. WholeIs(P, W, S, m)'
      BY <1>2, <3>3 DEF WholeIs, Upto
    <3>5. FrameGiven'
      BY <1>2, <2>5, <3>1, <3>4, FrameGivenThen
    <3> QED BY <2>2, <2>3, <3>5 DEF FrameInv
  <2> QED BY <2>4, <2>5
<1>3. CASE Frame!RecvZero
  <2>1. UNCHANGED <<kind, sent>> /\ UNCHANGED <<rcvd, recvBuf, recvLen, msgLen, given>> /\ closed' = TRUE
    BY <1>3 DEF Frame!RecvZero
  <2> QED BY <1>2, <2>1
<1>4. CASE UNCHANGED Frame!vars
  <2>1. UNCHANGED <<kind, sent>> /\ UNCHANGED <<rcvd, recvBuf, recvLen, msgLen, given>> /\ closed' = closed
    BY <1>4 DEF Frame!vars
  <2> QED BY <1>2, <2>1
<1> QED BY <1>1, <1>3, <1>4 DEF Frame!Next

-----------------------------------------------------------------------------
(* What the invariant implies.                                             *)

\* No kind gives anything but bytes received, in their order.
LEMMA FrameGivesRun ==
  ASSUME FrameInv
  PROVE  \E hi \in Nat : hi <= Len(Frame!Stream) /\ IsRun(given, 0, hi)
<1>0. FrameTyped /\ FrameBuffer /\ FrameGiven
  BY DEF FrameInv
<1>1. rcvd \in Nat /\ rcvd <= Len(Frame!Stream) /\ recvLen \in Nat /\ recvLen <= rcvd
      /\ Len(Frame!Stream) \in Nat
  BY <1>0, FrameSizes DEF FrameBuffer
<1>2. CASE kind = "intf_text"
  <2>1. IsRun(given, 0, IF closed THEN rcvd ELSE rcvd - recvLen)
    BY <1>0, <1>2 DEF FrameGiven
  <2>2. PICK lo \in Nat : lo = rcvd - recvLen
    BY <1>1
  <2>3. PICK hi \in Nat : hi = (IF closed THEN rcvd ELSE lo) /\ hi <= rcvd
    <3>1. CASE closed
      BY <1>1, <3>1
    <3>2. CASE ~ closed
      BY <1>1, <2>2, <3>2
    <3> QED BY <3>1, <3>2
  <2>4. IsRun(given, 0, hi)
    BY <2>1, <2>2, <2>3
  <2>5. hi <= Len(Frame!Stream)
    <3>1. PICK l \in Nat : l = Len(Frame!Stream)
      BY <1>1
    <3> QED BY <1>1, <2>3, <3>1
  <2> QED BY <2>4, <2>5
<1>3. CASE kind # "intf_text"
  <2>1. PICK P, W, S : FrameSetting(P, W, S)
    BY <1>0, FrameSets DEF FrameTyped
  <2>2. PICK m \in 0 .. MsgNum : FrameWhole(m)
    BY <1>0, <1>3 DEF FrameGiven
  <2>3. WholeIs(P, W, S, m)
    BY <2>1, <2>2, WholeSame
  <2>4. PICK hi \in Nat : hi = P[m]
    BY <2>1 DEF FrameSetting
  <2>5. given = Upto(W, m) /\ hi <= rcvd
    BY <2>3, <2>4 DEF WholeIs
  <2>6. IsRun(given, 0, hi)
    BY <2>1, <2>4, <2>5, UptoRun
  <2>7. hi <= Len(Frame!Stream)
    <3>1. PICK l \in Nat : l = Len(Frame!Stream)
      BY <1>1
    <3> QED BY <1>1, <2>5, <3>1
  <2> QED BY <2>6, <2>7
<1> QED BY <1>2, <1>3

LEMMA FrameTypes == FrameInv => Frame!TypeOK
<1> SUFFICES ASSUME FrameInv PROVE Frame!TypeOK
  OBVIOUS
<1>0. FrameTyped
  BY DEF FrameInv
<1>1. PICK l \in Nat : l = Len(Frame!Stream)
  BY <1>0, FrameSizes
<1>2. PICK hi \in Nat : hi <= l /\ IsRun(given, 0, hi)
  BY <1>1, FrameGivesRun
<1>3. given \in Seq(Seq(Int)) /\ Len(given) \in Nat
  BY <1>0, LenProperties DEF FrameTyped
<1>4. ASSUME NEW i \in 1 .. Len(given)
      PROVE  given[i] \in Seq({Frame!Junk} \cup 0 .. Len(Frame!Stream))
  <2>1. given[i] \in Seq(Int)
    BY <1>3, ElementOfSeq
  <2>2. PICK g \in Seq(Int) : g = given[i] /\ Len(g) \in Nat
    BY <2>1, LenProperties
  <2>3. ASSUME NEW k \in 1 .. Len(g) PROVE g[k] \in {Frame!Junk} \cup 0 .. Len(Frame!Stream)
    <3>1. PICK x \in Int : x = g[k]
      BY ElementOfSeq
    <3>2. 0 < x /\ x <= hi
      BY <1>2, <2>2, <3>1 DEF IsRun
    <3>3. x \in 0 .. l
      BY <1>2, <3>2
    <3> QED BY <1>1, <3>1, <3>3
  <2>4. g \in [1 .. Len(g) -> {Frame!Junk} \cup 0 .. Len(Frame!Stream)]
    <3>1. g \in [1 .. Len(g) -> Int]
      BY <2>2, LenProperties
    <3> QED BY <2>3, <3>1
  <2>5. g \in Seq({Frame!Junk} \cup 0 .. Len(Frame!Stream))
    <3> DEFINE T == {Frame!Junk} \cup 0 .. Len(Frame!Stream)
    <3>1. PICK n \in Nat : n = Len(g)
      BY <2>2
    <3>2. g \in [1 .. n -> T]
      BY <2>4, <3>1
    <3> HIDE DEF T
    <3>3. g \in Seq(T)
      BY <3>2, SeqDef
    <3> QED BY <3>3 DEF T
  <2> QED BY <2>2, <2>5
<1>5. given \in Seq(Seq({Frame!Junk} \cup 0 .. Len(Frame!Stream)))
  <2> DEFINE T == Seq({Frame!Junk} \cup 0 .. Len(Frame!Stream))
  <2>1. given \in [1 .. Len(given) -> Seq(Int)]
    BY <1>3, LenProperties
  <2>2. \A i \in 1 .. Len(given) : given[i] \in T
    BY <1>4
  <2> HIDE DEF T
  <2>3. given \in [1 .. Len(given) -> T]
    BY <2>1, <2>2
  <2>5. PICK n \in Nat : n = Len(given)
    BY <1>3
  <2>6. given \in [1 .. n -> T]
    BY <2>3, <2>5
  <2>4. given \in Seq(T)
    BY <2>6, SeqDef
  <2> QED BY <2>4 DEF T
<1> QED BY <1>0, <1>5 DEF FrameTyped, Frame!TypeOK

LEMMA FrameFresh == FrameInv => Frame!NothingStale
<1> SUFFICES ASSUME FrameInv PROVE Frame!NothingStale
  OBVIOUS
<1>1. given \in Seq(Seq(Int))
  BY DEF FrameInv, FrameTyped
<1>2. PICK hi \in Int : IsRun(given, 0, hi)
  BY FrameGivesRun
<1>3. PICK all : all = Frame!FlattenSeq(given)
  OBVIOUS
<1>4. \A i \in DOMAIN all : all[i] > 0 /\ (i > 1 => all[i - 1] < all[i])
  BY <1>1, <1>2, <1>3, RunFlat
<1> HIDE DEF Frame!FlattenSeq
<1> QED BY <1>3, <1>4 DEF Frame!NothingStale

LEMMA FrameIsExact == FrameInv => Frame!FramedExactly
<1> SUFFICES ASSUME FrameInv, kind # "intf_text"
             PROVE  IF closed THEN Frame!IsPrefix(given, Frame!Complete(rcvd))
                    ELSE given = Frame!Complete(rcvd)
  BY DEF Frame!FramedExactly
<1>0. FrameTyped /\ FrameGiven
  BY DEF FrameInv
<1>1. PICK P, W, S : FrameSetting(P, W, S)
  BY <1>0, FrameSets DEF FrameTyped
<1>2. PICK m \in 0 .. MsgNum : FrameWhole(m)
  BY <1>0 DEF FrameGiven
<1>3. WholeIs(P, W, S, m)
  BY <1>1, <1>2, WholeSame
<1>4. rcvd \in Nat /\ MsgNum \in Nat /\ DOMAIN sent = 1 .. MsgNum
  BY <1>0, FrameSizes DEF FrameTyped
<1>5. CASE ~ closed
  <2>1. LastWhole(P, m, rcvd)
    BY <1>3, <1>5 DEF LastWhole, WholeIs
  <2>2. Frame!Complete(rcvd) = Upto(W, m)
    BY <1>1, <1>4, <2>1, CompleteIs
  <2> QED BY <1>3, <1>5, <2>2 DEF WholeIs
<1>6. CASE closed
  <2>1. PICK j \in 0 .. MsgNum : LastWhole(P, j, rcvd)
    BY <1>1, <1>4, LastWholeIs
  <2>2. Frame!Complete(rcvd) = Upto(W, j)
    BY <1>1, <1>4, <2>1, CompleteIs
  <2>3. m <= j
    <3>1. CASE j = MsgNum
      BY <1>4, <3>1
    <3>2. CASE j < MsgNum
      <4>1. PICK i \in 0 .. MsgNum : i = j + 1
        BY <1>4, <3>2
      <4>2. PICK p \in Nat, q \in Nat : p = P[m] /\ q = P[i]
        BY <1>1 DEF FrameSetting
      <4>3. p <= rcvd /\ rcvd < q
        BY <1>3, <2>1, <3>2, <4>1, <4>2 DEF WholeIs, LastWhole
      <4>4. P[m] < P[i]
        BY <1>4, <4>2, <4>3
      <4>5. m < i
        BY <1>1, <4>4, SettingGrows
      <4> QED BY <1>4, <4>1, <4>5
    <3> QED BY <1>4, <3>1, <3>2
  <2>4. /\ W \in [1 .. MsgNum -> Seq(Int)] /\ m \in Nat /\ j \in Nat /\ j <= MsgNum
    BY <1>1, <1>4 DEF FrameSetting
  <2>5. Frame!IsPrefix(Upto(W, m), Upto(W, j))
    BY <1>4, <2>3, <2>4, UptoPrefix
  <2>6. given = Upto(W, m)
    BY <1>3 DEF WholeIs
  <2> QED BY <1>6, <2>2, <2>5, <2>6
<1> QED BY <1>5, <1>6

LEMMA FrameStep == [Next]_vars => [Frame!Next]_(Frame!vars)
BY DEF Next, vars, others, frameVars, Frame!vars

\* The invariant holds in every state of every execution of the parts.
THEOREM FrameAlways == Spec => []FrameInv
<1>1. Init => FrameInv
  BY FrameFirst DEF Init
<1>2. FrameInv /\ [Next]_vars => FrameInv'
  BY FrameStep, FrameKept
<1> QED BY <1>1, <1>2, PTL DEF Spec

\* In three of the four handlers, however the stream is cut into reads and wherever
\* a message is refused, process() is given exactly the messages that have arrived
\* whole, once and in order, for any buffer and any lengths (ISGWIntf::handle_input
\* with a length, and ISGWCIntf::handle_input).
THEOREM MessagesAreExact == Spec => []FramedExactly
<1>1. FrameInv => FramedExactly
  BY FrameIsExact DEF FramedExactly
<1> QED BY <1>1, FrameAlways, PTL

\* In all four, in ISGWIntf's text too, where what earlier messages left in the
\* buffer and memory that was never initialised are searched for separators, no
\* byte that is given was given before or did not come from the peer.
THEOREM NothingIsStale == Spec => []NothingStale
<1>1. FrameInv => NothingStale
  BY FrameFresh DEF NothingStale
<1> QED BY <1>1, FrameAlways, PTL
=============================================================================
