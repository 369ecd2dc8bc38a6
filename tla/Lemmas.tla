------------------------------- MODULE Lemmas -------------------------------
(***************************************************************************)
(* Facts about numbers and sequences that the proofs of several components *)
(* need and the library does not state.                                    *)
(***************************************************************************)
EXTENDS Integers, Sequences, TLAPS, WellFoundedInduction, FiniteSetTheorems, SequenceTheorems

\* A set of natural numbers that is not empty has a least element.
LEMMA LeastNatural ==
  ASSUME NEW S \in SUBSET Nat, S # {}
  PROVE  \E k \in S : \A j \in S : k <= j
<1> DEFINE T == {0 .. k : k \in S}
<1>1. \A U \in T : U \in FiniteSubsetsOf(Nat)
  <2>1. ASSUME NEW k \in Nat PROVE IsFiniteSet(0 .. k) /\ 0 .. k \in SUBSET Nat
    BY FS_Interval
  <2> QED BY <2>1 DEF FiniteSubsetsOf
<1>2. PICK U \in T : \A V \in T : ~ (<<V, U>> \in StrictSubsetOrdering(Nat))
  <2>1. T # {} /\ T \subseteq FiniteSubsetsOf(Nat)
    BY <1>1
  <2> HIDE DEF T
  <2> QED BY <2>1, WFMin, FS_StrictSubsetOrderingWellFounded
<1>3. PICK k \in S : U = 0 .. k
  OBVIOUS
<1>4. ASSUME NEW j \in S, j < k PROVE FALSE
  <2>1. 0 .. j \in T /\ 0 .. j \subseteq U /\ 0 .. j # U
    BY <1>3, <1>4
  <2> QED BY <1>2, <2>1, <1>1, <1>3 DEF StrictSubsetOrdering, FiniteSubsetsOf
<1> QED BY <1>4

\* A function on the positions of a sequence is a sequence of the same length.
LEMMA MappedSeq ==
  ASSUME NEW S, NEW T, NEW s \in Seq(S), NEW f \in [DOMAIN s -> T]
  PROVE  f \in Seq(T) /\ Len(f) = Len(s)
<1>1. Len(s) \in Nat /\ DOMAIN s = 1 .. Len(s)
  BY LenProperties
<1> QED BY <1>1, SeqDef
=============================================================================
