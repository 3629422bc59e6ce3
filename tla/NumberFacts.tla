---------------------------- MODULE NumberFacts ----------------------------
(* Induction over numbers, for the proofs that count: bytes of a stream, seats,
   questions, ranks of cards.  It is stated with sets in the place of predicates,
   and rests on the least element of a set.                                  *)
EXTENDS Integers, FiniteSets, FiniteSetTheorems, WellFoundedInduction, TLAPS

\* A set of natural numbers has a least element: of the intervals 0..n one is
\* contained in no other that is smaller.
LEMMA LeastNumber ==
  ASSUME NEW S \in SUBSET Nat, S # {}
  PROVE  \E n \in S : \A m \in S : n <= m
<1> DEFINE R == StrictSubsetOrdering(Nat)
           T == {0..n : n \in S}
<1>1. IsWellFoundedOn(R, FiniteSubsetsOf(Nat))
  BY FS_StrictSubsetOrderingWellFounded
<1>2. T \subseteq FiniteSubsetsOf(Nat) /\ T # {}
  <2>1. \A n \in S : 0..n \in SUBSET Nat /\ IsFiniteSet(0..n)
    BY FS_Interval
  <2> QED BY <2>1 DEF FiniteSubsetsOf
<1>3. PICK X \in T : \A Y \in T : ~(<<Y, X>> \in R)
  <2> HIDE DEF R, T
  <2> QED BY <1>1, <1>2, WFMin
<1>4. PICK n \in S : X = 0..n
  BY <1>3
<1>5. ASSUME NEW m \in S, m < n
      PROVE  FALSE
  <2>1. 0..m \subseteq 0..n /\ 0..m # 0..n
    <3>1. n \in 0..n /\ n \notin 0..m
      BY <1>5
    <3> QED BY <1>5, <3>1
  <2>2. <<0..m, 0..n>> \in R
    BY <2>1 DEF StrictSubsetOrdering
  <2> QED BY <1>3, <1>4, <2>2
<1> QED BY <1>5

\* What holds of the first number of an interval, and of the next one with every
\* one, holds of all of them.
LEMMA IntervalInduction ==
  ASSUME NEW P, NEW lo \in Nat, NEW hi \in Nat, lo \in P,
         \A n \in lo..hi : n \in P /\ n < hi => n + 1 \in P
  PROVE  lo..hi \subseteq P
<1> DEFINE S == {n \in lo..hi : n \notin P}
<1>1. SUFFICES ASSUME S # {} PROVE FALSE
  OBVIOUS
<1>2. S \in SUBSET Nat
  OBVIOUS
<1>3. PICK n \in S : \A m \in S : n <= m
  <2> HIDE DEF S
  <2> QED BY <1>1, <1>2, LeastNumber
<1>4. n # lo /\ n - 1 \in lo..hi
  BY <1>3
<1>5. n - 1 \in P
  BY <1>3, <1>4
<1> QED BY <1>3, <1>4, <1>5
=============================================================================
