------------------------------- MODULE Minima -------------------------------
(* Least elements and induction stated with sets in place of predicates: the  *)
(* initial segments of the numbers, and the finite sets, are well-founded by  *)
(* inclusion.                                                                 *)
EXTENDS Integers, FiniteSets, FiniteSetTheorems, WellFoundedInduction, TLAPS

\* Of the finite sets in T one has none of the others within it.
LEMMA SmallestSubset ==
  ASSUME NEW S, NEW T \in SUBSET FiniteSubsetsOf(S), T # {}
  PROVE  \E t \in T : \A u \in T : u \subseteq t => u = t
<1>1. IsWellFoundedOn(StrictSubsetOrdering(S), FiniteSubsetsOf(S))
  BY FS_StrictSubsetOrderingWellFounded
<1>2. PICK t \in T : \A u \in T : <<u, t>> \notin StrictSubsetOrdering(S)
  BY <1>1, WFMin
<1>3. ASSUME NEW u \in T, u \subseteq t PROVE u = t
  BY <1>2, <1>3 DEF StrictSubsetOrdering, FiniteSubsetsOf
<1> QED
  BY <1>3

\* A set of numbers has a least element.
LEMMA LeastNatural ==
  ASSUME NEW T \in SUBSET Nat, T # {}
  PROVE  \E n \in T : \A m \in T : n <= m
<1> DEFINE Below(n) == 1 .. n
           Segments == {Below(n) : n \in T}
<1>1. Segments \in SUBSET FiniteSubsetsOf(Nat) /\ Segments # {}
  <2>1. ASSUME NEW n \in T PROVE Below(n) \in FiniteSubsetsOf(Nat)
    <3>1. n \in Int /\ 1 \in Int
      OBVIOUS
    <3>2. IsFiniteSet(1 .. n)
      BY <3>1, FS_Interval
    <3> QED
      BY <3>2 DEF FiniteSubsetsOf
  <2> HIDE DEF Below
  <2> QED
    BY <2>1
<1>2. \E t \in Segments : \A u \in Segments : u \subseteq t => u = t
  <2> HIDE DEF Segments
  <2> QED
    BY <1>1, SmallestSubset
<1>3. PICK n \in T : \A m \in T : Below(m) \subseteq Below(n) => Below(m) = Below(n)
  <2> HIDE DEF Below
  <2> QED
    BY <1>2
<1>4. ASSUME NEW m \in T PROVE n <= m
  <2>1. m \in Nat /\ n \in Nat
    OBVIOUS
  <2>2. CASE m < n
    <3>1. 1 .. m \subseteq 1 .. n /\ n \in 1 .. n /\ n \notin 1 .. m
      BY <2>1, <2>2
    <3> QED
      BY <1>3, <3>1
  <2> QED
    BY <2>1, <2>2
<1> QED
  BY <1>4

\* A set of numbers that has a bound has a greatest element.
LEMMA GreatestNatural ==
  ASSUME NEW T \in SUBSET Nat, T # {}, NEW b \in Nat, \A n \in T : n <= b
  PROVE  \E n \in T : \A m \in T : m <= n
<1> DEFINE Missing == {d \in Nat : \E n \in T : d = b - n}
<1>1. Missing \in SUBSET Nat /\ Missing # {}
  <2>1. PICK n \in T : n <= b
    OBVIOUS
  <2>2. b - n \in Missing
    BY <2>1
  <2> QED
    BY <2>2
<1>2. PICK d \in Missing : \A e \in Missing : d <= e
  <2> HIDE DEF Missing
  <2> QED
    BY <1>1, LeastNatural
<1>3. PICK n \in T : d = b - n
  BY <1>2
<1>4. ASSUME NEW m \in T PROVE m <= n
  <2>1. b - m \in Missing
    OBVIOUS
  <2> QED
    BY <1>2, <1>3, <2>1
<1> QED
  BY <1>4

\* A set that has 0, and with each number the next, has them all.
LEMMA InductiveSet ==
  ASSUME NEW T, 0 \in T, \A n \in Nat : n \in T => n + 1 \in T
  PROVE  \A n \in Nat : n \in T
<1> DEFINE Out == {n \in Nat : n \notin T}
<1>1. CASE Out = {}
  BY <1>1
<1>2. CASE Out # {}
  <2>1. PICK n \in Out : \A m \in Out : n <= m
    <3> HIDE DEF Out
    <3>1. Out \in SUBSET Nat
      BY DEF Out
    <3> QED
      BY <1>2, <3>1, LeastNatural
  <2>2. n \in Nat /\ n \notin T /\ n # 0
    BY <2>1
  <2>3. n - 1 \in Nat /\ n - 1 \notin Out
    BY <2>1, <2>2
  <2> QED
    BY <2>2, <2>3
<1> QED
  BY <1>1, <1>2
=============================================================================
