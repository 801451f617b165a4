------------------------------ MODULE Extremos ------------------------------
(***************************************************************************)
(* Least and greatest elements of sets of numbers.                         *)
(***************************************************************************)
EXTENDS Integers, FiniteSets, FiniteSetsExt, FiniteSetTheorems, WellFoundedInduction, TLAPS

\* A set of naturals that is not empty has a least element: of the intervals
\* that begin at 0 and end in it, one has no other inside.
LEMMA MinEsta ==
  ASSUME NEW S \in SUBSET Nat, S # {}
  PROVE  Min(S) \in S /\ \A y \in S : Min(S) <= y
<1> DEFINE T == {0..m : m \in S}
           R == StrictSubsetOrdering(Nat)
<1>1. T \subseteq FiniteSubsetsOf(Nat) /\ T # {}
  <2>1. \A m \in S : IsFiniteSet(0..m) /\ 0..m \in SUBSET Nat
    BY FS_Interval
  <2> QED BY <2>1 DEF FiniteSubsetsOf
<1>2. IsWellFoundedOn(R, FiniteSubsetsOf(Nat))
  BY FS_StrictSubsetOrderingWellFounded
<1>3. \E X \in T : \A Y \in T : <<Y, X>> \notin R
  <2> HIDE DEF T, R
  <2> QED BY <1>1, <1>2, WFMin
<1>4. PICK m \in S : \A y \in S : <<0..y, 0..m>> \notin R
  BY <1>3
<1>5. ASSUME NEW y \in S, y < m
      PROVE  FALSE
  <2>1. 0..y \subseteq 0..m /\ m \in 0..m /\ m \notin 0..y
    BY <1>5
  <2>2. 0..y \in SUBSET Nat /\ 0..m \in SUBSET Nat
    OBVIOUS
  <2>3. <<0..y, 0..m>> \in (SUBSET Nat) \X (SUBSET Nat)
    BY <2>2
  <2>4. 0..y # 0..m
    BY <2>1
  <2>5. <<0..y, 0..m>> \in R
    BY <2>1, <2>3, <2>4, Zenon DEF StrictSubsetOrdering
  <2> QED BY <2>5, <1>4
<1>6. \A y \in S : m <= y
  BY <1>5
<1> QED BY <1>6 DEF Min

\* So has a set of integers a greatest one, if it is bounded.
LEMMA MaxEsta ==
  ASSUME NEW S \in SUBSET Int, S # {}, NEW n \in Int, \A s \in S : s <= n
  PROVE  Max(S) \in S /\ \A y \in S : Max(S) >= y
<1> DEFINE T == {n - s : s \in S}
<1>1. T \subseteq Nat /\ T # {}
  <2>1. \A s \in S : n - s \in Nat
    OBVIOUS
  <2> QED BY <2>1
<1>2. \E t \in T : \A y \in T : t <= y
  <2> HIDE DEF T
  <2>1. Min(T) \in T /\ \A y \in T : Min(T) <= y
    BY <1>1, MinEsta
  <2> QED BY <2>1
<1>3. PICK x \in S : \A y \in T : n - x <= y
  BY <1>2
<1>4. \A y \in S : n - x <= n - y
  BY <1>3
<1>5. \A y \in S : x >= y
  BY <1>4
<1> QED BY <1>5 DEF Max

\* A finite set of integers is bounded: of the elements from m on, some m
\* leaves no fewer than any other.
LEMMA MaxFinito ==
  ASSUME NEW S \in SUBSET Int, S # {}, IsFiniteSet(S)
  PROVE  Max(S) \in S /\ \A y \in S : Max(S) >= y
<1> DEFINE Desde(m) == {y \in S : m <= y}
           T == {Desde(m) : m \in S}
           R == StrictSubsetOrdering(S)
<1>1. T \subseteq FiniteSubsetsOf(S) /\ T # {}
  <2>1. \A m \in S : Desde(m) \in SUBSET S /\ IsFiniteSet(Desde(m))
    BY FS_Subset
  <2> QED BY <2>1 DEF FiniteSubsetsOf
<1>2. IsWellFoundedOn(R, FiniteSubsetsOf(S))
  BY FS_StrictSubsetOrderingWellFounded
<1>3. \E X \in T : \A Y \in T : <<Y, X>> \notin R
  <2> HIDE DEF T, R
  <2> QED BY <1>1, <1>2, WFMin
<1>4. PICK m \in S : \A y \in S : <<Desde(y), Desde(m)>> \notin R
  BY <1>3
<1>5. ASSUME NEW y \in S, m < y
      PROVE  FALSE
  <2>1. Desde(y) \subseteq Desde(m) /\ m \in Desde(m) /\ m \notin Desde(y)
    <3>1. \A z \in S : z \in Int
      OBVIOUS
    <3>2. \A z \in S : y <= z => m <= z
      BY <1>5, <3>1
    <3>3. m <= m /\ ~(y <= m)
      BY <1>5, <3>1
    <3> QED BY <3>2, <3>3
  <2>2. <<Desde(y), Desde(m)>> \in (SUBSET S) \X (SUBSET S)
    OBVIOUS
  <2>3. <<Desde(y), Desde(m)>> \in R
    <3> HIDE DEF Desde
    <3> QED BY <2>1, <2>2, Zenon DEF StrictSubsetOrdering
  <2> QED BY <2>3, <1>4
<1>6. \A y \in S : m >= y
  BY <1>5
<1> QED BY <1>6 DEF Max

-----------------------------------------------------------------------------
(* The elements in order.                                                  *)

Menores(S, n) == {m \in S : m < n}

\* There is an element with p smaller ones, if there are more than p.
LEMMA HayEnesimo ==
  ASSUME NEW S \in SUBSET Nat, IsFiniteSet(S), NEW p \in Nat, p < Cardinality(S)
  PROVE  \E n \in S : Cardinality(Menores(S, n)) = p
<1> DEFINE Tarde == {n \in S : Cardinality(Menores(S, n)) >= p}
<1>1. \A n \in S : IsFiniteSet(Menores(S, n)) /\ Cardinality(Menores(S, n)) \in Nat
  BY FS_Subset, FS_CardinalityType DEF Menores
<1>2. Tarde # {}
  <2>1. S # {}
    BY FS_EmptySet
  <2>2. PICK x \in S : \A y \in S : x >= y
    <3>1. S \in SUBSET Int
      OBVIOUS
    <3> QED BY <2>1, <3>1, MaxFinito
  <2>3. Menores(S, x) = S \ {x}
    <3>1. \A y \in S : y \in Nat /\ (y < x <=> y # x)
      BY <2>2
    <3> QED BY <3>1 DEF Menores
  <2>4. Cardinality(Menores(S, x)) = Cardinality(S) - 1
    BY <2>3, FS_RemoveElement
  <2> QED BY <2>4, FS_CardinalityType
<1>3. PICK n \in S : n \in Tarde /\ \A y \in Tarde : n <= y
  <2>1. Tarde \in SUBSET Nat /\ Tarde \subseteq S
    OBVIOUS
  <2> HIDE DEF Tarde
  <2> QED BY <2>1, <1>2, MinEsta
<1>4. \A y \in S : y \in Nat
  OBVIOUS
<1>5. ASSUME Cardinality(Menores(S, n)) > p
      PROVE  FALSE
  <2>1. Menores(S, n) # {} /\ Menores(S, n) \in SUBSET Int
    <3>1. Menores(S, n) # {}
      BY <1>5, <1>1, FS_EmptySet
    <3>2. \A y \in Menores(S, n) : y \in Int
      BY <1>4 DEF Menores
    <3> QED BY <3>1, <3>2
  <2>2. PICK y \in Menores(S, n) : \A z \in Menores(S, n) : y >= z
    BY <2>1, <1>1, MaxFinito
  <2>3. y \in S /\ y < n
    BY <2>2 DEF Menores
  <2>4. Menores(S, y) = Menores(S, n) \ {y}
    <3>1. \A z \in S : z < y <=> z < n /\ z # y
      BY <2>2, <2>3, <1>4 DEF Menores
    <3> QED BY <3>1 DEF Menores
  <2>5. Cardinality(Menores(S, y)) = Cardinality(Menores(S, n)) - 1
    <3>1. IsFiniteSet(Menores(S, n)) /\ y \in Menores(S, n)
      BY <1>1, <2>2
    <3>2. Cardinality(Menores(S, n) \ {y}) = Cardinality(Menores(S, n)) - 1
      BY <3>1, FS_RemoveElement
    <3> QED BY <3>2, <2>4
  <2>6. y \in Tarde
    BY <2>3, <2>5, <1>1, <1>5
  <2> QED BY <2>3, <2>6, <1>3, <1>4
<1> QED BY <1>1, <1>3, <1>5
=============================================================================
