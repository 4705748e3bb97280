-------------------------- MODULE NumberSetsProofs --------------------------
(***************************************************************************)
(* Facts about sets of numbers: least and greatest elements, and what      *)
(* Ascending enumerates.                                                   *)
(***************************************************************************)
EXTENDS NumberSets, FiniteSetTheorems, NaturalsInduction, WellFoundedInduction, TLAPS

\* A set of natural numbers has a least element.
LEMMA LeastNatural ==
  ASSUME NEW S, S \subseteq Nat, S # {}
  PROVE  \E n \in S : \A m \in S : n <= m
<1> DEFINE Less == {pair \in Nat \X Nat : pair[1] < pair[2]}
<1>1. IsWellFoundedOn(Less, Nat)
  BY NatLessThanWellFounded, Zenon DEF OpToRel
<1>2. \A x, y \in Nat : y < x => <<y, x>> \in Less
  OBVIOUS
<1> HIDE DEF Less
<1>3. PICK n \in S : \A m \in S : ~ (<<m, n>> \in Less)
  BY <1>1, WFMin
<1>4. ASSUME NEW m \in S PROVE n <= m
  <2>1. m \in Nat /\ n \in Nat /\ ~ (m < n)
    BY <1>2, <1>3
  <2> QED BY <2>1
<1> QED BY <1>4

\* A set of integers with a lower bound has a least element.
LEMMA LeastExists ==
  ASSUME NEW S, NEW b \in Int, S \subseteq Int, S # {}, \A n \in S : b <= n
  PROVE  \E n \in S : \A m \in S : n <= m
<1> DEFINE T == {n - b : n \in S}
<1>1. /\ T \subseteq Nat
      /\ T # {}
  <2>1. \A n \in S : n - b \in Nat
    OBVIOUS
  <2>2. T \subseteq Nat
    BY <2>1
  <2>3. T # {}
    OBVIOUS
  <2> QED BY <2>2, <2>3
<1>2. PICK x \in T : \A y \in T : x <= y
  <2> HIDE DEF T
  <2> QED BY <1>1, LeastNatural
<1>3. PICK n \in S : x = n - b
  OBVIOUS
<1>4. ASSUME NEW m \in S PROVE n <= m
  <2>1. m - b \in T
    OBVIOUS
  <2>2. n - b <= m - b
    BY <2>1, <1>2, <1>3
  <2> QED BY <2>2
<1> QED BY <1>4

\* A set of integers with an upper bound has a greatest element.
LEMMA GreatestExists ==
  ASSUME NEW S, NEW b \in Int, S \subseteq Int, S # {}, \A n \in S : n <= b
  PROVE  \E n \in S : \A m \in S : m <= n
<1> DEFINE T == {b - n : n \in S}
<1>1. /\ T \subseteq Nat
      /\ T # {}
  <2>1. \A n \in S : b - n \in Nat
    OBVIOUS
  <2>2. T \subseteq Nat
    BY <2>1
  <2>3. T # {}
    OBVIOUS
  <2> QED BY <2>2, <2>3
<1>2. PICK x \in T : \A y \in T : x <= y
  <2> HIDE DEF T
  <2> QED BY <1>1, LeastNatural
<1>3. PICK n \in S : x = b - n
  OBVIOUS
<1>4. ASSUME NEW m \in S PROVE m <= n
  <2>1. b - m \in T
    OBVIOUS
  <2>2. b - n <= b - m
    BY <2>1, <1>2, <1>3
  <2> QED BY <2>2
<1> QED BY <1>4

\* Ascending goes through all of a finite set, from below.
LEMMA AscendingEnumerates ==
  ASSUME NEW S \in SUBSET Int, IsFiniteSet(S)
  PROVE  /\ Cardinality(S) \in Nat
         /\ Ascending(S) \in [1 .. Cardinality(S) -> S]
         /\ \A i, j \in 1 .. Cardinality(S) : i < j => Ascending(S)[i] < Ascending(S)[j]
         /\ \A n \in S : \E i \in 1 .. Cardinality(S) : Ascending(S)[i] = n
<1> DEFINE Upto(n) == {m \in S : m <= n}
           rank == [n \in S |-> Cardinality(Upto(n))]
           N == Cardinality(S)
<1>1. N \in Nat
  BY FS_CardinalityType
<1>2. \A n \in S : /\ IsFiniteSet(Upto(n))
                  /\ Cardinality(Upto(n)) \in Nat
                  /\ Cardinality(Upto(n)) <= N
                  /\ n \in Upto(n)
  <2> TAKE n \in S
  <2>1. Upto(n) \in SUBSET S /\ n \in Upto(n)
    OBVIOUS
  <2> HIDE DEF Upto
  <2> QED BY <2>1, FS_Subset, FS_CardinalityType
<1>3. \A n \in S : rank[n] \in 1 .. N
  <2> TAKE n \in S
  <2>1. Cardinality(Upto(n)) # 0
    <3> HIDE DEF Upto
    <3> QED BY <1>2, FS_EmptySet
  <2>2. rank[n] = Cardinality(Upto(n))
    OBVIOUS
  <2> HIDE DEF Upto, rank
  <2> QED BY <1>1, <1>2, <2>1, <2>2
<1>4. \A m, n \in S : m < n => rank[m] < rank[n]
  <2> SUFFICES ASSUME NEW m \in S, NEW n \in S, m < n PROVE rank[m] < rank[n]
    OBVIOUS
  <2>1. Upto(m) \in SUBSET Upto(n) /\ n \notin Upto(m)
    <3>1. S \subseteq Int /\ m \in Int /\ n \in Int
      OBVIOUS
    <3>2. \A k \in S : k <= m => k <= n
      BY <3>1
    <3>3. ~ (n <= m)
      BY <3>1
    <3> QED BY <3>2, <3>3
  <2>2. rank[m] = Cardinality(Upto(m)) /\ rank[n] = Cardinality(Upto(n))
    OBVIOUS
  <2> HIDE DEF Upto, rank
  <2>3. Cardinality(Upto(m)) <= Cardinality(Upto(n)) /\ Cardinality(Upto(n)) # Cardinality(Upto(m))
    BY <1>2, <2>1, FS_Subset
  <2> QED BY <1>2, <2>2, <2>3
<1>5. rank \in Surjection(S, 1 .. N)
  <2>1. rank \in [S -> 1 .. N]
    BY <1>3
  <2>2. \A m, n \in S : m # n => rank[m] # rank[n]
    <3> HIDE DEF rank
    <3> QED BY <1>3, <1>4
  <2>3. rank \in Injection(S, 1 .. N)
    <3> HIDE DEF rank
    <3> QED BY <2>1, <2>2 DEF Injection, IsInjective
  <2>4. IsFiniteSet(1 .. N) /\ Cardinality(1 .. N) = N
    BY <1>1, FS_Interval
  <2> HIDE DEF rank
  <2> QED BY <2>3, <2>4, FS_Injection
<1>6. \A i \in 1 .. N : \E n \in S : rank[n] = i
  <2> HIDE DEF rank, N
  <2> QED BY <1>5 DEF Surjection
<1>7. \A i \in 1 .. N : Ascending(S)[i] \in S /\ rank[Ascending(S)[i]] = i
  <2> TAKE i \in 1 .. N
  <2>1. Ascending(S)[i] = CHOOSE n \in S : Cardinality(Upto(n)) = i
    BY DEF Ascending
  <2>2. \E n \in S : Cardinality(Upto(n)) = i
    BY <1>6
  <2> HIDE DEF Upto
  <2>3. Ascending(S)[i] \in S /\ Cardinality(Upto(Ascending(S)[i])) = i
    BY <2>1, <2>2
  <2> QED BY <2>3
<1>8. Ascending(S) \in [1 .. N -> S]
  BY <1>7 DEF Ascending
<1> HIDE DEF rank, N, Upto
<1>9. ASSUME NEW i \in 1 .. N, NEW j \in 1 .. N, i < j PROVE Ascending(S)[i] < Ascending(S)[j]
  <2>1. Ascending(S)[i] \in Int /\ Ascending(S)[j] \in Int
    BY <1>7
  <2>2. /\ Ascending(S)[i] \in S /\ rank[Ascending(S)[i]] = i
        /\ Ascending(S)[j] \in S /\ rank[Ascending(S)[j]] = j
    BY <1>7
  <2>3. i \in Int /\ j \in Int
    BY <1>1
  <2>4. ~ (Ascending(S)[j] < Ascending(S)[i])
    <3>1. Ascending(S)[j] < Ascending(S)[i] => rank[Ascending(S)[j]] < rank[Ascending(S)[i]]
      BY <1>4, <2>2, Zenon
    <3> QED BY <1>9, <2>2, <2>3, <3>1
  <2>5. Ascending(S)[i] # Ascending(S)[j]
    BY <1>9, <2>2, <2>3
  <2> QED BY <2>1, <2>4, <2>5
<1>10. ASSUME NEW n \in S PROVE \E i \in 1 .. N : Ascending(S)[i] = n
  <2>1. rank[n] \in 1 .. N
    BY <1>3
  <2>2. Ascending(S)[rank[n]] \in S /\ rank[Ascending(S)[rank[n]]] = rank[n]
    BY <1>7, <2>1
  <2>3. rank[n] \in Int
    BY <1>1, <2>1
  <2>4. ~ (n < Ascending(S)[rank[n]]) /\ ~ (Ascending(S)[rank[n]] < n)
    <3>1. /\ n < Ascending(S)[rank[n]] => rank[n] < rank[Ascending(S)[rank[n]]]
          /\ Ascending(S)[rank[n]] < n => rank[Ascending(S)[rank[n]]] < rank[n]
      BY <1>4, <2>2, Zenon
    <3> QED BY <2>2, <2>3, <3>1
  <2>5. n \in Int /\ Ascending(S)[rank[n]] \in Int
    BY <2>2
  <2>6. Ascending(S)[rank[n]] = n
    BY <2>4, <2>5
  <2> QED BY <2>1, <2>6
<1> QED BY <1>1, <1>8, <1>9, <1>10 DEF N
=============================================================================
