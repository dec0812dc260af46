------------------------- MODULE SubsequencesProofs -------------------------
(***************************************************************************)
(* What is kept of a sequence is a selection of its places in their order, *)
(* and follows it when the sequence grows or loses its end.                *)
(***************************************************************************)
EXTENDS Subsequences, Integers, FiniteSetTheorems, SequenceTheorems, TLAPS

LEMMA RanksAscend ==
    ASSUME NEW P \in SUBSET Nat, IsFiniteSet(P), NEW i \in P, NEW j \in P, i < j
    PROVE  Rank(P, i) < Rank(P, j)
<1> DEFINE low == {k \in P : k <= i}
           high == {k \in P : k <= j}
<1>1. IsFiniteSet(high) /\ IsFiniteSet(low)
  BY FS_Subset
<1>2. low \subseteq high /\ j \in high /\ j \notin low
  <2>1. i \in Nat /\ j \in Nat /\ i < j
    OBVIOUS
  <2>2. \A k \in P : k <= i => k <= j
    <3> TAKE k \in P
    <3> k \in Nat
      OBVIOUS
    <3> QED
      BY <2>1
  <2>3. low \subseteq high
    BY <2>2
  <2>4. j <= j /\ ~(j <= i)
    BY <2>1
  <2> QED
    BY <2>3, <2>4
<1>3. Cardinality(low) <= Cardinality(high) /\ Cardinality(low) # Cardinality(high)
  <2> HIDE DEF low, high
  <2> QED
    BY <1>1, <1>2, FS_Subset
<1>4. Cardinality(low) \in Nat /\ Cardinality(high) \in Nat
  <2> HIDE DEF low, high
  <2> QED
    BY <1>1, FS_CardinalityType
<1> QED
  BY <1>3, <1>4 DEF Rank

LEMMA RanksInRange ==
    ASSUME NEW P \in SUBSET Nat, IsFiniteSet(P), NEW i \in P
    PROVE  Rank(P, i) \in 1..Cardinality(P)
<1> DEFINE low == {k \in P : k <= i}
<1>1. IsFiniteSet(low) /\ low \subseteq P /\ i \in low
  BY FS_Subset
<1> HIDE DEF low
<1>2. Cardinality(low) <= Cardinality(P) /\ Cardinality(low) \in Nat /\ Cardinality(P) \in Nat
  BY <1>1, FS_Subset, FS_CardinalityType
<1>3. Cardinality(low) # 0
  BY <1>1, FS_EmptySet
<1> QED
  BY <1>2, <1>3 DEF Rank, low

\* Every rank is somebody's, and one element's only.
LEMMA NthIsThere ==
    ASSUME NEW P \in SUBSET Nat, IsFiniteSet(P), NEW n \in 1..Cardinality(P)
    PROVE  Nth(P, n) \in P /\ Rank(P, Nth(P, n)) = n
<1> DEFINE rank == [i \in P |-> Rank(P, i)]
           k == Cardinality(P)
<1>1. k \in Nat
  BY FS_CardinalityType
<1>2. rank \in [P -> 1..k]
  BY RanksInRange
<1>3. ASSUME NEW i \in P, NEW j \in P, rank[i] = rank[j]
      PROVE  i = j
  <2>1. Rank(P, i) = Rank(P, j) /\ Rank(P, i) \in Nat
    BY <1>3, RanksInRange
  <2>2. ~(i < j) /\ ~(j < i)
    BY <2>1, RanksAscend
  <2> QED
    BY <2>2
<1>4. rank \in Injection(P, 1..k)
  BY <1>2, <1>3 DEF Injection, IsInjective
<1>5. IsFiniteSet(1..k) /\ Cardinality(1..k) = k
  BY <1>1, FS_Interval
<1>6. \E i \in P : rank[i] = n
  <2> HIDE DEF rank
  <2>1. rank \in Surjection(P, 1..k)
    BY <1>4, <1>5, FS_Injection
  <2> QED
    BY <2>1 DEF Surjection
<1> QED
  BY <1>6 DEF Nth

LEMMA NthOfRank ==
    ASSUME NEW P \in SUBSET Nat, IsFiniteSet(P), NEW i \in P
    PROVE  Nth(P, Rank(P, i)) = i
<1> DEFINE n == Rank(P, i)
           j == Nth(P, n)
<1>1. n \in 1..Cardinality(P)
  BY RanksInRange
<1>2. j \in P /\ Rank(P, j) = n
  <2> HIDE DEF n
  <2> QED
    BY <1>1, NthIsThere
<1>3. Cardinality(P) \in Nat
  BY FS_CardinalityType
<1> HIDE DEF j
<1>4. ~(i < j) /\ ~(j < i)
  BY <1>1, <1>2, <1>3, RanksAscend
<1>5. i \in Nat /\ j \in Nat
  BY <1>2
<1>6. i = j
  BY <1>4, <1>5
<1> QED
  BY <1>6 DEF j

LEMMA NthAscends ==
    ASSUME NEW P \in SUBSET Nat, IsFiniteSet(P),
           NEW m \in 1..Cardinality(P), NEW n \in 1..Cardinality(P), m < n
    PROVE  Nth(P, m) < Nth(P, n)
<1> DEFINE i == Nth(P, m)
           j == Nth(P, n)
<1>1. i \in P /\ Rank(P, i) = m /\ j \in P /\ Rank(P, j) = n
  BY NthIsThere
<1>2. Cardinality(P) \in Nat
  BY FS_CardinalityType
<1> HIDE DEF i, j
<1>3. ~(j < i) /\ i # j
  BY <1>1, <1>2, RanksAscend
<1>4. i \in Nat /\ j \in Nat
  BY <1>1
<1>5. i < j
  BY <1>3, <1>4
<1> QED
  BY <1>5 DEF i, j

LEMMA PlacesAreFinite ==
    ASSUME NEW X, NEW s \in Seq(X), NEW S
    PROVE  /\ Places(s, S) \in SUBSET (1..Len(s)) /\ Places(s, S) \in SUBSET Nat
           /\ IsFiniteSet(Places(s, S)) /\ Cardinality(Places(s, S)) \in Nat
<1>1. Places(s, S) \subseteq 1..Len(s) /\ Len(s) \in Nat
  BY DEF Places
<1>2. IsFiniteSet(1..Len(s))
  BY <1>1, FS_Interval
<1> QED
  BY <1>1, <1>2, FS_Subset, FS_CardinalityType

LEMMA KeptType ==
    ASSUME NEW X, NEW s \in Seq(X), NEW S
    PROVE  /\ Kept(s, S) \in Seq(X \cap S)
           /\ Len(Kept(s, S)) = Cardinality(Places(s, S))
<1> DEFINE P == Places(s, S)
           k == Cardinality(P)
<1>1. P \in SUBSET Nat /\ IsFiniteSet(P) /\ k \in Nat
  BY PlacesAreFinite
<1>2. \A n \in 1..k : Nth(P, n) \in P
  <2> HIDE DEF P
  <2> QED
    BY <1>1, NthIsThere
<1>3. \A i \in P : s[i] \in X \cap S
  BY DEF Places
<1>4. Kept(s, S) = [n \in 1..k |-> s[Nth(P, n)]]
  BY DEF Kept
<1> HIDE DEF P, k
<1>5. Kept(s, S) \in [1..k -> X \cap S]
  BY <1>2, <1>3, <1>4
<1>6. Kept(s, S) \in Seq(X \cap S) /\ Len(Kept(s, S)) = k
  BY <1>1, <1>5
<1> QED
  BY <1>6 DEF P, k

\* What is kept, element by element.
LEMMA KeptElement ==
    ASSUME NEW X, NEW s \in Seq(X), NEW S, NEW n \in 1..Len(Kept(s, S))
    PROVE  /\ Nth(Places(s, S), n) \in Places(s, S)
           /\ Kept(s, S)[n] = s[Nth(Places(s, S), n)]
<1> DEFINE P == Places(s, S)
<1>1. n \in 1..Cardinality(P)
  BY KeptType
<1>2. P \in SUBSET Nat /\ IsFiniteSet(P)
  BY PlacesAreFinite
<1>3. Nth(P, n) \in P
  <2> HIDE DEF P
  <2> QED
    BY <1>1, <1>2, NthIsThere
<1> QED
  BY <1>1, <1>3 DEF Kept

\* Every element that is let through is there.
LEMMA KeptIsComplete ==
    ASSUME NEW X, NEW s \in Seq(X), NEW S, NEW i \in 1..Len(s), s[i] \in S
    PROVE  \E n \in 1..Len(Kept(s, S)) : Kept(s, S)[n] = s[i]
<1> DEFINE P == Places(s, S)
<1>1. P \in SUBSET Nat /\ IsFiniteSet(P)
  BY PlacesAreFinite
<1>2. i \in P
  BY DEF Places
<1> HIDE DEF P
<1>3. Rank(P, i) \in 1..Cardinality(P) /\ Nth(P, Rank(P, i)) = i
  BY <1>1, <1>2, RanksInRange, NthOfRank
<1>4. Len(Kept(s, S)) = Cardinality(P)
  BY KeptType DEF P
<1>5. Kept(s, S)[Rank(P, i)] = s[Nth(P, Rank(P, i))]
  BY <1>3, <1>4, KeptElement DEF P
<1> QED
  BY <1>3, <1>4, <1>5

LEMMA KeptIsDistinct ==
    ASSUME NEW X, NEW s \in Seq(X), NEW S,
           \A i, j \in 1..Len(s) : s[i] = s[j] => i = j,
           NEW m \in 1..Len(Kept(s, S)), NEW n \in 1..Len(Kept(s, S)),
           Kept(s, S)[m] = Kept(s, S)[n]
    PROVE  m = n
<1> DEFINE P == Places(s, S)
           k == Cardinality(P)
<1>1. P \in SUBSET Nat /\ IsFiniteSet(P) /\ P \subseteq 1..Len(s) /\ k \in Nat
  BY PlacesAreFinite
<1>2. m \in 1..k /\ n \in 1..k /\ s[Nth(P, m)] = s[Nth(P, n)]
  <2>1. Len(Kept(s, S)) = k
    BY KeptType
  <2>2. Kept(s, S)[m] = s[Nth(P, m)]
    BY KeptElement
  <2>3. Kept(s, S)[n] = s[Nth(P, n)]
    BY KeptElement
  <2> QED
    BY <2>1, <2>2, <2>3
<1>3. Nth(P, m) \in P /\ Nth(P, n) \in P
  BY KeptElement
<1> HIDE DEF P
<1>4. Nth(P, m) = Nth(P, n) /\ Nth(P, m) \in Nat
  BY <1>1, <1>2, <1>3
<1>5. ~(m < n)
  BY <1>1, <1>2, <1>4, NthAscends
<1>6. ~(n < m)
  BY <1>1, <1>2, <1>4, NthAscends
<1> QED
  BY <1>1, <1>2, <1>5, <1>6

\* What the filter does not look at does not matter.
LEMMA KeptFromPlaces ==
    ASSUME NEW X, NEW s \in Seq(X), NEW t \in Seq(X), NEW S,
           Places(s, S) = Places(t, S), \A i \in Places(s, S) : s[i] = t[i]
    PROVE  Kept(s, S) = Kept(t, S)
<1> DEFINE P == Places(s, S)
<1>1. P \in SUBSET Nat /\ IsFiniteSet(P)
  BY PlacesAreFinite
<1> HIDE DEF P
<1>2. \A n \in 1..Cardinality(P) : Nth(P, n) \in P
  BY <1>1, NthIsThere
<1>3. \A n \in 1..Cardinality(P) : s[Nth(P, n)] = t[Nth(P, n)]
  BY <1>2 DEF P
<1> QED
  BY <1>3 DEF Kept, P

\* The last element let through is the last one kept.
LEMMA KeptGrows ==
    ASSUME NEW X, NEW s \in Seq(X), NEW t \in Seq(X), NEW S, NEW i \in 1..Len(t), t[i] \in S,
           Places(t, S) = Places(s, S) \cup {i}, \A j \in Places(s, S) : j < i /\ t[j] = s[j]
    PROVE  Kept(t, S) = Append(Kept(s, S), t[i])
<1> DEFINE P == Places(s, S)
           Q == Places(t, S)
           k == Cardinality(P)
<1>1. /\ P \in SUBSET Nat /\ IsFiniteSet(P) /\ k \in Nat
      /\ Q \in SUBSET Nat /\ IsFiniteSet(Q)
  BY PlacesAreFinite
<1>2. Q = P \cup {i} /\ i \notin P /\ i \in Nat
  BY <1>1
<1>3. \A j \in P : j < i /\ t[j] = s[j]
  OBVIOUS
<1>4. Len(Kept(s, S)) = k /\ Kept(s, S) \in Seq(X \cap S) /\ Kept(s, S) = [n \in 1..k |-> s[Nth(P, n)]]
  BY KeptType DEF Kept
<1>5. Kept(t, S) = [n \in 1..Cardinality(Q) |-> t[Nth(Q, n)]]
  BY DEF Kept
<1> HIDE DEF P, Q, k
<1>6. Cardinality(Q) = k + 1
  BY <1>1, <1>2, FS_AddElement DEF k
<1>7. \A j \in P : Rank(Q, j) = Rank(P, j)
  <2> TAKE j \in P
  <2>1. j \in Nat /\ j < i
    BY <1>1, <1>3
  <2>2. {l \in Q : l <= j} = {l \in P : l <= j}
    BY <1>2, <2>1
  <2> QED
    BY <2>2 DEF Rank
<1>8. ASSUME NEW n \in 1..k
      PROVE  Nth(Q, n) = Nth(P, n) /\ Nth(P, n) \in P
  <2>1. Nth(P, n) \in P /\ Rank(P, Nth(P, n)) = n
    BY <1>1, NthIsThere DEF k
  <2>2. Nth(P, n) \in Q /\ Rank(Q, Nth(P, n)) = n
    BY <1>2, <1>7, <2>1
  <2> QED
    BY <1>1, <2>1, <2>2, NthOfRank
<1>9. Nth(Q, k + 1) = i
  <2>1. {l \in Q : l <= i} = Q
    <3>1. \A l \in Q : l \in Nat /\ (l = i \/ l < i)
      BY <1>1, <1>2, <1>3
    <3> QED
      BY <1>2, <3>1
  <2>2. Rank(Q, i) = k + 1
    BY <1>6, <2>1 DEF Rank
  <2>3. i \in Q
    BY <1>2
  <2> QED
    BY <1>1, <2>2, <2>3, NthOfRank
<1> DEFINE A == Append(Kept(s, S), t[i])
<1>10. A = [n \in 1..k + 1 |-> IF n <= k THEN Kept(s, S)[n] ELSE t[i]]
  BY <1>1, <1>4
<1>11. \A n \in 1..k + 1 : t[Nth(Q, n)] = IF n <= k THEN Kept(s, S)[n] ELSE t[i]
  <2> TAKE n \in 1..k + 1
  <2>1. CASE n <= k
    <3>1. n \in 1..k
      BY <1>1, <2>1
    <3>2. Kept(s, S)[n] = s[Nth(P, n)]
      BY <1>4, <3>1
    <3> QED
      BY <1>3, <1>8, <2>1, <3>1, <3>2
  <2>2. CASE ~(n <= k)
    <3>1. n = k + 1
      BY <1>1, <2>2
    <3> QED
      BY <1>9, <2>2, <3>1
  <2> QED
    BY <2>1, <2>2
<1> QED
  BY <1>5, <1>6, <1>10, <1>11

=============================================================================
