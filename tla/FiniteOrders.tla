---------------------------- MODULE FiniteOrders ----------------------------
(***************************************************************************)
(* Facts about finite sets that are ordered: the places of their members,  *)
(* and the first and the last of a set of numbers.  The proofs about the   *)
(* guest book and the receipts rest on them.                               *)
(***************************************************************************)
EXTENDS Naturals, FiniteSetTheorems, TLAPS

\* The members of a finite set, each with the set of the members above it,
\* have the places 1 to the size of the set.
LEMMA Places ==
    ASSUME NEW S, IsFiniteSet(S), NEW above \in [S -> SUBSET S],
           \A i \in S : i \notin above[i],
           \A i, j \in S : i # j => \/ i \in above[j] /\ above[i] \subseteq above[j]
                                    \/ j \in above[i] /\ above[j] \subseteq above[i]
    PROVE  /\ Cardinality(S) \in Nat
           /\ \A i \in S : Cardinality(above[i]) \in 0..(Cardinality(S) - 1)
           /\ \A i, j \in S : i \in above[j] => Cardinality(above[i]) < Cardinality(above[j])
           /\ \A i, j \in S : Cardinality(above[i]) = Cardinality(above[j]) => i = j
           /\ \A n \in 1..Cardinality(S) : \E i \in S : Cardinality(above[i]) = n - 1
<1> DEFINE place == [i \in S |-> Cardinality(above[i]) + 1]
<1>1. Cardinality(S) \in Nat
  BY FS_CardinalityType
<1>2. \A i \in S : IsFiniteSet(above[i]) /\ Cardinality(above[i]) \in Nat
  BY FS_Subset, FS_CardinalityType
<1>3. ASSUME NEW i \in S, NEW j \in S, i \in above[j]
      PROVE  Cardinality(above[i]) < Cardinality(above[j])
  <2>1. above[i] \in SUBSET above[j] /\ above[i] # above[j]
    BY <1>3
  <2> QED
    BY <1>2, <2>1, FS_Subset
<1>4. ASSUME NEW i \in S
      PROVE  Cardinality(above[i]) \in 0..(Cardinality(S) - 1)
  <2>1. above[i] \in SUBSET S /\ above[i] # S
    OBVIOUS
  <2>2. Cardinality(above[i]) <= Cardinality(S) /\ Cardinality(above[i]) # Cardinality(S)
    BY <2>1, FS_Subset
  <2> QED
    BY <1>1, <1>2, <2>2
<1>5. ASSUME NEW i \in S, NEW j \in S, Cardinality(above[i]) = Cardinality(above[j])
      PROVE  i = j
  BY <1>2, <1>3, <1>5
<1>6. place \in Injection(S, 1..Cardinality(S))
  BY <1>1, <1>4, <1>5 DEF Injection, IsInjective
<1>7. IsFiniteSet(1..Cardinality(S)) /\ Cardinality(1..Cardinality(S)) = Cardinality(S)
  BY <1>1, FS_Interval
<1>8. place \in Surjection(S, 1..Cardinality(S))
  <2> HIDE DEF place
  <2> QED
    BY <1>6, <1>7, FS_Injection
<1>9. ASSUME NEW n \in 1..Cardinality(S)
      PROVE  \E i \in S : Cardinality(above[i]) = n - 1
  <2>1. PICK i \in S : place[i] = n
    BY <1>8 DEF Surjection
  <2> QED
    BY <1>1, <1>2, <2>1
<1> QED
  BY <1>1, <1>3, <1>4, <1>5, <1>9

\* If the set is not empty, one member has nothing above it.
LEMMA TopMember ==
    ASSUME NEW S, IsFiniteSet(S), S # {}, NEW above \in [S -> SUBSET S],
           \A i \in S : i \notin above[i],
           \A i, j \in S : i # j => \/ i \in above[j] /\ above[i] \subseteq above[j]
                                    \/ j \in above[i] /\ above[j] \subseteq above[i]
    PROVE  \E i \in S : above[i] = {}
<1>1. 1 \in 1..Cardinality(S)
  BY FS_CardinalityType, FS_EmptySet
<1>2. \A n \in 1..Cardinality(S) : \E i \in S : Cardinality(above[i]) = n - 1
  BY Places
<1>3. PICK i \in S : Cardinality(above[i]) = 1 - 1
  BY <1>1, <1>2
<1>4. above[i] = {}
  BY <1>3, FS_EmptySet, FS_Subset
<1> QED
  BY <1>4

\* A finite set of numbers that is not empty has a first member, ...
LEMMA FirstMember ==
    ASSUME NEW S \in SUBSET Nat, IsFiniteSet(S), S # {}
    PROVE  \E i \in S : \A j \in S : i <= j
<1> DEFINE above == [i \in S |-> {j \in S : j < i}]
<1>1. above \in [S -> SUBSET S] /\ \A i \in S : i \notin above[i]
  OBVIOUS
<1>2. \A i, j \in S : i # j => \/ i \in above[j] /\ above[i] \subseteq above[j]
                               \/ j \in above[i] /\ above[j] \subseteq above[i]
  <2>1. ASSUME NEW i \in S, NEW j \in S, i < j
        PROVE  i \in above[j] /\ above[i] \subseteq above[j]
    <3>1. i \in above[j]
      BY <2>1
    <3>2. {k \in S : k < i} \subseteq {k \in S : k < j}
      <4>1. \A k \in S : k < i => k < j
        BY <2>1
      <4> QED
        BY <4>1
    <3> QED
      BY <3>1, <3>2
  <2>2. \A i, j \in S : i < j \/ j < i \/ i = j
    OBVIOUS
  <2> HIDE DEF above
  <2> QED
    BY <2>1, <2>2
<1>3. \A i \in S : above[i] = {} => \A j \in S : i <= j
  OBVIOUS
<1> HIDE DEF above
<1> QED
  BY <1>1, <1>2, <1>3, TopMember

\* ... and a last one.
LEMMA LastMember ==
    ASSUME NEW S \in SUBSET Nat, IsFiniteSet(S), S # {}
    PROVE  \E i \in S : \A j \in S : j <= i
<1> DEFINE above == [i \in S |-> {j \in S : i < j}]
<1>1. above \in [S -> SUBSET S] /\ \A i \in S : i \notin above[i]
  OBVIOUS
<1>2. \A i, j \in S : i # j => \/ i \in above[j] /\ above[i] \subseteq above[j]
                               \/ j \in above[i] /\ above[j] \subseteq above[i]
  <2>1. ASSUME NEW i \in S, NEW j \in S, i < j
        PROVE  j \in above[i] /\ above[j] \subseteq above[i]
    <3>1. j \in above[i]
      BY <2>1
    <3>2. {k \in S : j < k} \subseteq {k \in S : i < k}
      <4>1. \A k \in S : j < k => i < k
        BY <2>1
      <4> QED
        BY <4>1
    <3> QED
      BY <3>1, <3>2
  <2>2. \A i, j \in S : i < j \/ j < i \/ i = j
    OBVIOUS
  <2> HIDE DEF above
  <2> QED
    BY <2>1, <2>2
<1>3. \A i \in S : above[i] = {} => \A j \in S : j <= i
  OBVIOUS
<1> HIDE DEF above
<1> QED
  BY <1>1, <1>2, <1>3, TopMember

=============================================================================
