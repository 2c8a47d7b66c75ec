----------------------------- MODULE PicksProofs ------------------------------
(***************************************************************************)
(* What Picked and Without do to a sequence of any length.                 *)
(***************************************************************************)
EXTENDS Picks, FiniteSetTheorems, SequenceTheorems, TLAPS

\* p has the elements of q at the positions K, each once and in their order.
Selection(p, q, K) ==
    \E at \in [1 .. Len(p) -> K] :
        /\ \A j \in 1 .. Len(p) : p[j] = q[at[j]]
        /\ \A i \in K : \E j \in 1 .. Len(p) : at[j] = i
        /\ \A j, k \in 1 .. Len(p) : j < k => at[j] < at[k]

\* The places of the positions K are 1 .. Cardinality(K), in their order.
LEMMA PlacesOrdered ==
  ASSUME NEW m \in Nat, NEW K \in SUBSET (1 .. m)
  PROVE  /\ IsFiniteSet(K) /\ Cardinality(K) \in Nat
         /\ \A i \in K : Place(i, K) \in 1 .. Cardinality(K)
         /\ \A i, j \in K : i < j => Place(i, K) < Place(j, K)
         /\ \A p \in 1 .. Cardinality(K) : \E i \in K : Place(i, K) = p
  <1>. DEFINE upto(i) == {k \in K : k <= i}
  <1>1. IsFiniteSet(K) /\ Cardinality(K) \in Nat
    <2>1. IsFiniteSet(1 .. m)
      BY FS_Interval
    <2>2. IsFiniteSet(K)
      BY <2>1, FS_Subset
    <2>. QED
      BY <2>2, FS_CardinalityType
  <1>2. \A i : /\ IsFiniteSet(upto(i)) /\ Cardinality(upto(i)) \in Nat
               /\ Cardinality(upto(i)) <= Cardinality(K)
    <2>. TAKE i
    <2>1. upto(i) \in SUBSET K
      OBVIOUS
    <2>. HIDE DEF upto
    <2>. QED
      BY <1>1, <2>1, FS_Subset, FS_CardinalityType
  <1>3. \A i \in K : Place(i, K) \in 1 .. Cardinality(K)
    <2>. TAKE i \in K
    <2>1. i \in upto(i)
      OBVIOUS
    <2>2. Place(i, K) = Cardinality(upto(i))
      BY DEF Place
    <2>. HIDE DEF upto
    <2>3. Cardinality(upto(i)) # 0
      BY <1>2, <2>1, FS_EmptySet
    <2>. QED
      BY <1>1, <1>2, <2>2, <2>3
  <1>4. \A i, j \in K : i < j => Place(i, K) < Place(j, K)
    <2>. SUFFICES ASSUME NEW i \in K, NEW j \in K, i < j
                  PROVE  Cardinality(upto(i)) < Cardinality(upto(j))
      BY DEF Place
    <2>1. i \in Int /\ j \in Int /\ \A k \in K : k \in Int
      OBVIOUS
    <2>2. /\ \A k \in upto(i) : k \in upto(j)
          /\ j \in upto(j) /\ j \notin upto(i)
      BY <2>1
    <2>. HIDE DEF upto
    <2>3. /\ Cardinality(upto(i)) <= Cardinality(upto(j))
          /\ Cardinality(upto(i)) # Cardinality(upto(j))
      BY <1>2, <2>2, FS_Subset
    <2>. QED
      BY <1>2, <2>3
  <1>5. \A p \in 1 .. Cardinality(K) : \E i \in K : Place(i, K) = p
    <2>. DEFINE T == 1 .. Cardinality(K)
                f == [i \in K |-> Place(i, K)]
    <2>1. IsFiniteSet(T) /\ Cardinality(T) = Cardinality(K)
      BY <1>1, FS_Interval
    <2>2. \A i, j \in K : Place(i, K) = Place(j, K) => i = j
      <3>. SUFFICES ASSUME NEW i \in K, NEW j \in K, Place(i, K) = Place(j, K), i # j
                    PROVE  FALSE
        OBVIOUS
      <3>1. i < j \/ j < i
        OBVIOUS
      <3>. QED
        BY <1>1, <1>3, <1>4, <3>1
    <2>3. f \in Injection(K, T)
      BY <1>3, <2>2 DEF Injection, IsInjective
    <2>. HIDE DEF T
    <2>4. f \in Surjection(K, T)
      BY <1>1, <2>1, <2>3, FS_Injection
    <2>5. \A p \in T : \E i \in K : f[i] = p
      BY <2>4 DEF Surjection
    <2>. QED
      BY <2>5 DEF T
  <1>. QED
    BY <1>1, <1>3, <1>4, <1>5

\* Picked takes exactly the elements at the positions K.
THEOREM PickedElements ==
  ASSUME NEW S, NEW q \in Seq(S), NEW K \in SUBSET (1 .. Len(q))
  PROVE  Picked(q, K) \in Seq(S) /\ Selection(Picked(q, K), q, K)
  <1>. DEFINE c == Cardinality(K)
              at == [j \in 1 .. c |-> CHOOSE i \in K : Place(i, K) = j]
  <1>0. Len(q) \in Nat /\ \A i \in K : i \in Int
    <2>1. Len(q) \in Nat
      BY LenProperties
    <2>2. \A i \in 1 .. Len(q) : i \in Int
      BY <2>1
    <2>. QED
      BY <2>1, <2>2
  <1>1. /\ c \in Nat
        /\ \A i \in K : Place(i, K) \in 1 .. c
        /\ \A i, j \in K : i < j => Place(i, K) < Place(j, K)
        /\ \A p \in 1 .. c : \E i \in K : Place(i, K) = p
    BY <1>0, PlacesOrdered
  <1>. HIDE DEF c
  <1>2. \A j \in 1 .. c : at[j] \in K /\ Place(at[j], K) = j
    BY <1>1
  <1>3. at \in [1 .. c -> K]
    BY <1>2
  <1>4. Picked(q, K) = [j \in 1 .. c |-> q[at[j]]]
    BY DEF Picked, c
  <1>. HIDE DEF at
  <1>5. \A j \in 1 .. c : q[at[j]] \in S
    BY <1>0, <1>3, ElementOfSeq
  <1>6. Picked(q, K) \in [1 .. c -> S]
    BY <1>4, <1>5
  <1>7. Picked(q, K) \in Seq(S) /\ Len(Picked(q, K)) = c
    BY <1>1, <1>6
  <1>8. \A i, j \in K : Place(i, K) = Place(j, K) => i = j
    <2>. SUFFICES ASSUME NEW i \in K, NEW j \in K, Place(i, K) = Place(j, K), i # j
                  PROVE  FALSE
      OBVIOUS
    <2>1. i < j \/ j < i
      BY <1>0
    <2>. QED
      BY <1>1, <2>1
  <1>9. \A i \in K : \E j \in 1 .. c : at[j] = i
    BY <1>1, <1>2, <1>8
  <1>10. \A j, k \in 1 .. c : j < k => at[j] < at[k]
    <2>. SUFFICES ASSUME NEW j \in 1 .. c, NEW k \in 1 .. c, j < k, ~(at[j] < at[k])
                  PROVE  FALSE
      OBVIOUS
    <2>0. at[j] \in K /\ at[k] \in K
      BY <1>2
    <2>1. at[j] = at[k] \/ at[k] < at[j]
      <3>1. at[j] \in Int /\ at[k] \in Int
        BY <1>0, <2>0
      <3>. QED
        BY <3>1
    <2>2. Place(at[j], K) = j /\ Place(at[k], K) = k
      BY <1>2
    <2>3. CASE at[j] = at[k]
      BY <1>1, <2>2, <2>3
    <2>4. CASE at[k] < at[j]
      <3>1. Place(at[k], K) < Place(at[j], K)
        BY <1>1, <2>0, <2>4
      <3>2. k < j
        BY <2>2, <3>1
      <3>. QED
        BY <1>1, <3>2
    <2>. QED
      BY <2>1, <2>3, <2>4
  <1>11. \A j \in 1 .. c : Picked(q, K)[j] = q[at[j]]
    BY <1>4
  <1>. QED
    BY <1>3, <1>7, <1>9, <1>10, <1>11 DEF Selection
\* Without leaves out the elements of gone and no others.
THEOREM WithoutElements ==
  ASSUME NEW S, NEW q \in Seq(S), NEW gone
  PROVE  /\ Without(q, gone) \in Seq(S)
         /\ Selection(Without(q, gone), q, {i \in 1 .. Len(q) : q[i] \notin gone})
  <1>. DEFINE K == {i \in 1 .. Len(q) : q[i] \notin gone}
  <1>1. Without(q, gone) = Picked(q, K)
    BY LenProperties DEF Without
  <1>2. K \in SUBSET (1 .. Len(q))
    OBVIOUS
  <1>. HIDE DEF K
  <1>3. Picked(q, K) \in Seq(S) /\ Selection(Picked(q, K), q, K)
    BY <1>2, PickedElements
  <1>. QED
    BY <1>1, <1>3 DEF K

\* Nothing is left of a sequence all of whose elements go.
LEMMA WithoutAll ==
  ASSUME NEW S, NEW q \in Seq(S), NEW gone, \A i \in 1 .. Len(q) : q[i] \in gone
  PROVE  Without(q, gone) = <<>>
  <1>. DEFINE w == Without(q, gone)
              K == {i \in 1 .. Len(q) : q[i] \notin gone}
  <1>1. w \in Seq(S) /\ Selection(w, q, K)
    BY WithoutElements
  <1>2. K = {}
    OBVIOUS
  <1>. HIDE DEF w, K
  <1>3. Len(w) \in Nat
    BY <1>1, LenProperties
  <1>4. ASSUME Len(w) # 0 PROVE FALSE
    <2>1. 1 \in 1 .. Len(w)
      BY <1>3, <1>4
    <2>. QED
      BY <1>1, <1>2, <2>1 DEF Selection
  <1>5. w = <<>>
    BY <1>1, <1>4, EmptySeq
  <1>. QED
    BY <1>5 DEF w
=============================================================================
