------------------------ MODULE NeighborOrderProofs ------------------------
(***************************************************************************)
(* What the neighbour order and the operators built on it guarantee, for   *)
(* any metric with integer values and any finite set of rows.              *)
(***************************************************************************)
EXTENDS NeighborOrder, FiniteSetTheorems, SequenceTheorems, TLAPS

(* Closer is a strict total order on the rows of data: any two different   *)
(* rows have different ranks, which is what Neighbor's Ord is for.         *)
LEMMA CloserOrder ==
  ASSUME NEW R \in SUBSET Nat, NEW data \in [R -> Vector], NEW q \in Vector
  PROVE  /\ \A a \in R : ~Closer(data, q, a, a)
         /\ \A a, b, c \in R :
              Closer(data, q, a, b) /\ Closer(data, q, b, c) => Closer(data, q, a, c)
         /\ \A a, b \in R : a = b \/ Closer(data, q, a, b) \/ Closer(data, q, b, a)
  <1> DEFINE d(a) == Distance(q, data[a])
  <1>1. \A a \in R : d(a) \in Int
    BY DistanceAssumption
  <1>2. \A a, b \in R : Closer(data, q, a, b) <=> d(a) < d(b) \/ (d(a) = d(b) /\ a < b)
    BY DEF Closer
  <1>3. R \subseteq Int
    OBVIOUS
  <1> HIDE DEF d
  <1> QED
    BY <1>1, <1>2, <1>3

(* A finite set of rows that is not empty has a farthest row.              *)
LEMMA FarthestExists ==
  ASSUME NEW R \in SUBSET Nat, NEW data \in [R -> Vector], NEW q \in Vector,
         NEW S \in SUBSET R, IsFiniteSet(S), S # {}
  PROVE  \E m \in S : \A s \in S \ {m} : Closer(data, q, s, m)
  <1> DEFINE Farther(r) == {s \in S : Closer(data, q, r, s)}
             T == {Farther(r) : r \in S}
  <1>1. IsWellFoundedOn(StrictSubsetOrdering(S), SUBSET S)
    BY FS_StrictSubsetOrderingWellFounded, FS_FiniteSubsetsOfFinite
  <1>2. T \subseteq SUBSET S /\ T # {}
    OBVIOUS
  <1>3. PICK F \in T : \A G \in T : <<G, F>> \notin StrictSubsetOrdering(S)
    <2> HIDE DEF T
    <2> QED BY <1>1, <1>2, WFMin
  <1>4. PICK m \in S : F = Farther(m)
    BY <1>3
  <1>5. ASSUME NEW s \in S \ {m}
        PROVE  Closer(data, q, s, m)
    <2>1. CASE Closer(data, q, m, s)
      <3>1. s \in Farther(m) /\ s \notin Farther(s)
        BY <2>1, CloserOrder
      <3>2. Farther(s) \subseteq Farther(m)
        BY <2>1, CloserOrder
      <3>3. <<Farther(s), Farther(m)>> \in StrictSubsetOrdering(S)
        BY <3>1, <3>2 DEF StrictSubsetOrdering
      <3> QED BY <3>3, <1>3, <1>4
    <2> QED BY <2>1, CloserOrder
  <1> QED BY <1>5

(* ... and a nearest row.                                                  *)
LEMMA NearestExists ==
  ASSUME NEW R \in SUBSET Nat, NEW data \in [R -> Vector], NEW q \in Vector,
         NEW S \in SUBSET R, IsFiniteSet(S), S # {}
  PROVE  \E m \in S : \A s \in S \ {m} : Closer(data, q, m, s)
  <1> DEFINE Nearer(r) == {s \in S : Closer(data, q, s, r)}
             T == {Nearer(r) : r \in S}
  <1>1. IsWellFoundedOn(StrictSubsetOrdering(S), SUBSET S)
    BY FS_StrictSubsetOrderingWellFounded, FS_FiniteSubsetsOfFinite
  <1>2. T \subseteq SUBSET S /\ T # {}
    OBVIOUS
  <1>3. PICK F \in T : \A G \in T : <<G, F>> \notin StrictSubsetOrdering(S)
    <2> HIDE DEF T
    <2> QED BY <1>1, <1>2, WFMin
  <1>4. PICK m \in S : F = Nearer(m)
    BY <1>3
  <1>5. ASSUME NEW s \in S \ {m}
        PROVE  Closer(data, q, m, s)
    <2>1. CASE Closer(data, q, s, m)
      <3>1. s \in Nearer(m) /\ s \notin Nearer(s)
        BY <2>1, CloserOrder
      <3>2. Nearer(s) \subseteq Nearer(m)
        BY <2>1, CloserOrder
      <3>3. <<Nearer(s), Nearer(m)>> \in StrictSubsetOrdering(S)
        BY <3>1, <3>2 DEF StrictSubsetOrdering
      <3> QED BY <3>3, <1>3, <1>4
    <2> QED BY <2>1, CloserOrder
  <1> QED BY <1>5

(* Truncating to k rows leaves at most k.                                  *)
LEMMA NearestBound ==
  ASSUME NEW R \in SUBSET Nat, NEW data \in [R -> Vector], NEW q \in Vector,
         NEW S \in SUBSET R, IsFiniteSet(S), NEW k \in Nat
  PROVE  /\ Nearest(data, q, S, k) \subseteq S
         /\ IsFiniteSet(Nearest(data, q, S, k))
         /\ Cardinality(Nearest(data, q, S, k)) \in Nat
         /\ Cardinality(Nearest(data, q, S, k)) <= k
  <1> DEFINE K == Nearest(data, q, S, k)
  <1>1. K \subseteq S
    BY DEF Nearest
  <1>2. IsFiniteSet(K) /\ Cardinality(K) \in Nat
    BY <1>1, FS_Subset, FS_CardinalityType
  <1>3. CASE K = {}
    BY <1>1, <1>2, <1>3, FS_EmptySet
  <1>4. CASE K # {}
    <2>1. PICK m \in K : \A s \in K \ {m} : Closer(data, q, s, m)
      <3> HIDE DEF K
      <3>1. K \in SUBSET R
        BY <1>1
      <3> QED BY <1>2, <1>4, <3>1, FarthestExists
    <2> DEFINE C == {s \in S : Closer(data, q, s, m)}
    <2>2. IsFiniteSet(C) /\ Cardinality(C) \in Nat /\ Cardinality(C) < k
      <3>1. C \in SUBSET S
        OBVIOUS
      <3>2. IsFiniteSet(C) /\ Cardinality(C) \in Nat
        BY <3>1, FS_Subset, FS_CardinalityType
      <3> QED BY <3>2, <2>1 DEF Nearest
    <2>3. K \ {m} \in SUBSET C
      BY <1>1, <2>1
    <2>4. Cardinality(K \ {m}) <= Cardinality(C)
      BY <2>2, <2>3, FS_Subset
    <2>5. Cardinality(K \ {m}) = Cardinality(K) - 1
      BY <1>2, <2>1, FS_RemoveElement
    <2> HIDE DEF K, C
    <2> QED BY <1>1, <1>2, <2>2, <2>4, <2>5 DEF K
  <1> QED BY <1>3, <1>4

(* A set of at most k rows loses none.                                     *)
LEMMA NearestAll ==
  ASSUME NEW R \in SUBSET Nat, NEW data \in [R -> Vector], NEW q \in Vector,
         NEW S \in SUBSET R, IsFiniteSet(S), NEW k \in Nat, Cardinality(S) <= k
  PROVE  Nearest(data, q, S, k) = S
  <1>1. ASSUME NEW r \in S
        PROVE  Cardinality({s \in S : Closer(data, q, s, r)}) < k
    <2> DEFINE C == {s \in S : Closer(data, q, s, r)}
    <2>1. C \in SUBSET (S \ {r})
      BY CloserOrder
    <2>2. IsFiniteSet(S \ {r}) /\ Cardinality(S \ {r}) = Cardinality(S) - 1
      BY FS_RemoveElement
    <2>3. IsFiniteSet(C) /\ Cardinality(C) <= Cardinality(S) - 1
      BY <2>1, <2>2, FS_Subset
    <2>4. Cardinality(C) \in Nat /\ Cardinality(S) \in Nat
      BY <2>3, FS_CardinalityType
    <2> HIDE DEF C
    <2> QED BY <2>3, <2>4 DEF C
  <1> QED BY <1>1 DEF Nearest

(* What truncation drops is farther than all it keeps.                     *)
LEMMA NearestCloser ==
  ASSUME NEW R \in SUBSET Nat, NEW data \in [R -> Vector], NEW q \in Vector,
         NEW S \in SUBSET R, IsFiniteSet(S), NEW k \in Nat,
         NEW a \in Nearest(data, q, S, k), NEW b \in S \ Nearest(data, q, S, k)
  PROVE  Closer(data, q, a, b)
  <1> DEFINE C(r) == {s \in S : Closer(data, q, s, r)}
  <1>1. a \in S /\ Cardinality(C(a)) < k /\ ~(Cardinality(C(b)) < k)
    BY DEF Nearest
  <1>2. \A r \in S : IsFiniteSet(C(r)) /\ Cardinality(C(r)) \in Nat
    <2>1. \A r \in S : C(r) \in SUBSET S
      OBVIOUS
    <2> QED BY <2>1, FS_Subset, FS_CardinalityType
  <1>3. CASE Closer(data, q, b, a)
    <2>1. C(b) \in SUBSET C(a)
      BY <1>1, <1>3, CloserOrder
    <2>2. Cardinality(C(b)) <= Cardinality(C(a))
      BY <2>1, <1>1, <1>2, FS_Subset
    <2> QED BY <1>1, <1>2, <2>2
  <1> QED BY <1>1, <1>3, CloserOrder

(* One row too many costs exactly one row.                                 *)
LEMMA NearestDropsOne ==
  ASSUME NEW R \in SUBSET Nat, NEW data \in [R -> Vector], NEW q \in Vector,
         NEW S \in SUBSET R, IsFiniteSet(S), NEW k \in Nat,
         Cardinality(S) <= k + 1,
         NEW a \in S \ Nearest(data, q, S, k), NEW b \in S \ Nearest(data, q, S, k)
  PROVE  a = b
  <1> DEFINE C(r) == {s \in S : Closer(data, q, s, r)}
  <1>1. ASSUME NEW x \in S \ Nearest(data, q, S, k), NEW y \in S \ Nearest(data, q, S, k),
               Closer(data, q, x, y)
        PROVE  FALSE
    <2>1. C(x) \in SUBSET ((S \ {y}) \ {x})
      BY <1>1, CloserOrder
    <2>2. /\ IsFiniteSet((S \ {y}) \ {x})
          /\ Cardinality((S \ {y}) \ {x}) = Cardinality(S) - 2
      <3>1. x # y
        BY <1>1, CloserOrder
      <3>2. IsFiniteSet(S \ {y}) /\ Cardinality(S \ {y}) = Cardinality(S) - 1
        BY FS_RemoveElement
      <3>3. x \in S \ {y}
        BY <3>1
      <3>4. Cardinality(S) \in Nat
        BY FS_CardinalityType
      <3>5. /\ IsFiniteSet((S \ {y}) \ {x})
            /\ Cardinality((S \ {y}) \ {x}) = Cardinality(S \ {y}) - 1
        BY <3>2, <3>3, FS_RemoveElement
      <3> QED BY <3>2, <3>4, <3>5
    <2>3. IsFiniteSet(C(x)) /\ Cardinality(C(x)) <= Cardinality(S) - 2
      BY <2>1, <2>2, FS_Subset
    <2>4. Cardinality(C(x)) \in Nat /\ Cardinality(S) \in Nat
      BY <2>3, FS_CardinalityType
    <2>5. ~(Cardinality(C(x)) < k)
      BY DEF Nearest
    <2> HIDE DEF C
    <2> QED BY <2>3, <2>4, <2>5
  <1> QED BY <1>1, CloserOrder

(* Truncation to k rows keeps exactly k of a larger set.                   *)
LEMMA NearestFull ==
  ASSUME NEW R \in SUBSET Nat, NEW data \in [R -> Vector], NEW q \in Vector,
         NEW S \in SUBSET R, IsFiniteSet(S), NEW k \in Nat,
         Cardinality(S) = k + 1
  PROVE  Cardinality(Nearest(data, q, S, k)) = k
  <1> DEFINE K == Nearest(data, q, S, k)
  <1>1. K \subseteq S /\ IsFiniteSet(K) /\ Cardinality(K) \in Nat /\ Cardinality(K) <= k
    BY NearestBound
  <1>2. PICK b \in S : b \notin K
    <2>1. CASE K = S
      BY <1>1, <2>1
    <2> QED BY <1>1, <2>1
  <1>3. S \ {b} = K
    <2>1. \A a \in S \ K : a = b
      <3> Cardinality(S) <= k + 1
        OBVIOUS
      <3> QED BY <1>2, NearestDropsOne
    <2> QED BY <1>1, <1>2, <2>1
  <1>4. Cardinality(S \ {b}) = k
    <2>1. Cardinality(S \ {b}) = Cardinality(S) - 1
      BY <1>2, FS_RemoveElement
    <2> QED BY <2>1
  <1>5. Cardinality(K) = k
    BY <1>3, <1>4
  <1> QED BY <1>5

(* A set that loses rows to truncation keeps exactly k.                    *)
LEMMA NearestKeepsK ==
  ASSUME NEW R \in SUBSET Nat, NEW data \in [R -> Vector], NEW q \in Vector,
         NEW S \in SUBSET R, IsFiniteSet(S), NEW k \in Nat,
         Nearest(data, q, S, k) # S
  PROVE  Cardinality(Nearest(data, q, S, k)) = k
  <1> DEFINE K == Nearest(data, q, S, k)
  <1>1. K \subseteq S /\ IsFiniteSet(K) /\ Cardinality(K) \in Nat /\ Cardinality(K) <= k
    BY NearestBound
  <1>2. S \ K \in SUBSET R /\ IsFiniteSet(S \ K) /\ S \ K # {}
    <2>1. S \ K \in SUBSET S
      OBVIOUS
    <2>2. IsFiniteSet(S \ K)
      <3> HIDE DEF K
      <3> QED BY <2>1, FS_Subset
    <2> QED BY <1>1, <2>1, <2>2
  <1>3. PICK b \in S \ K : \A s \in (S \ K) \ {b} : Closer(data, q, b, s)
    <2> HIDE DEF K
    <2> QED BY <1>2, NearestExists
  <1> DEFINE C == {s \in S : Closer(data, q, s, b)}
  <1>4. C \in SUBSET K
    <2>1. ASSUME NEW s \in S \ K PROVE ~Closer(data, q, s, b)
      <3>1. s \in R /\ b \in R
        BY <1>3
      <3>2. s = b \/ Closer(data, q, b, s)
        BY <1>3, <2>1
      <3> QED BY <3>1, <3>2, CloserOrder
    <2> QED BY <2>1
  <1>5. ~(Cardinality(C) < k)
    BY <1>3 DEF Nearest
  <1>6. IsFiniteSet(C) /\ Cardinality(C) <= Cardinality(K) /\ Cardinality(C) \in Nat
    <2> HIDE DEF C, K
    <2>1. IsFiniteSet(C) /\ Cardinality(C) <= Cardinality(K)
      BY <1>1, <1>4, FS_Subset
    <2> QED BY <2>1, FS_CardinalityType
  <1>7. Cardinality(K) = k
    <2> HIDE DEF C, K
    <2> QED BY <1>1, <1>5, <1>6
  <1> QED BY <1>7

(* So it keeps k rows, or all there are.                                   *)
LEMMA NearestSize ==
  ASSUME NEW R \in SUBSET Nat, NEW data \in [R -> Vector], NEW q \in Vector,
         NEW S \in SUBSET R, IsFiniteSet(S), NEW k \in Nat
  PROVE  Cardinality(Nearest(data, q, S, k))
           = IF k < Cardinality(S) THEN k ELSE Cardinality(S)
  <1>1. Cardinality(S) \in Nat
    BY FS_CardinalityType
  <1>2. CASE k < Cardinality(S)
    <2>1. Cardinality(Nearest(data, q, S, k)) <= k
      BY NearestBound
    <2>2. Nearest(data, q, S, k) # S
      BY <1>1, <1>2, <2>1
    <2> QED BY <1>2, <2>2, NearestKeepsK
  <1>3. CASE ~(k < Cardinality(S))
    BY <1>1, <1>3, NearestAll
  <1> QED BY <1>2, <1>3

(* A heap that holds the nearest of the rows offered so far holds the      *)
(* nearest of them and one more when that one is pushed: this is what      *)
(* makes one heap enough, in whatever order the rows arrive.               *)
LEMMA PushKeepsNearest ==
  ASSUME NEW R \in SUBSET Nat, NEW data \in [R -> Vector], NEW q \in Vector,
         NEW S \in SUBSET R, IsFiniteSet(S), NEW k \in Nat, NEW row \in R \ S
  PROVE  PushTopK(data, q, k, Nearest(data, q, S, k), row)
           = Nearest(data, q, S \cup {row}, k)
  <1> DEFINE H == Nearest(data, q, S, k)
             G == H \cup {row}
             A == S \cup {row}
             C(X, a) == {s \in X : Closer(data, q, s, a)}
  <1>1. /\ H \subseteq S /\ IsFiniteSet(H)
        /\ Cardinality(H) \in Nat /\ Cardinality(H) <= k
    BY NearestBound
  <1>2. /\ IsFiniteSet(A) /\ A \in SUBSET R
        /\ IsFiniteSet(G) /\ G \in SUBSET R /\ G \subseteq A
        /\ Cardinality(G) = Cardinality(H) + 1
    <2>1. row \notin H
      BY <1>1
    <2>2. IsFiniteSet(G) /\ Cardinality(G) = Cardinality(H) + 1
      <3> HIDE DEF H
      <3> QED BY <1>1, <2>1, FS_AddElement
    <2>3. IsFiniteSet(A)
      BY FS_AddElement
    <2>4. A \in SUBSET R /\ G \subseteq A
      <3>1. H \subseteq S
        BY <1>1
      <3> HIDE DEF H
      <3> QED BY <3>1
    <2> QED BY <2>2, <2>3, <2>4
  <1>3. \A X \in SUBSET A : \A a \in A :
          IsFiniteSet(C(X, a)) /\ Cardinality(C(X, a)) \in Nat
    <2> HIDE DEF A
    <2>1. ASSUME NEW X \in SUBSET A, NEW a \in A
          PROVE  IsFiniteSet(C(X, a)) /\ Cardinality(C(X, a)) \in Nat
      <3>1. C(X, a) \in SUBSET A
        OBVIOUS
      <3> HIDE DEF C
      <3> QED BY <1>2, <3>1, FS_Subset, FS_CardinalityType
    <2> QED BY <2>1
  <1>4. CASE k = 0
    <2>1. Cardinality(H) = 0 /\ H = {}
      <3>1. Cardinality(H) = 0
        BY <1>1, <1>4
      <3> HIDE DEF H
      <3> QED BY <3>1, <1>1, FS_EmptySet
    <2>2. Nearest(data, q, A, 0) = {}
      <3>1. ASSUME NEW a \in A PROVE ~(Cardinality(C(A, a)) < 0)
        BY <1>3
      <3> QED BY <3>1 DEF Nearest
    <2> QED BY <1>4, <2>1, <2>2 DEF PushTopK
  <1>5. CASE k # 0
    <2>1. ASSUME NEW a \in A, a \notin G
          PROVE  ~(Cardinality(C(A, a)) < k)
      <3>1. a \in S /\ ~(Cardinality(C(S, a)) < k)
        BY <2>1 DEF Nearest
      <3>2. C(S, a) \in SUBSET C(A, a)
        OBVIOUS
      <3>3. Cardinality(C(S, a)) <= Cardinality(C(A, a))
        <4> HIDE DEF C, A
        <4> QED BY <1>3, <2>1, <3>2, FS_Subset
      <3>4. Cardinality(C(S, a)) \in Nat /\ Cardinality(C(A, a)) \in Nat
        <4>1. S \in SUBSET A /\ A \in SUBSET A
          OBVIOUS
        <4> HIDE DEF C, A
        <4> QED BY <1>3, <2>1, <4>1
      <3> HIDE DEF C, A
      <3> QED BY <3>1, <3>3, <3>4
    <2>2. ASSUME NEW a \in G
          PROVE  Cardinality(C(A, a)) < k <=> Cardinality(C(G, a)) < k
      <3>1. CASE C(A, a) = C(G, a)
        BY <3>1
      <3>2. CASE C(A, a) # C(G, a)
        <4>1. PICK b \in S \ H : Closer(data, q, b, a)
          BY <3>2, <1>2
        <4>2. Cardinality(H) = k
          <5>1. H # S
            BY <4>1
          <5> QED BY <5>1, NearestKeepsK
        <4>3. \A h \in H : Closer(data, q, h, b)
          BY <4>1, NearestCloser
        <4>4. \A h \in H : Closer(data, q, h, a)
          BY <4>1, <4>3, <1>1, <1>2, CloserOrder
        <4>5. H \in SUBSET C(G, a) /\ H \in SUBSET C(A, a)
          BY <4>4, <1>2
        <4>6. /\ Cardinality(H) <= Cardinality(C(G, a))
              /\ Cardinality(H) <= Cardinality(C(A, a))
              /\ Cardinality(C(G, a)) \in Nat /\ Cardinality(C(A, a)) \in Nat
          <5>1. a \in A /\ G \in SUBSET A /\ A \in SUBSET A
            BY <1>2, <2>2
          <5> HIDE DEF C, A, G, H
          <5>2. /\ IsFiniteSet(C(G, a)) /\ Cardinality(C(G, a)) \in Nat
                /\ IsFiniteSet(C(A, a)) /\ Cardinality(C(A, a)) \in Nat
            BY <1>3, <5>1
          <5> QED BY <5>2, <4>5, FS_Subset
        <4> HIDE DEF C, A, G, H
        <4> QED BY <4>2, <4>6
      <3> QED BY <3>1, <3>2
    <2>3. Nearest(data, q, A, k) = Nearest(data, q, G, k)
      BY <1>2, <2>1, <2>2 DEF Nearest
    <2>4. PushTopK(data, q, k, H, row) = Nearest(data, q, G, k)
      <3>1. CASE Cardinality(G) <= k
        <4>1. Nearest(data, q, G, k) = G
          <5> HIDE DEF G
          <5> QED BY <1>2, <3>1, NearestAll
        <4>2. ~(Cardinality(G) > k)
          <5> HIDE DEF H
          <5> QED BY <3>1, <1>1, <1>2
        <4> QED BY <4>1, <4>2, <1>5 DEF PushTopK
      <3>2. CASE ~(Cardinality(G) <= k)
        <4>1. Cardinality(G) = k + 1 /\ Cardinality(G) > k
          <5> HIDE DEF H, G
          <5> QED BY <3>2, <1>1, <1>2
        <4>2. PICK m \in G : \A s \in G \ {m} : Closer(data, q, s, m)
          <5>1. G # {}
            OBVIOUS
          <5> HIDE DEF G
          <5> QED BY <1>2, <5>1, FarthestExists
        <4>3. PushTopK(data, q, k, H, row) = G \ {m}
          <5>1. PushTopK(data, q, k, H, row)
                  = {r \in G : \E s \in G : Closer(data, q, r, s)}
            BY <1>5, <4>1 DEF PushTopK
          <5>2. ASSUME NEW r \in G
                PROVE  (\E s \in G : Closer(data, q, r, s)) <=> r # m
            <6> HIDE DEF G
            <6>1. CASE r = m
              <7>1. ASSUME NEW s \in G PROVE ~Closer(data, q, m, s)
                <8>1. s \in R /\ m \in R
                  BY <1>2
                <8>2. s = m \/ Closer(data, q, s, m)
                  BY <4>2
                <8> QED BY <8>1, <8>2, CloserOrder
              <7> QED BY <6>1, <7>1
            <6>2. CASE r # m
              BY <4>2, <6>2
            <6> QED BY <6>1, <6>2
          <5> HIDE DEF G
          <5> QED BY <5>1, <5>2
        <4>4. Nearest(data, q, G, k) = G \ {m}
          <5> DEFINE K == Nearest(data, q, G, k)
          <5>1. K \subseteq G
            BY DEF Nearest
          <5>2. PICK b \in G : b \notin K
            <6>1. CASE K = G
              <7>1. Cardinality(K) <= k
                <8> HIDE DEF G
                <8> QED BY <1>2, NearestBound
              <7> QED BY <6>1, <7>1, <3>2
            <6> QED BY <5>1, <6>1
          <5>3. m \notin K
            <6>1. CASE m \in K
              <7>1. Closer(data, q, m, b)
                <8> HIDE DEF G
                <8> QED BY <1>2, <5>2, <6>1, NearestCloser
              <7> QED BY <7>1, <4>2, <5>2, <6>1, <1>2, CloserOrder
            <6> QED BY <6>1
          <5>4. \A a \in G \ K : a = m
            <6>1. Cardinality(G) <= k + 1
              BY <4>1
            <6> HIDE DEF G
            <6> QED BY <1>2, <6>1, <4>2, <5>3, NearestDropsOne
          <5> QED BY <5>1, <5>3, <5>4
        <4> QED BY <4>3, <4>4
      <3> QED BY <3>1, <3>2
    <2> QED BY <2>3, <2>4
  <1> QED BY <1>4, <1>5

(* A row that is farther than all of k nearest rows changes nothing: what  *)
(* the beam does not admit it would have popped at once.                   *)
LEMMA SkipKeepsNearest ==
  ASSUME NEW R \in SUBSET Nat, NEW data \in [R -> Vector], NEW q \in Vector,
         NEW S \in SUBSET R, IsFiniteSet(S), NEW k \in Nat, NEW row \in R \ S,
         ~(Cardinality(Nearest(data, q, S, k)) < k),
         \A b \in Nearest(data, q, S, k) : ~Closer(data, q, row, b)
  PROVE  Nearest(data, q, S \cup {row}, k) = Nearest(data, q, S, k)
  <1> DEFINE H == Nearest(data, q, S, k)
             A == S \cup {row}
             C(X, a) == {s \in X : Closer(data, q, s, a)}
  <1>1. H \in SUBSET S /\ IsFiniteSet(A) /\ A \in SUBSET R
    <2>1. H \in SUBSET S
      BY NearestBound
    <2> QED BY <2>1, FS_AddElement
  <1>2. \A h \in H : Closer(data, q, h, row)
    <2>1. ASSUME NEW h \in H PROVE Closer(data, q, h, row)
      <3>1. h \in R /\ row \in R /\ h # row
        BY <1>1
      <3>2. ~Closer(data, q, row, h)
        OBVIOUS
      <3> HIDE DEF H
      <3> QED BY <3>1, <3>2, CloserOrder
    <2> QED BY <2>1
  <1>3. \A X \in SUBSET A : \A a \in A :
          /\ IsFiniteSet(C(X, a)) /\ Cardinality(C(X, a)) \in Nat
          /\ \A T \in SUBSET C(X, a) : Cardinality(T) <= Cardinality(C(X, a))
    <2> HIDE DEF A
    <2>1. ASSUME NEW X \in SUBSET A, NEW a \in A
          PROVE  /\ IsFiniteSet(C(X, a)) /\ Cardinality(C(X, a)) \in Nat
                 /\ \A T \in SUBSET C(X, a) : Cardinality(T) <= Cardinality(C(X, a))
      <3>1. C(X, a) \in SUBSET A
        OBVIOUS
      <3> HIDE DEF C
      <3> QED BY <1>1, <3>1, FS_Subset, FS_CardinalityType
    <2> QED BY <2>1
  <1>4. S \in SUBSET A /\ A \in SUBSET A
    OBVIOUS
  <1>5. ASSUME NEW a \in H PROVE Cardinality(C(A, a)) < k
    <2>1. ~Closer(data, q, row, a)
      OBVIOUS
    <2>2. C(A, a) = C(S, a)
      BY <2>1
    <2>3. Cardinality(C(S, a)) < k
      BY DEF Nearest
    <2> QED BY <2>2, <2>3
  <1>6. ASSUME NEW a \in S \ H PROVE ~(Cardinality(C(A, a)) < k)
    <2>1. ~(Cardinality(C(S, a)) < k)
      BY DEF Nearest
    <2>2. C(S, a) \in SUBSET C(A, a) /\ a \in A
      OBVIOUS
    <2> HIDE DEF C, A
    <2> QED BY <1>3, <1>4, <2>1, <2>2
  <1>7. ~(Cardinality(C(A, row)) < k)
    <2>1. H \in SUBSET C(A, row) /\ row \in A
      BY <1>1, <1>2
    <2>2. IsFiniteSet(H) /\ Cardinality(H) \in Nat
      BY NearestBound
    <2> HIDE DEF C, A
    <2>3. Cardinality(H) <= Cardinality(C(A, row)) /\ Cardinality(C(A, row)) \in Nat
      <3> HIDE DEF H
      <3> QED BY <1>3, <1>4, <2>1
    <2>4. ~(Cardinality(H) < k)
      OBVIOUS
    <2> HIDE DEF H
    <2> QED BY <2>2, <2>3, <2>4
  <1>8. \A a \in A : a \in H <=> Cardinality(C(A, a)) < k
    <2> HIDE DEF C
    <2> QED BY <1>1, <1>5, <1>6, <1>7
  <1> QED BY <1>1, <1>8 DEF Nearest

(* A heap within its capacity stays within it when a row is pushed.        *)
LEMMA PushTopKBound ==
  ASSUME NEW R \in SUBSET Nat, NEW data \in [R -> Vector], NEW q \in Vector,
         NEW heap \in SUBSET R, IsFiniteSet(heap), NEW row \in R, NEW k \in Nat,
         Cardinality(heap) <= k
  PROVE  /\ PushTopK(data, q, k, heap, row) \subseteq heap \cup {row}
         /\ Cardinality(PushTopK(data, q, k, heap, row)) <= k
  <1> DEFINE grown == heap \cup {row}
             P == PushTopK(data, q, k, heap, row)
  <1>1. /\ IsFiniteSet(grown) /\ Cardinality(grown) \in Nat
        /\ Cardinality(grown) <= Cardinality(heap) + 1
        /\ Cardinality(heap) \in Nat
    <2>1. IsFiniteSet(grown) /\ Cardinality(heap) \in Nat
      BY FS_AddElement, FS_CardinalityType
    <2>2. Cardinality(grown) = IF row \in heap THEN Cardinality(heap) ELSE Cardinality(heap) + 1
      BY FS_AddElement
    <2> QED BY <2>1, <2>2
  <1>2. CASE k # 0 /\ Cardinality(grown) > k
    <2>1. PICK m \in grown : \A s \in grown \ {m} : Closer(data, q, s, m)
      <3>1. grown \in SUBSET R /\ grown # {}
        OBVIOUS
      <3> HIDE DEF grown
      <3> QED BY <1>1, <3>1, FarthestExists
    <2>2. P = {r \in grown : \E s \in grown : Closer(data, q, r, s)}
      BY <1>2 DEF PushTopK
    <2>3. m \notin P
      BY <2>1, <2>2, CloserOrder
    <2>4. P \in SUBSET (grown \ {m})
      BY <2>2, <2>3
    <2>5. /\ IsFiniteSet(grown \ {m})
          /\ Cardinality(grown \ {m}) = Cardinality(grown) - 1
      BY <1>1, <2>1, FS_RemoveElement
    <2>6. Cardinality(P) <= Cardinality(grown) - 1 /\ IsFiniteSet(P)
      BY <2>4, <2>5, FS_Subset
    <2>7. Cardinality(P) \in Nat
      BY <2>6, FS_CardinalityType
    <2>8. P \subseteq grown
      BY <2>4
    <2> HIDE DEF P, grown
    <2> QED BY <1>1, <2>6, <2>7, <2>8 DEF P, grown
  <1>3. CASE ~(k # 0 /\ Cardinality(grown) > k)
    BY <1>1, <1>3 DEF PushTopK
  <1> QED BY <1>2, <1>3
-----------------------------------------------------------------------------
(* The image of a finite set is finite, and as large if nothing meets.     *)
LEMMA FiniteImage ==
  ASSUME NEW S, IsFiniteSet(S), NEW f, DOMAIN f = S
  PROVE  /\ IsFiniteSet({f[x] : x \in S})
         /\ (\A x, y \in S : f[x] = f[y] => x = y) => Cardinality({f[x] : x \in S}) = Cardinality(S)
  <1> DEFINE T == {f[x] : x \in S}
             g == [x \in S |-> f[x]]
  <1>1. g \in Surjection(S, T)
    BY DEF Surjection
  <1>2. (\A x, y \in S : f[x] = f[y] => x = y) => g \in Injection(S, T)
    BY DEF Injection, IsInjective
  <1> HIDE DEF T, g
  <1>3. /\ IsFiniteSet(T)
        /\ g \in Injection(S, T) => Cardinality(T) = Cardinality(S)
    BY <1>1, FS_Surjection
  <1> QED BY <1>2, <1>3 DEF T

(* A function over the first numbers is a sequence of that length.         *)
LEMMA LengthOf ==
  ASSUME NEW n \in Nat, NEW S, NEW f \in [1 .. n -> S]
  PROVE  f \in Seq(S) /\ Len(f) = n
  <1>1. f \in Seq(S)
    BY SeqDef
  <1>2. Len(f) \in Nat /\ 1 .. Len(f) = 1 .. n
    BY <1>1, LenProperties
  <1>3. Len(f) = n
    <2>1. \A m \in Nat : m <= Len(f) /\ m >= 1 <=> m <= n /\ m >= 1
      BY <1>2
    <2> QED BY <1>2, <2>1
  <1> QED BY <1>1, <1>3

(* Before[a] are the elements of S before a in a strict total order.       *)
IsOrder(S, Before) ==
  /\ Before \in [S -> SUBSET S]
  /\ \A a \in S : a \notin Before[a]
  /\ \A a, b \in S : a # b => a \in Before[b] \/ b \in Before[a]
  /\ \A a \in S : \A b \in Before[a] : Before[b] \subseteq Before[a]

(* The elements of a finite set have the ranks 0, 1, 2 and so on in it.    *)
LEMMA Ranks ==
  ASSUME NEW S, IsFiniteSet(S), NEW Before, IsOrder(S, Before)
  PROVE  /\ Cardinality(S) \in Nat
         /\ \A a \in S : Cardinality(Before[a]) \in 0 .. Cardinality(S) - 1
         /\ \A a, b \in S :
              a \in Before[b] <=> Cardinality(Before[a]) < Cardinality(Before[b])
         /\ \A place \in 0 .. Cardinality(S) - 1 :
              \E a \in S : Cardinality(Before[a]) = place
  <1>1. Cardinality(S) \in Nat
    BY FS_CardinalityType
  <1>2. \A a \in S : IsFiniteSet(Before[a]) /\ Cardinality(Before[a]) \in Nat
    BY FS_Subset, FS_CardinalityType DEF IsOrder
  <1>3. ASSUME NEW a \in S PROVE Cardinality(Before[a]) \in 0 .. Cardinality(S) - 1
    <2>1. Before[a] \subseteq S \ {a}
      BY DEF IsOrder
    <2>2. IsFiniteSet(S \ {a}) /\ Cardinality(S \ {a}) = Cardinality(S) - 1
      BY FS_RemoveElement
    <2>3. Cardinality(Before[a]) <= Cardinality(S) - 1
      BY <2>1, <2>2, FS_Subset
    <2> QED BY <1>1, <1>2, <2>3
  <1>4. ASSUME NEW a \in S, NEW b \in S, a \in Before[b]
        PROVE  Cardinality(Before[a]) < Cardinality(Before[b])
    <2>1. Before[a] \cup {a} \subseteq Before[b] /\ a \notin Before[a]
      BY <1>4 DEF IsOrder
    <2>2. Cardinality(Before[a] \cup {a}) = Cardinality(Before[a]) + 1
      BY <1>2, <2>1, FS_AddElement
    <2>3. Cardinality(Before[a] \cup {a}) <= Cardinality(Before[b])
      BY <1>2, <2>1, FS_Subset
    <2> QED BY <1>2, <2>2, <2>3
  <1>5. ASSUME NEW a \in S, NEW b \in S, Cardinality(Before[a]) < Cardinality(Before[b])
        PROVE  a \in Before[b]
    <2>1. a # b /\ b \notin Before[a]
      BY <1>2, <1>4, <1>5
    <2> QED BY <2>1 DEF IsOrder
  <1>6. ASSUME NEW place \in 0 .. Cardinality(S) - 1
        PROVE  \E a \in S : Cardinality(Before[a]) = place
    <2> DEFINE places == 0 .. Cardinality(S) - 1
               rank == [a \in S |-> Cardinality(Before[a])]
    <2>1. rank \in [S -> places]
      BY <1>3
    <2>2. \A a, b \in S : rank[a] = rank[b] => a = b
      <3> SUFFICES ASSUME NEW a \in S, NEW b \in S, a # b
                   PROVE  Cardinality(Before[a]) # Cardinality(Before[b])
        OBVIOUS
      <3>1. a \in Before[b] \/ b \in Before[a]
        BY DEF IsOrder
      <3> QED BY <1>2, <1>4, <3>1
    <2>3. IsFiniteSet(places) /\ Cardinality(places) = Cardinality(S)
      BY <1>1, FS_Interval
    <2>4. rank \in Injection(S, places)
      BY <2>1, <2>2 DEF Injection, IsInjective
    <2>5. rank \in Surjection(S, places)
      BY <2>3, <2>4, FS_Injection
    <2>6. \E a \in S : rank[a] = place
      BY <2>5 DEF Surjection
    <2> QED BY <2>6
  <1> QED BY <1>1, <1>3, <1>4, <1>5, <1>6

(* A sequence that has the first k elements of a set at their ranks has    *)
(* them in order, each once, and leaves out only elements after them.      *)
LEMMA InRankOrder ==
  ASSUME NEW S, IsFiniteSet(S), NEW Before, IsOrder(S, Before),
         NEW k \in 0 .. Cardinality(S), NEW f,
         \A n \in 1 .. k : f[n] \in S /\ Cardinality(Before[f[n]]) = n - 1
  PROVE  /\ \A m, n \in 1 .. k : m < n => f[m] \in Before[f[n]] /\ f[m] # f[n]
         /\ \A a \in S : (\A n \in 1 .. k : f[n] # a) => \A n \in 1 .. k : f[n] \in Before[a]
         /\ k = Cardinality(S) => \A a \in S : \E n \in 1 .. k : f[n] = a
  <1>1. Cardinality(S) \in Nat
    BY Ranks
  <1>2. \A a, b \in S : a \in Before[b] <=> Cardinality(Before[a]) < Cardinality(Before[b])
    BY Ranks
  <1>3. \A a \in S : Cardinality(Before[a]) \in 0 .. Cardinality(S) - 1
    BY Ranks
  <1>4. \A a, b \in S : a # b => Cardinality(Before[a]) # Cardinality(Before[b])
    BY <1>2, <1>3 DEF IsOrder
  <1>5. \A m, n \in 1 .. k : m < n => f[m] \in Before[f[n]] /\ f[m] # f[n]
    BY <1>1, <1>2
  <1>6. ASSUME NEW a \in S, Cardinality(Before[a]) < k
        PROVE  \E n \in 1 .. k : f[n] = a
    <2> DEFINE n == Cardinality(Before[a]) + 1
    <2>1. n \in 1 .. k /\ n - 1 = Cardinality(Before[a])
      BY <1>1, <1>3, <1>6
    <2>2. f[n] \in S /\ Cardinality(Before[f[n]]) = Cardinality(Before[a])
      BY <2>1
    <2> QED BY <1>4, <2>1, <2>2
  <1>7. ASSUME NEW a \in S, \A n \in 1 .. k : f[n] # a, NEW n \in 1 .. k
        PROVE  f[n] \in Before[a]
    <2>1. Cardinality(Before[a]) >= k
      BY <1>1, <1>3, <1>6, <1>7
    <2>2. Cardinality(Before[f[n]]) < k
      BY <1>1
    <2> QED BY <1>1, <1>2, <1>3, <2>1, <2>2
  <1> QED BY <1>1, <1>3, <1>5, <1>6, <1>7
=============================================================================
