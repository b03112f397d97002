----------------------------- MODULE IvfProofs -----------------------------
(***************************************************************************)
(* What the inverted lists guarantee, for every dataset, metric, number of *)
(* partitions and rounds, and every k and probes; and what the product     *)
(* codes of their rows add, for every number of slices and codewords.  The *)
(* parts before Dim is defined cite none of Pq's assumptions.              *)
(***************************************************************************)
EXTENDS Pq, NeighborOrderProofs, WellFoundedInduction

(* The rows and the partitions are finite sets of naturals.                *)
LEMMA FiniteRows ==
  /\ Rows \in SUBSET Nat /\ Parts \in SUBSET Nat /\ 0 \in Parts
  /\ \A S \in SUBSET Rows : IsFiniteSet(S) /\ Cardinality(S) \in Nat
  /\ IsFiniteSet(Parts) /\ Cardinality(Parts) = Partitions
  /\ \A P \in SUBSET Parts : IsFiniteSet(P) /\ Cardinality(P) \in Nat
  <1>1. N \in Nat /\ Partitions \in Nat \ {0}
    BY IvfConfigAssumption
  <1>2. IsFiniteSet(Rows) /\ IsFiniteSet(Parts) /\ Cardinality(Parts) = Partitions
    BY <1>1, FS_Interval DEF Rows, Parts
  <1>3. \A S \in SUBSET Rows : IsFiniteSet(S) /\ Cardinality(S) \in Nat
    BY <1>2, FS_Subset, FS_CardinalityType
  <1>4. \A P \in SUBSET Parts : IsFiniteSet(P) /\ Cardinality(P) \in Nat
    BY <1>2, FS_Subset, FS_CardinalityType
  <1> QED BY <1>1, <1>2, <1>3, <1>4 DEF Rows, Parts

(* nearest_centroid finds one, and no centroid is closer.                  *)
LEMMA NearestCentroidExists ==
  ASSUME NEW cs \in [Parts -> Vector], NEW v \in Vector
  PROVE  /\ NearestCentroid(cs, v) \in Parts
         /\ \A o \in Parts : ~Closer(cs, v, o, NearestCentroid(cs, v))
  <1>1. PICK m \in Parts : \A o \in Parts \ {m} : Closer(cs, v, m, o)
    BY FiniteRows, NearestExists
  <1>2. \A o \in Parts : ~Closer(cs, v, o, m)
    <2>1. ASSUME NEW o \in Parts PROVE ~Closer(cs, v, o, m)
      <3>1. o = m \/ Closer(cs, v, m, o)
        BY <1>1
      <3> QED BY <3>1, FiniteRows, CloserOrder
    <2> QED BY <2>1
  <1> QED BY <1>2 DEF NearestCentroid

-----------------------------------------------------------------------------
(* Where the training stands: an update belongs to one of the rounds.      *)
InRound == phase = "update" => round < Iterations

(* Where a query stands: the heap holds the nearest of the rows scored so  *)
(* far, and the probed partitions are the ones nearest to the query.       *)
QueryOK ==
  /\ pending \subseteq UNION {lists[p] : p \in probed}
  /\ heap = Nearest(dataset, query, Scored, k)
  /\ \A p \in probed : \A o \in Parts \ probed : Closer(centroids, query, p, o)
  /\ phase = "answered" => pending = {} /\ Cardinality(probed) = probes

(* The inductive invariant.  That the heap is right needs that no row is   *)
(* on two lists, or a row would be pushed twice.                           *)
IInv ==
  /\ TypeOK
  /\ InRound
  /\ ListsFollowCentroids
  /\ phase \in {"search", "answered"} => QueryOK

LEMMA InitInv == Init => IInv
  <1> SUFFICES ASSUME Init PROVE IInv
    OBVIOUS
  <1>1. PICK seed \in [Parts -> Rows] : centroids = [p \in Parts |-> dataset[seed[p]]]
    BY DEF Init
  <1>2. \A r \in Rows : dataset[r] \in Vector /\ (Spherical => ~IsZero(dataset[r]))
    BY IvfConfigAssumption DEF Init
  <1>3. /\ centroids \in [Parts -> Vector]
        /\ Spherical => \A p \in Parts : ~IsZero(centroids[p])
    BY <1>1, <1>2
  <1>4. query \in Queries /\ k \in 0 .. N /\ probes \in 1 .. Partitions
    BY IvfConfigAssumption DEF Init
  <1>5. partition \in Parts /\ round \in 0 .. Iterations
    BY FiniteRows, IvfConfigAssumption DEF Init
  <1>6. TypeOK
    BY <1>3, <1>4, <1>5 DEF Init, TypeOK
  <1> QED BY <1>6 DEF IInv, Init, InRound, ListsFollowCentroids, Built

(* What the training steps leave alone.                                    *)
LEMMA TrainingSteps ==
  ASSUME IInv,
         phase \in {"assign", "update"}, phase' \in {"assign", "update", "fill"},
         UNCHANGED <<dataset, lists, queryVars>>,
         round' \in 0 .. Iterations, partition' \in Parts,
         assignments' \in [Rows -> Parts \cup {NoPart}],
         centroids' \in [Parts -> Vector],
         Spherical => \A p \in Parts : ~IsZero(centroids'[p]),
         InRound'
  PROVE  IInv'
  BY DEF IInv, TypeOK, queryVars, ListsFollowCentroids, Built

LEMMA AssignInv == IInv /\ Assign => IInv'
  <1> SUFFICES ASSUME IInv, Assign PROVE IInv'
    OBVIOUS
  <1>1. \A r \in Rows : dataset[r] \in Vector
    BY IvfConfigAssumption DEF IInv, TypeOK
  <1>2. NextAssignments \in [Rows -> Parts]
    BY <1>1, NearestCentroidExists DEF IInv, TypeOK, NextAssignments
  <1>3. partition' \in Parts /\ assignments' \in [Rows -> Parts \cup {NoPart}]
    BY <1>2, FiniteRows DEF Assign
  <1>4. InRound'
    BY DEF Assign, InRound
  <1> QED BY <1>3, <1>4, TrainingSteps DEF IInv, TypeOK, Assign

LEMMA StopInv == IInv /\ (Converged \/ IterationsDone) => IInv'
  <1> SUFFICES ASSUME IInv, Converged \/ IterationsDone PROVE IInv'
    OBVIOUS
  <1>1. /\ phase = "assign" /\ phase' = "fill"
        /\ UNCHANGED <<trainVars, lists, queryVars>>
    BY DEF Converged, IterationsDone
  <1>2. InRound'
    BY <1>1 DEF InRound
  <1> QED BY <1>1, <1>2, TrainingSteps DEF IInv, TypeOK, trainVars

(* A centroid that moves to a vector of the metric's domain.               *)
LEMMA MoveInv ==
  ASSUME IInv, phase = "update", NEW v \in Vector, Spherical => ~IsZero(v),
         MoveCentroid(v), NextPartition,
         UNCHANGED <<dataset, assignments, lists, queryVars>>
  PROVE  IInv'
  <1>1. /\ centroids' \in [Parts -> Vector]
        /\ Spherical => \A p \in Parts : ~IsZero(centroids'[p])
    BY DEF IInv, TypeOK, MoveCentroid
  <1>2. /\ phase' \in {"assign", "update"}
        /\ round' \in 0 .. Iterations /\ partition' \in Parts
        /\ InRound'
    <2>1. /\ round \in Nat /\ round < Iterations /\ Iterations \in Nat
          /\ partition \in Nat /\ partition < Partitions /\ Partitions \in Nat \ {0}
      BY IvfConfigAssumption DEF IInv, InRound, TypeOK, Parts
    <2> QED BY <2>1 DEF NextPartition, InRound, Parts
  <1> QED BY <1>1, <1>2, TrainingSteps DEF IInv, TypeOK

LEMMA UpdateInv == IInv /\ (Reseed \/ Recenter \/ RecenterOnRow) => IInv'
  <1> SUFFICES ASSUME IInv, Reseed \/ Recenter \/ RecenterOnRow PROVE IInv'
    OBVIOUS
  <1>1. /\ phase = "update" /\ NextPartition
        /\ UNCHANGED <<dataset, assignments, lists, queryVars>>
    BY DEF Reseed, Recenter, RecenterOnRow
  <1>2. \A r \in Rows : dataset[r] \in Vector /\ (Spherical => ~IsZero(dataset[r]))
    BY IvfConfigAssumption DEF IInv, TypeOK
  <1>3. \E v \in Vector : (Spherical => ~IsZero(v)) /\ MoveCentroid(v)
    <2>1. CASE Reseed
      BY <1>2, <2>1 DEF Reseed
    <2>2. CASE Recenter
      <3>1. Assigned(partition) \in (SUBSET Rows) \ {{}}
        BY <2>2 DEF Recenter, Assigned
      <3>2. dataset \in [Rows -> Stored]
        BY DEF IInv, TypeOK
      <3>3. \/ Mean(dataset, Assigned(partition)) \in Vector
            \/ Spherical /\ IsZero(Mean(dataset, Assigned(partition)))
        BY <3>1, <3>2, MeanAssumption
      <3> QED BY <2>2, <3>3 DEF Recenter
    <2>3. CASE RecenterOnRow
      BY <1>2, <2>3 DEF RecenterOnRow, Assigned
    <2> QED BY <2>1, <2>2, <2>3
  <1> QED BY <1>1, <1>3, MoveInv

LEMMA FillListsInv == IInv /\ FillLists => IInv'
  <1> SUFFICES ASSUME IInv, FillLists PROVE IInv'
    OBVIOUS
  <1>1. TypeOK' /\ InRound' /\ phase' = "ready" /\ UNCHANGED <<trainVars, queryVars>>
    BY DEF IInv, TypeOK, FillLists, InRound, trainVars, queryVars
  <1>2. ListsFollowCentroids'
    <2>1. ASSUME NEW r \in Rows
          PROVE  \E p \in Parts :
                   /\ \A o \in Parts : r \in lists'[o] <=> o = p
                   /\ \A o \in Parts : ~Closer(centroids, dataset[r], o, p)
      <3> DEFINE p == NearestCentroid(centroids, dataset[r])
      <3>1. dataset[r] \in Vector /\ centroids \in [Parts -> Vector]
        BY IvfConfigAssumption DEF IInv, TypeOK
      <3>2. p \in Parts /\ \A o \in Parts : ~Closer(centroids, dataset[r], o, p)
        BY <3>1, NearestCentroidExists
      <3>3. \A o \in Parts : r \in lists'[o] <=> o = p
        BY DEF FillLists
      <3> QED BY <3>2, <3>3
    <2>2. dataset' = dataset /\ centroids' = centroids
      BY <1>1 DEF trainVars
    <2> QED BY <2>1, <2>2 DEF ListsFollowCentroids
  <1> QED BY <1>1, <1>2 DEF IInv

LEMMA QueryInv == IInv /\ Query => IInv'
  <1> SUFFICES ASSUME IInv, Query PROVE IInv'
    OBVIOUS
  <1>1. PICK asked \in Ks : k' = IF asked < N THEN asked ELSE N
    BY DEF Query
  <1>2. k' \in 0 .. N /\ probes' \in 1 .. Partitions /\ query' \in Queries
    BY <1>1, IvfConfigAssumption DEF Query
  <1>3. /\ probed' = {} /\ pending' = {} /\ heap' = {} /\ phase' = "search"
        /\ UNCHANGED <<dataset, round, centroids, assignments, partition, lists>>
    BY DEF Query, trainVars
  <1>4. TypeOK' /\ InRound'
    BY <1>2, <1>3 DEF IInv, TypeOK, InRound
  <1>5. ListsFollowCentroids'
    BY <1>3 DEF IInv, ListsFollowCentroids, Built, Query
  <1>6. QueryOK'
    <2>1. Scored' = {}
      BY <1>3 DEF Scored
    <2>2. Nearest(dataset', query', {}, k') = {}
      BY DEF Nearest
    <2> QED BY <1>3, <2>1, <2>2 DEF QueryOK
  <1> QED BY <1>4, <1>5, <1>6 DEF IInv

(* A list that is begun has no row of the lists begun before.              *)
LEMMA ProbeInv == IInv /\ Probe => IInv'
  <1> SUFFICES ASSUME IInv, Probe PROVE IInv'
    OBVIOUS
  <1>1. PICK p \in Parts : NextProbe(p) /\ probed' = probed \cup {p} /\ pending' = lists[p]
    BY DEF Probe
  <1>2. /\ phase = "search" /\ pending = {}
        /\ UNCHANGED <<phase, trainVars, lists, query, k, probes, heap>>
    BY DEF Probe
  <1>3. TypeOK' /\ InRound' /\ ListsFollowCentroids'
    BY <1>1, <1>2 DEF IInv, TypeOK, InRound, ListsFollowCentroids, Built, trainVars
  <1>4. QueryOK
    BY <1>2 DEF IInv
  <1>5. Scored' = Scored
    <2>1. \A o \in probed : lists[o] \cap lists[p] = {}
      <3>1. probed \subseteq Parts /\ p \notin probed /\ lists \in [Parts -> SUBSET Rows]
        BY <1>1 DEF IInv, TypeOK, NextProbe
      <3>2. \A r \in Rows : \E c \in Parts : \A o \in Parts : r \in lists[o] <=> o = c
        BY <1>2 DEF IInv, ListsFollowCentroids, Built
      <3> QED BY <3>1, <3>2
    <2>2. lists' = lists
      BY <1>2
    <2> QED BY <1>1, <1>2, <2>1, <2>2 DEF Scored
  <1>6. \A c \in probed' : \A o \in Parts \ probed' : Closer(centroids, query, c, o)
    <2>1. ASSUME NEW o \in Parts \ probed' PROVE Closer(centroids, query, p, o)
      <3>1. o \in Parts \ probed /\ o # p
        BY <1>1, <2>1
      <3>2. ~Closer(centroids, query, o, p)
        BY <1>1, <3>1 DEF NextProbe
      <3>3. centroids \in [Parts -> Vector] /\ query \in Vector /\ Parts \in SUBSET Nat
        BY IvfConfigAssumption, FiniteRows DEF IInv, TypeOK
      <3> QED BY <3>1, <3>2, <3>3, CloserOrder
    <2> QED BY <1>1, <1>4, <2>1 DEF QueryOK
  <1>7. QueryOK'
    BY <1>1, <1>2, <1>4, <1>5, <1>6 DEF QueryOK, trainVars
  <1> QED BY <1>3, <1>7 DEF IInv

(* A scored row joins the rows the heap has the nearest of.                *)
LEMMA ScoreInv == IInv /\ Score => IInv'
  <1> SUFFICES ASSUME IInv, Score PROVE IInv'
    OBVIOUS
  <1>1. PICK r \in pending : /\ heap' = PushTopK(dataset, query, k, heap, r)
                             /\ pending' = pending \ {r}
    BY DEF Score
  <1>2. /\ phase = "search"
        /\ UNCHANGED <<phase, trainVars, lists, query, k, probes, probed>>
    BY DEF Score
  <1>3. QueryOK
    BY <1>2 DEF IInv
  <1>4. /\ Scored \in SUBSET Rows /\ r \in Rows \ Scored
        /\ Scored' = Scored \cup {r}
    <2>1. /\ UNION {lists[p] : p \in probed} \subseteq Rows
          /\ r \in UNION {lists[p] : p \in probed}
      BY <1>3 DEF QueryOK, IInv, TypeOK
    <2>2. lists' = lists /\ probed' = probed
      BY <1>2
    <2> DEFINE L == UNION {lists[p] : p \in probed}
    <2>3. Scored = L \ pending /\ Scored' = L \ pending'
      BY <2>2 DEF Scored
    <2> HIDE DEF L
    <2>4. L \subseteq Rows /\ r \in L
      BY <2>1 DEF L
    <2> QED BY <1>1, <2>3, <2>4
  <1>5. heap' = Nearest(dataset, query, Scored', k)
    <2>1. /\ Rows \in SUBSET Nat /\ IsFiniteSet(Scored)
          /\ dataset \in [Rows -> Vector] /\ query \in Vector /\ k \in Nat
      BY <1>4, FiniteRows, IvfConfigAssumption DEF IInv, TypeOK
    <2>2. PushTopK(dataset, query, k, Nearest(dataset, query, Scored, k), r)
            = Nearest(dataset, query, Scored \cup {r}, k)
      BY <1>4, <2>1, PushKeepsNearest
    <2> QED BY <1>1, <1>3, <1>4, <2>2 DEF QueryOK
  <1>6. TypeOK' /\ InRound' /\ ListsFollowCentroids'
    <2>1. heap' \subseteq Rows
      BY <1>4, <1>5 DEF Nearest
    <2> QED BY <1>1, <1>2, <2>1
            DEF IInv, TypeOK, InRound, ListsFollowCentroids, Built, trainVars
  <1>7. QueryOK'
    <2>1. UNCHANGED <<dataset, query, k, centroids, probed, lists, phase>>
      BY <1>2 DEF trainVars
    <2>2. pending' \subseteq UNION {lists[p] : p \in probed}
      BY <1>1, <1>3 DEF QueryOK
    <2> QED BY <1>2, <1>3, <1>5, <2>1, <2>2 DEF QueryOK
  <1> QED BY <1>6, <1>7 DEF IInv

LEMMA AnswerInv == IInv /\ Answer => IInv'
  <1> SUFFICES ASSUME IInv, Answer PROVE IInv'
    OBVIOUS
  <1>1. TypeOK' /\ InRound' /\ ListsFollowCentroids'
    BY DEF IInv, Answer, TypeOK, InRound, ListsFollowCentroids, Built, trainVars, queryVars
  <1>2. QueryOK'
    BY DEF IInv, Answer, QueryOK, Scored, trainVars, queryVars
  <1> QED BY <1>1, <1>2 DEF IInv

(* IInv is inductive.                                                      *)
LEMMA StepInv == IInv /\ [Next]_vars => IInv'
  <1>1. CASE UNCHANGED vars
    BY <1>1 DEF IInv, vars, trainVars, queryVars, TypeOK, InRound, ListsFollowCentroids,
                Built, QueryOK, Scored
  <1>2. CASE Next
    BY <1>2, AssignInv, StopInv, UpdateInv, FillListsInv, QueryInv, ProbeInv, ScoreInv,
       AnswerInv DEF Next, Train, Search
  <1> QED BY <1>1, <1>2

LEMMA Invariant == Spec => []IInv
  BY InitInv, StepInv, PTL DEF Spec

-----------------------------------------------------------------------------
(* No index and no query leaves its types, and no centroid of a cosine     *)
(* index is ever zero (vector-db/core/src/ivf.rs:93-99).                   *)
THEOREM TypeCorrect == Spec => []TypeOK
  <1>1. IInv => TypeOK
    BY DEF IInv
  <1> QED BY <1>1, Invariant, PTL

(* Every row is on one list, that of a nearest centroid, as soon as there  *)
(* are lists (vector-db/core/src/ivf.rs:103-106).                          *)
THEOREM ListsAreRight == Spec => []ListsFollowCentroids
  <1>1. IInv => ListsFollowCentroids
    BY DEF IInv
  <1> QED BY <1>1, Invariant, PTL

(* An answer is the nearest rows of the probed lists, and of all rows when *)
(* every partition was probed (vector-db/core/src/ivf.rs:149-157).         *)
THEOREM AnswersNearest == Spec => []AnswerIsNearestProbed
  <1>1. ASSUME IInv, phase = "answered"
        PROVE  /\ Cardinality(probed) = probes
               /\ heap = Nearest(dataset, query, UNION {lists[p] : p \in probed}, k)
               /\ probes = Partitions => heap = Nearest(dataset, query, Rows, k)
    <2>1. QueryOK /\ probed \in SUBSET Parts /\ lists \in [Parts -> SUBSET Rows]
      BY <1>1 DEF IInv, TypeOK
    <2>2. Cardinality(probed) = probes /\ Scored = UNION {lists[p] : p \in probed}
      BY <1>1, <2>1 DEF QueryOK, Scored
    <2>3. CASE probes = Partitions
      <3>1. probed = Parts
        BY <2>1, <2>2, <2>3, FiniteRows, FS_Subset
      <3>2. \A r \in Rows : \E p \in Parts : r \in lists[p]
        BY <1>1 DEF IInv, ListsFollowCentroids, Built
      <3>3. UNION {lists[p] : p \in probed} = Rows
        BY <2>1, <3>1, <3>2
      <3> QED BY <2>1, <2>2, <3>3 DEF QueryOK
    <2> QED BY <2>1, <2>2, <2>3 DEF QueryOK
  <1>2. IInv => AnswerIsNearestProbed
    BY <1>1 DEF AnswerIsNearestProbed
  <1> QED BY <1>2, Invariant, PTL

(* A query that equals a stored row finds it or k closer ones, however few *)
(* lists it probes (vector-db/core/src/ivf.rs:105, 147).                   *)
THEOREM StoredRowsFound == Spec => []SelfQueryFindsRow
  <1>1. ASSUME IInv, phase = "answered", NEW r \in Rows, dataset[r] = query, r \notin heap
        PROVE  /\ Cardinality(heap) = k
               /\ \A s \in heap : Closer(dataset, query, s, r)
    <2>1. /\ QueryOK /\ probed \in SUBSET Parts /\ lists \in [Parts -> SUBSET Rows]
          /\ centroids \in [Parts -> Vector] /\ dataset \in [Rows -> Vector]
          /\ query \in Vector /\ k \in Nat /\ probes > 0
      BY <1>1, IvfConfigAssumption DEF IInv, TypeOK
    <2>2. PICK p \in Parts : /\ r \in lists[p]
                             /\ \A o \in Parts : ~Closer(centroids, query, o, p)
      BY <1>1 DEF IInv, ListsFollowCentroids, Built
    <2>3. p \in probed
      <3>1. probed # {}
        <4>1. Cardinality(probed) = probes
          BY <1>1, <2>1 DEF QueryOK
        <4>2. Cardinality(probed) # 0
          BY <2>1, <4>1
        <4> QED BY <4>2, FS_EmptySet
      <3>2. \A o \in probed : p \in probed \/ Closer(centroids, query, o, p)
        BY <2>1 DEF QueryOK
      <3> QED BY <2>1, <2>2, <3>1, <3>2
    <2>4. Scored \in SUBSET Rows /\ r \in Scored
      BY <1>1, <2>1, <2>2, <2>3 DEF QueryOK, Scored
    <2>5. heap = Nearest(dataset, query, Scored, k)
      BY <2>1 DEF QueryOK
    <2>6. IsFiniteSet(Scored) /\ Rows \in SUBSET Nat
      BY <2>4, FiniteRows
    <2>7. Cardinality(heap) = k
      <3>1. Nearest(dataset, query, Scored, k) # Scored
        BY <1>1, <2>4, <2>5
      <3> QED BY <2>1, <2>4, <2>5, <2>6, <3>1, NearestKeepsK
    <2>8. \A s \in heap : Closer(dataset, query, s, r)
      BY <1>1, <2>1, <2>4, <2>5, <2>6, NearestCloser
    <2> QED BY <2>7, <2>8
  <1>2. IInv => SelfQueryFindsRow
    BY <1>1 DEF SelfQueryFindsRow
  <1> QED BY <1>2, Invariant, PTL

-----------------------------------------------------------------------------
(* A nonempty family of subsets of a finite set has a minimal member.      *)
LEMMA MinimalSet ==
  ASSUME NEW S, IsFiniteSet(S), NEW F \in SUBSET SUBSET S, F # {}
  PROVE  \E T \in F : \A U \in SUBSET T : U # T => U \notin F
  <1>1. IsWellFoundedOn(StrictSubsetOrdering(S), SUBSET S)
    BY FS_StrictSubsetOrderingWellFounded, FS_FiniteSubsetsOfFinite
  <1>2. PICK T \in F : \A U \in F : <<U, T>> \notin StrictSubsetOrdering(S)
    BY <1>1, WFMin
  <1>3. \A U \in SUBSET T : U # T => U \notin F
    BY <1>2 DEF StrictSubsetOrdering
  <1> QED BY <1>3

(* The recursive function that SumFunctionOnSet(f, S) applies to S.        *)
Any(s) == CHOOSE x \in s : TRUE

Sums(f, S, g) ==
  g = [s \in SUBSET S |-> IF s = {} THEN 0 ELSE f[Any(s)] + g[s \ {Any(s)}]]

(* SumFunctionOnSet is the application of such a function.                 *)
LEMMA SumUnfolds ==
  ASSUME NEW f, NEW S
  PROVE  SumFunctionOnSet(f, S) = (CHOOSE g : Sums(f, S, g))[S]
  BY DEF SumFunctionOnSet, FoldFunctionOnSet, MapThenFoldSet, Sums, Any

(* Two of them agree where both are defined ...                            *)
LEMMA SumsAgree ==
  ASSUME NEW f, NEW S, IsFiniteSet(S), NEW g, NEW h, NEW A, NEW B,
         Sums(f, A, g), Sums(f, B, h), S \subseteq A, S \subseteq B
  PROVE  g[S] = h[S]
  <1> DEFINE F == {s \in SUBSET S : g[s] # h[s]}
  <1>1. CASE F = {}
    BY <1>1
  <1>2. CASE F # {}
    <2>1. PICK T \in F : \A U \in SUBSET T : U # T => U \notin F
      <3> HIDE DEF F
      <3>1. F \in SUBSET SUBSET S
        BY DEF F
      <3> QED BY <1>2, <3>1, MinimalSet
    <2>2. T # {}
      BY DEF Sums
    <2>3. Any(T) \in T
      BY <2>2 DEF Any
    <2>4. g[T \ {Any(T)}] = h[T \ {Any(T)}]
      BY <2>1, <2>3
    <2>5. T \in SUBSET A /\ T \in SUBSET B
      OBVIOUS
    <2>6. g[T] = f[Any(T)] + g[T \ {Any(T)}]
      BY <2>2, <2>5 DEF Sums
    <2>7. h[T] = f[Any(T)] + h[T \ {Any(T)}]
      BY <2>2, <2>5 DEF Sums
    <2> QED BY <2>1, <2>4, <2>6, <2>7
  <1> QED BY <1>1, <1>2

(* ... and there is one for every finite set.                              *)
LEMMA SumsExist ==
  ASSUME NEW f, NEW S, IsFiniteSet(S)
  PROVE  \E g : Sums(f, S, g)
  <1> DEFINE F == {s \in SUBSET S : ~\E g : Sums(f, s, g)}
  <1> SUFFICES ASSUME F # {} PROVE FALSE
    OBVIOUS
  <1>1. PICK T \in F : \A U \in SUBSET T : U # T => U \notin F
    <2> HIDE DEF F
    <2>1. F \in SUBSET SUBSET S
      BY DEF F
    <2> QED BY <2>1, MinimalSet
  <1> DEFINE G(U) == CHOOSE g : Sums(f, U, g)
             v == f[Any(T)] + G(T \ {Any(T)})[T \ {Any(T)}]
             h == [s \in SUBSET T |-> IF s = {} THEN 0
                                      ELSE IF s = T THEN v ELSE G(s)[s]]
  <1>2. \A U \in SUBSET T : U # T => Sums(f, U, G(U))
    <2>1. \A U \in SUBSET T : U # T => \E g : Sums(f, U, g)
      BY <1>1
    <2> QED BY <2>1
  <1>3. ASSUME NEW s \in SUBSET T, s # {}
        PROVE  h[s] = f[Any(s)] + h[s \ {Any(s)}]
    <2> DEFINE u == s \ {Any(s)}
    <2>1. Any(s) \in s
      BY <1>3 DEF Any
    <2>2. u \in SUBSET T /\ u # T /\ u # s
      BY <2>1
    <2>3. IsFiniteSet(u) /\ Sums(f, u, G(u))
      BY <1>2, <2>2, FS_Subset
    <2>4. h[u] = G(u)[u]
      <3>1. CASE u = {}
        <4>1. G(u)[u] = 0
          <5> HIDE DEF G, u
          <5> QED BY <2>3, <3>1 DEF Sums
        <4> QED BY <2>2, <3>1, <4>1
      <3>2. CASE u # {}
        BY <2>2, <3>2
      <3> QED BY <3>1, <3>2
    <2>5. CASE s = T
      BY <1>3, <2>4, <2>5
    <2>6. CASE s # T
      <3>1. Sums(f, s, G(s))
        BY <1>2, <2>6
      <3>2. G(s)[s] = f[Any(s)] + G(s)[u]
        <4> HIDE DEF G
        <4> QED BY <1>3, <3>1 DEF Sums
      <3>3. G(s)[u] = G(u)[u]
        <4> HIDE DEF G
        <4>1. u \subseteq s
          OBVIOUS
        <4> HIDE DEF u
        <4> QED BY <2>3, <3>1, <4>1, SumsAgree
      <3>4. h[s] = G(s)[s]
        <4> HIDE DEF G
        <4> QED BY <1>3, <2>6
      <3> HIDE DEF h, G
      <3> QED BY <2>4, <3>2, <3>3, <3>4
    <2> QED BY <2>5, <2>6
  <1>4. h = [s \in SUBSET T |-> IF s = {} THEN 0 ELSE f[Any(s)] + h[s \ {Any(s)}]]
    <2>1. h = [s \in SUBSET T |-> h[s]]
      OBVIOUS
    <2>2. {} \in SUBSET T /\ h[{}] = 0
      OBVIOUS
    <2> HIDE DEF h
    <2> QED BY <1>3, <2>1, <2>2
  <1>5. Sums(f, T, h)
    <2> HIDE DEF h
    <2> QED BY <1>4 DEF Sums
  <1> QED BY <1>1, <1>5

(* A sum is taken from it apart, at some element.                          *)
LEMMA SumAny ==
  ASSUME NEW f, NEW S, IsFiniteSet(S)
  PROVE  /\ S = {} => SumFunctionOnSet(f, S) = 0
         /\ S # {} => /\ Any(S) \in S
                      /\ SumFunctionOnSet(f, S)
                           = f[Any(S)] + SumFunctionOnSet(f, S \ {Any(S)})
  <1> DEFINE G(U) == CHOOSE g : Sums(f, U, g)
             u == S \ {Any(S)}
  <1>1. IsFiniteSet(u) /\ Sums(f, S, G(S)) /\ Sums(f, u, G(u))
    BY SumsExist, FS_Subset
  <1>2. SumFunctionOnSet(f, S) = G(S)[S] /\ SumFunctionOnSet(f, u) = G(u)[u]
    BY SumUnfolds
  <1>3. S = {} => G(S)[S] = 0
    <2> HIDE DEF G
    <2> QED BY <1>1 DEF Sums
  <1>4. S # {} => Any(S) \in S /\ G(S)[S] = f[Any(S)] + G(S)[u]
    <2> HIDE DEF G
    <2> QED BY <1>1 DEF Sums, Any
  <1>5. G(S)[u] = G(u)[u]
    <2> HIDE DEF G
    <2>1. u \subseteq S
      OBVIOUS
    <2> HIDE DEF u
    <2> QED BY <1>1, <2>1, SumsAgree
  <1> HIDE DEF G
  <1> QED BY <1>2, <1>3, <1>4, <1>5

(* Sums of integers are integers, and bounded by their addends.            *)
LEMMA SumBounds ==
  ASSUME NEW S, IsFiniteSet(S), NEW f, NEW low \in Int, NEW high \in Int,
         \A x \in S : f[x] \in Int /\ low <= f[x] /\ f[x] <= high
  PROVE  /\ SumFunctionOnSet(f, S) \in Int
         /\ low * Cardinality(S) <= SumFunctionOnSet(f, S)
         /\ SumFunctionOnSet(f, S) <= high * Cardinality(S)
  <1> DEFINE Good(T) == /\ SumFunctionOnSet(f, T) \in Int
                        /\ low * Cardinality(T) <= SumFunctionOnSet(f, T)
                        /\ SumFunctionOnSet(f, T) <= high * Cardinality(T)
             F == {T \in SUBSET S : ~Good(T)}
  <1> SUFFICES ASSUME F # {} PROVE FALSE
    OBVIOUS
  <1>1. PICK T \in F : \A U \in SUBSET T : U # T => U \notin F
    <2> HIDE DEF F
    <2>1. F \in SUBSET SUBSET S
      BY DEF F
    <2> QED BY <2>1, MinimalSet
  <1>2. IsFiniteSet(T)
    BY FS_Subset
  <1>3. CASE T = {}
    <2>1. SumFunctionOnSet(f, T) = 0 /\ Cardinality(T) = 0
      BY <1>2, <1>3, SumAny, FS_EmptySet
    <2>2. Good(T)
      <3> HIDE DEF F
      <3> QED BY <2>1
    <2> QED BY <1>1, <2>2
  <1>4. CASE T # {}
    <2> DEFINE x == Any(T)
               u == T \ {x}
    <2>1. x \in T /\ SumFunctionOnSet(f, T) = f[x] + SumFunctionOnSet(f, u)
      BY <1>2, <1>4, SumAny
    <2>2. Good(u)
      BY <1>1, <2>1
    <2>3. Cardinality(u) \in Nat /\ Cardinality(T) = Cardinality(u) + 1
      <3>1. Cardinality(u) = Cardinality(T) - 1 /\ IsFiniteSet(u) /\ Cardinality(T) \in Nat
        BY <1>2, <2>1, FS_RemoveElement, FS_CardinalityType
      <3> QED BY <3>1, FS_CardinalityType
    <2>4. f[x] \in Int /\ low <= f[x] /\ f[x] <= high
      BY <2>1
    <2>5. \A a \in Int, n \in Nat : a * (n + 1) = a * n + a
      OBVIOUS
    <2>6. Good(T)
      <3> DEFINE n == Cardinality(u)
                 s == SumFunctionOnSet(f, u)
      <3>1. s \in Int /\ low * n <= s /\ s <= high * n /\ n \in Nat
        BY <2>2, <2>3
      <3>2. low * (n + 1) = low * n + low /\ high * (n + 1) = high * n + high
        BY <2>5, <3>1
      <3>3. low * n \in Int /\ high * n \in Int
        BY <3>1
      <3> HIDE DEF n, s, x, u
      <3>4. f[x] + s \in Int /\ low * (n + 1) <= f[x] + s /\ f[x] + s <= high * (n + 1)
        BY <2>4, <3>1, <3>2, <3>3
      <3> QED BY <2>1, <2>3, <3>4 DEF n, s
    <2> QED BY <1>1, <2>6
  <1> QED BY <1>3, <1>4

(* A sum of integers is an integer.                                        *)
LEMMA SumType ==
  ASSUME NEW S, IsFiniteSet(S), NEW f, \A x \in S : f[x] \in Int
  PROVE  \A T \in SUBSET S : SumFunctionOnSet(f, T) \in Int
  <1> DEFINE F == {T \in SUBSET S : SumFunctionOnSet(f, T) \notin Int}
  <1> SUFFICES ASSUME F # {} PROVE FALSE
    OBVIOUS
  <1>1. PICK T \in F : \A U \in SUBSET T : U # T => U \notin F
    <2> HIDE DEF F
    <2>1. F \in SUBSET SUBSET S
      BY DEF F
    <2> QED BY <2>1, MinimalSet
  <1>2. IsFiniteSet(T)
    BY FS_Subset
  <1>3. T # {} => /\ Any(T) \in T
                  /\ SumFunctionOnSet(f, T) = f[Any(T)] + SumFunctionOnSet(f, T \ {Any(T)})
    BY <1>2, SumAny
  <1>4. T = {} => SumFunctionOnSet(f, T) = 0
    BY <1>2, SumAny
  <1> QED BY <1>1, <1>3, <1>4

(* A sum of naturals is one.                                               *)
LEMMA SumNat ==
  ASSUME NEW S, IsFiniteSet(S), NEW f, \A x \in S : f[x] \in Nat
  PROVE  SumFunctionOnSet(f, S) \in Nat
  <1> DEFINE F == {T \in SUBSET S : SumFunctionOnSet(f, T) \notin Nat}
  <1> SUFFICES ASSUME F # {} PROVE FALSE
    OBVIOUS
  <1>1. PICK T \in F : \A U \in SUBSET T : U # T => U \notin F
    <2> HIDE DEF F
    <2>1. F \in SUBSET SUBSET S
      BY DEF F
    <2> QED BY <2>1, MinimalSet
  <1>2. IsFiniteSet(T)
    BY FS_Subset
  <1>3. T # {} => /\ Any(T) \in T
                  /\ SumFunctionOnSet(f, T) = f[Any(T)] + SumFunctionOnSet(f, T \ {Any(T)})
    BY <1>2, SumAny
  <1>4. T = {} => SumFunctionOnSet(f, T) = 0
    BY <1>2, SumAny
  <1> QED BY <1>1, <1>3, <1>4

(* Any element may be taken from a sum.                                    *)
LEMMA SumRemove ==
  ASSUME NEW S, IsFiniteSet(S), NEW f, \A x \in S : f[x] \in Int, NEW y \in S
  PROVE  SumFunctionOnSet(f, S) = f[y] + SumFunctionOnSet(f, S \ {y})
  <1> DEFINE Good(T) == \A z \in T :
               SumFunctionOnSet(f, T) = f[z] + SumFunctionOnSet(f, T \ {z})
             F == {T \in SUBSET S : ~Good(T)}
  <1>0. Good(S) => SumFunctionOnSet(f, S) = f[y] + SumFunctionOnSet(f, S \ {y})
    OBVIOUS
  <1> HIDE DEF Good
  <1>2. ASSUME F # {} PROVE FALSE
    <2>1. PICK T \in F : \A U \in SUBSET T : U # T => U \notin F
      <3> HIDE DEF F
      <3>1. F \in SUBSET SUBSET S
        BY DEF F
      <3> QED BY <1>2, <3>1, MinimalSet
    <2>2. PICK z \in T : SumFunctionOnSet(f, T) # f[z] + SumFunctionOnSet(f, T \ {z})
      BY <2>1 DEF Good
    <2> DEFINE x == Any(T)
    <2>3. IsFiniteSet(T)
      BY FS_Subset
    <2>4. x \in T /\ SumFunctionOnSet(f, T) = f[x] + SumFunctionOnSet(f, T \ {x})
      BY <2>2, <2>3, SumAny
    <2>5. x # z
      BY <2>2, <2>4
    <2>6. Good(T \ {x}) /\ Good(T \ {z})
      BY <2>1, <2>2, <2>4
    <2>7. /\ SumFunctionOnSet(f, T \ {x}) = f[z] + SumFunctionOnSet(f, (T \ {x}) \ {z})
          /\ SumFunctionOnSet(f, T \ {z}) = f[x] + SumFunctionOnSet(f, (T \ {z}) \ {x})
      BY <2>2, <2>4, <2>5, <2>6 DEF Good
    <2>8. (T \ {x}) \ {z} = (T \ {z}) \ {x}
      OBVIOUS
    <2> DEFINE w == SumFunctionOnSet(f, (T \ {x}) \ {z})
    <2>9. w \in Int /\ f[x] \in Int /\ f[z] \in Int
      <3>1. (T \ {x}) \ {z} \in SUBSET S
        OBVIOUS
      <3>2. \A U \in SUBSET S : SumFunctionOnSet(f, U) \in Int
        BY SumType
      <3> QED BY <2>2, <2>4, <3>1, <3>2
    <2> HIDE DEF x
    <2>10. f[x] + (f[z] + w) = f[z] + (f[x] + w)
      <3> HIDE DEF w
      <3> QED BY <2>9
    <2> QED BY <2>2, <2>4, <2>7, <2>8, <2>10
  <1> QED BY <1>0, <1>2

(* A sum depends on its addends only.                                      *)
LEMMA SumSame ==
  ASSUME NEW S, IsFiniteSet(S), NEW f, NEW g, \A x \in S : f[x] = g[x]
  PROVE  SumFunctionOnSet(f, S) = SumFunctionOnSet(g, S)
  <1> DEFINE F == {T \in SUBSET S : SumFunctionOnSet(f, T) # SumFunctionOnSet(g, T)}
  <1> SUFFICES ASSUME F # {} PROVE FALSE
    OBVIOUS
  <1>1. PICK T \in F : \A U \in SUBSET T : U # T => U \notin F
    <2> HIDE DEF F
    <2>1. F \in SUBSET SUBSET S
      BY DEF F
    <2> QED BY <2>1, MinimalSet
  <1>2. IsFiniteSet(T)
    BY FS_Subset
  <1>3. T # {}
    BY <1>1, <1>2, SumAny
  <1> DEFINE x == Any(T)
  <1>4. /\ x \in T
        /\ SumFunctionOnSet(f, T) = f[x] + SumFunctionOnSet(f, T \ {x})
        /\ SumFunctionOnSet(g, T) = g[x] + SumFunctionOnSet(g, T \ {x})
    BY <1>2, <1>3, SumAny
  <1>5. SumFunctionOnSet(f, T \ {x}) = SumFunctionOnSet(g, T \ {x})
    BY <1>1, <1>4
  <1> QED BY <1>1, <1>4, <1>5

(* The sum over the disjoint union of two sets.                            *)
LEMMA SumUnion ==
  ASSUME NEW R, IsFiniteSet(R), NEW S, IsFiniteSet(S), R \cap S = {},
         NEW f, \A x \in R \cup S : f[x] \in Int
  PROVE  SumFunctionOnSet(f, R \cup S) = SumFunctionOnSet(f, R) + SumFunctionOnSet(f, S)
  <1> DEFINE F == {T \in SUBSET S : SumFunctionOnSet(f, R \cup T)
                                      # SumFunctionOnSet(f, R) + SumFunctionOnSet(f, T)}
  <1> SUFFICES ASSUME F # {} PROVE FALSE
    OBVIOUS
  <1>1. PICK T \in F : \A U \in SUBSET T : U # T => U \notin F
    <2> HIDE DEF F
    <2>1. F \in SUBSET SUBSET S
      BY DEF F
    <2> QED BY <2>1, MinimalSet
  <1>2. IsFiniteSet(T) /\ IsFiniteSet(R \cup T)
    BY FS_Subset, FS_Union
  <1>3. \A U \in SUBSET (R \cup T) : SumFunctionOnSet(f, U) \in Int
    BY <1>2, SumType
  <1>4. T # {}
    <2>1. ASSUME T = {} PROVE FALSE
      <3>1. SumFunctionOnSet(f, T) = 0 /\ R \cup T = R
        BY <1>2, <2>1, SumAny
      <3>2. SumFunctionOnSet(f, R) \in Int
        BY <1>3
      <3>3. SumFunctionOnSet(f, R \cup T)
              = SumFunctionOnSet(f, R) + SumFunctionOnSet(f, T)
        <4> DEFINE a == SumFunctionOnSet(f, R)
        <4>1. a + 0 = a
          <5>1. a \in Int
            BY <3>2
          <5> HIDE DEF a
          <5> QED BY <5>1
        <4> HIDE DEF F
        <4> QED BY <3>1, <4>1
      <3> QED BY <1>1, <3>3
    <2> QED BY <2>1
  <1>5. PICK x \in T : TRUE
    BY <1>4
  <1>6. /\ SumFunctionOnSet(f, T) = f[x] + SumFunctionOnSet(f, T \ {x})
        /\ SumFunctionOnSet(f, R \cup T) = f[x] + SumFunctionOnSet(f, (R \cup T) \ {x})
    BY <1>2, SumRemove
  <1>7. (R \cup T) \ {x} = R \cup (T \ {x})
    OBVIOUS
  <1>8. SumFunctionOnSet(f, R \cup (T \ {x}))
          = SumFunctionOnSet(f, R) + SumFunctionOnSet(f, T \ {x})
    BY <1>1
  <1> DEFINE a == SumFunctionOnSet(f, R)
             b == SumFunctionOnSet(f, T \ {x})
  <1>9. a \in Int /\ b \in Int /\ f[x] \in Int
    BY <1>3
  <1>10. f[x] + (a + b) = a + (f[x] + b)
    <2> HIDE DEF a, b
    <2> QED BY <1>9
  <1> QED BY <1>1, <1>6, <1>7, <1>8, <1>10

IntegerOn(f, V) == \A y \in V : f[y] \in Int

(* The sum over the image of an injection.                                 *)
PullsBack(g, f, S, b) == \A x \in S : g[x] = f[b[x]]

LEMMA SumImage ==
  ASSUME NEW S, IsFiniteSet(S), NEW V, NEW b \in Bijection(S, V),
         NEW f, IntegerOn(f, V), NEW g, PullsBack(g, f, S, b)
  PROVE  SumFunctionOnSet(g, S) = SumFunctionOnSet(f, V)
  <1> DEFINE Im(T) == {b[x] : x \in T}
             F == {T \in SUBSET S : SumFunctionOnSet(g, T) # SumFunctionOnSet(f, Im(T))}
  <1>a. /\ \A x, y \in S : b[x] = b[y] => x = y
        /\ \A x \in S : b[x] \in V
        /\ Im(S) = V
        /\ \A y \in V : f[y] \in Int
        /\ \A x \in S : g[x] = f[b[x]]
    BY DEF Bijection, Injection, Surjection, IsInjective, IntegerOn, PullsBack
  <1> SUFFICES ASSUME F # {} PROVE FALSE
    BY <1>a
  <1>1. PICK T \in F : \A U \in SUBSET T : U # T => U \notin F
    <2> HIDE DEF F
    <2>1. F \in SUBSET SUBSET S
      BY DEF F
    <2> QED BY <2>1, MinimalSet
  <1>2. IsFiniteSet(T) /\ IsFiniteSet(Im(T))
    <2>1. IsFiniteSet(T)
      BY FS_Subset
    <2> DEFINE h == [x \in T |-> b[x]]
    <2>2. h \in Surjection(T, Im(T))
      BY DEF Surjection
    <2> HIDE DEF h, Im, F
    <2> QED BY <2>1, <2>2, FS_Surjection
  <1>3. T # {}
    <2>1. T = {} => Im(T) = {}
      OBVIOUS
    <2>2. T = {} => SumFunctionOnSet(g, T) = 0
      BY <1>2, SumAny
    <2>3. Im(T) = {} => SumFunctionOnSet(f, Im(T)) = 0
      BY <1>2, SumAny
    <2> QED BY <1>1, <2>1, <2>2, <2>3
  <1>4. PICK x \in T : TRUE
    BY <1>3
  <1>5. SumFunctionOnSet(g, T) = g[x] + SumFunctionOnSet(g, T \ {x})
    <2>1. \A y \in T : g[y] \in Int
      BY <1>a
    <2> HIDE DEF Im, F
    <2> QED BY <1>2, <2>1, SumRemove
  <1>6. SumFunctionOnSet(f, Im(T)) = f[b[x]] + SumFunctionOnSet(f, Im(T) \ {b[x]})
    <2>1. b[x] \in Im(T) /\ \A y \in Im(T) : f[y] \in Int
      BY <1>a
    <2> HIDE DEF Im, F
    <2> QED BY <1>2, <2>1, SumRemove
  <1>7. Im(T) \ {b[x]} = Im(T \ {x})
    BY <1>a
  <1>8. SumFunctionOnSet(g, T \ {x}) = SumFunctionOnSet(f, Im(T \ {x}))
    BY <1>1
  <1>9. g[x] = f[b[x]]
    BY <1>a
  <1> QED BY <1>1, <1>5, <1>6, <1>7, <1>8, <1>9

(* The sum of the sums over the blocks of a partition.                     *)
Blocks(B, S, V) ==
  /\ \A m \in S : IsFiniteSet(B[m])
  /\ \A m, n \in S : m # n => B[m] \cap B[n] = {}
  /\ \A x : x \in V <=> \E m \in S : x \in B[m]

BlockSums(g, f, S, B) == \A m \in S : g[m] = SumFunctionOnSet(f, B[m])

LEMMA SumBlocks ==
  ASSUME NEW S, IsFiniteSet(S), NEW V, NEW B, Blocks(B, S, V),
         NEW f, IntegerOn(f, V), NEW g, BlockSums(g, f, S, B)
  PROVE  SumFunctionOnSet(g, S) = SumFunctionOnSet(f, V)
  <1> DEFINE All(T) == UNION {B[m] : m \in T}
             F == {T \in SUBSET S : \/ SumFunctionOnSet(g, T) # SumFunctionOnSet(f, All(T))
                                   \/ ~IsFiniteSet(All(T))}
  <1>a. /\ \A m \in S : IsFiniteSet(B[m])
        /\ \A m, n \in S : m # n => B[m] \cap B[n] = {}
        /\ \A m \in S : \A x \in B[m] : f[x] \in Int
        /\ \A m \in S : g[m] = SumFunctionOnSet(f, B[m])
        /\ All(S) = V
    BY DEF Blocks, BlockSums, IntegerOn
  <1> SUFFICES ASSUME F # {} PROVE FALSE
    BY <1>a
  <1>1. PICK T \in F : \A U \in SUBSET T : U # T => U \notin F
    <2> HIDE DEF F
    <2>1. F \in SUBSET SUBSET S
      BY DEF F
    <2> QED BY <2>1, MinimalSet
  <1>2. IsFiniteSet(T)
    BY FS_Subset
  <1>3. T # {}
    <2>1. T = {} => All(T) = {}
      OBVIOUS
    <2>2. T = {} => SumFunctionOnSet(g, T) = 0
      BY <1>2, SumAny
    <2>3. IsFiniteSet({}) /\ SumFunctionOnSet(f, {}) = 0
      BY FS_EmptySet, SumAny
    <2> QED BY <1>1, <2>1, <2>2, <2>3
  <1>4. PICK x \in T : TRUE
    BY <1>3
  <1> DEFINE u == T \ {x}
  <1>5. IsFiniteSet(All(u)) /\ SumFunctionOnSet(g, u) = SumFunctionOnSet(f, All(u))
    BY <1>1
  <1>6. All(T) = B[x] \cup All(u) /\ B[x] \cap All(u) = {}
    BY <1>a
  <1>7. IsFiniteSet(B[x]) /\ IsFiniteSet(All(T))
    <2>1. IsFiniteSet(B[x])
      BY <1>a
    <2> DEFINE b == B[x]
               a == All(u)
    <2>2. IsFiniteSet(a) /\ IsFiniteSet(b)
      BY <1>5, <2>1
    <2>3. IsFiniteSet(b \cup a)
      <3> HIDE DEF a, b
      <3> QED BY <2>2, FS_Union
    <2> HIDE DEF All, u, F
    <2> QED BY <1>6, <2>1, <2>3
  <1>8. \A y \in B[x] \cup All(u) : f[y] \in Int
    BY <1>a
  <1>9. SumFunctionOnSet(f, All(T)) = SumFunctionOnSet(f, B[x]) + SumFunctionOnSet(f, All(u))
    <2> HIDE DEF All, u, F
    <2> QED BY <1>5, <1>6, <1>7, <1>8, SumUnion
  <1>10. SumFunctionOnSet(g, T) = g[x] + SumFunctionOnSet(g, u)
    <2>1. \A m \in T : g[m] \in Int
      BY <1>a, SumType
    <2> HIDE DEF F
    <2> QED BY <1>2, <2>1, SumRemove
  <1> QED BY <1>a, <1>1, <1>5, <1>7, <1>9, <1>10

-----------------------------------------------------------------------------
(* What \div and % are, of a positive divisor.                             *)
LEMMA Division ==
  ASSUME NEW a \in Int, NEW n \in Nat \ {0}
  PROVE  /\ a \div n \in Int /\ a % n \in 0 .. n - 1
         /\ a = n * (a \div n) + (a % n)
  OBVIOUS

(* There is no other quotient.                                             *)
LEMMA Quotient ==
  ASSUME NEW n \in Nat \ {0}, NEW q \in Int, NEW r \in 0 .. n - 1
  PROVE  (q * n + r) \div n = q
  <1> DEFINE a == q * n + r
             p == a \div n
             s == a % n
  <1>1. a \in Int /\ p \in Int /\ s \in 0 .. n - 1 /\ a = n * p + s
    OBVIOUS
  <1> HIDE DEF p, s
  <1>2. n * p + s = q * n + r
    BY <1>1
  <1>3. CASE p >= q + 1
    <2>1. n * p >= n * (q + 1)
      BY <1>1, <1>3
    <2>2. n * (q + 1) = q * n + n
      OBVIOUS
    <2> QED BY <1>1, <1>2, <2>1, <2>2
  <1>4. CASE p <= q - 1
    <2>1. n * p <= n * (q - 1)
      BY <1>1, <1>4
    <2>2. n * (q - 1) = q * n - n
      OBVIOUS
    <2> QED BY <1>1, <1>2, <2>1, <2>2
  <1>5. p = q
    BY <1>1, <1>3, <1>4
  <1> QED BY <1>5 DEF p

(* A mean lies between the bounds of what it is the mean of.               *)
LEMMA MeanBounds ==
  ASSUME NEW a \in Int, NEW n \in Nat \ {0}, NEW low \in Int, NEW high \in Int,
         low * n <= a, a <= high * n
  PROVE  a \div n \in low .. high
  <1> DEFINE p == a \div n
             s == a % n
  <1>1. p \in Int /\ s \in 0 .. n - 1 /\ a = n * p + s
    OBVIOUS
  <1> HIDE DEF p, s
  <1>2. CASE p >= high + 1
    <2>1. n * p >= n * (high + 1)
      BY <1>1, <1>2
    <2>2. n * (high + 1) = high * n + n
      OBVIOUS
    <2> QED BY <1>1, <2>1, <2>2
  <1>3. CASE p <= low - 1
    <2>1. n * p <= n * (low - 1)
      BY <1>1, <1>3
    <2>2. n * (low - 1) = low * n - n
      OBVIOUS
    <2> QED BY <1>1, <2>1, <2>2
  <1>4. p \in low .. high
    BY <1>1, <1>2, <1>3
  <1> QED BY <1>4 DEF p

-----------------------------------------------------------------------------
(* A mean that is as one of two points all of its rows are at is the mean  *)
(* of rows at that point only.                                             *)
LEMMA MeanOfTwo ==
  ASSUME NEW data \in [Rows -> Stored], NEW S \in SUBSET Rows, NEW s \in S,
         NEW X, X = Mean(data, S), \A r \in S : data[r] = X \/ data[r] = data[s]
  PROVE  data[s] = X
  <1> DEFINE D == DOMAIN data[0]
  <1>1. \A r \in Rows : data[r] \in [D -> Int]
    <2>1. 0 \in Rows /\ Stored \subseteq Vector
      BY IvfConfigAssumption DEF Rows
    <2> QED BY <2>1, ExactAssumption
  <1>2. X \in [D -> Int] /\ X = [i \in D |-> X[i]]
    <2>1. \A i \in D : SumFunction([r \in S |-> data[r][i]]) \div Cardinality(S) \in Int
      <3>1. ASSUME NEW i \in D
            PROVE  SumFunction([r \in S |-> data[r][i]]) \div Cardinality(S) \in Int
        <4> DEFINE f == [r \in S |-> data[r][i]]
        <4>1. \A r \in S : f[r] \in Int
          BY <1>1
        <4>2. SumFunction(f) = SumFunctionOnSet(f, S)
          BY DEF SumFunction
        <4> HIDE DEF f
        <4>3. IsFiniteSet(S) /\ Cardinality(S) \in Nat \ {0}
          BY FiniteRows, FS_EmptySet
        <4>4. SumFunctionOnSet(f, S) \in Int
          BY <4>1, <4>3, SumType
        <4> QED BY <4>2, <4>3, <4>4, Division DEF f
      <3> HIDE DEF D
      <3> QED BY <3>1
    <2>2. X = [i \in D |-> SumFunction([r \in S |-> data[r][i]]) \div Cardinality(S)]
      BY DEF Mean
    <2> HIDE DEF D
    <2> QED BY <2>1, <2>2
  <1>3. ASSUME NEW i \in D PROVE data[s][i] = X[i]
    <2> DEFINE f == [r \in S |-> data[r][i]]
               n == Cardinality(S)
               x == X[i]
               y == data[s][i]
               T == S \ {s}
    <2>1. IsFiniteSet(S) /\ n \in Nat \ {0} /\ IsFiniteSet(T) /\ Cardinality(T) = n - 1
      <3>1. IsFiniteSet(S) /\ n \in Nat \ {0}
        BY FiniteRows, FS_EmptySet
      <3>2. IsFiniteSet(T) /\ Cardinality(T) = n - 1
        BY <3>1, FS_RemoveElement
      <3> QED BY <3>1, <3>2
    <2>2. x \in Int /\ y \in Int
      BY <1>1, <1>2
    <2>3. \A r \in S : f[r] = x \/ f[r] = y
      OBVIOUS
    <2>4. f[s] = y
      OBVIOUS
    <2>5. SumFunctionOnSet(f, S) = n * x
      <3>1. SumFunction(f) = SumFunctionOnSet(f, S)
        BY DEF SumFunction
      <3>2. X[i] = SumFunction(f) \div n /\ SumFunction(f) % n = 0
        <4>1. S \in (SUBSET Rows) \ {{}}
          OBVIOUS
        <4>2. SumFunction(f) % n = 0
          <5>1. \A j \in DOMAIN data[0] :
                  SumFunction([r \in S |-> data[r][j]]) % Cardinality(S) = 0
            <6> HIDE DEF f, n, x, y, T
            <6> QED BY <4>1, ExactAssumption
          <5> QED BY <5>1
        <4>3. X[i] = SumFunction(f) \div n
          BY DEF Mean
        <4> QED BY <4>2, <4>3
      <3> HIDE DEF f, n
      <3>3. SumFunctionOnSet(f, S) \in Int
        BY <2>1, <2>2, <2>3, SumType
      <3> DEFINE a == SumFunctionOnSet(f, S)
      <3>4. x = a \div n /\ a % n = 0 /\ a \in Int
        BY <3>1, <3>2, <3>3
      <3> HIDE DEF a, x
      <3>5. a = n * (a \div n) + (a % n)
        BY <2>1, <3>4, Division
      <3>6. n * x \in Int
        BY <2>1, <2>2
      <3> QED BY <3>4, <3>5, <3>6 DEF a
    <2> HIDE DEF f, n, x, y
    <2>6. SumFunctionOnSet(f, S) = y + SumFunctionOnSet(f, T)
      BY <2>1, <2>2, <2>3, <2>4, SumRemove
    <2> DEFINE low  == IF x < y THEN x ELSE y
               high == IF x < y THEN y ELSE x
    <2>7. low \in Int /\ high \in Int /\ \A r \in T : f[r] \in Int /\ low <= f[r] /\ f[r] <= high
      BY <2>2, <2>3
    <2>8. /\ SumFunctionOnSet(f, T) \in Int
          /\ low * Cardinality(T) <= SumFunctionOnSet(f, T)
          /\ SumFunctionOnSet(f, T) <= high * Cardinality(T)
      <3> HIDE DEF low, high, T
      <3> QED BY <2>1, <2>7, SumBounds
    <2> DEFINE b == SumFunctionOnSet(f, T)
    <2>9. b \in Int /\ low * (n - 1) <= b /\ b <= high * (n - 1) /\ n * x = y + b
      BY <2>1, <2>5, <2>6, <2>8
    <2> HIDE DEF b, T
    <2>10. x * (n - 1) = n * x - x
      BY <2>1, <2>2
    <2>11. ASSUME x < y PROVE FALSE
      BY <2>1, <2>2, <2>9, <2>10, <2>11
    <2>12. ASSUME y < x PROVE FALSE
      BY <2>1, <2>2, <2>9, <2>10, <2>12
    <2>13. x = y
      BY <2>2, <2>11, <2>12
    <2> QED BY <2>13 DEF x, y
  <1>4. data[s] = [i \in D |-> data[s][i]]
    <2>1. data[s] \in [D -> Int]
      BY <1>1
    <2> HIDE DEF D
    <2> QED BY <2>1
  <1> HIDE DEF D
  <1> QED BY <1>2, <1>3, <1>4

-----------------------------------------------------------------------------
(* The centroids when partition p is updated, in a round that began with   *)
(* the centroids of old.                                                   *)
Midway(old, p) == [o \in Parts |-> IF o < p THEN centroids[o] ELSE old[o]]

(* The partitions before p have been updated in such a round.              *)
UpdatedFrom(old, p) ==
  /\ \A r \in Rows : assignments[r] = NearestCentroid(old, dataset[r])
  /\ \A q \in Parts : q >= p => centroids[q] = old[q]
  /\ \A q \in Parts : q < p /\ Assigned(q) # {} => centroids[q] = Mean(dataset, Assigned(q))
  /\ \A q \in Parts : q < p /\ Assigned(q) = {} =>
       \E r \in Rows : centroids[q] = dataset[r] /\ FarthestRow(Midway(old, q), r)

(* A row that some centroid is equal to has its nearest centroid equal.    *)
LEMMA NearestIsEqual ==
  ASSUME Separating, NEW cs \in [Parts -> Vector], NEW v \in Stored,
         NEW p \in Parts, cs[p] = v
  PROVE  /\ NearestCentroid(cs, v) \in Parts
         /\ cs[NearestCentroid(cs, v)] = v
         /\ NearestCentroid(cs, v) <= p
  <1> DEFINE m == NearestCentroid(cs, v)
  <1>1. v \in Vector
    BY IvfConfigAssumption
  <1>2. m \in Parts /\ ~Closer(cs, v, p, m)
    BY <1>1, NearestCentroidExists
  <1> HIDE DEF m
  <1>3. Distance(v, cs[p]) = 0 /\ Distance(v, cs[m]) >= 0
    BY <1>1, <1>2 DEF Separating
  <1>4. Distance(v, cs[m]) \in Int /\ Distance(v, cs[p]) \in Int
    BY <1>1, <1>2, DistanceAssumption
  <1>5. m \in Nat /\ p \in Nat
    BY <1>2, FiniteRows
  <1>6. Distance(v, cs[m]) = 0 /\ ~(p < m)
    BY <1>2, <1>3, <1>4 DEF Closer
  <1>7. cs[m] = v
    BY <1>2, <1>6 DEF Separating
  <1> QED BY <1>2, <1>5, <1>6, <1>7 DEF m

(* A round after which no row changes its partition although one has none  *)
(* has left a centroid at every row.                                       *)
LEMMA RoundCovers ==
  ASSUME Separating, TypeOK, NEW old \in [Parts -> Vector],
         UpdatedFrom(old, Partitions), NextAssignments = assignments,
         NEW p \in Parts, Assigned(p) = {}
  PROVE  \A s \in Rows : \E q \in Parts : centroids[q] = dataset[s]
  <1>1. /\ \A r \in Rows : dataset[r] \in Stored /\ dataset[r] \in Vector
        /\ centroids \in [Parts -> Vector]
        /\ dataset \in [Rows -> Stored]
    BY IvfConfigAssumption DEF TypeOK
  <1>2. \A r \in Rows : assignments[r] = NearestCentroid(centroids, dataset[r])
    BY DEF NextAssignments
  <1>3. \A q \in Parts : q \in Nat /\ q < Partitions
    BY IvfConfigAssumption DEF Parts
  <1> DEFINE mid == Midway(old, p)
  <1>4. PICK r \in Rows : centroids[p] = dataset[r] /\ FarthestRow(mid, r)
    BY <1>3 DEF UpdatedFrom
  <1>5. mid \in [Parts -> Vector] /\ \A o \in Parts : mid[o] = IF o < p THEN centroids[o] ELSE old[o]
    BY <1>1 DEF Midway
  <1> HIDE DEF mid
  <1>6. Spread(mid, r) = 0
    <2> DEFINE o == NearestCentroid(centroids, dataset[r])
    <2>1. o \in Parts /\ centroids[o] = dataset[r] /\ o <= p
      BY <1>1, <1>4, NearestIsEqual
    <2>2. o # p
      BY <1>2, <1>4 DEF Assigned
    <2>3. mid[o] = dataset[r]
      BY <1>3, <1>5, <2>1, <2>2
    <2>4. mid[NearestCentroid(mid, dataset[r])] = dataset[r]
      BY <1>1, <1>5, <2>1, <2>3, NearestIsEqual
    <2> QED BY <1>1, <2>4 DEF Spread, Separating
  <1>7. ASSUME NEW s \in Rows
        PROVE  \E q \in Parts : mid[q] = dataset[s]
    <2> DEFINE q == NearestCentroid(mid, dataset[s])
    <2>1. q \in Parts
      BY <1>1, <1>5, NearestCentroidExists
    <2>2. Spread(mid, s) <= 0
      <3>1. Spread(mid, s) < Spread(mid, r) \/ Spread(mid, s) = Spread(mid, r)
        BY <1>4 DEF FarthestRow
      <3>2. Spread(mid, s) \in Int
        BY <1>1, <1>5, <2>1, DistanceAssumption DEF Spread
      <3> QED BY <1>6, <3>1, <3>2
    <2>3. Distance(dataset[s], mid[q]) \in Int /\ Distance(dataset[s], mid[q]) >= 0
      BY <1>1, <1>5, <2>1, DistanceAssumption DEF Separating
    <2>4. Distance(dataset[s], mid[q]) = 0
      BY <2>2, <2>3 DEF Spread
    <2>5. mid[q] = dataset[s]
      BY <1>1, <1>5, <2>1, <2>4 DEF Separating
    <2> QED BY <2>1, <2>5
  <1>8. ASSUME NEW s \in Rows
        PROVE  /\ assignments[s] \in Parts
               /\ \/ centroids[assignments[s]] = dataset[s]
                  \/ old[assignments[s]] = dataset[s]
    <2>1. PICK q \in Parts : mid[q] = dataset[s]
      BY <1>7
    <2>2. CASE q < p
      <3>1. centroids[q] = dataset[s]
        BY <1>5, <2>1, <2>2
      <3> QED BY <1>1, <1>2, <3>1, NearestIsEqual
    <2>3. CASE ~(q < p)
      <3>1. old[q] = dataset[s]
        BY <1>5, <2>1, <2>3
      <3>2. assignments[s] = NearestCentroid(old, dataset[s])
        BY DEF UpdatedFrom
      <3> QED BY <1>1, <3>1, <3>2, NearestIsEqual
    <2> QED BY <2>2, <2>3
  <1>9. ASSUME NEW s \in Rows, centroids[assignments[s]] # dataset[s]
        PROVE  FALSE
    <2> DEFINE o == assignments[s]
               X == centroids[o]
    <2>1. o \in Parts /\ old[o] = dataset[s]
      BY <1>8, <1>9
    <2>2. s \in Assigned(o) /\ Assigned(o) \in SUBSET Rows
      BY DEF Assigned
    <2>3. X = Mean(dataset, Assigned(o))
      BY <1>3, <2>1, <2>2 DEF UpdatedFrom
    <2>4. \A t \in Assigned(o) : dataset[t] = X \/ dataset[t] = dataset[s]
      BY <1>8, <2>1 DEF Assigned
    <2> HIDE DEF o, X
    <2>5. dataset[s] = X
      BY <1>1, <2>2, <2>3, <2>4, MeanOfTwo
    <2> QED BY <1>9, <2>5 DEF o, X
  <1> QED BY <1>8, <1>9

(* Where the training stands, whatever query may follow.                   *)
TrainInv ==
  Separating =>
    /\ phase = "update" => \E old \in [Parts -> Vector] : UpdatedFrom(old, partition)
    /\ phase = "assign" /\ assignments # [r \in Rows |-> NoPart] =>
         \E old \in [Parts -> Vector] : UpdatedFrom(old, Partitions)

CoverInv == TrainInv /\ EmptyOnlyIfCovered

(* What has been updated stays so while its variables do not change.       *)
LEMMA UpdatedSame ==
  ASSUME UNCHANGED <<dataset, assignments, centroids>>, NEW old, NEW p, UpdatedFrom(old, p)
  PROVE  UpdatedFrom(old, p)'
  <1>1. \A q \in Parts : Assigned(q)' = Assigned(q) /\ Midway(old, q)' = Midway(old, q)
    BY DEF Assigned, Midway
  <1>2. \A q \in Parts, r \in Rows :
          FarthestRow(Midway(old, q), r)' = FarthestRow(Midway(old, q), r)
    BY <1>1 DEF FarthestRow, Spread
  <1> QED BY <1>1, <1>2 DEF UpdatedFrom

(* The update of one more partition.                                       *)
LEMMA UpdatedOne ==
  ASSUME TypeOK, ~Spherical, phase = "update", Reseed \/ Recenter \/ RecenterOnRow,
         NEW old \in [Parts -> Vector], UpdatedFrom(old, partition),
         NEW p, p = partition + 1
  PROVE  UpdatedFrom(old, p)'
  <1>1. /\ UNCHANGED <<dataset, assignments>>
        /\ partition \in Parts /\ partition \in Nat
        /\ \A q \in Parts : q \in Nat
    BY FiniteRows DEF TypeOK, Reseed, Recenter, RecenterOnRow
  <1>2. PICK v : centroids' = [centroids EXCEPT ![partition] = v]
    BY DEF Reseed, Recenter, RecenterOnRow, MoveCentroid
  <1>3. \A q \in Parts : centroids'[q] = IF q = partition THEN v ELSE centroids[q]
    BY <1>2 DEF TypeOK
  <1>4. \A q \in Parts : Assigned(q)' = Assigned(q)
    BY <1>1 DEF Assigned
  <1>5. \A q \in Parts : q < p => Midway(old, q)' = Midway(old, q)
    <2>1. ASSUME NEW q \in Parts, q < p, NEW o \in Parts, o < q PROVE centroids'[o] = centroids[o]
      <3>1. o # partition
        BY <1>1, <2>1
      <3> QED BY <1>3, <3>1
    <2> QED BY <2>1 DEF Midway
  <1>6. \A q \in Parts, r \in Rows : q < p =>
          (FarthestRow(Midway(old, q), r)' <=> FarthestRow(Midway(old, q), r))
    BY <1>1, <1>5 DEF FarthestRow, Spread
  <1>7. ASSUME NEW r \in Rows PROVE assignments'[r] = NearestCentroid(old, dataset'[r])
    BY <1>1 DEF UpdatedFrom
  <1>8. ASSUME NEW q \in Parts, q >= p PROVE centroids'[q] = old[q]
    <2>1. q # partition /\ q >= partition
      BY <1>1, <1>8
    <2> QED BY <1>3, <2>1 DEF UpdatedFrom
  <1>9. ASSUME NEW q \in Parts, q < p, Assigned(q) # {}
        PROVE  centroids'[q] = Mean(dataset, Assigned(q))
    <2>1. CASE q = partition
      <3>1. Recenter
        BY <1>9, <2>1 DEF Reseed, RecenterOnRow
      <3>2. centroids'[partition] = Mean(dataset, Assigned(partition))
        BY <1>1, <3>1 DEF Recenter, MoveCentroid, TypeOK
      <3> QED BY <2>1, <3>2
    <2>2. CASE q # partition
      <3>1. q < partition
        BY <1>1, <1>9, <2>2
      <3> QED BY <1>3, <1>9, <2>2, <3>1 DEF UpdatedFrom
    <2> QED BY <2>1, <2>2
  <1>10. ASSUME NEW q \in Parts, q < p, Assigned(q) = {}
         PROVE  \E r \in Rows : centroids'[q] = dataset[r] /\ FarthestRow(Midway(old, q), r)
    <2>1. CASE q = partition
      <3>1. Reseed
        BY <1>10, <2>1 DEF Recenter, RecenterOnRow
      <3>2. PICK r \in Rows : FarthestRow(centroids, r) /\ MoveCentroid(dataset[r])
        BY <3>1 DEF Reseed
      <3>3. Midway(old, q) = centroids
        <4>1. \A o \in Parts : ~(o < q) => centroids[o] = old[o]
          BY <1>1, <2>1 DEF UpdatedFrom
        <4>2. centroids = [o \in Parts |-> centroids[o]]
          BY DEF TypeOK
        <4> QED BY <4>1, <4>2 DEF Midway
      <3>4. centroids'[q] = dataset[r]
        BY <2>1, <3>2 DEF MoveCentroid, TypeOK
      <3> QED BY <3>2, <3>3, <3>4
    <2>2. CASE q # partition
      <3>1. q < partition
        BY <1>1, <1>10, <2>2
      <3> QED BY <1>3, <1>10, <2>2, <3>1 DEF UpdatedFrom
    <2> QED BY <2>1, <2>2
  <1> QED BY <1>1, <1>4, <1>6, <1>7, <1>8, <1>9, <1>10 DEF UpdatedFrom

(* The steps that neither begin nor end a round.                           *)
LEMMA CoverSame == CoverInv /\ UNCHANGED vars => CoverInv'
  <1> SUFFICES ASSUME CoverInv, UNCHANGED vars PROVE CoverInv'
    OBVIOUS
  <1>1. UNCHANGED <<dataset, assignments, centroids, partition, phase, round>>
    BY DEF vars, trainVars
  <1>2. TrainInv'
    BY <1>1, UpdatedSame DEF CoverInv, TrainInv, Separating
  <1>3. EmptyOnlyIfCovered'
    BY <1>1 DEF CoverInv, EmptyOnlyIfCovered, Assigned, Separating
  <1> QED BY <1>2, <1>3 DEF CoverInv

(* Nothing is claimed of later phases.                                     *)
LEMMA CoverLater == phase' \notin {"assign", "update", "fill"} => CoverInv'
  BY DEF CoverInv, TrainInv, EmptyOnlyIfCovered

(* No round has begun.                                                     *)
LEMMA CoverInit == Init => CoverInv
  BY DEF Init, CoverInv, TrainInv, EmptyOnlyIfCovered

(* The steps of the training keep CoverInv.                                *)
LEMMA CoverStep == IInv /\ CoverInv /\ (Train \/ FillLists) => CoverInv'
  <1> SUFFICES ASSUME IInv, CoverInv, Train \/ FillLists PROVE CoverInv'
    OBVIOUS
  <1>1. CASE Assign
    <2>1. UpdatedFrom(centroids, 0)'
      <3>1. \A q \in Parts : ~(q < 0)
        BY FiniteRows
      <3>2. \A r \in Rows : assignments'[r] = NearestCentroid(centroids, dataset[r])
        BY <1>1 DEF Assign, NextAssignments
      <3> QED BY <1>1, <3>1, <3>2 DEF Assign, UpdatedFrom
    <2>2. phase' = "update" /\ partition' = 0 /\ centroids' \in [Parts -> Vector]
      BY <1>1 DEF Assign, IInv, TypeOK
    <2> QED BY <2>1, <2>2 DEF CoverInv, TrainInv, EmptyOnlyIfCovered
  <1>2. CASE Converged
    <2>1. /\ phase = "assign" /\ phase' = "fill" /\ NextAssignments = assignments
          /\ UNCHANGED <<dataset, round, centroids, assignments>>
      BY <1>2 DEF Converged, trainVars
    <2>2. ASSUME Separating, NEW p \in Parts, Assigned(p) = {}, NEW s \in Rows
          PROVE  \E q \in Parts : centroids[q] = dataset[s]
      <3>1. TypeOK
        BY DEF IInv
      <3>2. assignments # [r \in Rows |-> NoPart]
        <4>1. dataset[s] \in Vector /\ centroids \in [Parts -> Vector]
          BY <3>1, IvfConfigAssumption DEF TypeOK
        <4>2. assignments[s] \in Parts
          BY <2>1, <4>1, NearestCentroidExists DEF NextAssignments
        <4>3. NoPart \notin Parts
          BY IvfConfigAssumption DEF NoPart, Parts
        <4> QED BY <4>2, <4>3
      <3>3. PICK old \in [Parts -> Vector] : UpdatedFrom(old, Partitions)
        BY <2>1, <2>2, <3>2 DEF CoverInv, TrainInv
      <3> QED BY <2>1, <2>2, <3>1, <3>3, RoundCovers
    <2>3. EmptyOnlyIfCovered'
      BY <2>1, <2>2 DEF EmptyOnlyIfCovered, Assigned, Separating
    <2> QED BY <2>1, <2>3 DEF CoverInv, TrainInv
  <1>3. CASE IterationsDone
    <2>1. phase' = "fill" /\ ~(round' < Iterations)
      BY <1>3, IvfConfigAssumption DEF IterationsDone, trainVars
    <2> QED BY <2>1 DEF CoverInv, TrainInv, EmptyOnlyIfCovered
  <1>4. CASE Reseed \/ Recenter \/ RecenterOnRow
    <2>1. /\ phase = "update" /\ NextPartition
          /\ TypeOK
      BY <1>4 DEF Reseed, Recenter, RecenterOnRow, IInv
    <2>2. /\ phase' = "update" => partition' = partition + 1
          /\ phase' # "update" => phase' = "assign" /\ Partitions = partition + 1
      BY <2>1 DEF NextPartition
    <2>3. PICK p : p = partition + 1
      OBVIOUS
    <2>4. ASSUME Separating
          PROVE  \E old \in [Parts -> Vector] : UpdatedFrom(old, p)'
      <3>1. PICK old \in [Parts -> Vector] : UpdatedFrom(old, partition)
        BY <2>1, <2>4 DEF CoverInv, TrainInv
      <3>2. ~Spherical
        BY <2>4 DEF Separating
      <3>3. UpdatedFrom(old, p)'
        BY <1>4, <2>1, <2>3, <3>1, <3>2, UpdatedOne
      <3> QED BY <3>3
    <2>5. CASE phase' = "update"
      <3>1. ASSUME NEW old, UpdatedFrom(old, p)' PROVE UpdatedFrom(old, partition)'
        <4>1. p = partition'
          BY <2>2, <2>3, <2>5
        <4> QED BY <3>1, <4>1 DEF UpdatedFrom
      <3> QED BY <2>4, <2>5, <3>1 DEF CoverInv, TrainInv, EmptyOnlyIfCovered, Separating
    <2>6. CASE phase' # "update"
      <3>1. p = Partitions /\ phase' = "assign"
        BY <2>2, <2>3, <2>6
      <3> QED BY <2>4, <3>1 DEF CoverInv, TrainInv, EmptyOnlyIfCovered, Separating
    <2> QED BY <2>5, <2>6
  <1>5. CASE FillLists
    BY <1>5, CoverLater DEF FillLists
  <1> QED BY <1>1, <1>2, <1>3, <1>4, <1>5 DEF Train

-----------------------------------------------------------------------------
(* Under Euclidean distance no training ends early with a partition that a *)
(* row could have used: when one is left empty, the row its centroid moved *)
(* to, the farthest one, was covered, and so every row was; and a row      *)
(* covered by a centroid that moved afterwards still is                    *)
(* (vector-db/core/src/ivf.rs:85-89).                                      *)
THEOREM EmptyCovered == Spec => []EmptyOnlyIfCovered
  <1>1. IInv /\ CoverInv /\ [Next]_vars => CoverInv'
    <2>1. Query \/ Search => phase' \notin {"assign", "update", "fill"}
      BY DEF Query, Search, Probe, Score, Answer
    <2> QED BY <2>1, CoverSame, CoverLater, CoverStep DEF Next
  <1>2. CoverInv => EmptyOnlyIfCovered
    BY DEF CoverInv
  <1> QED BY <1>1, <1>2, CoverInit, Invariant, PTL DEF Spec

-----------------------------------------------------------------------------
(* A sum grows with its addends.                                           *)
LEMMA SumMonotone ==
  ASSUME NEW S, IsFiniteSet(S), NEW f, NEW g,
         \A x \in S : f[x] \in Int /\ g[x] \in Int /\ f[x] <= g[x]
  PROVE  SumFunctionOnSet(f, S) <= SumFunctionOnSet(g, S)
  <1> DEFINE F == {T \in SUBSET S : ~(SumFunctionOnSet(f, T) <= SumFunctionOnSet(g, T))}
  <1> SUFFICES ASSUME F # {} PROVE FALSE
    OBVIOUS
  <1>1. PICK T \in F : \A U \in SUBSET T : U # T => U \notin F
    <2> HIDE DEF F
    <2>1. F \in SUBSET SUBSET S
      BY DEF F
    <2> QED BY <2>1, MinimalSet
  <1>2. IsFiniteSet(T)
    BY FS_Subset
  <1>3. T # {}
    <2>1. T = {} => SumFunctionOnSet(f, T) = 0 /\ SumFunctionOnSet(g, T) = 0
      BY <1>2, SumAny
    <2> QED BY <1>1, <2>1
  <1> DEFINE x == Any(T)
             a == SumFunctionOnSet(f, T \ {x})
             b == SumFunctionOnSet(g, T \ {x})
  <1>4. x \in T /\ SumFunctionOnSet(f, T) = f[x] + a /\ SumFunctionOnSet(g, T) = g[x] + b
    BY <1>2, <1>3, SumAny
  <1>5. a <= b
    BY <1>1, <1>4
  <1>6. a \in Int /\ b \in Int /\ f[x] \in Int /\ g[x] \in Int /\ f[x] <= g[x]
    <2>1. T \ {x} \in SUBSET S
      OBVIOUS
    <2> HIDE DEF x
    <2> QED BY <1>4, <2>1, SumType
  <1>7. SumFunctionOnSet(f, T) <= SumFunctionOnSet(g, T)
    <2> HIDE DEF a, b, x, F
    <2> QED BY <1>4, <1>5, <1>6
  <1> QED BY <1>1, <1>7

(* The sum of sums.                                                        *)
LEMMA SumAdd ==
  ASSUME NEW S, IsFiniteSet(S), NEW f, NEW g, NEW h,
         \A x \in S : f[x] \in Int /\ g[x] \in Int /\ h[x] = f[x] + g[x]
  PROVE  SumFunctionOnSet(h, S) = SumFunctionOnSet(f, S) + SumFunctionOnSet(g, S)
  <1> DEFINE F == {T \in SUBSET S : SumFunctionOnSet(h, T)
                                      # SumFunctionOnSet(f, T) + SumFunctionOnSet(g, T)}
  <1> SUFFICES ASSUME F # {} PROVE FALSE
    OBVIOUS
  <1>1. PICK T \in F : \A U \in SUBSET T : U # T => U \notin F
    <2> HIDE DEF F
    <2>1. F \in SUBSET SUBSET S
      BY DEF F
    <2> QED BY <2>1, MinimalSet
  <1>2. IsFiniteSet(T)
    BY FS_Subset
  <1>3. T # {}
    <2>1. T = {} => SumFunctionOnSet(f, T) = 0 /\ SumFunctionOnSet(g, T) = 0
                    /\ SumFunctionOnSet(h, T) = 0
      BY <1>2, SumAny
    <2> QED BY <1>1, <2>1
  <1> DEFINE x == Any(T)
             a == SumFunctionOnSet(f, T \ {x})
             b == SumFunctionOnSet(g, T \ {x})
  <1>4. /\ x \in T /\ SumFunctionOnSet(f, T) = f[x] + a /\ SumFunctionOnSet(g, T) = g[x] + b
        /\ SumFunctionOnSet(h, T) = h[x] + SumFunctionOnSet(h, T \ {x})
    BY <1>2, <1>3, SumAny
  <1>5. SumFunctionOnSet(h, T \ {x}) = a + b
    BY <1>1, <1>4
  <1>6. a \in Int /\ b \in Int /\ f[x] \in Int /\ g[x] \in Int /\ h[x] = f[x] + g[x]
    <2>1. T \ {x} \in SUBSET S
      OBVIOUS
    <2> HIDE DEF x
    <2> QED BY <1>4, <2>1, SumType
  <1>7. SumFunctionOnSet(h, T) = SumFunctionOnSet(f, T) + SumFunctionOnSet(g, T)
    <2> HIDE DEF a, b, x, F
    <2> QED BY <1>4, <1>5, <1>6
  <1> QED BY <1>1, <1>7

(* Two sums may be taken in either order.                                  *)
Swaps(R, D, F, rows, columns) ==
  /\ IsFiniteSet(R) /\ IsFiniteSet(D) /\ F \in [R -> [D -> Int]]
  /\ \A r \in R : rows[r] = SumFunctionOnSet(F[r], D)
  /\ \A i \in D : columns[i] = SumFunctionOnSet([r \in R |-> F[r][i]], R)
  => SumFunctionOnSet(rows, R) = SumFunctionOnSet(columns, D)

LEMMA SumSwap ==
  ASSUME NEW R, NEW D, NEW F, NEW rows, NEW columns
  PROVE  Swaps(R, D, F, rows, columns)
  <1> SUFFICES ASSUME IsFiniteSet(R), IsFiniteSet(D), F \in [R -> [D -> Int]],
                      \A r \in R : rows[r] = SumFunctionOnSet(F[r], D),
                      \A i \in D : columns[i] = SumFunctionOnSet([r \in R |-> F[r][i]], R)
               PROVE  SumFunctionOnSet(rows, R) = SumFunctionOnSet(columns, D)
    BY DEF Swaps
  <1> DEFINE Column(T) == [i \in D |-> SumFunctionOnSet([r \in R |-> F[r][i]], T)]
             Bad == {T \in SUBSET R : SumFunctionOnSet(rows, T)
                                        # SumFunctionOnSet(Column(T), D)}
  <1>1. SumFunctionOnSet(Column(R), D) = SumFunctionOnSet(columns, D)
    <2>1. \A i \in D : Column(R)[i] = columns[i]
      OBVIOUS
    <2> HIDE DEF Column
    <2> QED BY <2>1, SumSame
  <1>2. ASSUME NEW T \in Bad, \A U \in SUBSET T : U # T => U \notin Bad
        PROVE  FALSE
    <2>1. IsFiniteSet(T) /\ T \in SUBSET R
      BY FS_Subset
    <2>2. ASSUME T = {} PROVE FALSE
      <3>1. SumFunctionOnSet(rows, T) = 0
        BY <2>1, <2>2, SumAny
      <3>2. \A i \in D : Column(T)[i] \in Int /\ 0 <= Column(T)[i] /\ Column(T)[i] <= 0
        <4>1. \A i \in D : SumFunctionOnSet([r \in R |-> F[r][i]], T) = 0
          BY <2>1, <2>2, SumAny
        <4> QED BY <4>1
      <3>3. SumFunctionOnSet(Column(T), D) = 0
        <4> DEFINE c == Column(T)
        <4>1. \A i \in D : c[i] \in Int /\ 0 <= c[i] /\ c[i] <= 0
          BY <3>2
        <4> HIDE DEF c
        <4>2. PICK z \in Int : z = 0
          OBVIOUS
        <4>3. /\ SumFunctionOnSet(c, D) \in Int
              /\ z * Cardinality(D) <= SumFunctionOnSet(c, D)
              /\ SumFunctionOnSet(c, D) <= z * Cardinality(D)
          <5>1. \A i \in D : c[i] \in Int /\ z <= c[i] /\ c[i] <= z
            BY <4>1, <4>2
          <5> QED BY <5>1, SumBounds
        <4>4. Cardinality(D) \in Nat
          BY FS_CardinalityType
        <4>5. SumFunctionOnSet(c, D) = 0
          BY <4>2, <4>3, <4>4
        <4> QED BY <4>5 DEF c
      <3> QED BY <3>1, <3>3
    <2>3. PICK x \in T : TRUE
      BY <2>2
    <2> DEFINE U == T \ {x}
    <2>4. U \in SUBSET R /\ IsFiniteSet(U) /\ x \in R
      BY <2>1, FS_Subset
    <2>5. SumFunctionOnSet(rows, U) = SumFunctionOnSet(Column(U), D)
      BY <1>2, <2>3, <2>4
    <2>6. \A r \in R : rows[r] \in Int
      BY SumType
    <2>7. SumFunctionOnSet(rows, T) = rows[x] + SumFunctionOnSet(rows, U)
      <3>1. \A r \in T : rows[r] \in Int
        BY <2>1, <2>6
      <3> QED BY <2>1, <3>1, SumRemove
    <2>8. \A i \in D : Column(T)[i] = F[x][i] + Column(U)[i] /\ Column(U)[i] \in Int
      <3>1. ASSUME NEW i \in D
            PROVE  /\ SumFunctionOnSet([r \in R |-> F[r][i]], T)
                        = F[x][i] + SumFunctionOnSet([r \in R |-> F[r][i]], U)
                   /\ SumFunctionOnSet([r \in R |-> F[r][i]], U) \in Int
        <4> DEFINE f == [r \in R |-> F[r][i]]
        <4>1. (\A r \in R : f[r] \in Int) /\ f[x] = F[x][i]
          BY <2>4
        <4> HIDE DEF f
        <4>2. \A r \in T : f[r] \in Int
          BY <2>1, <4>1
        <4>3. SumFunctionOnSet(f, T) = f[x] + SumFunctionOnSet(f, U)
          BY <2>1, <4>2, SumRemove
        <4>4. SumFunctionOnSet(f, U) \in Int
          BY <2>4, <4>1, SumType
        <4> QED BY <4>1, <4>3, <4>4 DEF f
      <3> QED BY <3>1
    <2>9. SumFunctionOnSet(Column(T), D)
            = SumFunctionOnSet(F[x], D) + SumFunctionOnSet(Column(U), D)
      <3>1. \A i \in D : F[x][i] \in Int
        BY <2>4
      <3> HIDE DEF Column, U
      <3> QED BY <2>8, <3>1, SumAdd
    <2>10. SumFunctionOnSet(rows, T) = SumFunctionOnSet(Column(T), D)
      BY <2>4, <2>5, <2>7, <2>9
    <2> QED BY <2>10
  <1>3. Bad = {}
    <2>1. Bad \in SUBSET SUBSET R
      OBVIOUS
    <2> HIDE DEF Bad
    <2> QED BY <1>2, <2>1, MinimalSet
  <1>4. R \notin Bad
    BY <1>3
  <1> QED BY <1>1, <1>4


(* The squares of the differences from a mean are the least.               *)
LEMMA MeanIsBest ==
  ASSUME NEW S, IsFiniteSet(S), S # {}, NEW d, \A r \in S : d[r] \in Int,
         NEW m \in Int, NEW c \in Int, SumFunctionOnSet(d, S) = Cardinality(S) * m,
         NEW f, NEW g,
         \A r \in S : /\ f[r] = (d[r] - m) * (d[r] - m)
                      /\ g[r] = (d[r] - c) * (d[r] - c)
  PROVE  /\ SumFunctionOnSet(f, S) <= SumFunctionOnSet(g, S)
         /\ SumFunctionOnSet(f, S) \in Int /\ SumFunctionOnSet(g, S) \in Int
  <1> DEFINE e == m - c
             F(T) == SumFunctionOnSet(f, T)
             G(T) == SumFunctionOnSet(g, T)
             H(T) == SumFunctionOnSet(d, T)
             n(T) == Cardinality(T)
             Good(T) == G(T) = F(T) + e * (2 * H(T) - n(T) * (m + c))
             Bad == {T \in SUBSET S : ~Good(T)}
  <1>0. e \in Int
    OBVIOUS
  <1>1. \A r \in S : f[r] \in Int /\ g[r] \in Int /\ g[r] = f[r] + e * (2 * d[r] - (m + c))
    <2>1. ASSUME NEW r \in S
          PROVE  f[r] \in Int /\ g[r] \in Int /\ g[r] = f[r] + e * (2 * d[r] - (m + c))
      <3>1. PICK y \in Int : y = d[r]
        OBVIOUS
      <3>2. f[r] = (y - m) * (y - m) /\ g[r] = (y - c) * (y - c)
        BY <3>1
      <3>3. (y - c) * (y - c) = (y - m) * (y - m) + (m - c) * (2 * y - (m + c))
        OBVIOUS
      <3>4. (y - m) * (y - m) \in Int /\ (y - c) * (y - c) \in Int
        OBVIOUS
      <3> QED BY <3>1, <3>2, <3>3, <3>4
    <2> QED BY <2>1
  <1>2. \A T \in SUBSET S : F(T) \in Int /\ G(T) \in Int /\ H(T) \in Int /\ n(T) \in Nat
    <2>1. \A T \in SUBSET S : F(T) \in Int /\ G(T) \in Int /\ H(T) \in Int
      <3> HIDE DEF e
      <3> QED BY <1>1, SumType
    <2>2. \A T \in SUBSET S : n(T) \in Nat
      BY FS_Subset, FS_CardinalityType
    <2> QED BY <2>1, <2>2
  <1>3. ASSUME NEW T \in Bad, \A U \in SUBSET T : U # T => U \notin Bad
        PROVE  FALSE
    <2>1. IsFiniteSet(T) /\ T \in SUBSET S
      BY FS_Subset
    <2>2. T # {}
      <3>1. ASSUME T = {} PROVE FALSE
        <4>1. F(T) = 0 /\ G(T) = 0 /\ H(T) = 0 /\ n(T) = 0
          BY <2>1, <3>1, SumAny, FS_EmptySet
        <4>2. 0 = 0 + e * (2 * 0 - 0 * (m + c))
          <5> HIDE DEF e
          <5> QED BY <1>0
        <4>3. Good(T)
          <5> HIDE DEF e, F, G, H, n
          <5> QED BY <4>1, <4>2
        <4> QED BY <4>3
      <3> QED BY <3>1
    <2>3. PICK x \in T : TRUE
      BY <2>2
    <2> DEFINE U == T \ {x}
    <2>4. U \in SUBSET S /\ U \in SUBSET T /\ U # T
      BY <2>1
    <2>5. Good(U)
      <3> HIDE DEF Good, U
      <3> QED BY <1>3, <2>4
    <2>6. F(T) = f[x] + F(U) /\ G(T) = g[x] + G(U) /\ H(T) = d[x] + H(U)
      <3>1. \A r \in T : f[r] \in Int /\ g[r] \in Int /\ d[r] \in Int
        BY <1>1, <2>1
      <3> HIDE DEF e
      <3> QED BY <2>1, <3>1, SumRemove
    <2>7. n(T) = n(U) + 1
      <3>1. n(U) = n(T) - 1
        BY <2>1, FS_RemoveElement
      <3>2. n(T) \in Nat
        BY <1>2, <2>1
      <3> HIDE DEF n
      <3> QED BY <3>1, <3>2
    <2>8. /\ F(U) \in Int /\ G(U) \in Int /\ H(U) \in Int /\ n(U) \in Nat
          /\ f[x] \in Int /\ d[x] \in Int /\ g[x] = f[x] + e * (2 * d[x] - (m + c))
      <3> HIDE DEF e, F, G, H, n, U
      <3> QED BY <1>1, <1>2, <2>1, <2>4
    <2>9. Good(T)
      <3> DEFINE hu == H(U)
                 nu == n(U)
                 dx == d[x]
                 s  == m + c
      <3>1. hu \in Int /\ nu \in Int /\ dx \in Int /\ s \in Int
        BY <2>8
      <3>2. G(U) = F(U) + e * (2 * hu - nu * s)
        BY <2>5
      <3>3. g[x] = f[x] + e * (2 * dx - s)
        BY <2>8
      <3>4. /\ e * (2 * hu - nu * s) \in Int /\ e * (2 * dx - s) \in Int
            /\ e * (2 * dx - s) + e * (2 * hu - nu * s)
                 = e * (2 * (dx + hu) - (nu + 1) * s)
        <4>1. PICK p \in Int : p = nu * s
          BY <3>1
        <4>2. (nu + 1) * s = p + s
          BY <3>1, <4>1
        <4>3. PICK a \in Int : a = 2 * dx - s
          BY <3>1
        <4>4. PICK b \in Int : b = 2 * hu - p
          BY <3>1
        <4>5. 2 * (dx + hu) - (p + s) = a + b
          BY <3>1, <4>3, <4>4
        <4>6. e * a + e * b = e * (a + b) /\ e * a \in Int /\ e * b \in Int
          BY <1>0
        <4> HIDE DEF hu, nu, dx, s, e
        <4> QED BY <4>1, <4>2, <4>3, <4>4, <4>5, <4>6
      <3> HIDE DEF hu, nu, dx, s, e, F, G, H, n, U
      <3>5. G(T) = F(T) + e * (2 * (dx + hu) - (nu + 1) * s)
        BY <2>6, <2>8, <3>2, <3>3, <3>4
      <3> QED BY <2>6, <2>7, <3>5 DEF hu, nu, dx, s
    <2> QED BY <2>9
  <1>4. Bad = {}
    <2>1. Bad \in SUBSET SUBSET S
      OBVIOUS
    <2> HIDE DEF Bad
    <2> QED BY <1>3, <2>1, MinimalSet
  <1>5. Good(S)
    <2> HIDE DEF Good
    <2> QED BY <1>4
  <1>6. e * (2 * H(S) - n(S) * (m + c)) >= 0
    <2>1. PICK j \in Nat : j = n(S)
      BY <1>2
    <2>2. H(S) = j * m
      BY <2>1
    <2>3. 2 * (j * m) - j * (m + c) = j * e
      OBVIOUS
    <2>4. e * (j * e) = j * (e * e) /\ e * e \in Nat
      BY <1>0
    <2>5. j * (e * e) >= 0
      BY <2>4
    <2> HIDE DEF e, H, n
    <2> QED BY <2>1, <2>2, <2>3, <2>4, <2>5
  <1>7. F(S) <= G(S)
    <2>1. e * (2 * H(S) - n(S) * (m + c)) \in Int
      BY <1>0, <1>2
    <2>2. F(S) \in Int /\ G(S) \in Int
      BY <1>2
    <2> HIDE DEF e, F, G, H, n
    <2> QED BY <1>5, <1>6, <2>1, <2>2
  <1> QED BY <1>2, <1>7

(* The same, as a formula of its parameters.                               *)
Best(S, d, m, c, f, g) ==
  /\ IsFiniteSet(S) /\ S # {} /\ m \in Int /\ c \in Int
  /\ \A r \in S : d[r] \in Int
  /\ SumFunctionOnSet(d, S) = Cardinality(S) * m
  /\ \A r \in S : f[r] = (d[r] - m) * (d[r] - m) /\ g[r] = (d[r] - c) * (d[r] - c)
  => /\ SumFunctionOnSet(f, S) <= SumFunctionOnSet(g, S)
     /\ SumFunctionOnSet(f, S) \in Int /\ SumFunctionOnSet(g, S) \in Int

(* It holds of all of them.                                                *)
LEMMA BestAlways ==
  ASSUME NEW S, NEW d, NEW m, NEW c, NEW f, NEW g
  PROVE  Best(S, d, m, c, f, g)
  BY MeanIsBest DEF Best

(* Distance as k-means minimizes its sum.                                  *)
Squared == ~Spherical /\ \A u, v \in Vector : Distance(u, v) = SquaredL2(u, v)

(* The mean of some vectors is nearer to them, all in all, than any vector. *)
Least(S, D, w, M, c, f, g) ==
  /\ IsFiniteSet(S) /\ S # {} /\ IsFiniteSet(D)
  /\ w \in [S -> [D -> Int]] /\ M \in [D -> Int] /\ c \in [D -> Int]
  /\ \A i \in D : SumFunctionOnSet([r \in S |-> w[r][i]], S) = Cardinality(S) * M[i]
  /\ \A r \in S : f[r] = SquaredL2(w[r], M) /\ g[r] = SquaredL2(w[r], c)
  => SumFunctionOnSet(f, S) <= SumFunctionOnSet(g, S)

LEMMA SquaresFall ==
  ASSUME NEW S, NEW D, NEW w, NEW M, NEW c, NEW f, NEW g
  PROVE  Least(S, D, w, M, c, f, g)
  <1> SUFFICES
        ASSUME IsFiniteSet(S), S # {}, IsFiniteSet(D),
               w \in [S -> [D -> Int]], M \in [D -> Int], c \in [D -> Int],
               \A i \in D : SumFunctionOnSet([r \in S |-> w[r][i]], S) = Cardinality(S) * M[i],
               \A r \in S : f[r] = SquaredL2(w[r], M) /\ g[r] = SquaredL2(w[r], c)
        PROVE  SumFunctionOnSet(f, S) <= SumFunctionOnSet(g, S)
    BY DEF Least
  <1> DEFINE Square(v) == [r \in S |-> [i \in D |-> (w[r][i] - v[i]) * (w[r][i] - v[i])]]
             Column(v) == [i \in D |-> SumFunctionOnSet([r \in S |-> Square(v)[r][i]], S)]
  <1>1. ASSUME NEW v \in [D -> Int], NEW h, \A r \in S : h[r] = SquaredL2(w[r], v)
        PROVE  /\ Square(v) \in [S -> [D -> Int]]
               /\ SumFunctionOnSet(h, S) = SumFunctionOnSet(Column(v), D)
    <2>1. Square(v) \in [S -> [D -> Int]]
      <3>1. ASSUME NEW r \in S, NEW i \in D
            PROVE  (w[r][i] - v[i]) * (w[r][i] - v[i]) \in Int
        <4>1. w[r][i] \in Int /\ v[i] \in Int
          OBVIOUS
        <4> QED BY <4>1
      <3> QED BY <3>1
    <2>2. \A r \in S : h[r] = SumFunctionOnSet(Square(v)[r], D)
      <3>1. ASSUME NEW r \in S PROVE h[r] = SumFunctionOnSet(Square(v)[r], D)
        <4>1. h[r] = SquaredL2(w[r], v) /\ DOMAIN w[r] = D
          BY <1>1
        <4>2. SquaredL2(w[r], v)
                = SumFunctionOnSet([i \in D |-> (w[r][i] - v[i]) * (w[r][i] - v[i])], D)
          BY <4>1 DEF SquaredL2, SumFunction
        <4> QED BY <4>1, <4>2
      <3> QED BY <3>1
    <2>3. \A i \in D : Column(v)[i] = SumFunctionOnSet([r \in S |-> Square(v)[r][i]], S)
      OBVIOUS
    <2> HIDE DEF Square, Column
    <2>4. Swaps(S, D, Square(v), h, Column(v))
      BY SumSwap
    <2>5. SumFunctionOnSet(h, S) = SumFunctionOnSet(Column(v), D)
      BY <2>1, <2>2, <2>3, <2>4 DEF Swaps
    <2> QED BY <2>1, <2>5
  <1>2. SumFunctionOnSet(f, S) = SumFunctionOnSet(Column(M), D)
    <2> HIDE DEF Column, Square
    <2> QED BY <1>1
  <1>3. SumFunctionOnSet(g, S) = SumFunctionOnSet(Column(c), D)
    <2> HIDE DEF Column, Square
    <2> QED BY <1>1
  <1>4. ASSUME NEW i \in D
        PROVE  /\ Column(M)[i] \in Int /\ Column(c)[i] \in Int
               /\ Column(M)[i] <= Column(c)[i]
    <2> DEFINE d == [r \in S |-> w[r][i]]
               a == [r \in S |-> Square(M)[r][i]]
               b == [r \in S |-> Square(c)[r][i]]
               m == M[i]
               o == c[i]
    <2>1. \A r \in S : d[r] \in Int
      OBVIOUS
    <2>2. m \in Int /\ o \in Int
      OBVIOUS
    <2>3. SumFunctionOnSet(d, S) = Cardinality(S) * m
      OBVIOUS
    <2>4. \A r \in S : a[r] = (d[r] - m) * (d[r] - m) /\ b[r] = (d[r] - o) * (d[r] - o)
      BY DEF Square
    <2>5. /\ SumFunctionOnSet(a, S) <= SumFunctionOnSet(b, S)
          /\ SumFunctionOnSet(a, S) \in Int /\ SumFunctionOnSet(b, S) \in Int
      <3> HIDE DEF a, b, d, m, o
      <3>1. Best(S, d, m, o, a, b)
        BY BestAlways
      <3> QED BY <2>1, <2>2, <2>3, <2>4, <3>1 DEF Best
    <2>6. Column(M)[i] = SumFunctionOnSet(a, S) /\ Column(c)[i] = SumFunctionOnSet(b, S)
      <3> HIDE DEF Square
      <3> QED OBVIOUS
    <2> QED BY <2>5, <2>6
  <1>5. SumFunctionOnSet(Column(M), D) <= SumFunctionOnSet(Column(c), D)
    <2> HIDE DEF Column, Square
    <2> QED BY <1>4, SumMonotone
  <1> QED BY <1>2, <1>3, <1>5

(* So is that of the rows of a partition.                                  *)
LEMMA MeanFalls ==
  ASSUME Squared, NEW data \in [Rows -> Stored], NEW S \in SUBSET Rows, S # {},
         NEW c \in Vector, Mean(data, S) \in Vector, NEW f, NEW g,
         \A r \in S : /\ f[r] = Distance(data[r], Mean(data, S))
                      /\ g[r] = Distance(data[r], c)
  PROVE  SumFunctionOnSet(f, S) <= SumFunctionOnSet(g, S)
  <1> DEFINE D == DOMAIN data[0]
             M == Mean(data, S)
  <1>1. /\ IsFiniteSet(D) /\ Vector \subseteq [D -> Int]
        /\ \A r \in Rows : data[r] \in Vector /\ data[r] \in [D -> Int]
    <2>1. 0 \in Rows /\ Stored \subseteq Vector
      BY IvfConfigAssumption DEF Rows
    <2>2. data[0] \in Stored
      BY <2>1
    <2>3. IsFiniteSet(D) /\ Vector \subseteq [D -> Int]
      BY <2>2, ExactAssumption
    <2> HIDE DEF D
    <2> QED BY <2>1, <2>3
  <1>2. M \in [D -> Int] /\ c \in [D -> Int]
    BY <1>1
  <1>3. IsFiniteSet(S) /\ Cardinality(S) \in Nat \ {0}
    BY FiniteRows, FS_EmptySet
  <1>4. ASSUME NEW i \in D
        PROVE  SumFunctionOnSet([r \in S |-> data[r][i]], S) = Cardinality(S) * M[i]
    <2> DEFINE h == [r \in S |-> data[r][i]]
               a == SumFunctionOnSet(h, S)
               n == Cardinality(S)
    <2>1. SumFunction(h) = a
      BY DEF SumFunction
    <2>2. M[i] = a \div n
      BY <2>1 DEF Mean
    <2>3. a % n = 0
      BY <2>1, ExactAssumption
    <2>4. a \in Int
      <3>1. \A r \in S : h[r] \in Int
        BY <1>1
      <3> HIDE DEF h
      <3> QED BY <1>3, <3>1, SumType
    <2>5. a = n * (a \div n) + (a % n)
      <3> HIDE DEF a, n
      <3> QED BY <1>3, <2>4, Division DEF n
    <2>6. n * (a \div n) \in Int
      <3> HIDE DEF a
      <3> QED BY <1>3, <2>4, Division
    <2> HIDE DEF a, n, M
    <2>7. a = n * M[i]
      BY <2>2, <2>3, <2>5, <2>6
    <2> QED BY <2>7 DEF a, n
  <1> DEFINE w == [r \in S |-> data[r]]
  <1>5. w \in [S -> [D -> Int]]
    <2> HIDE DEF D
    <2> QED BY <1>1
  <1>6. \A i \in D : SumFunctionOnSet([r \in S |-> w[r][i]], S) = Cardinality(S) * M[i]
    <2>1. \A i \in D : [r \in S |-> w[r][i]] = [r \in S |-> data[r][i]]
      OBVIOUS
    <2> HIDE DEF D, M, w
    <2> QED BY <1>4, <2>1
  <1>7. \A r \in S : f[r] = SquaredL2(w[r], M) /\ g[r] = SquaredL2(w[r], c)
    BY <1>1 DEF Squared
  <1> HIDE DEF D, M, w
  <1>8. Least(S, D, w, M, c, f, g)
    BY SquaresFall
  <1> QED BY <1>1, <1>2, <1>3, <1>5, <1>6, <1>7, <1>8 DEF Least

(* Before the first round no row has a partition, afterwards all have.     *)
AllOrNone == assignments = [r \in Rows |-> NoPart] \/ assignments \in [Rows -> Parts]

(* The distances Cost sums.                                                *)
Terms(assigned, cs) == [r \in Rows |-> Distance(dataset[r], cs[assigned[r]])]

(* The cost is their sum.                                                  *)
LEMMA CostOf ==
  ASSUME dataset \in [Rows -> Stored], NEW A \in [Rows -> Parts], NEW cs \in [Parts -> Vector]
  PROVE  /\ Cost(A, cs) = SumFunctionOnSet(Terms(A, cs), Rows)
         /\ \A r \in Rows : /\ Terms(A, cs)[r] = Distance(dataset[r], cs[A[r]])
                            /\ Terms(A, cs)[r] \in Int
         /\ Cost(A, cs) \in Int
  <1>1. Cost(A, cs) = SumFunctionOnSet(Terms(A, cs), Rows)
    BY DEF Cost, SumFunction, Terms
  <1>2. \A r \in Rows : /\ Terms(A, cs)[r] = Distance(dataset[r], cs[A[r]])
                        /\ Terms(A, cs)[r] \in Int
    BY IvfConfigAssumption, DistanceAssumption DEF Terms
  <1>3. IsFiniteSet(Rows)
    BY FiniteRows
  <1>4. SumFunctionOnSet(Terms(A, cs), Rows) \in Int
    BY <1>2, <1>3, SumType
  <1> QED BY <1>1, <1>2, <1>4

(* No training step raises the cost once the rows have their partitions.   *)
LEMMA CostStep ==
  ASSUME Squared, TypeOK, assignments \in [Rows -> Parts], Train
  PROVE  Cost(assignments', centroids') <= Cost(assignments, centroids)
  <1>1. /\ dataset \in [Rows -> Stored] /\ centroids \in [Parts -> Vector]
        /\ \A r \in Rows : dataset[r] \in Vector
        /\ IsFiniteSet(Rows)
    BY FiniteRows, IvfConfigAssumption DEF TypeOK
  <1>2. CASE Assign
    <2>1. assignments' = NextAssignments /\ centroids' = centroids
      BY <1>2 DEF Assign
    <2>2. NextAssignments \in [Rows -> Parts]
      BY <1>1, NearestCentroidExists DEF NextAssignments
    <2>3. ASSUME NEW r \in Rows
          PROVE  Terms(NextAssignments, centroids)[r] <= Terms(assignments, centroids)[r]
      <3> DEFINE m == NextAssignments[r]
                 o == assignments[r]
      <3>1. m = NearestCentroid(centroids, dataset[r])
        BY DEF NextAssignments
      <3>2. ~Closer(centroids, dataset[r], o, m)
        BY <1>1, <3>1, NearestCentroidExists
      <3>3. /\ Terms(NextAssignments, centroids)[r] = Distance(dataset[r], centroids[m])
            /\ Terms(assignments, centroids)[r] = Distance(dataset[r], centroids[o])
            /\ Terms(NextAssignments, centroids)[r] \in Int
            /\ Terms(assignments, centroids)[r] \in Int
        BY <1>1, <2>2, CostOf
      <3> HIDE DEF m, o
      <3> QED BY <3>2, <3>3 DEF Closer
    <2>4. SumFunctionOnSet(Terms(NextAssignments, centroids), Rows)
            <= SumFunctionOnSet(Terms(assignments, centroids), Rows)
      <3>1. \A r \in Rows : /\ Terms(NextAssignments, centroids)[r] \in Int
                            /\ Terms(assignments, centroids)[r] \in Int
        BY <1>1, <2>2, CostOf
      <3> QED BY <1>1, <2>3, <3>1, SumMonotone
    <2> QED BY <1>1, <2>1, <2>2, <2>4, CostOf
  <1>3. CASE Converged \/ IterationsDone
    <2>1. assignments' = assignments /\ centroids' = centroids
      BY <1>3 DEF Converged, IterationsDone, trainVars
    <2> QED BY <1>1, <2>1, CostOf
  <1>4. ASSUME NEW v \in Vector, MoveCentroid(v), assignments' = assignments,
               SumFunctionOnSet(Terms(assignments, [centroids EXCEPT ![partition] = v]),
                                Assigned(partition))
                 <= SumFunctionOnSet(Terms(assignments, centroids), Assigned(partition))
        PROVE  Cost(assignments', centroids') <= Cost(assignments, centroids)
    <2> DEFINE moved == [centroids EXCEPT ![partition] = v]
               f == Terms(assignments, moved)
               g == Terms(assignments, centroids)
               S == Assigned(partition)
               R == Rows \ S
    <2>1. /\ centroids' = moved /\ moved \in [Parts -> Vector] /\ partition \in Parts
          /\ \A p \in Parts : p # partition => moved[p] = centroids[p]
      BY <1>1, <1>4 DEF MoveCentroid, TypeOK
    <2> HIDE DEF moved
    <2>2. /\ Cost(assignments, moved) = SumFunctionOnSet(f, Rows)
          /\ Cost(assignments, centroids) = SumFunctionOnSet(g, Rows)
          /\ \A r \in Rows : /\ f[r] = Distance(dataset[r], moved[assignments[r]])
                             /\ g[r] = Distance(dataset[r], centroids[assignments[r]])
                             /\ f[r] \in Int /\ g[r] \in Int
      BY <1>1, <2>1, CostOf
    <2>3. /\ R \cup S = Rows /\ R \cap S = {}
          /\ R \in SUBSET Rows /\ S \in SUBSET Rows
          /\ IsFiniteSet(R) /\ IsFiniteSet(S)
      BY <1>1, FS_Subset DEF Assigned
    <2>4. \A r \in R : f[r] = g[r]
      <3>1. \A r \in R : r \in Rows /\ assignments[r] # partition /\ assignments[r] \in Parts
        BY DEF Assigned
      <3> HIDE DEF f, g
      <3> QED BY <2>1, <2>2, <3>1
    <2>5. SumFunctionOnSet(f, S) <= SumFunctionOnSet(g, S)
      BY <1>4 DEF moved
    <2> HIDE DEF f, g, R, S
    <2>6. SumFunctionOnSet(f, R) = SumFunctionOnSet(g, R)
      BY <2>3, <2>4, SumSame
    <2>7. /\ SumFunctionOnSet(f, Rows) = SumFunctionOnSet(f, R) + SumFunctionOnSet(f, S)
          /\ SumFunctionOnSet(g, Rows) = SumFunctionOnSet(g, R) + SumFunctionOnSet(g, S)
      <3>1. \A r \in R \cup S : f[r] \in Int /\ g[r] \in Int
        BY <2>2, <2>3
      <3>2. /\ SumFunctionOnSet(f, R \cup S) = SumFunctionOnSet(f, R) + SumFunctionOnSet(f, S)
            /\ SumFunctionOnSet(g, R \cup S) = SumFunctionOnSet(g, R) + SumFunctionOnSet(g, S)
        BY <2>3, <3>1, SumUnion
      <3> QED BY <2>3, <3>2
    <2>8. /\ SumFunctionOnSet(f, R) \in Int /\ SumFunctionOnSet(f, S) \in Int
          /\ SumFunctionOnSet(g, S) \in Int
      BY <1>1, <2>2, <2>3, SumType
    <2>9. SumFunctionOnSet(f, Rows) <= SumFunctionOnSet(g, Rows)
      BY <2>5, <2>6, <2>7, <2>8
    <2> QED BY <1>4, <2>1, <2>2, <2>9
  <1>5. CASE Reseed
    <2>1. PICK r \in Rows : MoveCentroid(dataset[r])
      BY <1>5 DEF Reseed
    <2>2. assignments' = assignments /\ Assigned(partition) = {}
      BY <1>5 DEF Reseed
    <2>3. \A f : SumFunctionOnSet(f, {}) = 0
      BY FS_EmptySet, SumAny
    <2>4. SumFunctionOnSet(Terms(assignments, [centroids EXCEPT ![partition] = dataset[r]]),
                           Assigned(partition))
            <= SumFunctionOnSet(Terms(assignments, centroids), Assigned(partition))
      BY <2>2, <2>3
    <2> QED BY <1>1, <1>4, <2>1, <2>2, <2>4
  <1>6. CASE Recenter
    <2> DEFINE S == Assigned(partition)
               v == Mean(dataset, S)
               moved == [centroids EXCEPT ![partition] = v]
    <2>1. MoveCentroid(v) /\ assignments' = assignments /\ S # {} /\ partition \in Parts
      BY <1>6 DEF Recenter, TypeOK
    <2>2. S \in SUBSET Rows /\ v \in Vector
      <3>1. S \in (SUBSET Rows) \ {{}}
        BY <2>1 DEF Assigned
      <3> QED BY <1>1, <3>1, MeanAssumption DEF Squared
    <2>3. moved \in [Parts -> Vector] /\ moved[partition] = v
      BY <1>1, <2>1, <2>2
    <2>4. \A r \in S : /\ Terms(assignments, moved)[r] = Distance(dataset[r], v)
                       /\ Terms(assignments, centroids)[r]
                            = Distance(dataset[r], centroids[partition])
      <3>1. \A r \in S : r \in Rows /\ assignments[r] = partition
        BY DEF Assigned
      <3> HIDE DEF moved, v, S
      <3> QED BY <1>1, <2>3, <3>1, CostOf
    <2>5. SumFunctionOnSet(Terms(assignments, moved), S)
            <= SumFunctionOnSet(Terms(assignments, centroids), S)
      <3>1. centroids[partition] \in Vector
        BY <1>1, <2>1
      <3> HIDE DEF moved, S
      <3> QED BY <1>1, <2>1, <2>2, <2>4, <3>1, MeanFalls
    <2> QED BY <1>4, <2>1, <2>2, <2>5
  <1>7. CASE RecenterOnRow
    BY <1>7 DEF RecenterOnRow, Squared
  <1> QED BY <1>2, <1>3, <1>5, <1>6, <1>7 DEF Train

(* The training keeps that.                                                *)
LEMMA AllOrNoneStep ==
  /\ Init => AllOrNone
  /\ TypeOK /\ AllOrNone /\ Train => AllOrNone'
  <1>1. Init => AllOrNone
    BY DEF Init, AllOrNone
  <1>2. ASSUME TypeOK, AllOrNone, Train PROVE AllOrNone'
    <2>1. CASE Assign
      <3>1. \A r \in Rows : dataset[r] \in Vector
        BY <1>2, IvfConfigAssumption DEF TypeOK
      <3>2. NextAssignments \in [Rows -> Parts]
        BY <3>1, <1>2, NearestCentroidExists DEF NextAssignments, TypeOK
      <3> QED BY <2>1, <3>2 DEF Assign, AllOrNone
    <2>2. CASE Converged \/ IterationsDone \/ Reseed \/ Recenter \/ RecenterOnRow
      <3>1. assignments' = assignments
        BY <2>2 DEF Converged, IterationsDone, Reseed, Recenter, RecenterOnRow, trainVars
      <3> QED BY <1>2, <3>1 DEF AllOrNone
    <2> QED BY <1>2, <2>1, <2>2 DEF Train
  <1> QED BY <1>1, <1>2

(* No step of the training raises the sum of the squared distances of the  *)
(* rows from their centroids: assigning every row to its nearest one does  *)
(* not, moving a centroid to the mean of its rows does not, and an empty   *)
(* partition has no rows whose distance could grow                         *)
(* (vector-db/core/src/ivf.rs:64-101).                                     *)
THEOREM CostFalls == Squared => (Spec => CostNeverGrows)
  <1> SUFFICES ASSUME Squared PROVE Spec => CostNeverGrows
    OBVIOUS
  <1> DEFINE Falls == assignments # [r \in Rows |-> NoPart] /\ phase \in {"assign", "update"} =>
                        Cost(assignments', centroids') <= Cost(assignments, centroids)
  <1>1. IInv /\ AllOrNone /\ [Next]_vars => AllOrNone' /\ [Falls]_vars
    <2> SUFFICES ASSUME IInv, AllOrNone, [Next]_vars PROVE AllOrNone' /\ [Falls]_vars
      OBVIOUS
    <2>1. CASE UNCHANGED vars
      BY <2>1 DEF vars, trainVars, AllOrNone
    <2>2. CASE Train
      BY <2>2, AllOrNoneStep, CostStep DEF IInv, AllOrNone
    <2>3. CASE FillLists \/ Query \/ Search
      <3>1. assignments' = assignments /\ phase \notin {"assign", "update"}
        BY <2>3 DEF FillLists, Query, Search, Probe, Score, Answer, trainVars
      <3> QED BY <3>1 DEF AllOrNone
    <2> QED BY <2>1, <2>2, <2>3 DEF Next
  <1>2. Init => AllOrNone
    BY AllOrNoneStep
  <1>3. Spec => [][Falls]_vars
    BY <1>1, <1>2, Invariant, PTL DEF Spec
  <1> QED BY <1>3 DEF CostNeverGrows

-----------------------------------------------------------------------------
Dim    == Subs * SliceSize
Floats == -MaxFloat .. MaxFloat

(* Codewords and scored rows are ranked as rows are, by numbers that stand *)
(* for their distances.                                                    *)
Numbers      == Int
Itself(q, d) == d

Ranked == INSTANCE NeighborOrderProofs WITH Vector <- Numbers, Distance <- Itself

(* The instance counts as this module does, and its numbers are integers.  *)
LEMMA SameSets ==
  ASSUME NEW S
  PROVE  /\ Ranked!IsFiniteSet(S) <=> IsFiniteSet(S)
         /\ Ranked!Cardinality(S) = Cardinality(S)
         /\ \A u, v \in Numbers : Itself(u, v) \in Int
  <1>1. Ranked!IsFiniteSet(S) <=> IsFiniteSet(S)
    BY Zenon DEF Ranked!IsFiniteSet, IsFiniteSet
  <1>2. Ranked!Cardinality(S) = Cardinality(S)
    BY Zenon DEF Ranked!Cardinality, Cardinality
  <1> QED BY <1>1, <1>2 DEF Itself, Numbers

(* What the assumptions say of slices, codes and vectors.                  *)
LEMMA Config ==
  /\ Subs \in Nat \ {0} /\ SliceSize \in Nat \ {0} /\ Dim \in Nat
  /\ IsFiniteSet(1 .. SliceSize) /\ IsFiniteSet(1 .. Dim)
  /\ Slices \in SUBSET Nat /\ IsFiniteSet(Slices)
  /\ Codes \in SUBSET Nat /\ IsFiniteSet(Codes) /\ 0 \in Codes
  /\ MaxFloat \in Nat /\ 0 \in Floats /\ Floats \in SUBSET Int
  /\ \A v \in Vector : v \in [1 .. Dim -> Int]
  /\ \A v \in Stored \cup Queries : v \in [1 .. Dim -> Floats]
  <1>1. /\ Subs \in Nat \ {0} /\ SliceSize \in Nat \ {0} /\ Dim \in Nat /\ MaxFloat \in Nat
        /\ CodebookSize \in Nat /\ CodebookSize >= 2
    BY PqConfigAssumption DEF Dim
  <1>2. IsFiniteSet(1 .. SliceSize) /\ IsFiniteSet(1 .. Dim)
    BY <1>1, FS_Interval
  <1>3. Slices \in SUBSET Nat /\ IsFiniteSet(Slices)
    BY <1>1, FS_Interval DEF Slices
  <1>4. Codes \in SUBSET Nat /\ IsFiniteSet(Codes) /\ 0 \in Codes
    BY <1>1, FS_Interval DEF Codes
  <1>5. 0 \in Floats /\ Floats \in SUBSET Int
    BY <1>1 DEF Floats
  <1>6. \A v \in Vector : v \in [1 .. Dim -> Int]
    BY PqConfigAssumption DEF Dim
  <1>7. \A v \in Stored \cup Queries : v \in [1 .. Dim -> Floats]
    <2>1. Stored \cup Queries \subseteq Vector
      BY IvfConfigAssumption
    <2>2. \A v \in Stored \cup Queries : \A i \in DOMAIN v : v[i] \in Floats
      BY PqConfigAssumption DEF Floats
    <2>3. \A v \in Vector : v = [i \in 1 .. Dim |-> v[i]]
      BY <1>6
    <2> QED BY <1>6, <2>1, <2>2, <2>3
  <1> QED BY <1>1, <1>2, <1>3, <1>4, <1>5, <1>6, <1>7

(* Squared distances are natural numbers.                                  *)
LEMMA SquareType ==
  ASSUME NEW n \in Nat, NEW u \in [1 .. n -> Int], NEW v \in [1 .. n -> Int]
  PROVE  SquaredL2(u, v) \in Nat
  <1> DEFINE f == [i \in DOMAIN u |-> (u[i] - v[i]) * (u[i] - v[i])]
  <1>1. \A d \in Int : d * d \in Nat
    OBVIOUS
  <1>2. \A i \in 1 .. n : f[i] \in Nat
    <2>1. ASSUME NEW i \in 1 .. n PROVE f[i] \in Nat
      <3>1. u[i] - v[i] \in Int
        OBVIOUS
      <3> QED BY <1>1, <3>1
    <2> QED BY <2>1
  <1>3. SquaredL2(u, v) = SumFunctionOnSet(f, 1 .. n)
    BY DEF SquaredL2, SumFunction
  <1>4. IsFiniteSet(1 .. n)
    BY FS_Interval
  <1> HIDE DEF f
  <1> QED BY <1>2, <1>3, <1>4, SumNat

(* nearest_vector finds a codeword, and none is nearer.                    *)
LEMMA CodeExists ==
  ASSUME NEW book \in [Codes -> [1 .. SliceSize -> Int]], NEW v \in [1 .. SliceSize -> Int]
  PROVE  /\ NearestCode(book, v) \in Codes
         /\ \A o \in Codes : SquaredL2(v, book[NearestCode(book, v)]) <= SquaredL2(v, book[o])
  <1> DEFINE d == [c \in Codes |-> SquaredL2(v, book[c])]
  <1>1. d \in [Codes -> Numbers]
    <2>1. \A c \in Codes : SquaredL2(v, book[c]) \in Nat
      BY Config, SquareType
    <2> QED BY <2>1 DEF Numbers
  <1>2. PICK m \in Codes : \A s \in Codes \ {m} : Ranked!Closer(d, 0, m, s)
    <2> HIDE DEF d
    <2>1. Codes \in SUBSET Nat /\ Codes \in SUBSET Codes
          /\ Ranked!IsFiniteSet(Codes) /\ Codes # {} /\ 0 \in Numbers
      BY Config, SameSets DEF Numbers
    <2> QED BY <1>1, <2>1, SameSets, Ranked!NearestExists
  <1>3. \A o \in Codes : d[m] < d[o] \/ (d[m] = d[o] /\ m <= o)
    <2>1. ASSUME NEW o \in Codes, o # m
          PROVE  d[m] < d[o] \/ (d[m] = d[o] /\ m <= o)
      <3>1. Ranked!Closer(d, 0, m, o)
        BY <1>2, <2>1
      <3>2. m < o => m <= o
        BY Config
      <3> QED BY <3>1, <3>2 DEF Ranked!Closer, Itself
    <2> QED BY <2>1, Config
  <1>4. /\ NearestCode(book, v) \in Codes
        /\ \A o \in Codes : \/ d[NearestCode(book, v)] < d[o]
                            \/ d[NearestCode(book, v)] = d[o] /\ NearestCode(book, v) <= o
    BY <1>3 DEF NearestCode
  <1>5. \A c \in Codes : d[c] \in Int
    BY <1>1 DEF Numbers
  <1>6. \A o \in Codes : d[NearestCode(book, v)] <= d[o]
    <2> HIDE DEF d
    <2> QED BY <1>4, <1>5
  <1> QED BY <1>4, <1>6

(* Where the components of a slice are.                                    *)
Place(m, i) == m * SliceSize + i
SliceOf(i)  == (i - 1) \div SliceSize

(* A place tells the slice and the component in it.                        *)
LEMMA SlicePlace ==
  ASSUME NEW m \in Slices, NEW i \in 1 .. SliceSize
  PROVE  /\ Place(m, i) \in 1 .. Dim
         /\ SliceOf(Place(m, i)) = m
         /\ Place(m, i) - m * SliceSize = i
  <1>1. m \in Nat /\ m + 1 <= Subs /\ Subs \in Nat /\ SliceSize \in Nat \ {0} /\ i \in Nat
    BY Config DEF Slices
  <1>2. (m + 1) * SliceSize <= Subs * SliceSize
    BY <1>1
  <1>3. (m + 1) * SliceSize = m * SliceSize + SliceSize /\ m * SliceSize \in Nat
    BY <1>1
  <1>4. m * SliceSize + i \in 1 .. Dim
    BY <1>1, <1>2, <1>3, Config DEF Dim
  <1>5. (m * SliceSize + (i - 1)) \div SliceSize = m
    BY <1>1, Quotient
  <1>6. m * SliceSize + (i - 1) = m * SliceSize + i - 1
    BY <1>1, <1>3
  <1> QED BY <1>1, <1>3, <1>4, <1>5, <1>6 DEF Place, SliceOf

(* Every component is in a slice.                                          *)
LEMMA PlaceSlice ==
  ASSUME NEW i \in 1 .. Dim
  PROVE  /\ SliceOf(i) \in Slices
         /\ i - SliceOf(i) * SliceSize \in 1 .. SliceSize
         /\ Place(SliceOf(i), i - SliceOf(i) * SliceSize) = i
  <1> DEFINE m == (i - 1) \div SliceSize
             s == (i - 1) % SliceSize
  <1>1. i \in Nat /\ i >= 1 /\ i <= Dim /\ SliceSize \in Nat \ {0} /\ Subs \in Nat \ {0}
    BY Config
  <1>2. m \in Int /\ s \in 0 .. SliceSize - 1 /\ i - 1 = SliceSize * m + s
    BY <1>1, Division
  <1> HIDE DEF m, s
  <1>3. m \in Int /\ SliceSize * m = m * SliceSize /\ m * SliceSize \in Int
    BY <1>1, <1>2
  <1>4. i - m * SliceSize \in 1 .. SliceSize
    BY <1>1, <1>2, <1>3
  <1>5. m >= 0
    <2>1. ASSUME m <= -1 PROVE FALSE
      <3>1. m * SliceSize <= (-1) * SliceSize
        BY <1>1, <1>3, <2>1
      <3> QED BY <1>1, <1>2, <1>3, <3>1
    <2> QED BY <1>3, <2>1
  <1>6. m < Subs
    <2>1. ASSUME m >= Subs PROVE FALSE
      <3>1. m * SliceSize >= Subs * SliceSize
        BY <1>1, <1>3, <2>1
      <3>2. Subs * SliceSize \in Nat
        BY <1>1
      <3> QED BY <1>1, <1>2, <1>3, <3>1, <3>2 DEF Dim
    <2> QED BY <1>1, <1>3, <2>1
  <1>7. m \in Slices
    BY <1>1, <1>3, <1>5, <1>6 DEF Slices
  <1>8. Place(m, i - m * SliceSize) = i
    BY <1>1, <1>3 DEF Place
  <1> QED BY <1>4, <1>7, <1>8 DEF m, SliceOf

(* A slice of a vector is a vector of SliceSize components.                *)
LEMMA SliceType ==
  ASSUME NEW A, NEW v \in [1 .. Dim -> A], NEW m \in Slices
  PROVE  Slice(v, m) \in [1 .. SliceSize -> A]
  <1>1. \A i \in 1 .. SliceSize : Place(m, i) \in 1 .. Dim
    BY SlicePlace
  <1> QED BY <1>1 DEF Slice, Place

-----------------------------------------------------------------------------
(* What training leaves: rows and centroids of one dimension.              *)
Trained ==
  /\ dataset \in [Rows -> Stored]
  /\ centroids \in [Parts -> Vector]

(* Rows and centroids are vectors, and every row has its centroid.         *)
LEMMA RowVectors ==
  ASSUME Trained
  PROVE  /\ \A r \in Rows : dataset[r] \in Vector /\ dataset[r] \in [1 .. Dim -> Floats]
         /\ \A r \in Rows : NearestCentroid(centroids, dataset[r]) \in Parts
         /\ \A p \in Parts : centroids[p] \in [1 .. Dim -> Int]
  <1>1. \A r \in Rows : dataset[r] \in Vector /\ dataset[r] \in [1 .. Dim -> Floats]
    BY Config, IvfConfigAssumption DEF Trained
  <1>2. \A r \in Rows : NearestCentroid(centroids, dataset[r]) \in Parts
    BY <1>1, NearestCentroidExists DEF Trained
  <1> QED BY <1>1, <1>2, Config DEF Trained

(* residual subtracts component by component.                              *)
LEMMA ResidualType ==
  ASSUME Trained, NEW r \in Rows
  PROVE  Residual(r) \in [1 .. Dim -> Int]
  <1> DEFINE c == centroids[NearestCentroid(centroids, dataset[r])]
  <1>1. c \in [1 .. Dim -> Int] /\ dataset[r] \in [1 .. Dim -> Int]
    BY RowVectors, Config
  <1>2. Residual(r) = [i \in DOMAIN c |-> dataset[r][i] - c[i]]
    BY DEF Residual
  <1> HIDE DEF c
  <1>3. \A i \in 1 .. Dim : dataset[r][i] - c[i] \in Int
    <2>1. \A i \in 1 .. Dim : dataset[r][i] \in Int /\ c[i] \in Int
      BY <1>1
    <2> QED BY <2>1
  <1>4. DOMAIN c = 1 .. Dim
    BY <1>1
  <1> QED BY <1>2, <1>3, <1>4

(* The mean of finite slices is finite.                                    *)
LEMMA CodeMeanType ==
  ASSUME sub \in Slices, NEW S \in SUBSET Rows, S # {},
         \A r \in S : Residual(r) \in [1 .. Dim -> Floats]
  PROVE  CodeMean(S) \in [1 .. SliceSize -> Floats]
  <1>1. IsFiniteSet(S) /\ Cardinality(S) \in Nat \ {0}
    BY FiniteRows, FS_EmptySet
  <1>2. ASSUME NEW i \in 1 .. SliceSize
        PROVE  SumFunction([r \in S |-> Slice(Residual(r), sub)[i]]) \div Cardinality(S)
                 \in Floats
    <2> DEFINE f == [r \in S |-> Slice(Residual(r), sub)[i]]
    <2>1. ASSUME NEW r \in S PROVE f[r] \in Floats
      <3>1. Slice(Residual(r), sub) \in [1 .. SliceSize -> Floats]
        BY SliceType
      <3> QED BY <3>1
    <2>2. SumFunction(f) = SumFunctionOnSet(f, S)
      BY DEF SumFunction
    <2> HIDE DEF f
    <2>3. -MaxFloat \in Int /\ MaxFloat \in Int
      BY Config
    <2>4. \A r \in S : f[r] \in Int /\ -MaxFloat <= f[r] /\ f[r] <= MaxFloat
      BY <2>1, <2>3 DEF Floats
    <2>5. /\ SumFunctionOnSet(f, S) \in Int
          /\ (-MaxFloat) * Cardinality(S) <= SumFunctionOnSet(f, S)
          /\ SumFunctionOnSet(f, S) <= MaxFloat * Cardinality(S)
      BY <1>1, <2>3, <2>4, SumBounds
    <2>6. SumFunctionOnSet(f, S) \div Cardinality(S) \in -MaxFloat .. MaxFloat
      BY <1>1, <2>3, <2>5, MeanBounds
    <2> QED BY <2>2, <2>6 DEF Floats, f
  <1> QED BY <1>2 DEF CodeMean

(* What a row is decoded to has a component for each of a vector.          *)
Finite == [Slices -> [Codes -> [1 .. SliceSize -> Floats]]]

LEMMA DecodedType ==
  ASSUME Trained, NEW r \in Rows, codebooks \in Finite, codes \in [Rows -> [Slices -> Codes]]
  PROVE  Decoded(r) \in [1 .. Dim -> Int]
  <1> DEFINE c == centroids[NearestCentroid(centroids, dataset[r])]
             word(i) == codebooks[SliceOf(i)][codes[r][SliceOf(i)]][i - SliceOf(i) * SliceSize]
  <1>1. c \in [1 .. Dim -> Int]
    BY RowVectors
  <1>2. ASSUME NEW i \in 1 .. Dim PROVE word(i) \in Int
    <2>1. SliceOf(i) \in Slices /\ i - SliceOf(i) * SliceSize \in 1 .. SliceSize
      BY PlaceSlice
    <2>2. codebooks[SliceOf(i)][codes[r][SliceOf(i)]] \in [1 .. SliceSize -> Floats]
      BY <2>1 DEF Finite
    <2>3. word(i) \in Floats
      BY <2>1, <2>2
    <2> QED BY <2>3, Config
  <1>3. Decoded(r) = [i \in DOMAIN c |-> c[i] + word(i)]
    BY DEF Decoded, SliceOf
  <1> HIDE DEF c, word
  <1>4. \A i \in 1 .. Dim : c[i] + word(i) \in Int
    BY <1>1, <1>2
  <1> QED BY <1>1, <1>3, <1>4

(* A row scored with the tables of its own list is scored by the distance  *)
(* of the query from what its codes stand for.                             *)
LEMMA ScoreIsDistance ==
  ASSUME Trained, NEW r \in Rows, codebooks \in Finite, codes \in [Rows -> [Slices -> Codes]],
         query \in Queries, tables = LookupTables(NearestCentroid(centroids, dataset[r]))
  PROVE  SumFunction([m \in Slices |-> tables[m][codes[r][m]]]) = SquaredL2(query, Decoded(r))
  <1> DEFINE p == NearestCentroid(centroids, dataset[r])
             c == centroids[p]
             d == Decoded(r)
             f == [i \in DOMAIN query |-> (query[i] - d[i]) * (query[i] - d[i])]
             g == [m \in Slices |-> tables[m][codes[r][m]]]
             B == [m \in Slices |-> {Place(m, j) : j \in 1 .. SliceSize}]
  <1>1. /\ c \in [1 .. Dim -> Int] /\ d \in [1 .. Dim -> Int]
        /\ query \in [1 .. Dim -> Int] /\ p \in Parts
    BY RowVectors, DecodedType, Config
  <1>2. SquaredL2(query, d) = SumFunctionOnSet(f, 1 .. Dim)
    BY <1>1 DEF SquaredL2, SumFunction
  <1>3. \A i \in 1 .. Dim : f[i] \in Int
    <2>1. ASSUME NEW i \in 1 .. Dim PROVE f[i] \in Int
      <3>1. query[i] - d[i] \in Int
        BY <1>1
      <3> HIDE DEF d
      <3> QED BY <1>1, <3>1
    <2> QED BY <2>1
  <1>4. \A i : i \in 1 .. Dim <=> \E m \in Slices : i \in B[m]
    <2>1. ASSUME NEW i \in 1 .. Dim PROVE \E m \in Slices : i \in B[m]
      BY PlaceSlice
    <2>2. \A m \in Slices : \A i \in B[m] : i \in 1 .. Dim
      BY SlicePlace
    <2> HIDE DEF B
    <2> QED BY <2>1, <2>2
  <1>5. ASSUME NEW m \in Slices
        PROVE  IsFiniteSet(B[m]) /\ g[m] = SumFunctionOnSet(f, B[m])
    <2> DEFINE b == [j \in 1 .. SliceSize |-> Place(m, j)]
               w == codes[r][m]
               h == [j \in 1 .. SliceSize |->
                       LET e == Slice(query, m)[j] - Slice(c, m)[j] - codebooks[m][w][j]
                       IN  e * e]
    <2>1. w \in Codes
      OBVIOUS
    <2>2. g[m] = SumFunctionOnSet(h, 1 .. SliceSize)
      <3>1. g[m] = LookupTables(p)[m][w]
        OBVIOUS
      <3>2. LookupTables(p)[m][w] = SumFunction(h)
        BY <2>1 DEF LookupTables
      <3>3. SumFunction(h) = SumFunctionOnSet(h, 1 .. SliceSize)
        BY DEF SumFunction
      <3> QED BY <3>1, <3>2, <3>3
    <2>3. b \in Bijection(1 .. SliceSize, B[m])
      <3>1. \A x, y \in 1 .. SliceSize : b[x] = b[y] => x = y
        BY SlicePlace
      <3> QED BY <3>1 DEF Bijection, Injection, Surjection, IsInjective
    <2>4. \A i \in B[m] : i \in 1 .. Dim
      BY SlicePlace
    <2>5. ASSUME NEW j \in 1 .. SliceSize
          PROVE  f[b[j]] \in Int /\ h[j] = f[b[j]]
      <3> DEFINE i == Place(m, j)
      <3>1. i \in 1 .. Dim /\ SliceOf(i) = m /\ i - m * SliceSize = j
        BY SlicePlace
      <3>3. d[i] = c[i] + codebooks[m][w][j]
        BY <1>1, <3>1 DEF Decoded, SliceOf
      <3>4. Slice(query, m)[j] = query[i] /\ Slice(c, m)[j] = c[i]
        BY DEF Slice, Place
      <3>5. codebooks[m][w][j] \in Int /\ query[i] \in Int /\ c[i] \in Int
        <4>1. codebooks[m][w] \in [1 .. SliceSize -> Floats]
          BY <2>1 DEF Finite
        <4>2. codebooks[m][w][j] \in Floats
          BY <4>1
        <4> QED BY <1>1, <3>1, <4>2, Config
      <3>6. query[i] - d[i] = query[i] - c[i] - codebooks[m][w][j]
        <4> HIDE DEF d, c, i, w
        <4> QED BY <3>3, <3>5
      <3>7. f[i] = (query[i] - d[i]) * (query[i] - d[i])
        BY <1>1, <3>1
      <3>8. h[j] = (query[i] - c[i] - codebooks[m][w][j]) * (query[i] - c[i] - codebooks[m][w][j])
        BY <3>4
      <3>9. f[i] \in Int /\ b[j] = i
        BY <1>3, <3>1
      <3> HIDE DEF f, h, d, c, i, w
      <3> QED BY <3>6, <3>7, <3>8, <3>9
    <2>6. IsFiniteSet(B[m])
      <3>1. B[m] \in SUBSET (1 .. Dim)
        BY SlicePlace
      <3> HIDE DEF B
      <3> QED BY <3>1, Config, FS_Subset
    <2>7. SumFunctionOnSet(h, 1 .. SliceSize) = SumFunctionOnSet(f, B[m])
      <3>1. IsFiniteSet(1 .. SliceSize)
        BY Config
      <3>2. IntegerOn(f, B[m])
        <4> HIDE DEF B, f
        <4> QED BY <1>3, <2>4 DEF IntegerOn
      <3>3. PullsBack(h, f, 1 .. SliceSize, b)
        <4> HIDE DEF h, f, b
        <4> QED BY <2>5 DEF PullsBack
      <3> HIDE DEF h, f, b, B
      <3> QED BY <2>3, <3>1, <3>2, <3>3, SumImage
    <2> QED BY <2>2, <2>6, <2>7
  <1>6. \A m, n \in Slices : m # n => B[m] \cap B[n] = {}
    <2>1. \A m \in Slices : \A i \in B[m] : m = SliceOf(i)
      BY SlicePlace
    <2> HIDE DEF B
    <2> QED BY <2>1
  <1>7. IntegerOn(f, 1 .. Dim)
    <2> HIDE DEF f
    <2> QED BY <1>3 DEF IntegerOn
  <1>8. SumFunctionOnSet(g, Slices) = SumFunctionOnSet(f, 1 .. Dim)
    <2>1. Blocks(B, Slices, 1 .. Dim)
      <3> HIDE DEF B
      <3> QED BY <1>4, <1>5, <1>6 DEF Blocks
    <2>2. BlockSums(g, f, Slices, B)
      <3> HIDE DEF B, f, g
      <3> QED BY <1>5 DEF BlockSums
    <2>3. IsFiniteSet(Slices)
      BY Config
    <2> HIDE DEF B, f, g
    <2> QED BY <1>7, <2>1, <2>2, <2>3, SumBlocks
  <1>9. SumFunction(g) = SumFunctionOnSet(g, Slices)
    BY DEF SumFunction
  <1> QED BY <1>2, <1>8, <1>9

-----------------------------------------------------------------------------
(* The entries of the shortlist, and their order.                          *)
Entry(d, r)   == [row |-> r, distance |-> d[r]]
Entries(d, S) == {Entry(d, r) : r \in S}

(* Entries are in the order of their rows.                                 *)
LEMMA EntryBefore ==
  ASSUME NEW d, NEW a, NEW b
  PROVE  Before(Entry(d, a), Entry(d, b)) <=> Ranked!Closer(d, 0, a, b)
  BY DEF Before, Entry, Ranked!Closer, Itself

(* There is one entry for every row.                                       *)
LEMMA EntriesSize ==
  ASSUME NEW d, NEW S, IsFiniteSet(S)
  PROVE  /\ IsFiniteSet(Entries(d, S))
         /\ Cardinality(Entries(d, S)) = Cardinality(S)
         /\ {a.row : a \in Entries(d, S)} = S
  <1> DEFINE b == [r \in S |-> Entry(d, r)]
  <1>1. b \in Bijection(S, Entries(d, S))
    BY DEF Bijection, Injection, Surjection, IsInjective, Entries, Entry
  <1>2. ExistsBijection(S, Entries(d, S))
    BY <1>1 DEF ExistsBijection
  <1>3. {a.row : a \in Entries(d, S)} = S
    <2>1. \A r \in S : Entry(d, r) \in Entries(d, S) /\ Entry(d, r).row = r
      BY DEF Entries, Entry
    <2>2. \A a \in Entries(d, S) : a.row \in S
      BY DEF Entries, Entry
    <2> QED BY <2>1, <2>2
  <1> QED BY <1>2, <1>3, FS_Bijection

(* The entries before r's are those of the rows closer than r.             *)
LEMMA EntriesNearest ==
  ASSUME NEW d, NEW S, IsFiniteSet(S), NEW n
  PROVE  Entries(d, Ranked!Nearest(d, 0, S, n))
           = {a \in Entries(d, S) :
                Cardinality({b \in Entries(d, S) : Before(b, a)}) < n}
  <1>1. ASSUME NEW r \in S
        PROVE  Cardinality({b \in Entries(d, S) : Before(b, Entry(d, r))})
                 = Cardinality({s \in S : Ranked!Closer(d, 0, s, r)})
    <2> DEFINE C == {s \in S : Ranked!Closer(d, 0, s, r)}
    <2>1. {b \in Entries(d, S) : Before(b, Entry(d, r))} = Entries(d, C)
      BY EntryBefore DEF Entries
    <2>2. IsFiniteSet(C)
      BY FS_Subset
    <2> HIDE DEF C
    <2>3. Cardinality(Entries(d, C)) = Cardinality(C)
      BY <2>2, EntriesSize
    <2> QED BY <2>1, <2>3 DEF C
  <1>2. Ranked!Nearest(d, 0, S, n)
          = {r \in S : Cardinality({s \in S : Ranked!Closer(d, 0, s, r)}) < n}
    BY SameSets DEF Ranked!Nearest
  <1> DEFINE H == Ranked!Nearest(d, 0, S, n)
             Short(a) == Cardinality({b \in Entries(d, S) : Before(b, a)}) < n
  <1>3. \A r : r \in H <=> r \in S /\ Short(Entry(d, r))
    BY <1>1, <1>2
  <1> HIDE DEF H, Short
  <1>4. Entries(d, H) = {a \in Entries(d, S) : Short(a)}
    BY <1>3 DEF Entries
  <1> QED BY <1>4 DEF H, Short

Trimmed(entries, n) ==
  IF Cardinality(entries) > n
  THEN {a \in entries : \E b \in entries : Before(a, b)}
  ELSE entries

(* An entry added to a full shortlist puts out the last one.               *)
LEMMA EntryPushed ==
  ASSUME NEW R \in SUBSET Nat, NEW d \in [R -> Numbers], NEW S \in SUBSET R, IsFiniteSet(S),
         NEW n \in Nat \ {0}, NEW row \in R \ S
  PROVE  Trimmed(Entries(d, Ranked!Nearest(d, 0, S, n)) \cup {Entry(d, row)}, n)
           = Entries(d, Ranked!Nearest(d, 0, S \cup {row}, n))
  <1> DEFINE grown == Entries(d, Ranked!Nearest(d, 0, S, n)) \cup {Entry(d, row)}
             H == Ranked!Nearest(d, 0, S, n)
             G == H \cup {row}
  <1>1. /\ Ranked!IsFiniteSet(S) /\ 0 \in Numbers /\ n \in Nat
        /\ \A u, v \in Numbers : Itself(u, v) \in Int
    BY SameSets DEF Numbers
  <1>2. H \subseteq S /\ IsFiniteSet(H)
    BY <1>1, SameSets, Ranked!NearestBound
  <1>3. IsFiniteSet(G) /\ grown = Entries(d, G)
    <2>1. IsFiniteSet(G)
      <3> HIDE DEF H
      <3> QED BY <1>2, FS_AddElement
    <2>2. grown = Entries(d, G)
      <3>1. grown = Entries(d, H) \cup {Entry(d, row)}
        OBVIOUS
      <3> HIDE DEF H, grown
      <3> QED BY <3>1 DEF Entries
    <2> QED BY <2>1, <2>2
  <1>4. Ranked!PushTopK(d, 0, n, H, row) = Ranked!Nearest(d, 0, S \cup {row}, n)
    BY <1>1, Ranked!PushKeepsNearest
  <1> HIDE DEF H
  <1>5. Ranked!PushTopK(d, 0, n, H, row)
          = IF Cardinality(G) > n
            THEN {r \in G : \E s \in G : Ranked!Closer(d, 0, r, s)} ELSE G
    <2>1. Ranked!Cardinality(G) = Cardinality(G) /\ n # 0
      BY SameSets
    <2> QED BY <2>1 DEF Ranked!PushTopK
  <1> HIDE DEF G, grown
  <1>6. Cardinality(grown) = Cardinality(G)
    BY <1>3, EntriesSize
  <1>7. Entries(d, {r \in G : \E s \in G : Ranked!Closer(d, 0, r, s)})
          = {a \in grown : \E b \in grown : Before(a, b)}
    <2> DEFINE K == {r \in G : \E s \in G : Ranked!Closer(d, 0, r, s)}
    <2>1. \A r : r \in K <=> r \in G /\ \E s \in G : Before(Entry(d, r), Entry(d, s))
      BY EntryBefore
    <2> HIDE DEF K
    <2>2. Entries(d, K) = {a \in Entries(d, G) : \E b \in Entries(d, G) : Before(a, b)}
      BY <2>1 DEF Entries
    <2> QED BY <1>3, <2>2 DEF K
  <1> QED BY <1>3, <1>4, <1>5, <1>6, <1>7 DEF Trimmed, grown, H

(* Rows that are farther than all the rows of M make no difference when M  *)
(* has the k nearest.                                                      *)
LEMMA NearestOfFewer ==
  ASSUME NEW R \in SUBSET Nat, NEW data \in [R -> Vector], NEW q \in Vector,
         NEW S \in SUBSET R, IsFiniteSet(S), NEW M \in SUBSET S, NEW n \in Nat,
         Cardinality(Nearest(data, q, M, n)) = n,
         \A a \in M : \A b \in S \ M : Closer(data, q, a, b)
  PROVE  Nearest(data, q, S, n) = Nearest(data, q, M, n)
  <1>1. IsFiniteSet(M)
    BY FS_Subset
  <1>2. \A a \in M : {s \in S : Closer(data, q, s, a)} = {s \in M : Closer(data, q, s, a)}
    BY CloserOrder
  <1>3. ASSUME NEW b \in S \ M
        PROVE  ~(Cardinality({s \in S : Closer(data, q, s, b)}) < n)
    <2> DEFINE C == {s \in S : Closer(data, q, s, b)}
               H == Nearest(data, q, M, n)
    <2>1. H \in SUBSET C
      BY DEF Nearest
    <2>2. IsFiniteSet(C)
      BY FS_Subset
    <2> HIDE DEF C, H
    <2>3. n <= Cardinality(C)
      <3>1. Cardinality(H) = n
        BY DEF H
      <3> QED BY <2>1, <2>2, <3>1, FS_Subset
    <2>4. Cardinality(C) \in Nat
      BY <2>2, FS_CardinalityType
    <2> QED BY <2>3, <2>4 DEF C
  <1> QED BY <1>2, <1>3 DEF Nearest

-----------------------------------------------------------------------------
(* The scores of the rows, once they are coded.                            *)
Measures == [r \in Rows |-> SquaredL2(query, Decoded(r))]

(* Every row is on the list of its nearest centroid.                       *)
Listed == \A p \in Parts : lists[p] = {r \in Rows : NearestCentroid(centroids, dataset[r]) = p}

QueryTypes ==
  /\ lists \in [Parts -> SUBSET Rows]
  /\ query \in Queries /\ k \in 0 .. N /\ probes \in 1 .. Partitions
  /\ probed \subseteq Parts /\ pending \subseteq Rows

(* Where a query stands: the rows still to be scored are of one list, the  *)
(* tables are that list's, and the shortlist has the best rows scored.     *)
ScanOK ==
  /\ k > 0
  /\ pending \subseteq UNION {lists[p] : p \in probed}
  /\ pending # {} => \E p \in probed : pending \subseteq lists[p] /\ tables = LookupTables(p)
  /\ shortlist = Entries(Measures, Ranked!Nearest(Measures, 0, Scored, ShortlistSize))

Candidates == {a.row : a \in shortlist}
Measured   == {r \in Candidates : Representable(r)}

AnswerOK ==
  /\ pending = {} /\ Cardinality(probed) = probes
  /\ heap = Nearest(dataset, query, Measured, k)
  /\ Cardinality(heap) = k \/ Measured = Candidates

Checked == phase \in {"seed", "refine", "encode", "indexed", "search", "answered", "refused"}
Coded   == phase \in {"indexed", "search", "answered", "refused"}
Asked   == phase = "search" \/ (phase = "answered" /\ k > 0)

(* The inductive invariant.  While the centroids are trained it is Ivf's.  *)
PqIInv ==
  /\ PqTypeOK
  /\ IsEuclidean
  /\ Trained
  /\ QueryTypes
  /\ phase \in {"assign", "update", "fill", "ready"} => IInv
  /\ phase # "answered" => heap = {}
  /\ Checked => \A r \in Rows : Residual(r) \in [1 .. Dim -> Floats]
  /\ Coded => Listed
  /\ Asked => ScanOK
  /\ phase = "answered" => IF k = 0 THEN heap = {} ELSE AnswerOK

(* The shortlist is never empty by its size, and full effort makes it      *)
(* whole.                                                                  *)
LEMMA ShortlistSizeType ==
  rerank \in Nat \ {0} /\ k \in Nat =>
    /\ ShortlistSize \in Nat \ {0} /\ ShortlistSize <= N
    /\ k <= N => k <= ShortlistSize
    /\ k <= N /\ (rerank >= N \/ k = N) => ShortlistSize = N
  <1>1. N \in Nat \ {0}
    BY IvfConfigAssumption
  <1> QED BY <1>1 DEF ShortlistSize

(* A shortlist of no more than ShortlistSize entries for rows of S.        *)
LEMMA EntriesType ==
  ASSUME NEW d \in [Rows -> Nat], NEW S \in SUBSET Rows, NEW n \in Nat
  PROVE  /\ Entries(d, Ranked!Nearest(d, 0, S, n)) \subseteq [row : Rows, distance : Nat]
         /\ Cardinality(Entries(d, Ranked!Nearest(d, 0, S, n))) <= n
  <1> DEFINE H == Ranked!Nearest(d, 0, S, n)
  <1>1. /\ H \subseteq S /\ Ranked!Cardinality(H) <= n
    <2>1. /\ Rows \in SUBSET Nat /\ d \in [Rows -> Numbers] /\ 0 \in Numbers
          /\ Ranked!IsFiniteSet(S)
      <3>1. Rows \in SUBSET Nat /\ Ranked!IsFiniteSet(S)
        BY FiniteRows, SameSets
      <3>2. d \in [Rows -> Numbers] /\ 0 \in Numbers
        BY DEF Numbers
      <3> QED BY <3>1, <3>2
    <2> QED BY <2>1, SameSets, Ranked!NearestBound
  <1> HIDE DEF H
  <1>2. IsFiniteSet(H) /\ Cardinality(H) <= n
    BY <1>1, FiniteRows, SameSets
  <1>3. Cardinality(Entries(d, H)) <= n
    BY <1>2, EntriesSize
  <1>4. Entries(d, H) \subseteq [row : Rows, distance : Nat]
    BY <1>1 DEF Entries, Entry
  <1> QED BY <1>3, <1>4 DEF H

(* The tables hold squared distances.                                      *)
LEMMA LookupType ==
  ASSUME Trained, query \in Queries, codebooks \in Finite, NEW p \in Parts
  PROVE  LookupTables(p) \in [Slices -> [Codes -> Nat]]
  <1>1. \A d \in Int : d * d \in Nat
    OBVIOUS
  <1>2. ASSUME NEW m \in Slices, NEW c \in Codes
        PROVE  SumFunction([i \in 1 .. SliceSize |->
                 LET d == Slice(query, m)[i] - Slice(centroids[p], m)[i] - codebooks[m][c][i]
                 IN  d * d]) \in Nat
    <2> DEFINE f == [i \in 1 .. SliceSize |->
                 LET d == Slice(query, m)[i] - Slice(centroids[p], m)[i] - codebooks[m][c][i]
                 IN  d * d]
    <2>1. ASSUME NEW i \in 1 .. SliceSize PROVE f[i] \in Nat
      <3>1. Slice(query, m)[i] \in Int /\ Slice(centroids[p], m)[i] \in Int
        <4>1. query \in [1 .. Dim -> Int] /\ centroids[p] \in [1 .. Dim -> Int]
          BY RowVectors, Config
        <4>2. /\ Slice(query, m) \in [1 .. SliceSize -> Int]
              /\ Slice(centroids[p], m) \in [1 .. SliceSize -> Int]
          BY <4>1, SliceType
        <4> QED BY <4>2
      <3>2. codebooks[m][c][i] \in Int
        <4>1. codebooks[m][c] \in [1 .. SliceSize -> Floats]
          BY DEF Finite
        <4> QED BY <4>1, Config
      <3> DEFINE e == Slice(query, m)[i] - Slice(centroids[p], m)[i] - codebooks[m][c][i]
      <3>3. e \in Int
        BY <3>1, <3>2
      <3>4. f[i] = e * e
        OBVIOUS
      <3> HIDE DEF e, f
      <3> QED BY <1>1, <3>3, <3>4
    <2> HIDE DEF f
    <2>2. SumFunctionOnSet(f, 1 .. SliceSize) \in Nat
      BY <2>1, Config, SumNat
    <2>3. SumFunction(f) = SumFunctionOnSet(f, 1 .. SliceSize)
      BY DEF SumFunction, f
    <2> QED BY <2>2, <2>3 DEF f
  <1> QED BY <1>2 DEF LookupTables

(* What does not change while neither rows, centroids nor codes do.        *)
LEMMA SameIndex ==
  ASSUME UNCHANGED <<dataset, centroids>>
  PROVE  /\ Trained => Trained'
         /\ \A r \in Rows : Residual(r)' = Residual(r)
         /\ UNCHANGED lists /\ Listed => Listed'
         /\ UNCHANGED <<codebooks, codes, query>> => Measures' = Measures
         /\ UNCHANGED <<codebooks, query>> => \A p \in Parts : LookupTables(p)' = LookupTables(p)
  BY DEF Trained, Residual, Listed, Measures, Decoded, LookupTables

(* Scores are natural numbers.                                             *)
LEMMA MeasuresType ==
  ASSUME Trained, query \in Queries, codebooks \in Finite, codes \in [Rows -> [Slices -> Codes]]
  PROVE  Measures \in [Rows -> Nat]
  <1>1. ASSUME NEW r \in Rows PROVE SquaredL2(query, Decoded(r)) \in Nat
    <2>1. Decoded(r) \in [1 .. Dim -> Int] /\ query \in [1 .. Dim -> Int] /\ Dim \in Nat
      BY DecodedType, Config
    <2> QED BY <2>1, SquareType
  <1> QED BY <1>1 DEF Measures

-----------------------------------------------------------------------------
LEMMA PqInitInv == PqInit => PqIInv
  <1> SUFFICES ASSUME PqInit PROVE PqIInv
    OBVIOUS
  <1>1. IInv
    BY InitInv DEF PqInit
  <1>2. phase = "assign" /\ heap = {} /\ IsEuclidean
    BY DEF PqInit, Init
  <1>3. Trained /\ QueryTypes
    BY <1>1 DEF IInv, TypeOK, Trained, QueryTypes
  <1>4. PqTypeOK
    <2>1. sub \in Slices /\ codeRound \in 0 .. Iterations
      BY PqConfigAssumption, IvfConfigAssumption DEF PqInit, Slices
    <2>2. /\ codeAssignments \in [Rows -> Codes \cup {NoCode}]
          /\ codes \in [Rows -> [Slices -> Codes]]
          /\ tables \in [Slices -> [Codes -> Nat]]
          /\ codebooks \in [Slices -> [Codes -> [1 .. SliceSize -> -MaxFloat .. MaxFloat]]]
      BY Config DEF PqInit, Floats
    <2>3. Cardinality(shortlist) <= ShortlistSize /\ shortlist = {} /\ rerank = 1
      <3>1. rerank = 1 /\ k \in Nat /\ shortlist = {}
        BY <1>3 DEF PqInit, QueryTypes
      <3>2. ShortlistSize \in Nat
        BY <3>1, ShortlistSizeType
      <3> QED BY <3>1, <3>2, FS_EmptySet
    <2>4. Cardinality(heap) <= k
      BY <1>2, <1>3, FS_EmptySet DEF QueryTypes
    <2> QED BY <1>2, <2>1, <2>2, <2>3, <2>4 DEF PqTypeOK
  <1> QED BY <1>1, <1>2, <1>3, <1>4 DEF PqIInv, Checked, Coded, Asked

LEMMA CoarseInv == PqIInv /\ Coarse => PqIInv'
  <1> SUFFICES ASSUME PqIInv, Coarse PROVE PqIInv'
    OBVIOUS
  <1>1. /\ phase \in {"assign", "update", "fill"}
        /\ phase' \in {"assign", "update", "fill", "ready"}
        /\ UNCHANGED <<queryVars, codeVars, scanVars>>
    BY DEF Coarse, Train, FillLists, Assign, Converged, IterationsDone, Reseed, Recenter,
           RecenterOnRow, NextPartition, queryVars
  <1>2. IInv'
    <2>1. IInv
      BY <1>1 DEF PqIInv
    <2> QED BY <2>1, AssignInv, StopInv, UpdateInv, FillListsInv DEF Coarse, Train
  <1>3. Trained' /\ QueryTypes'
    BY <1>2 DEF IInv, TypeOK, Trained, QueryTypes
  <1>4. PqTypeOK'
    BY <1>1 DEF PqIInv, PqTypeOK, ShortlistSize, queryVars, codeVars, scanVars
  <1>5. heap' = {} /\ IsEuclidean'
    BY <1>1 DEF PqIInv, queryVars, IsEuclidean
  <1> QED BY <1>1, <1>2, <1>3, <1>4, <1>5 DEF PqIInv, Checked, Coded, Asked

(* What the steps of the second training leave alone.                      *)
LEMMA CodingSteps ==
  ASSUME PqIInv, PqTypeOK',
         UNCHANGED <<dataset, centroids, queryVars, scanVars>>,
         lists' \in [Parts -> SUBSET Rows],
         phase' \in {"seed", "refine", "encode", "indexed", "failed"},
         phase \notin {"answered"},
         phase' # "failed" => \A r \in Rows : Residual(r) \in [1 .. Dim -> Floats],
         phase' = "indexed" => Listed'
  PROVE  PqIInv'
  <1>1. Trained' /\ QueryTypes' /\ IsEuclidean' /\ heap' = {}
    BY SameIndex DEF PqIInv, QueryTypes, IsEuclidean, queryVars
  <1>2. \A r \in Rows : Residual(r)' = Residual(r)
    BY SameIndex
  <1> QED BY <1>1, <1>2 DEF PqIInv, Checked, Coded, Asked

LEMMA ResidualsInv == PqIInv /\ Residuals => PqIInv'
  <1> SUFFICES ASSUME PqIInv, Residuals PROVE PqIInv'
    OBVIOUS
  <1>1. /\ phase = "ready" /\ phase' \in {"seed", "failed"}
        /\ UNCHANGED <<dataset, centroids, queryVars, scanVars, codeVars>>
        /\ lists' \in [Parts -> SUBSET Rows]
    BY DEF Residuals
  <1>2. PqTypeOK'
    BY <1>1 DEF PqIInv, PqTypeOK, ShortlistSize, queryVars, codeVars, scanVars
  <1>3. ASSUME phase' # "failed", NEW r \in Rows PROVE Residual(r) \in [1 .. Dim -> Floats]
    <2>1. Residual(r) \in [1 .. Dim -> Int] /\ DOMAIN dataset[r] = 1 .. Dim
      BY RowVectors, ResidualType DEF PqIInv
    <2>2. \A i \in 1 .. Dim : Residual(r)[i] \in Floats
      BY <1>3, <2>1 DEF Residuals, Floats
    <2> QED BY <2>1, <2>2
  <1> QED BY <1>1, <1>2, <1>3, CodingSteps

LEMMA SeedInv == PqIInv /\ SeedCodebook => PqIInv'
  <1> SUFFICES ASSUME PqIInv, SeedCodebook PROVE PqIInv'
    OBVIOUS
  <1>1. /\ phase = "seed" /\ phase' = "refine"
        /\ UNCHANGED <<trainVars, lists, queryVars, sub, codeRound, codeAssignments, codes,
                       scanVars>>
    BY DEF SeedCodebook
  <1>2. PICK seed \in [Codes -> Rows] :
          codebooks' = [codebooks EXCEPT ![sub] = [c \in Codes |-> Slice(Residual(seed[c]), sub)]]
    BY DEF SeedCodebook
  <1>3. \A r \in Rows : Residual(r) \in [1 .. Dim -> Floats]
    BY <1>1 DEF PqIInv, Checked
  <1>4. codebooks' \in Finite
    <2>1. \A c \in Codes : Slice(Residual(seed[c]), sub) \in [1 .. SliceSize -> Floats]
      BY <1>3, SliceType DEF PqIInv, PqTypeOK
    <2>2. codebooks \in Finite /\ sub \in Slices
      BY DEF PqIInv, PqTypeOK, Finite, Floats
    <2> QED BY <1>2, <2>1, <2>2 DEF Finite
  <1>5. PqTypeOK'
    BY <1>1, <1>4 DEF PqIInv, PqTypeOK, ShortlistSize, Finite, Floats, queryVars, scanVars
  <1> QED BY <1>1, <1>3, <1>5, CodingSteps DEF trainVars, PqIInv, QueryTypes

(* Codewords are vectors of integers.                                      *)
LEMMA FiniteWords ==
  ASSUME NEW book \in [Codes -> [1 .. SliceSize -> Floats]]
  PROVE  book \in [Codes -> [1 .. SliceSize -> Int]]
  <1>1. \A w \in [1 .. SliceSize -> Floats] : w \in [1 .. SliceSize -> Int]
    BY Config
  <1> QED BY <1>1

LEMMA RefineInv == PqIInv /\ Refine => PqIInv'
  <1> SUFFICES ASSUME PqIInv, Refine PROVE PqIInv'
    OBVIOUS
  <1>1. /\ phase = "refine" /\ phase' = "refine"
        /\ UNCHANGED <<trainVars, lists, queryVars, sub, codes, scanVars>>
    BY DEF Refine
  <1>2. \A r \in Rows : Residual(r) \in [1 .. Dim -> Floats]
    BY <1>1 DEF PqIInv, Checked
  <1>3. codebooks \in Finite /\ sub \in Slices
    BY DEF PqIInv, PqTypeOK, Finite, Floats
  <1>4. codeAssignments' \in [Rows -> Codes]
    <2>1. ASSUME NEW r \in Rows
          PROVE  NearestCode(codebooks[sub], Slice(Residual(r), sub)) \in Codes
      <3>1. Residual(r) \in [1 .. Dim -> Int]
        BY ResidualType DEF PqIInv
      <3>2. Slice(Residual(r), sub) \in [1 .. SliceSize -> Int]
        BY <1>3, <3>1, SliceType
      <3>3. codebooks[sub] \in [Codes -> [1 .. SliceSize -> Int]]
        <4>1. codebooks[sub] \in [Codes -> [1 .. SliceSize -> Floats]]
          BY <1>3 DEF Finite
        <4> QED BY <4>1, FiniteWords
      <3> QED BY <3>2, <3>3, CodeExists
    <2> QED BY <2>1 DEF Refine, NextCodes
  <1>5. Refined(codebooks[sub]) \in [Codes -> [1 .. SliceSize -> Floats]]
    <2>1. ASSUME NEW S \in SUBSET Rows, S # {}
          PROVE  CodeMean(S) \in [1 .. SliceSize -> Floats]
      BY <1>2, <1>3, <2>1, CodeMeanType
    <2>2. codebooks[sub] \in [Codes -> [1 .. SliceSize -> Floats]]
      BY <1>3 DEF Finite
    <2> QED BY <2>1, <2>2 DEF Refined
  <1>6. codebooks' \in Finite
    BY <1>3, <1>5 DEF Refine, Finite
  <1>7. codeRound' \in 0 .. Iterations
    BY IvfConfigAssumption DEF Refine, PqIInv, PqTypeOK
  <1>8. PqTypeOK'
    BY <1>1, <1>4, <1>6, <1>7
       DEF PqIInv, PqTypeOK, ShortlistSize, Finite, Floats, queryVars, scanVars
  <1> QED BY <1>1, <1>2, <1>8, CodingSteps DEF trainVars, PqIInv, QueryTypes

LEMMA EndInv == PqIInv /\ EndCodebook => PqIInv'
  <1> SUFFICES ASSUME PqIInv, EndCodebook PROVE PqIInv'
    OBVIOUS
  <1>1. /\ phase = "refine" /\ phase' \in {"seed", "encode"}
        /\ UNCHANGED <<trainVars, lists, queryVars, codebooks, codes, scanVars>>
        /\ codeRound' = 0 /\ codeAssignments' = [r \in Rows |-> NoCode]
    BY DEF EndCodebook
  <1>2. \A r \in Rows : Residual(r) \in [1 .. Dim -> Floats]
    BY <1>1 DEF PqIInv, Checked
  <1>3. sub' \in Slices
    <2>1. sub \in 0 .. Subs - 1 /\ Subs \in Nat \ {0}
      BY PqConfigAssumption DEF PqIInv, PqTypeOK, Slices
    <2>2. IF sub + 1 = Subs THEN sub' = 0 ELSE sub' = sub + 1
      BY DEF EndCodebook
    <2> QED BY <2>1, <2>2 DEF Slices
  <1>4. codeRound' \in 0 .. Iterations
    BY <1>1, IvfConfigAssumption
  <1>5. PqTypeOK'
    BY <1>1, <1>3, <1>4 DEF PqIInv, PqTypeOK, ShortlistSize, queryVars, scanVars
  <1> QED BY <1>1, <1>2, <1>5, CodingSteps DEF trainVars, PqIInv, QueryTypes

LEMMA EncodeInv == PqIInv /\ Encode => PqIInv'
  <1> SUFFICES ASSUME PqIInv, Encode PROVE PqIInv'
    OBVIOUS
  <1>1. /\ phase = "encode" /\ phase' = "indexed"
        /\ UNCHANGED <<trainVars, queryVars, sub, codeRound, codeAssignments, codebooks, scanVars>>
    BY DEF Encode
  <1>2. \A r \in Rows : Residual(r) \in [1 .. Dim -> Floats]
    BY <1>1 DEF PqIInv, Checked
  <1>3. codes' \in [Rows -> [Slices -> Codes]]
    <2>1. ASSUME NEW r \in Rows, NEW m \in Slices
          PROVE  NearestCode(codebooks[m], Slice(Residual(r), m)) \in Codes
      <3>1. Residual(r) \in [1 .. Dim -> Int]
        BY ResidualType DEF PqIInv
      <3>2. Slice(Residual(r), m) \in [1 .. SliceSize -> Int]
        BY <3>1, SliceType
      <3>3. codebooks[m] \in [Codes -> [1 .. SliceSize -> Int]]
        <4>1. codebooks[m] \in [Codes -> [1 .. SliceSize -> Floats]]
          BY DEF PqIInv, PqTypeOK, Floats
        <4> QED BY <4>1, FiniteWords
      <3> QED BY <3>2, <3>3, CodeExists
    <2> QED BY <2>1 DEF Encode
  <1>4. lists' \in [Parts -> SUBSET Rows] /\ Listed'
    BY <1>1 DEF Encode, Listed, trainVars
  <1>5. PqTypeOK'
    BY <1>1, <1>3 DEF PqIInv, PqTypeOK, ShortlistSize, queryVars, scanVars
  <1> QED BY <1>1, <1>2, <1>4, <1>5, CodingSteps DEF trainVars

-----------------------------------------------------------------------------
(* What the steps of a query leave alone.                                  *)
LEMMA QuerySteps ==
  ASSUME PqIInv, Coded, phase' \in {"search", "answered", "refused"},
         UNCHANGED <<trainVars, lists, codeVars>>,
         query' \in Queries, k' \in 0 .. N, probes' \in 1 .. Partitions, rerank' \in Nat \ {0},
         probed' \subseteq Parts, pending' \subseteq Rows,
         tables' \in [Slices -> [Codes -> Nat]],
         shortlist' \subseteq [row : Rows, distance : Nat],
         Cardinality(shortlist') <= ShortlistSize',
         heap' \subseteq Rows, Cardinality(heap') <= k',
         phase' # "answered" => heap' = {},
         Asked' => ScanOK',
         phase' = "answered" => IF k' = 0 THEN heap' = {} ELSE AnswerOK'
  PROVE  PqIInv'
  <1>1. UNCHANGED <<dataset, centroids>>
    BY DEF trainVars
  <1>2. Trained' /\ IsEuclidean' /\ QueryTypes'
    BY <1>1, SameIndex DEF PqIInv, QueryTypes, IsEuclidean
  <1>3. Listed' /\ \A r \in Rows : Residual(r)' \in [1 .. Dim -> Floats]
    BY <1>1, SameIndex DEF PqIInv, Checked, Coded
  <1>4. PqTypeOK'
    BY DEF PqIInv, PqTypeOK, codeVars
  <1> QED BY <1>2, <1>3, <1>4 DEF PqIInv, Checked, Coded

LEMMA PqQueryInv == PqIInv /\ PqQuery => PqIInv'
  <1> SUFFICES ASSUME PqIInv, PqQuery PROVE PqIInv'
    OBVIOUS
  <1>1. PICK asked \in Ks : /\ k' = IF asked < N THEN asked ELSE N
                            /\ phase' = IF asked = 0 THEN "answered" ELSE "search"
    BY DEF PqQuery
  <1>2. /\ UNCHANGED <<trainVars, lists, codeVars>> /\ Coded
        /\ query' \in Queries /\ probes' \in 1 .. Partitions /\ rerank' \in Nat \ {0}
        /\ probed' = {} /\ pending' = {} /\ heap' = {} /\ shortlist' = {}
        /\ tables' = [m \in Slices |-> [c \in Codes |-> 0]]
    BY IvfConfigAssumption, PqConfigAssumption DEF PqQuery, Coded
  <1>3. /\ k' \in 0 .. N /\ (phase' = "search" => k' > 0) /\ (phase' = "answered" => k' = 0)
        /\ phase' \in {"search", "answered"}
    BY <1>1, IvfConfigAssumption
  <1>4. ShortlistSize' \in Nat \ {0}
    <2>1. rerank' \in Nat \ {0} /\ k' \in Nat /\ N \in Nat \ {0}
      BY <1>2, <1>3, IvfConfigAssumption
    <2> QED BY <2>1 DEF ShortlistSize
  <1>5. Cardinality(shortlist') <= ShortlistSize' /\ Cardinality(heap') <= k'
    BY <1>2, <1>3, <1>4, FS_EmptySet
  <1>6. Asked' => ScanOK'
    <2>1. Scored' = {}
      BY <1>2 DEF Scored
    <2>2. Entries(Measures', Ranked!Nearest(Measures', 0, {}, ShortlistSize')) = {}
      BY DEF Entries, Ranked!Nearest
    <2> QED BY <1>2, <1>3, <2>1, <2>2 DEF Asked, ScanOK
  <1>7. tables' \in [Slices -> [Codes -> Nat]]
    BY <1>2
  <1> QED BY <1>2, <1>3, <1>5, <1>6, <1>7, QuerySteps

LEMMA PqProbeInv == PqIInv /\ PqProbe => PqIInv'
  <1> SUFFICES ASSUME PqIInv, PqProbe PROVE PqIInv'
    OBVIOUS
  <1>1. PICK p \in Parts \ probed :
          probed' = probed \cup {p} /\ pending' = lists[p] /\ tables' = LookupTables(p)
    BY DEF PqProbe, NextProbe
  <1>2. /\ phase = "search" /\ pending = {}
        /\ UNCHANGED <<phase, trainVars, lists, query, k, probes, heap, codeVars, rerank,
                       shortlist>>
    BY DEF PqProbe
  <1>3. ScanOK /\ Listed /\ QueryTypes /\ Trained /\ PqTypeOK
    BY <1>2 DEF PqIInv, Asked, Coded
  <1>4. codebooks \in Finite /\ codes \in [Rows -> [Slices -> Codes]]
    BY <1>3 DEF PqTypeOK, Finite, Floats
  <1>5. tables' \in [Slices -> [Codes -> Nat]]
    BY <1>1, <1>3, <1>4, LookupType DEF QueryTypes
  <1>6. Scored' = Scored
    <2>1. \A o \in probed : lists[o] \cap lists[p] = {}
      BY <1>1, <1>3 DEF Listed, QueryTypes
    <2> QED BY <1>1, <1>2, <2>1 DEF Scored
  <1>7. Measures' = Measures /\ LookupTables(p)' = LookupTables(p) /\ ShortlistSize' = ShortlistSize
    BY <1>2, SameIndex DEF trainVars, codeVars, ShortlistSize
  <1>8. ScanOK'
    <2>1. pending' \subseteq UNION {lists'[o] : o \in probed'}
      BY <1>1, <1>2
    <2>2. \E o \in probed' : pending' \subseteq lists'[o] /\ tables' = LookupTables(o)'
      BY <1>1, <1>2, <1>7
    <2> QED BY <1>2, <1>3, <1>6, <1>7, <2>1, <2>2 DEF ScanOK
  <1>9. /\ Cardinality(shortlist') <= ShortlistSize' /\ Cardinality(heap') <= k'
        /\ heap' = {} /\ heap' \subseteq Rows /\ shortlist' \subseteq [row : Rows, distance : Nat]
        /\ rerank' \in Nat \ {0}
    BY <1>2, <1>3, <1>7 DEF PqTypeOK, PqIInv
  <1>10. /\ query' \in Queries /\ k' \in 0 .. N /\ probes' \in 1 .. Partitions
         /\ probed' \subseteq Parts /\ pending' \subseteq Rows
    BY <1>1, <1>2, <1>3 DEF QueryTypes
  <1>11. Coded /\ phase' = "search"
    BY <1>2 DEF Coded
  <1> QED BY <1>2, <1>5, <1>8, <1>9, <1>10, <1>11, QuerySteps DEF Asked

(* A row is scored by the distance of what its codes stand for.            *)
LEMMA ScoreCodeInv == PqIInv /\ ScoreCode => PqIInv'
  <1> SUFFICES ASSUME PqIInv, ScoreCode PROVE PqIInv'
    OBVIOUS
  <1> DEFINE Total(r) == SumFunction([m \in Slices |-> tables[m][codes[r][m]]])
             Grown(r) == shortlist \cup {[row |-> r, distance |-> Total(r)]}
  <1>1. PICK r \in pending :
          /\ shortlist' = IF Cardinality(Grown(r)) > ShortlistSize
                          THEN {a \in Grown(r) : \E b \in Grown(r) : Before(a, b)}
                          ELSE Grown(r)
          /\ pending' = pending \ {r}
    BY DEF ScoreCode
  <1>2. /\ phase = "search"
        /\ UNCHANGED <<phase, trainVars, lists, query, k, probes, probed, heap, codeVars,
                       rerank, tables>>
    BY DEF ScoreCode
  <1>3. ScanOK /\ Listed /\ QueryTypes /\ Trained /\ PqTypeOK
    BY <1>2 DEF PqIInv, Asked, Coded
  <1>4. /\ codebooks \in Finite /\ codes \in [Rows -> [Slices -> Codes]]
        /\ query \in Queries /\ r \in Rows
    BY <1>3 DEF PqTypeOK, QueryTypes, Finite, Floats
  <1>5. PICK p \in probed : pending \subseteq lists[p] /\ tables = LookupTables(p)
    BY <1>3 DEF ScanOK
  <1>6. Total(r) = Measures[r]
    <2>1. p = NearestCentroid(centroids, dataset[r])
      BY <1>3, <1>4, <1>5 DEF Listed, QueryTypes
    <2>2. Total(r) = SquaredL2(query, Decoded(r))
      BY <1>3, <1>4, <1>5, <2>1, ScoreIsDistance
    <2> QED BY <1>4, <2>2 DEF Measures
  <1>7. Scored \in SUBSET Rows /\ r \in Rows \ Scored /\ Scored' = Scored \cup {r}
    <2> DEFINE L == UNION {lists[o] : o \in probed}
    <2>1. L \subseteq Rows /\ r \in L
      BY <1>3, <1>4 DEF ScanOK, QueryTypes
    <2>2. Scored = L \ pending /\ Scored' = L \ pending'
      BY <1>2 DEF Scored
    <2> HIDE DEF L
    <2> QED BY <1>1, <2>1, <2>2
  <1>8. ShortlistSize \in Nat \ {0} /\ ShortlistSize' = ShortlistSize
    <2>1. rerank \in Nat \ {0} /\ k \in Nat
      BY <1>3 DEF PqTypeOK, QueryTypes
    <2> QED BY <1>2, <2>1, ShortlistSizeType DEF ShortlistSize
  <1>9. Measures \in [Rows -> Nat] /\ Measures' = Measures
    BY <1>2, <1>3, <1>4, SameIndex, MeasuresType DEF trainVars, codeVars
  <1>10. shortlist' = Entries(Measures, Ranked!Nearest(Measures, 0, Scored', ShortlistSize))
    <2>1. Grown(r) = Entries(Measures, Ranked!Nearest(Measures, 0, Scored, ShortlistSize))
                       \cup {Entry(Measures, r)}
      BY <1>3, <1>6 DEF ScanOK, Entry
    <2>2. shortlist' = Trimmed(Grown(r), ShortlistSize)
      BY <1>1 DEF Trimmed
    <2>3. Rows \in SUBSET Nat /\ IsFiniteSet(Scored)
      BY <1>7, FiniteRows
    <2>4. Measures \in [Rows -> Numbers]
      BY <1>9 DEF Numbers
    <2> HIDE DEF Grown
    <2> QED BY <1>7, <1>8, <2>1, <2>2, <2>3, <2>4, EntryPushed
  <1>11. ScanOK'
    <2>1. pending' \subseteq UNION {lists'[o] : o \in probed'}
      BY <1>1, <1>2, <1>3 DEF ScanOK
    <2>2. \E o \in probed' : pending' \subseteq lists'[o] /\ tables' = LookupTables(o)'
      <3>1. LookupTables(p)' = LookupTables(p)
        BY <1>2, SameIndex, <1>3 DEF trainVars, codeVars, QueryTypes
      <3> QED BY <1>1, <1>2, <1>5, <3>1
    <2> QED BY <1>2, <1>3, <1>8, <1>9, <1>10, <2>1, <2>2 DEF ScanOK
  <1>12. /\ shortlist' \subseteq [row : Rows, distance : Nat]
         /\ Cardinality(shortlist') <= ShortlistSize'
    <2>1. Scored' \in SUBSET Rows
      BY <1>7
    <2> QED BY <1>8, <1>9, <1>10, <2>1, EntriesType
  <1>13. /\ query' \in Queries /\ k' \in 0 .. N /\ probes' \in 1 .. Partitions
         /\ probed' \subseteq Parts /\ pending' \subseteq Rows
         /\ heap' = {} /\ heap' \subseteq Rows /\ Cardinality(heap') <= k'
         /\ rerank' \in Nat \ {0} /\ tables' \in [Slices -> [Codes -> Nat]]
    BY <1>1, <1>2, <1>3 DEF QueryTypes, PqTypeOK, PqIInv
  <1>14. Coded /\ phase' = "search"
    BY <1>2 DEF Coded
  <1> QED BY <1>2, <1>11, <1>12, <1>13, <1>14, QuerySteps DEF Asked

LEMMA RerankInv == PqIInv /\ Rerank => PqIInv'
  <1> SUFFICES ASSUME PqIInv, Rerank PROVE PqIInv'
    OBVIOUS
  <1> DEFINE result == Nearest(dataset, query, Measured, k)
             refused == Cardinality(result) < k /\ Measured # Candidates
  <1>1. /\ phase = "search" /\ pending = {} /\ Cardinality(probed) = probes
        /\ heap' = IF refused THEN {} ELSE result
        /\ phase' = IF refused THEN "refused" ELSE "answered"
        /\ UNCHANGED <<trainVars, lists, query, k, probes, probed, pending, codeVars, scanVars>>
    BY DEF Rerank, Measured, Candidates
  <1>2. ScanOK /\ QueryTypes /\ Trained /\ PqTypeOK
    BY <1>1 DEF PqIInv, Asked
  <1>3. /\ Cardinality(result) \in Nat /\ Cardinality(result) <= k /\ result \subseteq Rows
    <2>1. Measured \in SUBSET Rows
      BY <1>2 DEF Measured, Candidates, PqTypeOK
    <2>2. /\ Rows \in SUBSET Nat /\ IsFiniteSet(Measured) /\ k \in Nat
          /\ dataset \in [Rows -> Vector] /\ query \in Vector
      BY <1>2, <2>1, FiniteRows, IvfConfigAssumption DEF Trained, QueryTypes
    <2>3. /\ result \subseteq Measured /\ Cardinality(result) \in Nat /\ Cardinality(result) <= k
      BY <2>1, <2>2, NearestBound
    <2> QED BY <2>1, <2>3
  <1> HIDE DEF result
  <1>4. heap' \subseteq Rows /\ Cardinality(heap') <= k' /\ (phase' # "answered" => heap' = {})
    BY <1>1, <1>2, <1>3, FS_EmptySet DEF QueryTypes
  <1>5. /\ Scored' = Scored /\ Measures' = Measures /\ ShortlistSize' = ShortlistSize
        /\ \A p \in Parts : LookupTables(p)' = LookupTables(p)
        /\ Measured' = Measured /\ Candidates' = Candidates
    BY <1>1, SameIndex
       DEF Scored, ShortlistSize, Measured, Candidates, Representable, trainVars, codeVars, scanVars
  <1>6. ScanOK'
    BY <1>1, <1>2, <1>5 DEF ScanOK, scanVars
  <1>7. phase' = "answered" => AnswerOK'
    <2>1. ASSUME ~refused
          PROVE  Cardinality(result) = k \/ Measured = Candidates
      BY <1>2, <1>3, <2>1 DEF QueryTypes
    <2>2. Nearest(dataset', query', Measured', k') = result
      BY <1>1, <1>5 DEF result, trainVars
    <2> QED BY <1>1, <1>5, <2>1, <2>2 DEF AnswerOK
  <1>8. k' # 0
    BY <1>1, <1>2 DEF ScanOK
  <1>9. /\ query' \in Queries /\ k' \in 0 .. N /\ probes' \in 1 .. Partitions
        /\ probed' \subseteq Parts /\ pending' \subseteq Rows
        /\ rerank' \in Nat \ {0} /\ tables' \in [Slices -> [Codes -> Nat]]
        /\ shortlist' \subseteq [row : Rows, distance : Nat]
        /\ Cardinality(shortlist') <= ShortlistSize'
    BY <1>1, <1>2, <1>5 DEF QueryTypes, PqTypeOK, scanVars
  <1>10. Coded /\ phase' \in {"answered", "refused"}
    BY <1>1 DEF Coded
  <1> QED BY <1>1, <1>4, <1>6, <1>7, <1>8, <1>9, <1>10, QuerySteps

(* PqIInv is inductive.                                                    *)
LEMMA PqStepInv == PqIInv /\ [PqNext]_pqVars => PqIInv'
  <1>1. CASE UNCHANGED pqVars
    <2>1. UNCHANGED <<dataset, centroids, lists, codebooks, codes, query>>
      BY <1>1 DEF pqVars, vars, trainVars, codeVars, queryVars
    <2>2. /\ (Trained <=> Trained') /\ (Listed <=> Listed') /\ Measures' = Measures
          /\ \A r \in Rows : Residual(r)' = Residual(r)
          /\ \A p \in Parts : LookupTables(p)' = LookupTables(p)
      BY <2>1, SameIndex DEF Trained, Listed
    <2>3. /\ (PqTypeOK => PqTypeOK') /\ (QueryTypes => QueryTypes') /\ (IInv => IInv')
          /\ (IsEuclidean => IsEuclidean')
      BY <1>1, StepInv DEF pqVars, vars, trainVars, codeVars, queryVars, scanVars,
                           PqTypeOK, QueryTypes, ShortlistSize, IsEuclidean
    <2>4. /\ Scored' = Scored /\ ShortlistSize' = ShortlistSize
          /\ Measured' = Measured /\ Candidates' = Candidates
      BY <1>1 DEF pqVars, vars, trainVars, queryVars, scanVars, Scored, ShortlistSize,
                  Measured, Candidates, Representable
    <2>5. QueryTypes => (ScanOK => ScanOK') /\ (AnswerOK => AnswerOK')
      BY <1>1, <2>2, <2>4 DEF pqVars, vars, trainVars, queryVars, scanVars, ScanOK, AnswerOK,
                              QueryTypes
    <2> QED BY <1>1, <2>2, <2>3, <2>5
            DEF PqIInv, Checked, Coded, Asked, pqVars, vars, queryVars
  <1>2. CASE PqNext
    BY <1>1, <1>2, CoarseInv, ResidualsInv, SeedInv, RefineInv, EndInv, EncodeInv, PqQueryInv,
       PqProbeInv, ScoreCodeInv, RerankInv DEF PqNext, Failed
  <1> QED BY <1>1, <1>2

LEMMA PqInvariant == PqSpec => []PqIInv
  BY PqInitInv, PqStepInv, PTL DEF PqSpec

-----------------------------------------------------------------------------
(* Of an index with product codes and of a query of it no part leaves its  *)
(* types, and no codeword the range of f32, however the codebooks were     *)
(* seeded: the means of finite slices are finite                           *)
(* (vector-db/core/src/pq.rs:138-143, 162-171).                            *)
THEOREM PqTypeCorrect == PqSpec => []PqTypeOK
  <1>1. PqIInv => PqTypeOK
    BY DEF PqIInv
  <1> QED BY <1>1, PqInvariant, PTL

(* The shortlist is right for what the rows are decoded to.                *)
THEOREM ShortlistsNearest == PqSpec => []ShortlistIsNearestDecoded
  <1>1. ASSUME PqIInv, phase \in {"search", "answered"}, k > 0
        PROVE  LET all == {[row |-> r, distance |-> SquaredL2(query, Decoded(r))] : r \in Scored}
               IN  shortlist = {a \in all :
                                  Cardinality({b \in all : Before(b, a)}) < ShortlistSize}
    <2> DEFINE all == {[row |-> r, distance |-> SquaredL2(query, Decoded(r))] : r \in Scored}
    <2>1. ScanOK /\ QueryTypes
      BY <1>1 DEF PqIInv, Asked
    <2>2. Scored \in SUBSET Rows
      BY <2>1 DEF QueryTypes, Scored
    <2>3. \A r \in Rows : Entry(Measures, r) = [row |-> r, distance |-> SquaredL2(query, Decoded(r))]
      BY DEF Entry, Measures
    <2>4. all = Entries(Measures, Scored)
      BY <2>2, <2>3 DEF Entries
    <2>5. IsFiniteSet(Scored)
      BY <2>2, FiniteRows
    <2> HIDE DEF all
    <2>6. shortlist = {a \in all : Cardinality({b \in all : Before(b, a)}) < ShortlistSize}
      BY <2>1, <2>4, <2>5, EntriesNearest DEF ScanOK
    <2> QED BY <2>6 DEF all
  <1>2. PqIInv => ShortlistIsNearestDecoded
    BY <1>1 DEF ShortlistIsNearestDecoded
  <1> QED BY <1>2, PqInvariant, PTL

(* Which rows an answer of k > 0 rows was chosen from.                     *)
LEMMA CandidatesOf ==
  ASSUME PqIInv, phase = "answered", k > 0
  PROVE  /\ AnswerOK /\ Candidates \in SUBSET Scored /\ Scored \in SUBSET Rows
         /\ k \in Nat /\ ShortlistSize \in Nat
         /\ Cardinality(Candidates) < ShortlistSize => Candidates = Scored
         /\ Cardinality(Scored) <= ShortlistSize => Candidates = Scored
  <1> DEFINE H == Ranked!Nearest(Measures, 0, Scored, ShortlistSize)
  <1>1. /\ ScanOK /\ AnswerOK /\ QueryTypes /\ Trained /\ k \in Nat
        /\ codebooks \in Finite /\ codes \in [Rows -> [Slices -> Codes]]
        /\ rerank \in Nat \ {0}
    BY DEF PqIInv, Asked, PqTypeOK, QueryTypes, Finite, Floats
  <1>2. ShortlistSize \in Nat
    BY <1>1, ShortlistSizeType
  <1>3. Scored \in SUBSET Rows /\ IsFiniteSet(Scored)
    <2>1. Scored \in SUBSET Rows
      BY <1>1 DEF QueryTypes, Scored
    <2> QED BY <2>1, FiniteRows
  <1>4. /\ Rows \in SUBSET Nat /\ Measures \in [Rows -> Numbers] /\ 0 \in Numbers
        /\ Ranked!IsFiniteSet(Scored)
    <2>1. Measures \in [Rows -> Nat]
      BY <1>1, MeasuresType DEF QueryTypes
    <2>2. Measures \in [Rows -> Numbers] /\ 0 \in Numbers
      BY <2>1 DEF Numbers
    <2> QED BY <1>3, <2>2, FiniteRows, SameSets
  <1>5. H \subseteq Scored /\ IsFiniteSet(H)
    <2>1. H \subseteq Scored
      BY <1>2, <1>3, <1>4, SameSets, Ranked!NearestBound
    <2> QED BY <1>3, <2>1, FiniteRows
  <1>6. Candidates = H
    <2>1. shortlist = Entries(Measures, H)
      BY <1>1 DEF ScanOK
    <2> HIDE DEF H
    <2> QED BY <1>5, <2>1, EntriesSize DEF Candidates
  <1>7. H # Scored => Cardinality(H) = ShortlistSize
    <2>1. H # Scored => Ranked!Cardinality(H) = ShortlistSize
      BY <1>2, <1>3, <1>4, SameSets, Ranked!NearestKeepsK
    <2> QED BY <2>1, SameSets
  <1>8. Cardinality(Scored) <= ShortlistSize => H = Scored
    <2>1. Ranked!Cardinality(Scored) = Cardinality(Scored)
      BY SameSets
    <2> QED BY <1>2, <1>3, <1>4, <2>1, SameSets, Ranked!NearestAll
  <1> HIDE DEF H
  <1>9. Cardinality(H) = ShortlistSize => ~(Cardinality(H) < ShortlistSize)
    BY <1>2
  <1> QED BY <1>1, <1>2, <1>3, <1>5, <1>6, <1>7, <1>8, <1>9

(* What an answer is chosen from can be ranked.                            *)
LEMMA MeasuredOf ==
  ASSUME PqIInv
  PROVE  /\ Rows \in SUBSET Nat /\ dataset \in [Rows -> Vector] /\ query \in Vector
         /\ \A S \in SUBSET Rows : IsFiniteSet(S) /\ Cardinality(S) \in Nat
  BY FiniteRows, IvfConfigAssumption DEF PqIInv, Trained, QueryTypes

(* A short answer is all the rows of the probed lists.                     *)
THEOREM ShortOnlyForWant == PqSpec => []NeverSilentlyShort
  <1>1. ASSUME PqIInv, phase = "answered", Cardinality(heap) < k
        PROVE  heap = Scored
    <2>1. k > 0
      <3>1. k = 0 => heap = {}
        BY <1>1 DEF PqIInv
      <3>2. k \in Nat
        BY <1>1 DEF PqIInv, QueryTypes
      <3> QED BY <1>1, <3>1, <3>2, FS_EmptySet
    <2>2. /\ AnswerOK /\ Candidates \in SUBSET Scored /\ Scored \in SUBSET Rows
          /\ k \in Nat /\ ShortlistSize \in Nat
          /\ Cardinality(Candidates) < ShortlistSize => Candidates = Scored
      BY <1>1, <2>1, CandidatesOf
    <2>3. Measured = Candidates /\ heap = Nearest(dataset, query, Candidates, k)
      BY <1>1, <2>2 DEF AnswerOK
    <2>4. heap = Candidates
      <3>1. /\ Rows \in SUBSET Nat /\ dataset \in [Rows -> Vector] /\ query \in Vector
            /\ Candidates \in SUBSET Rows /\ IsFiniteSet(Candidates)
        BY <1>1, <2>2, MeasuredOf
      <3>2. Nearest(dataset, query, Candidates, k) # Candidates
              => Cardinality(Nearest(dataset, query, Candidates, k)) = k
        BY <2>2, <3>1, NearestKeepsK
      <3> QED BY <1>1, <2>2, <2>3, <3>2
    <2>5. k <= ShortlistSize
      BY <1>1, ShortlistSizeType DEF PqIInv, PqTypeOK, QueryTypes
    <2>6. Cardinality(Candidates) \in Nat
      BY <1>1, <2>2, MeasuredOf
    <2> QED BY <1>1, <2>2, <2>4, <2>5, <2>6
  <1>2. PqIInv => NeverSilentlyShort
    BY <1>1 DEF NeverSilentlyShort
  <1> QED BY <1>2, PqInvariant, PTL

(* Full effort is exact although the codes decide the shortlist: it has    *)
(* every row, and the rows whose distance cannot be represented are        *)
(* farther than all others.                                                *)
THEOREM FullEffort == PqSpec => []FullEffortIsExact
  <1>1. ASSUME PqIInv, phase = "answered", probes = Partitions, rerank >= N \/ k = N
        PROVE  heap = Nearest(dataset, query, Rows, k)
    <2>1. CASE k = 0
      <3>1. heap = {}
        BY <1>1, <2>1 DEF PqIInv
      <3>2. Nearest(dataset, query, Rows, 0) = {}
        <4>1. \A S \in SUBSET Rows : ~(Cardinality(S) < 0)
          BY <1>1, MeasuredOf
        <4>2. \A r \in Rows : {s \in Rows : Closer(dataset, query, s, r)} \in SUBSET Rows
          OBVIOUS
        <4> QED BY <4>1, <4>2 DEF Nearest
      <3> QED BY <2>1, <3>1, <3>2
    <2>2. CASE k > 0
      <3>1. /\ AnswerOK /\ Scored \in SUBSET Rows /\ k \in Nat
            /\ Cardinality(Scored) <= ShortlistSize => Candidates = Scored
        BY <1>1, <2>2, CandidatesOf
      <3>2. /\ Listed /\ QueryTypes /\ Trained /\ IsEuclidean /\ rerank \in Nat \ {0}
            /\ Rows \in SUBSET Nat /\ dataset \in [Rows -> Vector] /\ query \in Vector
            /\ IsFiniteSet(Rows)
        BY <1>1, MeasuredOf DEF PqIInv, Coded, PqTypeOK
      <3>3. Scored = Rows
        <4>1. probed = Parts
          BY <1>1, <3>1, <3>2, FiniteRows, FS_Subset DEF AnswerOK, QueryTypes
        <4>2. \A r \in Rows : \E p \in Parts : r \in lists[p]
          BY <3>2, RowVectors DEF Listed
        <4> QED BY <3>1, <4>1, <4>2 DEF AnswerOK, Scored
      <3>4. ShortlistSize = N
        BY <1>1, <3>1, <3>2, ShortlistSizeType DEF QueryTypes
      <3>5. Candidates = Rows
        <4>1. Cardinality(Rows) = N /\ N \in Nat
          BY IvfConfigAssumption, FS_Interval DEF Rows
        <4> QED BY <3>1, <3>3, <3>4, <4>1
      <3>6. CASE Measured = Candidates
        BY <3>1, <3>5, <3>6 DEF AnswerOK
      <3>7. CASE Cardinality(heap) = k
        <4>1. Measured \in SUBSET Rows
          BY <3>5 DEF Measured
        <4>2. ASSUME NEW a \in Measured, NEW b \in Rows \ Measured
              PROVE  Closer(dataset, query, a, b)
          <5>1. SquaredL2(query, dataset[a]) < SquaredL2(query, dataset[b])
            <6>1. Representable(a) /\ ~Representable(b) /\ a \in Rows
              BY <3>5, <4>1, <4>2 DEF Measured
            <6>2. /\ SquaredL2(query, dataset[a]) \in Nat /\ SquaredL2(query, dataset[b]) \in Nat
                  /\ MaxFloat * MaxFloat \in Int
              <7>1. /\ query \in [1 .. Dim -> Int] /\ dataset[a] \in [1 .. Dim -> Int]
                    /\ dataset[b] \in [1 .. Dim -> Int] /\ Dim \in Nat /\ MaxFloat \in Nat
                BY <3>2, <6>1, Config
              <7> QED BY <7>1, SquareType
            <6> QED BY <6>1, <6>2 DEF Representable
          <5>2. query \in Queries /\ dataset[a] \in Stored /\ dataset[b] \in Stored
            BY <3>2, <4>1 DEF QueryTypes, Trained
          <5>3. Distance(query, dataset[a]) < Distance(query, dataset[b])
            BY <3>2, <5>1, <5>2 DEF IsEuclidean
          <5> QED BY <5>3 DEF Closer
        <4>3. heap = Nearest(dataset, query, Measured, k)
          BY <3>1 DEF AnswerOK
        <4> QED BY <3>1, <3>2, <3>7, <4>1, <4>2, <4>3, NearestOfFewer
      <3> QED BY <3>1, <3>6, <3>7 DEF AnswerOK
    <2> QED BY <1>1, <2>1, <2>2 DEF PqIInv, QueryTypes
  <1>2. PqIInv => FullEffortIsExact
    BY <1>1 DEF FullEffortIsExact
  <1> QED BY <1>2, PqInvariant, PTL

(* So it is of the partitions of an index with product codes.              *)
THEOREM PqEmptyCovered == PqSpec => []EmptyOnlyIfCovered
  <1>1. PqIInv /\ CoverInv /\ [PqNext]_pqVars => CoverInv'
    <2> SUFFICES ASSUME PqIInv, CoverInv, [PqNext]_pqVars PROVE CoverInv'
      OBVIOUS
    <2>1. CASE UNCHANGED pqVars \/ Failed
      BY <2>1, CoverSame DEF pqVars, Failed
    <2>2. CASE Coarse
      <3>1. IInv
        BY <2>2 DEF PqIInv, Coarse, Train, FillLists, Assign, Converged, IterationsDone, Reseed,
                    Recenter, RecenterOnRow
      <3> QED BY <2>2, <3>1, CoverStep DEF Coarse
    <2>3. CASE Residuals \/ SeedCodebook \/ Refine \/ EndCodebook \/ Encode
      <3>1. phase' \notin {"assign", "update", "fill"}
        BY <2>3 DEF Residuals, SeedCodebook, Refine, EndCodebook, Encode
      <3> QED BY <3>1, CoverLater
    <2>4. CASE PqQuery \/ PqProbe \/ ScoreCode \/ Rerank
      <3>1. phase' \notin {"assign", "update", "fill"}
        BY <2>4 DEF PqQuery, PqProbe, ScoreCode, Rerank
      <3> QED BY <3>1, CoverLater
    <2> QED BY <2>1, <2>2, <2>3, <2>4 DEF PqNext
  <1>2. PqInit => CoverInv
    BY CoverInit DEF PqInit
  <1>3. CoverInv => EmptyOnlyIfCovered
    BY DEF CoverInv
  <1> QED BY <1>1, <1>2, <1>3, PqInvariant, PTL DEF PqSpec

(* So it is while the centroids of product codes are trained.              *)
THEOREM PqCostFalls == Squared => (PqSpec => CostNeverGrows)
  <1> SUFFICES ASSUME Squared PROVE PqSpec => CostNeverGrows
    OBVIOUS
  <1> DEFINE Falls == assignments # [r \in Rows |-> NoPart] /\ phase \in {"assign", "update"} =>
                        Cost(assignments', centroids') <= Cost(assignments, centroids)
  <1>1. PqIInv /\ AllOrNone /\ [PqNext]_pqVars => AllOrNone' /\ [Falls]_vars
    <2> SUFFICES ASSUME PqIInv, AllOrNone, [PqNext]_pqVars PROVE AllOrNone' /\ [Falls]_vars
      OBVIOUS
    <2>1. CASE UNCHANGED pqVars \/ Failed
      BY <2>1 DEF pqVars, vars, trainVars, Failed, AllOrNone
    <2>2. CASE Coarse /\ Train
      <3>1. TypeOK
        BY <2>2 DEF PqIInv, IInv, Train, Assign, Converged, IterationsDone, Reseed,
                    Recenter, RecenterOnRow
      <3> QED BY <2>2, <3>1, AllOrNoneStep, CostStep DEF AllOrNone
    <2>3. CASE Coarse /\ FillLists
      BY <2>3 DEF FillLists, trainVars, AllOrNone
    <2>4. CASE Residuals
      BY <2>4 DEF Residuals, AllOrNone
    <2>5. CASE SeedCodebook \/ Refine \/ EndCodebook \/ Encode
      BY <2>5 DEF SeedCodebook, Refine, EndCodebook, Encode, trainVars, AllOrNone
    <2>6. CASE PqQuery \/ PqProbe \/ ScoreCode \/ Rerank
      BY <2>6 DEF PqQuery, PqProbe, ScoreCode, Rerank, trainVars, AllOrNone
    <2> QED BY <2>1, <2>2, <2>3, <2>4, <2>5, <2>6 DEF PqNext, Coarse
  <1>2. PqInit => AllOrNone
    BY AllOrNoneStep DEF PqInit
  <1>3. PqSpec => [][Falls]_vars
    BY <1>1, <1>2, PqInvariant, PTL DEF PqSpec
  <1> QED BY <1>3 DEF CostNeverGrows

-----------------------------------------------------------------------------
(* The means of a codebook's next round are exact.  The residuals are      *)
(* computed, so that this is a fact about a behaviour, not the constants.  *)
CodeMeansExact ==
  \A c \in Codes :
    LET S == {r \in Rows : NextCodes[r] = c}
    IN  S # {} => \A i \in 1 .. SliceSize :
          SumFunction([r \in S |-> Slice(Residual(r), sub)[i]]) % Cardinality(S) = 0

(* The squared distances Distortion sums.                                  *)
SliceTerms(assigned, book) ==
  [r \in Rows |-> SquaredL2(Slice(Residual(r), sub), book[assigned[r]])]

(* The distortion is their sum.                                            *)
LEMMA DistortionOf ==
  ASSUME Trained, sub \in Slices, NEW A \in [Rows -> Codes],
         NEW book \in [Codes -> [1 .. SliceSize -> Int]]
  PROVE  /\ Distortion(A, book) = SumFunctionOnSet(SliceTerms(A, book), Rows)
         /\ \A r \in Rows :
              /\ Slice(Residual(r), sub) \in [1 .. SliceSize -> Int]
              /\ SliceTerms(A, book)[r] = SquaredL2(Slice(Residual(r), sub), book[A[r]])
              /\ SliceTerms(A, book)[r] \in Int
         /\ Distortion(A, book) \in Int
  <1>1. Distortion(A, book) = SumFunctionOnSet(SliceTerms(A, book), Rows)
    BY DEF Distortion, SumFunction, SliceTerms
  <1>2. ASSUME NEW r \in Rows
        PROVE  /\ Slice(Residual(r), sub) \in [1 .. SliceSize -> Int]
               /\ SliceTerms(A, book)[r] = SquaredL2(Slice(Residual(r), sub), book[A[r]])
               /\ SliceTerms(A, book)[r] \in Int
    <2>1. Slice(Residual(r), sub) \in [1 .. SliceSize -> Int]
      BY ResidualType, SliceType
    <2>2. book[A[r]] \in [1 .. SliceSize -> Int]
      OBVIOUS
    <2>3. SquaredL2(Slice(Residual(r), sub), book[A[r]]) \in Int
      <3> DEFINE u == Slice(Residual(r), sub)
                 v == book[A[r]]
      <3>1. u \in [1 .. SliceSize -> Int] /\ v \in [1 .. SliceSize -> Int]
        BY <2>1, <2>2
      <3>2. SliceSize \in Nat
        BY Config
      <3> HIDE DEF u, v
      <3>3. SquaredL2(u, v) \in Nat
        BY <3>1, <3>2, SquareType
      <3> QED BY <3>3 DEF u, v
    <2> QED BY <2>1, <2>3 DEF SliceTerms
  <1>3. SumFunctionOnSet(SliceTerms(A, book), Rows) \in Int
    BY <1>2, FiniteRows, SumType
  <1> QED BY <1>1, <1>2, <1>3

(* A round of a codebook's training fits the codes to their rows.          *)
LEMMA RefineFalls ==
  ASSUME PqIInv, Refine, CodeMeansExact, NEW A \in [Rows -> Codes]
  PROVE  Distortion(codeAssignments', codebooks'[sub]) <= Distortion(A, codebooks[sub])
  <1> DEFINE book == codebooks[sub]
             moved == Refined(book)
             w(r) == Slice(Residual(r), sub)
             B == [c \in Codes |-> {r \in Rows : NextCodes[r] = c}]
  <1>1. /\ Trained /\ sub \in Slices
        /\ \A r \in Rows : Residual(r) \in [1 .. Dim -> Floats]
    BY DEF PqIInv, PqTypeOK, Refine, Checked
  <1>2. codebooks \in Finite
    BY DEF PqIInv, PqTypeOK, Finite, Floats
  <1>3. book \in [Codes -> [1 .. SliceSize -> Int]]
    <2>1. book \in [Codes -> [1 .. SliceSize -> Floats]]
      BY <1>1, <1>2 DEF Finite
    <2> HIDE DEF book
    <2> QED BY <2>1, FiniteWords
  <1>4. moved \in [Codes -> [1 .. SliceSize -> Int]]
    <2>1. \A S \in SUBSET Rows : S # {} => CodeMean(S) \in [1 .. SliceSize -> Floats]
      BY <1>1, CodeMeanType
    <2>2. \A S \in SUBSET Rows : S # {} => CodeMean(S) \in [1 .. SliceSize -> Int]
      BY <2>1, Config
    <2> HIDE DEF book
    <2> QED BY <1>3, <2>2 DEF Refined
  <1>5. \A r \in Rows : w(r) \in [1 .. SliceSize -> Int]
    BY <1>1, <1>3, DistortionOf
  <1>6. /\ NextCodes \in [Rows -> Codes]
        /\ \A r \in Rows : \A o \in Codes :
             SquaredL2(w(r), book[NextCodes[r]]) <= SquaredL2(w(r), book[o])
    <2>1. \A r \in Rows : NextCodes[r] = NearestCode(book, w(r))
      BY DEF NextCodes
    <2>2. NextCodes = [r \in Rows |-> NextCodes[r]]
      BY DEF NextCodes
    <2> HIDE DEF book, w
    <2> QED BY <1>3, <1>5, <2>1, <2>2, CodeExists
  <1>7. codeAssignments' = NextCodes /\ codebooks'[sub] = moved
    BY <1>1, <1>2 DEF Refine, Finite
  <1> DEFINE first  == SliceTerms(A, book)
             second == SliceTerms(NextCodes, book)
             third  == SliceTerms(NextCodes, moved)
  <1> HIDE DEF book, moved, B
  <1>8. /\ Distortion(A, book) = SumFunctionOnSet(first, Rows)
        /\ Distortion(NextCodes, moved) = SumFunctionOnSet(third, Rows)
        /\ \A r \in Rows :
             /\ first[r] \in Int /\ second[r] \in Int /\ third[r] \in Int
             /\ first[r] = SquaredL2(w(r), book[A[r]])
             /\ second[r] = SquaredL2(w(r), book[NextCodes[r]])
             /\ third[r] = SquaredL2(w(r), moved[NextCodes[r]])
    BY <1>1, <1>3, <1>4, <1>6, DistortionOf
  <1> HIDE DEF first, second, third
  <1>9. SumFunctionOnSet(second, Rows) <= SumFunctionOnSet(first, Rows)
    <2>1. \A r \in Rows : second[r] <= first[r]
      <3> HIDE DEF w
      <3> QED BY <1>6, <1>8
    <2> QED BY <1>8, <2>1, FiniteRows, SumMonotone
  <1>10. ASSUME NEW c \in Codes
         PROVE  SumFunctionOnSet(third, B[c]) <= SumFunctionOnSet(second, B[c])
    <2> DEFINE S == B[c]
    <2>1. /\ S = {r \in Rows : NextCodes[r] = c} /\ S \in SUBSET Rows
          /\ IsFiniteSet(S)
      BY FiniteRows DEF B
    <2>2. CASE S = {}
      <3>1. SumFunctionOnSet(third, S) = 0 /\ SumFunctionOnSet(second, S) = 0
        BY <2>1, <2>2, SumAny
      <3> QED BY <3>1
    <2>3. CASE S # {}
      <3> DEFINE D == 1 .. SliceSize
                 M == CodeMean(S)
                 v == [r \in S |-> w(r)]
      <3>1. M = moved[c] /\ M \in [D -> Int] /\ book[c] \in [D -> Int]
        BY <1>3, <1>4, <2>1, <2>3 DEF moved, Refined
      <3>2. v \in [S -> [D -> Int]]
        <4> HIDE DEF w
        <4> QED BY <1>5, <2>1
      <3>3. ASSUME NEW i \in D
            PROVE  SumFunctionOnSet([r \in S |-> v[r][i]], S) = Cardinality(S) * M[i]
        <4> DEFINE h == [r \in S |-> Slice(Residual(r), sub)[i]]
                   a == SumFunctionOnSet(h, S)
                   n == Cardinality(S)
        <4>1. [r \in S |-> v[r][i]] = h
          OBVIOUS
        <4>2. SumFunction(h) = a
          BY DEF SumFunction
        <4>3. M[i] = a \div n
          BY <4>2 DEF CodeMean
        <4>4. a % n = 0
          <5>1. SumFunction(h) % n = 0
            BY <2>1, <2>3 DEF CodeMeansExact
          <5> QED BY <4>2, <5>1
        <4>5. n \in Nat \ {0}
          BY <2>1, <2>3, FiniteRows, FS_EmptySet
        <4>6. a \in Int
          <5>1. \A r \in S : h[r] \in Int
            BY <1>5, <2>1
          <5> HIDE DEF h
          <5> QED BY <2>1, <5>1, SumType
        <4> HIDE DEF a, n
        <4>7. a = n * (a \div n) + (a % n) /\ n * (a \div n) \in Int
          BY <4>5, <4>6, Division
        <4> HIDE DEF M
        <4>8. a = n * M[i]
          BY <4>3, <4>4, <4>7
        <4> QED BY <4>1, <4>8 DEF a, n
      <3>4. \A r \in S : third[r] = SquaredL2(v[r], M) /\ second[r] = SquaredL2(v[r], book[c])
        <4>1. \A r \in S : r \in Rows /\ NextCodes[r] = c /\ v[r] = w(r)
          BY <2>1
        <4> HIDE DEF w, v, M, S
        <4> QED BY <1>8, <3>1, <4>1
      <3>5. Least(S, D, v, M, book[c], third, second)
        BY SquaresFall
      <3>6. IsFiniteSet(D)
        BY Config
      <3> HIDE DEF S, D, M, v
      <3> QED BY <2>1, <2>3, <3>1, <3>2, <3>3, <3>4, <3>5, <3>6 DEF Least, S
    <2> QED BY <2>2, <2>3
  <1> DEFINE seconds == [c \in Codes |-> SumFunctionOnSet(second, B[c])]
             thirds  == [c \in Codes |-> SumFunctionOnSet(third, B[c])]
  <1>11. /\ SumFunctionOnSet(seconds, Codes) = SumFunctionOnSet(second, Rows)
         /\ SumFunctionOnSet(thirds, Codes) = SumFunctionOnSet(third, Rows)
    <2>1. Blocks(B, Codes, Rows)
      <3>1. \A c \in Codes : B[c] = {r \in Rows : NextCodes[r] = c} /\ IsFiniteSet(B[c])
        BY FiniteRows DEF B
      <3> QED BY <1>6, <3>1 DEF Blocks
    <2>2. IntegerOn(second, Rows) /\ IntegerOn(third, Rows)
      BY <1>8 DEF IntegerOn
    <2>3. BlockSums(seconds, second, Codes, B) /\ BlockSums(thirds, third, Codes, B)
      BY DEF BlockSums
    <2> HIDE DEF seconds, thirds
    <2>4. SumFunctionOnSet(seconds, Codes) = SumFunctionOnSet(second, Rows)
      BY <2>1, <2>2, <2>3, Config, SumBlocks
    <2>5. SumFunctionOnSet(thirds, Codes) = SumFunctionOnSet(third, Rows)
      BY <2>1, <2>2, <2>3, Config, SumBlocks
    <2> QED BY <2>4, <2>5
  <1>12. \A c \in Codes : /\ seconds[c] \in Int /\ thirds[c] \in Int
                          /\ thirds[c] <= seconds[c]
    <2>1. \A c \in Codes : /\ SumFunctionOnSet(second, B[c]) \in Int
                           /\ SumFunctionOnSet(third, B[c]) \in Int
      <3>1. \A c \in Codes : B[c] \in SUBSET Rows
        BY DEF B
      <3>2. IsFiniteSet(Rows)
        BY FiniteRows
      <3> QED BY <1>8, <3>1, <3>2, SumType
    <2> QED BY <1>10, <2>1
  <1>13. SumFunctionOnSet(thirds, Codes) <= SumFunctionOnSet(seconds, Codes)
    <2> HIDE DEF seconds, thirds
    <2> QED BY <1>12, Config, SumMonotone
  <1>14. /\ SumFunctionOnSet(first, Rows) \in Int /\ SumFunctionOnSet(second, Rows) \in Int
         /\ SumFunctionOnSet(third, Rows) \in Int
    BY <1>8, FiniteRows, SumType
  <1>15. SumFunctionOnSet(third, Rows) <= SumFunctionOnSet(first, Rows)
    <2> HIDE DEF seconds, thirds
    <2> QED BY <1>9, <1>11, <1>13, <1>14
  <1> QED BY <1>7, <1>8, <1>15 DEF book

(* A round of a codebook's training leaves the codes fitting their rows at *)
(* least as well as any codes did before it, whenever its means are exact  *)
(* (vector-db/core/src/pq.rs:347-373).                                     *)
THEOREM DistortionFalls ==
  PqSpec /\ [](phase = "refine" => CodeMeansExact) => DistortionNeverGrows
  <1> DEFINE Falls == codeRound' = codeRound + 1 =>
                        \A assigned \in [Rows -> Codes] :
                          Distortion(codeAssignments', codebooks'[sub])
                            <= Distortion(assigned, codebooks[sub])
             Exact == phase = "refine" => CodeMeansExact
  <1>1. PqIInv /\ Exact /\ [PqNext]_pqVars => [Falls]_pqVars
    <2> SUFFICES ASSUME PqIInv, Exact, [PqNext]_pqVars, codeRound' = codeRound + 1
                 PROVE  \A assigned \in [Rows -> Codes] :
                          Distortion(codeAssignments', codebooks'[sub])
                            <= Distortion(assigned, codebooks[sub])
      OBVIOUS
    <2>1. codeRound \in Nat
      BY IvfConfigAssumption DEF PqIInv, PqTypeOK
    <2>2. codeRound' # codeRound /\ codeRound' # 0
      BY <2>1
    <2>3. Refine
      BY <2>2 DEF PqNext, Coarse, Residuals, SeedCodebook, EndCodebook, Encode, PqQuery, PqProbe,
                  ScoreCode, Rerank, Failed, pqVars, codeVars
    <2>4. phase = "refine"
      BY <2>3 DEF Refine
    <2> QED BY <2>3, <2>4, RefineFalls
  <1>2. PqSpec /\ []Exact => [][Falls]_pqVars
    BY <1>1, PqInvariant, PTL DEF PqSpec
  <1> QED BY <1>2 DEF DistortionNeverGrows
=============================================================================
