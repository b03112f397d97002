-------------------------------- MODULE Ivf --------------------------------
(***************************************************************************)
(* IvfFlatIndex (vector-db/core/src/ivf.rs): k-means finds a centroid per  *)
(* partition, every row goes on the list of its nearest centroid, and a    *)
(* query scans the lists of the centroids nearest to it.                   *)
(*                                                                         *)
(* The components of the stored vectors are multiples of every number of   *)
(* rows a mean may be taken over, so that means are exact integers; the    *)
(* rounding to f32 is left out.                                            *)
(***************************************************************************)
EXTENDS NeighborOrder, FiniteSetsExt

CONSTANTS
  N,                \* how many rows the dataset has
  Stored,           \* the vectors a row may hold
  Queries,          \* the vectors a query may ask for
  Partitions,       \* IvfFlatConfig.partitions
  Iterations,       \* IvfFlatConfig.iterations
  Ks,               \* the k values queries are made with
  ProbeCounts,      \* the probes values queries are made with
  Spherical         \* TRUE for Metric::Cosine, whose centroids are unit vectors

Rows  == 0 .. N - 1
Parts == 0 .. Partitions - 1

IsZero(v) == \A i \in DOMAIN v : v[i] = 0

(* The checks of try_new and of search_with_probes.                        *)
ASSUME IvfConfigAssumption ==
  /\ N \in Nat \ {0}
  /\ Partitions \in 1 .. N
  /\ Iterations \in Nat \ {0}
  /\ ProbeCounts \subseteq 1 .. Partitions
  /\ Ks \subseteq Nat
  /\ Stored \subseteq Vector /\ Queries \subseteq Vector /\ Queries # {}
  /\ Spherical \in BOOLEAN
  /\ Spherical => \A v \in Stored \cup Queries : ~IsZero(v)

VARIABLES
  dataset,
  phase,            \* what try_new or search_with_probes does next
  round,            \* how many rounds of k-means have ended
  centroids,
  assignments,      \* the partition of every row, or NoPart before round 0
  partition,        \* the partition whose centroid is updated next
  lists,            \* the rows of every partition
  query, k, probes, \* the arguments of search_with_probes
  probed,           \* the partitions whose list was begun
  pending,          \* rows of the last of them still to be scored
  heap              \* the TopK of the query

trainVars == <<dataset, round, centroids, assignments, partition>>
queryVars == <<query, k, probes, probed, pending, heap>>
vars      == <<phase, trainVars, lists, queryVars>>

NoPart == Partitions      \* usize::MAX

(* nearest_centroid: the earlier of two centroids at the same distance.    *)
NearestCentroid(cs, v) ==
  CHOOSE p \in Parts : \A o \in Parts : ~Closer(cs, v, o, p)

Assigned(p) == {r \in Rows : assignments[r] = p}

Mean(data, S) ==
  [i \in DOMAIN data[0] |-> SumFunction([r \in S |-> data[r][i]]) \div Cardinality(S)]

(* Means of stored vectors are vectors too, except for one of length zero  *)
(* under a metric that has no use for it.                                  *)
ASSUME MeanAssumption ==
  \A data \in [Rows -> Stored] : \A S \in (SUBSET Rows) \ {{}} :
    \/ Mean(data, S) \in Vector
    \/ Spherical /\ IsZero(Mean(data, S))

(* Vectors have one dimension, and the means of stored ones are exact.     *)
ASSUME ExactAssumption ==
  /\ \A v \in Stored : IsFiniteSet(DOMAIN v) /\ Vector \subseteq [DOMAIN v -> Int]
  /\ \A data \in [Rows -> Stored] : \A S \in (SUBSET Rows) \ {{}} : \A i \in DOMAIN data[0] :
       SumFunction([r \in S |-> data[r][i]]) % Cardinality(S) = 0

(* How far a row is from the nearest of the centroids.                     *)
Spread(cs, r) == Distance(dataset[r], cs[NearestCentroid(cs, dataset[r])])

(* Mutant of FarthestRow: the nearest one.                                 *)
ClosestRow(cs, r) ==
  \A s \in Rows : Spread(cs, r) < Spread(cs, s) \/ (Spread(cs, r) = Spread(cs, s) /\ r <= s)

(* farthest_row: the maximum of the Neighbors, the later of equal rows.    *)
FarthestRow(cs, r) ==
  \A s \in Rows : Spread(cs, s) < Spread(cs, r) \/ (Spread(cs, s) = Spread(cs, r) /\ s <= r)

(* The centroids start as the rows a seeded shuffle puts first.            *)
Init ==
  /\ dataset \in [Rows -> Stored]
  /\ \E seed \in [Parts -> Rows] :
       /\ \A p, o \in Parts : seed[p] = seed[o] => p = o
       /\ centroids = [p \in Parts |-> dataset[seed[p]]]
  /\ phase = "assign"
  /\ round = 0
  /\ assignments = [r \in Rows |-> NoPart]
  /\ partition = 0
  /\ lists = [p \in Parts |-> {}]
  /\ query = (CHOOSE q \in Queries : TRUE) /\ k = 0 /\ probes = 1
  /\ probed = {} /\ pending = {} /\ heap = {}

-----------------------------------------------------------------------------
NextAssignments == [r \in Rows |-> NearestCentroid(centroids, dataset[r])]

(* A round assigns every row to its nearest centroid ...                   *)
Assign ==
  /\ phase = "assign"
  /\ round < Iterations
  /\ NextAssignments # assignments
  /\ assignments' = NextAssignments
  /\ partition' = 0
  /\ phase' = "update"
  /\ UNCHANGED <<dataset, round, centroids, lists, queryVars>>

(* ... and training ends early when no row changed its partition.          *)
Converged ==
  /\ phase = "assign"
  /\ round < Iterations
  /\ NextAssignments = assignments
  /\ phase' = "fill"
  /\ UNCHANGED <<trainVars, lists, queryVars>>

IterationsDone ==
  /\ phase = "assign"
  /\ round = Iterations
  /\ phase' = "fill"
  /\ UNCHANGED <<trainVars, lists, queryVars>>

(* The partitions are updated in turn; a round ends with the last one.     *)
NextPartition ==
  IF partition + 1 = Partitions
  THEN phase' = "assign" /\ round' = round + 1 /\ partition' = 0
  ELSE phase' = phase /\ round' = round /\ partition' = partition + 1

MoveCentroid(v) == centroids' = [centroids EXCEPT ![partition] = v]

(* An empty partition starts again from the row farthest from the          *)
(* centroids as they are now, some of them already updated.                *)
Reseed ==
  /\ phase = "update"
  /\ Assigned(partition) = {}
  /\ \E r \in Rows : FarthestRow(centroids, r) /\ MoveCentroid(dataset[r])
  /\ NextPartition
  /\ UNCHANGED <<dataset, assignments, lists, queryVars>>

(* Mutants of Recenter: a zero mean is kept; the mean is over all rows.    *)
RecenterAnyMean ==
  /\ phase = "update"
  /\ Assigned(partition) # {}
  /\ MoveCentroid(Mean(dataset, Assigned(partition)))
  /\ NextPartition
  /\ UNCHANGED <<dataset, assignments, lists, queryVars>>

RecenterOnAll ==
  /\ phase = "update"
  /\ Assigned(partition) # {}
  /\ ~(Spherical /\ IsZero(Mean(dataset, Assigned(partition))))
  /\ MoveCentroid(Mean(dataset, Rows))
  /\ NextPartition
  /\ UNCHANGED <<dataset, assignments, lists, queryVars>>

(* A centroid moves to the mean of its rows.  Cosine distance ignores a    *)
(* vector's length, so that normalize_centroid changes nothing here.       *)
Recenter ==
  /\ phase = "update"
  /\ Assigned(partition) # {}
  /\ ~(Spherical /\ IsZero(Mean(dataset, Assigned(partition))))
  /\ MoveCentroid(Mean(dataset, Assigned(partition)))
  /\ NextPartition
  /\ UNCHANGED <<dataset, assignments, lists, queryVars>>

(* A mean that cannot be normalized gives way to the partition's first row. *)
RecenterOnRow ==
  /\ phase = "update"
  /\ Assigned(partition) # {}
  /\ Spherical /\ IsZero(Mean(dataset, Assigned(partition)))
  /\ \E r \in Assigned(partition) :
       (\A s \in Assigned(partition) : r <= s) /\ MoveCentroid(dataset[r])
  /\ NextPartition
  /\ UNCHANGED <<dataset, assignments, lists, queryVars>>

(* Mutant of FillLists: the last round's assignments are good enough.      *)
FillListsFromTraining ==
  /\ phase = "fill"
  /\ lists' = [p \in Parts |-> Assigned(p)]
  /\ phase' = "ready"
  /\ UNCHANGED <<trainVars, queryVars>>

(* The lists are those of the final centroids.                             *)
FillLists ==
  /\ phase = "fill"
  /\ lists' = [p \in Parts |-> {r \in Rows : NearestCentroid(centroids, dataset[r]) = p}]
  /\ phase' = "ready"
  /\ UNCHANGED <<trainVars, queryVars>>

-----------------------------------------------------------------------------
(* search_with_probes begins.                                              *)
Query ==
  /\ phase \in {"ready", "answered"}
  /\ query' \in Queries /\ probes' \in ProbeCounts
  /\ \E asked \in Ks : k' = IF asked < N THEN asked ELSE N
  /\ probed' = {} /\ pending' = {} /\ heap' = {}
  /\ phase' = "search"
  /\ UNCHANGED <<trainVars, lists>>

(* The next list is that of the nearest centroid not probed yet.           *)
NextProbe(p) ==
  /\ p \in Parts \ probed
  /\ \A o \in Parts \ probed : ~Closer(centroids, query, o, p)

(* Mutant of Probe: partitions are probed in the order they are stored in. *)
ProbeInOrder ==
  /\ phase = "search"
  /\ pending = {}
  /\ Cardinality(probed) < probes
  /\ probed' = probed \cup {Cardinality(probed)}
  /\ pending' = lists[Cardinality(probed)]
  /\ UNCHANGED <<phase, trainVars, lists, query, k, probes, heap>>

Probe ==
  /\ phase = "search"
  /\ pending = {}
  /\ Cardinality(probed) < probes
  /\ \E p \in Parts :
       /\ NextProbe(p)
       /\ probed' = probed \cup {p}
       /\ pending' = lists[p]
  /\ UNCHANGED <<phase, trainVars, lists, query, k, probes, heap>>

(* Every row of a list is offered to the heap, in the order of the list.   *)
Score ==
  /\ phase = "search"
  /\ \E r \in pending :
       /\ \A s \in pending : r <= s
       /\ heap' = PushTopK(dataset, query, k, heap, r)
       /\ pending' = pending \ {r}
  /\ UNCHANGED <<phase, trainVars, lists, query, k, probes, probed>>

(* Mutant of Answer: the list probed last may still have rows to score.    *)
AnswerEarly ==
  /\ phase = "search"
  /\ Cardinality(probed) = probes
  /\ phase' = "answered"
  /\ UNCHANGED <<trainVars, lists, queryVars>>

Answer ==
  /\ phase = "search"
  /\ pending = {}
  /\ Cardinality(probed) = probes
  /\ phase' = "answered"
  /\ UNCHANGED <<trainVars, lists, queryVars>>

-----------------------------------------------------------------------------
Train  == Assign \/ Converged \/ IterationsDone \/ Reseed \/ Recenter \/ RecenterOnRow
Search == Probe \/ Score \/ Answer
Next   == Train \/ FillLists \/ Query \/ Search

Spec == Init /\ [][Next]_vars

-----------------------------------------------------------------------------
(* The types; and no centroid of a cosine index has length zero, where its *)
(* distance to any vector would be NaN (vector-db/core/src/ivf.rs:93-99).  *)
TypeOK ==
  /\ dataset \in [Rows -> Stored]
  /\ phase \in {"assign", "update", "fill", "ready", "search", "answered"}
  /\ round \in 0 .. Iterations
  /\ centroids \in [Parts -> Vector]
  /\ Spherical => \A p \in Parts : ~IsZero(centroids[p])
  /\ assignments \in [Rows -> Parts \cup {NoPart}]
  /\ partition \in Parts
  /\ lists \in [Parts -> SUBSET Rows]
  /\ query \in Queries /\ k \in 0 .. N /\ probes \in 1 .. Partitions
  /\ probed \subseteq Parts
  /\ pending \subseteq Rows
  /\ heap \subseteq Rows

Built == phase \in {"ready", "search", "answered"}

(* Every row is on exactly one list and on that of a nearest centroid, so  *)
(* that a row missed by a query was on a list it did not probe             *)
(* (vector-db/core/src/ivf.rs:103-106).                                    *)
ListsFollowCentroids ==
  Built => \A r \in Rows : \E p \in Parts :
             /\ \A o \in Parts : r \in lists[o] <=> o = p
             /\ \A o \in Parts : ~Closer(centroids, dataset[r], o, p)

Scored == (UNION {lists[p] : p \in probed}) \ pending

(* An answer is the nearest rows of the probed lists, whichever they came  *)
(* from (vector-db/core/src/ivf.rs:149-157).  Probing every partition      *)
(* answers as the flat index does, ties included                           *)
(* (vector-db/core/tests/indexes.rs:117).                                  *)
AnswerIsNearestProbed ==
  phase = "answered" =>
    /\ Cardinality(probed) = probes
    /\ heap = Nearest(dataset, query, UNION {lists[p] : p \in probed}, k)
    /\ probes = Partitions => heap = Nearest(dataset, query, Rows, k)

(* A query that equals a stored row is answered with that row or closer    *)
(* ones even when it probes one list: the row is on the list of the        *)
(* centroid the query ranks first (vector-db/core/src/ivf.rs:105, 147).    *)
SelfQueryFindsRow ==
  phase = "answered" =>
    \A r \in Rows : dataset[r] = query /\ r \notin heap =>
      /\ Cardinality(heap) = k
      /\ \A s \in heap : Closer(dataset, query, s, r)

(* Only a vector itself is at distance zero: true of Euclidean distance,   *)
(* not of cosine distance and dot products.                                *)
Separating ==
  /\ ~Spherical
  /\ \A u \in Stored, v \in Vector : Distance(u, v) >= 0 /\ (Distance(u, v) = 0 <=> u = v)

(* A partition that training leaves empty when it converged was of no use: *)
(* some centroid is equal to every row already                             *)
(* (vector-db/core/src/ivf.rs:85-89).  Under cosine distance opposite      *)
(* vectors may share a partition and its mean turn away from most of them, *)
(* so that rows far from all centroids remain.                             *)
EmptyOnlyIfCovered ==
  phase = "fill" /\ round < Iterations /\ (\E p \in Parts : Assigned(p) = {}) /\ Separating =>
    \A r \in Rows : \E p \in Parts : centroids[p] = dataset[r]

(* The sum over the rows of the squared distance to the centroid of their  *)
(* partition.                                                              *)
Cost(assigned, cs) == SumFunction([r \in Rows |-> Distance(dataset[r], cs[assigned[r]])])

(* No step of the training raises the cost, a reseeding between two        *)
(* updates included, so that the last centroids are the best seen          *)
(* (vector-db/core/src/ivf.rs:64-101).  It speaks of Euclidean distance.   *)
CostNeverGrows ==
  [][assignments # [r \in Rows |-> NoPart] /\ phase \in {"assign", "update"} =>
       Cost(assignments', centroids') <= Cost(assignments, centroids)]_vars
=============================================================================
