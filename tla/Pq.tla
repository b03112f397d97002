--------------------------------- MODULE Pq ---------------------------------
(***************************************************************************)
(* IvfPqIndex (vector-db/core/src/pq.rs): the centroids of an Ivf index, a *)
(* codebook for every slice of the residuals, and a search that ranks the  *)
(* codes of the probed lists and measures only the best of them exactly.   *)
(*                                                                         *)
(* The training of Ivf runs first.  Distances are squared, as in the code, *)
(* and sums of products are exact where f64 rounds.                        *)
(***************************************************************************)
EXTENDS Ivf

CONSTANTS
  Subs,             \* IvfPqConfig.subquantizers
  SliceSize,        \* components per slice
  CodebookSize,     \* IvfPqConfig.codebook_size
  Reranks,          \* the rerank values queries are made with
  MaxFloat          \* f32::MAX

Slices == 0 .. Subs - 1
Codes  == 0 .. CodebookSize - 1

(* What try_new and search_with_probes check of the arguments alone, and   *)
(* vectors of one dimension, which the slices divide; those stored and     *)
(* asked for are finite.                                                   *)
ASSUME PqConfigAssumption ==
  /\ Subs \in Nat \ {0} /\ SliceSize \in Nat \ {0}
  /\ CodebookSize \in 2 .. 256
  /\ Reranks \subseteq Nat \ {0}
  /\ MaxFloat \in Nat
  /\ \A v \in Vector : v \in [1 .. Subs * SliceSize -> Int]
  /\ \A v \in Stored \cup Queries : \A i \in DOMAIN v : v[i] \in -MaxFloat .. MaxFloat

VARIABLES
  sub,              \* the slice whose codebook is trained
  codeRound,        \* rounds its training has had
  codeAssignments,  \* the codeword of every row, or NoCode before round 0
  codebooks,        \* a vector for every code of every slice
  codes,            \* the code of every slice of every row
  rerank,           \* an argument of search_with_probes
  tables,           \* the lookup tables of the list being scanned
  shortlist         \* rows with their approximate distance

codeVars == <<sub, codeRound, codeAssignments, codebooks, codes>>
scanVars == <<rerank, tables, shortlist>>
pqVars   == <<vars, codeVars, scanVars>>

NoCode == CodebookSize    \* usize::MAX

Slice(v, m) == [i \in 1 .. SliceSize |-> v[m * SliceSize + i]]

SquaredL2(u, v) == SumFunction([i \in DOMAIN u |-> (u[i] - v[i]) * (u[i] - v[i])])

(* Metric::Euclidean, whose distances are in the order of their squares.   *)
IsEuclidean ==
  /\ ~Spherical
  /\ \A q \in Queries, v, w \in Stored :
       SquaredL2(q, v) < SquaredL2(q, w) => Distance(q, v) < Distance(q, w)

Residual(r) ==
  LET c == centroids[NearestCentroid(centroids, dataset[r])]
  IN  [i \in DOMAIN c |-> dataset[r][i] - c[i]]

(* nearest_vector on a codebook: the earlier of two equally near codewords. *)
NearestCode(book, v) ==
  CHOOSE c \in Codes : \A o \in Codes :
    \/ SquaredL2(v, book[c]) < SquaredL2(v, book[o])
    \/ SquaredL2(v, book[c]) = SquaredL2(v, book[o]) /\ c <= o

(* try_new refuses other metrics, and a codebook of more words than rows.  *)
PqInit ==
  /\ IsEuclidean
  /\ CodebookSize <= N
  /\ Init
  /\ sub = 0 /\ codeRound = 0
  /\ codeAssignments = [r \in Rows |-> NoCode]
  /\ codebooks = [m \in Slices |-> [c \in Codes |-> [i \in 1 .. SliceSize |-> 0]]]
  /\ codes = [r \in Rows |-> [m \in Slices |-> 0]]
  /\ rerank = 1
  /\ tables = [m \in Slices |-> [c \in Codes |-> 0]]
  /\ shortlist = {}

-----------------------------------------------------------------------------
(* IvfFlatIndex::try_new, whose lists are not used.                        *)
Coarse == (Train \/ FillLists) /\ UNCHANGED <<codeVars, scanVars>>

(* Mutant of Residuals: an overflow goes unnoticed.                        *)
ResidualsUnchecked ==
  /\ phase = "ready"
  /\ phase' = "seed"
  /\ assignments' = [r \in Rows |-> NoPart]
  /\ lists' = [p \in Parts |-> {}]
  /\ UNCHANGED <<dataset, round, centroids, partition, queryVars, codeVars, scanVars>>

(* residual: a component that f32 cannot hold fails the build.             *)
Residuals ==
  /\ phase = "ready"
  /\ phase' = IF \A r \in Rows : \A i \in DOMAIN dataset[r] :
                   Residual(r)[i] \in -MaxFloat .. MaxFloat
              THEN "seed" ELSE "failed"
  /\ assignments' = [r \in Rows |-> NoPart]
  /\ lists' = [p \in Parts |-> {}]
  /\ UNCHANGED <<dataset, round, centroids, partition, queryVars, codeVars, scanVars>>

(* A codebook starts as the slices of the residuals a shuffle puts first.  *)
SeedCodebook ==
  /\ phase = "seed"
  /\ \E seed \in [Codes -> Rows] :
       /\ \A c, o \in Codes : seed[c] = seed[o] => c = o
       /\ codebooks' = [codebooks EXCEPT
                          ![sub] = [c \in Codes |-> Slice(Residual(seed[c]), sub)]]
  /\ phase' = "refine"
  /\ UNCHANGED <<trainVars, lists, queryVars, sub, codeRound, codeAssignments, codes, scanVars>>

NextCodes == [r \in Rows |-> NearestCode(codebooks[sub], Slice(Residual(r), sub))]

CodeMean(S) ==
  [i \in 1 .. SliceSize |->
     SumFunction([r \in S |-> Slice(Residual(r), sub)[i]]) \div Cardinality(S)]

(* Mutant of Refined: the sums are divided by the number of rows.          *)
RefinedByAll(book) ==
  [c \in Codes |->
     LET S == {r \in Rows : NextCodes[r] = c}
     IN  IF S = {} THEN book[c]
         ELSE [i \in 1 .. SliceSize |->
                 SumFunction([r \in S |-> Slice(Residual(r), sub)[i]]) \div N]]

(* A codeword moves to the mean of its slices, or stays if it has none.    *)
Refined(book) ==
  [c \in Codes |->
     LET S == {r \in Rows : NextCodes[r] = c}
     IN  IF S = {} THEN book[c] ELSE CodeMean(S)]

Refine ==
  /\ phase = "refine"
  /\ codeRound < Iterations
  /\ NextCodes # codeAssignments
  /\ codeAssignments' = NextCodes
  /\ codebooks' = [codebooks EXCEPT ![sub] = Refined(@)]
  /\ codeRound' = codeRound + 1
  /\ UNCHANGED <<phase, trainVars, lists, queryVars, sub, codes, scanVars>>

(* A codebook is done when no code changed, or after its last round.       *)
EndCodebook ==
  /\ phase = "refine"
  /\ codeRound = Iterations \/ NextCodes = codeAssignments
  /\ codeRound' = 0
  /\ codeAssignments' = [r \in Rows |-> NoCode]
  /\ IF sub + 1 = Subs THEN sub' = 0 /\ phase' = "encode" ELSE sub' = sub + 1 /\ phase' = "seed"
  /\ UNCHANGED <<trainVars, lists, queryVars, codebooks, codes, scanVars>>

(* Every row goes, coded, on the list of its nearest centroid.             *)
Encode ==
  /\ phase = "encode"
  /\ codes' = [r \in Rows |-> [m \in Slices |-> NearestCode(codebooks[m], Slice(Residual(r), m))]]
  /\ lists' = [p \in Parts |-> {r \in Rows : NearestCentroid(centroids, dataset[r]) = p}]
  /\ phase' = "indexed"
  /\ UNCHANGED <<trainVars, queryVars, sub, codeRound, codeAssignments, codebooks, scanVars>>

-----------------------------------------------------------------------------
(* search_with_probes begins; asked for no rows it is done.                *)
PqQuery ==
  /\ phase \in {"indexed", "answered", "refused"}
  /\ query' \in Queries /\ probes' \in ProbeCounts /\ rerank' \in Reranks
  /\ \E asked \in Ks :
       /\ k' = IF asked < N THEN asked ELSE N
       /\ phase' = IF asked = 0 THEN "answered" ELSE "search"
  /\ probed' = {} /\ pending' = {} /\ heap' = {}
  /\ shortlist' = {}
  /\ tables' = [m \in Slices |-> [c \in Codes |-> 0]]
  /\ UNCHANGED <<trainVars, lists, codeVars>>

(* fill_lookup_tables: how far the query's slice is from every codeword,   *)
(* taken from the centroid of the list.                                    *)
LookupTables(p) ==
  [m \in Slices |-> [c \in Codes |->
     SumFunction([i \in 1 .. SliceSize |->
       LET d == Slice(query, m)[i] - Slice(centroids[p], m)[i] - codebooks[m][c][i]
       IN  d * d])]]

(* Mutant of PqProbe: the tables of the first list serve for all.          *)
PqProbeStale ==
  /\ phase = "search"
  /\ pending = {}
  /\ Cardinality(probed) < probes
  /\ \E p \in Parts :
       /\ NextProbe(p)
       /\ probed' = probed \cup {p}
       /\ pending' = lists[p]
       /\ tables' = IF probed = {} THEN LookupTables(p) ELSE tables
  /\ UNCHANGED <<phase, trainVars, lists, query, k, probes, heap, codeVars, rerank, shortlist>>

PqProbe ==
  /\ phase = "search"
  /\ pending = {}
  /\ Cardinality(probed) < probes
  /\ \E p \in Parts :
       /\ NextProbe(p)
       /\ probed' = probed \cup {p}
       /\ pending' = lists[p]
       /\ tables' = LookupTables(p)
  /\ UNCHANGED <<phase, trainVars, lists, query, k, probes, heap, codeVars, rerank, shortlist>>

(* Mutant of ShortlistSize: k alone, which leaves nothing to re-rank.      *)
ShortlistSizeK == k

(* rerank.max(k).min(dataset.len())                                        *)
ShortlistSize ==
  LET wide == IF rerank > k THEN rerank ELSE k IN IF wide < N THEN wide ELSE N

(* ApproximateNeighbor's Ord.                                              *)
Before(a, b) ==
  \/ a.distance < b.distance
  \/ a.distance = b.distance /\ a.row < b.row

(* A row's codes give its distance; the heap pops its maximum when full.   *)
ScoreCode ==
  /\ phase = "search"
  /\ \E r \in pending :
       /\ \A s \in pending : r <= s
       /\ LET candidate == [row |-> r,
                            distance |-> SumFunction([m \in Slices |-> tables[m][codes[r][m]]])]
              grown == shortlist \cup {candidate}
          IN  shortlist' = IF Cardinality(grown) > ShortlistSize
                           THEN {a \in grown : \E b \in grown : Before(a, b)}
                           ELSE grown
       /\ pending' = pending \ {r}
  /\ UNCHANGED <<phase, trainVars, lists, query, k, probes, probed, heap, codeVars, rerank, tables>>

Representable(r) == SquaredL2(query, dataset[r]) <= MaxFloat * MaxFloat

(* Mutant of Rerank: what cannot be represented is left out silently.      *)
RerankQuietly ==
  /\ phase = "search"
  /\ pending = {}
  /\ Cardinality(probed) = probes
  /\ heap' = Nearest(dataset, query, {r \in {a.row : a \in shortlist} : Representable(r)}, k)
  /\ phase' = "answered"
  /\ UNCHANGED <<trainVars, lists, query, k, probes, probed, pending, codeVars, scanVars>>

(* The shortlist is measured exactly.  A distance that f32 cannot hold is  *)
(* left out, and is an error if an answer of k rows lacks it.              *)
Rerank ==
  /\ phase = "search"
  /\ pending = {}
  /\ Cardinality(probed) = probes
  /\ LET candidates == {a.row : a \in shortlist}
         measured   == {r \in candidates : Representable(r)}
         result     == Nearest(dataset, query, measured, k)
         refused    == Cardinality(result) < k /\ measured # candidates
     IN  /\ heap' = IF refused THEN {} ELSE result
         /\ phase' = IF refused THEN "refused" ELSE "answered"
  /\ UNCHANGED <<trainVars, lists, query, k, probes, probed, pending, codeVars, scanVars>>

-----------------------------------------------------------------------------
(* A build that failed leaves nothing to query.                            *)
Failed == phase = "failed" /\ UNCHANGED pqVars

PqNext ==
  \/ Coarse \/ Residuals \/ SeedCodebook \/ Refine \/ EndCodebook \/ Encode
  \/ PqQuery \/ PqProbe \/ ScoreCode \/ Rerank
  \/ Failed

PqSpec == PqInit /\ [][PqNext]_pqVars

-----------------------------------------------------------------------------
(* The types; and once the residuals have been checked no codeword leaves  *)
(* the range of f32: try_new's second check, of the codebooks, is never    *)
(* the first to fail (vector-db/core/src/pq.rs:138-143, 162-171).          *)
PqTypeOK ==
  /\ phase \in {"assign", "update", "fill", "ready", "seed", "refine", "encode",
                "indexed", "search", "answered", "refused", "failed"}
  /\ sub \in Slices /\ codeRound \in 0 .. Iterations
  /\ codeAssignments \in [Rows -> Codes \cup {NoCode}]
  /\ codebooks \in [Slices -> [Codes -> [1 .. SliceSize -> -MaxFloat .. MaxFloat]]]
  /\ codes \in [Rows -> [Slices -> Codes]]
  /\ rerank \in Nat \ {0}
  /\ tables \in [Slices -> [Codes -> Nat]]
  /\ shortlist \subseteq [row : Rows, distance : Nat]
  /\ Cardinality(shortlist) <= ShortlistSize
  /\ heap \subseteq Rows /\ Cardinality(heap) <= k

(* What a row's list and codes stand for.                                  *)
Decoded(r) ==
  LET c == centroids[NearestCentroid(centroids, dataset[r])]
      slice(i) == (i - 1) \div SliceSize
      word(i)  == codebooks[slice(i)][codes[r][slice(i)]][i - slice(i) * SliceSize]
  IN  [i \in DOMAIN c |-> c[i] + word(i)]

(* The shortlist holds the scored rows whose decoded vectors are nearest   *)
(* to the query: every list was scored against its own centroid            *)
(* (vector-db/core/src/pq.rs:255-281).                                     *)
ShortlistIsNearestDecoded ==
  phase \in {"search", "answered"} /\ k > 0 =>
    LET all == {[row |-> r, distance |-> SquaredL2(query, Decoded(r))] : r \in Scored}
    IN  shortlist = {a \in all : Cardinality({b \in all : Before(b, a)}) < ShortlistSize}

(* Probing every list and measuring every row answers as the flat index    *)
(* does (vector-db/core/tests/indexes.rs:420), unrepresentable rows that   *)
(* are not among the k nearest notwithstanding (the same, line 395).       *)
FullEffortIsExact ==
  phase = "answered" /\ probes = Partitions /\ (rerank >= N \/ k = N) =>
    heap = Nearest(dataset, query, Rows, k)

(* An answer is short only because the probed lists are: rows whose        *)
(* distance cannot be represented make it an error, never a gap, and a     *)
(* rerank below k takes nothing away                                       *)
(* (course/src/rust-07-ivfpq.md:165-172).                                  *)
NeverSilentlyShort ==
  phase = "answered" /\ Cardinality(heap) < k => heap = Scored

(* How far the slices are from the codewords of their codes.               *)
Distortion(assigned, book) ==
  SumFunction([r \in Rows |-> SquaredL2(Slice(Residual(r), sub), book[assigned[r]])])

(* After a round of a codebook's training the codes fit their rows at      *)
(* least as well as any codes fitted them before it, although a codeword   *)
(* without slices stays where it is (vector-db/core/src/pq.rs:347-373).    *)
DistortionNeverGrows ==
  [][codeRound' = codeRound + 1 =>
       \A assigned \in [Rows -> Codes] :
         Distortion(codeAssignments', codebooks'[sub]) <= Distortion(assigned, codebooks[sub])]_pqVars
=============================================================================
