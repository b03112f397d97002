--------------------------- MODULE NeighborOrder ---------------------------
(***************************************************************************)
(* The order every index ranks rows by, and the bounded heap built on it   *)
(* (vector-db/core/src/search.rs).  A row is a natural number, its vector  *)
(* is data[row]; a Neighbor of the code is a row together with its         *)
(* distance from a query, and both are recomputed here from the query.     *)
(***************************************************************************)
EXTENDS Integers, FiniteSets

CONSTANTS
  Vector,           \* the vectors a dataset or a query may hold
  Distance(_, _)    \* Metric::distance, as an integer of the same order

ASSUME DistanceAssumption == \A u, v \in Vector : Distance(u, v) \in Int

(* Neighbor's Ord: the distance decides, the row breaks a tie, so that two *)
(* different rows are never equal.                                         *)
Closer(data, q, a, b) ==
  \/ Distance(q, data[a]) < Distance(q, data[b])
  \/ Distance(q, data[a]) = Distance(q, data[b]) /\ a < b

(* The k rows of S closest to q: sort, then truncate or take(k).           *)
Nearest(data, q, S, k) ==
  {r \in S : Cardinality({s \in S : Closer(data, q, s, r)}) < k}

(* TopK::push: the heap grows by one row and, past its capacity k, pops    *)
(* its maximum, the one row no other row of the heap is farther than.      *)
PushTopK(data, q, k, heap, row) ==
  LET grown == heap \cup {row}
  IN  IF k = 0 THEN heap
      ELSE IF Cardinality(grown) > k
      THEN {r \in grown : \E s \in grown : Closer(data, q, r, s)}
      ELSE grown
=============================================================================
