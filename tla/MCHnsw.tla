------------------------------- MODULE MCHnsw -------------------------------
(* The layered index over rows on a line, two of which lie on the same     *)
(* side of the origin and one across it: under the dot product no row but  *)
(* the outermost two is nearest to itself.                                 *)
EXTENDS Hnsw, Metric

Pair == {<<p>> : p \in {-1, 1, 2}}
=============================================================================
