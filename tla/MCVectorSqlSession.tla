------------------------- MODULE MCVectorSqlSession -------------------------
(* A session over two tables and two index names.                          *)
EXTENDS VectorSqlSession, TLC

CONSTANTS t, u, first_idx, second_idx

Symmetry == Permutations({t, u}) \cup Permutations({first_idx, second_idx})
=============================================================================
