--------------------------- MODULE MCGraphSearch ---------------------------
(* search_layer over every graph of a few rows on a line.                  *)
EXTENDS GraphSearch, Metric

(* Points at distance 0 and 1 from the query, so that rows tie.            *)
Line   == {<<0>>, <<1>>}
Origin == {<<0>>}
Starts == {{}} \cup {{r} : r \in Rows} \cup {{0, N - 1}}
=============================================================================
