---------------------------- MODULE BoundedGraph ----------------------------
(***************************************************************************)
(* What the graph builders promise about a layer they build: an undirected *)
(* graph that takes in one row at a time, linked to at most Cap earlier    *)
(* rows, and loses links only from a row that has more than Cap of them,   *)
(* one at a time, before the next row is taken in.                         *)
(***************************************************************************)
EXTENDS Integers, FiniteSets

CONSTANTS
  Row,    \* the rows the graph may hold
  Cap     \* the most links a row keeps

VARIABLES
  rows,   \* the rows taken in
  links   \* sets of two linked rows

graph == <<rows, links>>

LinksOf(r) == {link \in links : r \in link}

Overfull(r) == Cardinality(LinksOf(r)) > Cap

Init == rows = {} /\ links = {}

TakeIn(r, neighbors) ==
  /\ \A other \in rows : ~Overfull(other)
  /\ r \notin rows
  /\ neighbors \subseteq rows
  /\ Cardinality(neighbors) <= Cap
  /\ rows' = rows \cup {r}
  /\ links' = links \cup {{r, n} : n \in neighbors}

Drop(r, link) ==
  /\ Overfull(r)
  /\ link \in LinksOf(r)
  /\ links' = links \ {link}
  /\ UNCHANGED rows

Next ==
  \E r \in Row :
    \/ \E neighbors \in SUBSET rows : TakeIn(r, neighbors)
    \/ \E link \in links : Drop(r, link)

Spec == Init /\ [][Next]_graph
=============================================================================
