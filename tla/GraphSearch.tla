---------------------------- MODULE GraphSearch ----------------------------
(***************************************************************************)
(* search_layer called in any way a caller could: over every undirected    *)
(* graph, from any entries, with any beam width and any number of allowed  *)
(* rows.                                                                   *)
(***************************************************************************)
EXTENDS SearchLayer

CONSTANTS
  Queries,    \* the vectors searched for
  Widths,     \* the beam widths asked for
  Entries     \* the sets of entry points passed

ASSUME CallAssumption ==
  /\ Queries \subseteq Vector
  /\ Widths \subseteq Nat
  /\ Entries \subseteq SUBSET Rows

(* The graphs the builders keep: links go both ways and never to self.     *)
LinkGraphs ==
  {[r \in Rows |-> {s \in Rows : {r, s} \in links}] :
     links \in SUBSET {{e[1], e[2]} : e \in {p \in Rows \X Rows : p[1] < p[2]}}}

CallsInit ==
  /\ dataset \in [Rows -> Vector]
  /\ adjacency \in LinkGraphs
  /\ NoSearch

Begin ==
  /\ \E q \in Queries, entries \in Entries, width \in Widths, allowed \in 0 .. N :
       Call(q, entries, width, allowed)
  /\ UNCHANGED adjacency

Finish == Return /\ UNCHANGED adjacency

CallsNext == Begin \/ Step \/ Finish

(* A call runs to its end once it was made; nobody has to make one.        *)
CallsSpec == CallsInit /\ [][CallsNext]_vars /\ WF_vars(Step)

-----------------------------------------------------------------------------
(* The types of the function's locals; the heaps hold visited, allowed     *)
(* rows and the beam never outgrows its capacity (TopK::push pops).        *)
LocalsOK ==
  /\ dataset \in [Rows -> Vector]
  /\ adjacency \in [Rows -> SUBSET Rows]
  /\ query \in Vector
  /\ entry_points \subseteq Rows
  /\ ef \in 0 .. N /\ allowed_rows \in 0 .. N
  /\ visited \subseteq Allowed
  /\ candidates \subseteq visited
  /\ best \subseteq visited
  /\ Cardinality(best) <= ef
  /\ current \in Rows
  /\ pending \subseteq Rows
  /\ search \in {"idle", "expand", "visit", "done"}

(* The result is closed: a neighbour of a returned row is returned too, or *)
(* the beam is full and every returned row is closer than the neighbour.   *)
(* It is what makes the early break of graph.rs:37 harmless.               *)
BeamClosed ==
  search = "done" =>
    \A r \in best : \A s \in (adjacency[r] \cap Allowed) \ best :
      Cardinality(best) = ef /\ \A b \in best : Closer(dataset, query, b, s)

(* A row that was looked at is missing from the result only because ef     *)
(* closer rows were seen: the order the neighbours of a row are visited in *)
(* (the inner loop of graph.rs:40-52) does not show in the result.         *)
BeamIsNearestSeen ==
  search # "idle" => best = Nearest(dataset, query, visited, ef)

(* A search never leaves what its entries reach, and one whose beam is     *)
(* wide enough for the whole component returns all of it: graph.rs:16 caps *)
(* ef by allowed_rows, never below the component.                          *)
WideBeamIsExhaustive ==
  /\ search # "idle" => visited \subseteq Reachable(entry_points)
  /\ (search = "done" /\ Cardinality(Reachable(entry_points)) <= ef)
       => best = Reachable(entry_points)

(* Every call returns (the while loop of graph.rs:36 ends).                *)
SearchReturns == (search = "expand") ~> (search = "done")
=============================================================================
