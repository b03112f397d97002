---------------------------- MODULE SearchLayer ----------------------------
(***************************************************************************)
(* search_layer (vector-db/core/src/graph.rs), the beam search both graph  *)
(* indexes use to insert a row and to answer a query, one iteration of its *)
(* two loops per action.  The variables are the function's locals; the     *)
(* dataset and the graph are the caller's and no action here writes them.  *)
(*                                                                         *)
(* An adjacency list is a set: the code reads a list's order only to       *)
(* choose which unvisited neighbour is looked at next, and VisitNeighbor   *)
(* leaves that choice open.                                                *)
(***************************************************************************)
EXTENDS NeighborOrder

CONSTANT N      \* the number of rows of the dataset

ASSUME NAssumption == N \in Nat \ {0}

VARIABLES
  dataset,        \* row -> vector
  adjacency,      \* row -> the rows it is linked to
  query,          \* the vector searched for
  entry_points,   \* the rows the search starts from
  ef,             \* the width of the beam
  allowed_rows,   \* only rows below this one may be looked at
  visited,        \* rows looked at so far
  candidates,     \* heap of the rows still to expand
  best,           \* TopK heap of the ef best rows seen
  current,        \* the row being expanded
  pending,        \* its neighbours the inner loop has still to look at
  search          \* where the function stands

graphVars  == <<dataset, adjacency>>
callVars   == <<query, entry_points, ef, allowed_rows>>
searchVars == <<callVars, visited, candidates, best, current, pending, search>>
vars       == <<graphVars, searchVars>>

Rows    == 0 .. N - 1
Allowed == 0 .. allowed_rows - 1

MinOf(a, b) == IF a < b THEN a ELSE b
MaxOf(a, b) == IF a < b THEN b ELSE a

-----------------------------------------------------------------------------
(* No call is active: the locals do not exist.                             *)
NoSearch ==
  /\ query = dataset[0]
  /\ entry_points = {}
  /\ ef = 0
  /\ allowed_rows = 0
  /\ visited = {} /\ candidates = {} /\ best = {} /\ pending = {}
  /\ current = 0
  /\ search = "idle"

(* The call and the loop that puts every distinct allowed entry in both    *)
(* heaps.  The early return for no allowed row or no entry is the case of  *)
(* no seed: both heaps stay empty and Exhaust returns the empty result.    *)
Call(q, entries, width, allowed) ==
  LET seeds == {e \in entries : e < allowed}
      cap   == MinOf(MaxOf(width, 1), allowed)
  IN  /\ search = "idle"
      /\ query' = q
      /\ entry_points' = entries
      /\ ef' = cap
      /\ allowed_rows' = allowed
      /\ visited' = seeds
      /\ candidates' = seeds
      /\ best' = Nearest(dataset, q, seeds, cap)
      /\ search' = "expand"
      /\ UNCHANGED <<dataset, current, pending>>

(* Mutant of BeyondBeam: one closer row in a full beam is enough.          *)
BeyondNearest(row) ==
  /\ Cardinality(best) >= ef
  /\ \E b \in best : Closer(dataset, query, b, row)

(* best.len() >= ef and current > worst.                                   *)
BeyondBeam(row) ==
  /\ Cardinality(best) >= ef
  /\ best # {}
  /\ \A b \in best : Closer(dataset, query, b, row)

(* row is candidates' minimum.                                             *)
Frontmost(row) ==
  /\ row \in candidates
  /\ \A c \in candidates \ {row} : Closer(dataset, query, row, c)

(* The outer loop pops the nearest candidate and starts on its neighbours. *)
Expand(row) ==
  /\ search = "expand"
  /\ Frontmost(row)
  /\ ~BeyondBeam(row)
  /\ candidates' = candidates \ {row}
  /\ current' = row
  /\ pending' = adjacency[row]
  /\ search' = "visit"
  /\ UNCHANGED <<graphVars, callVars, visited, best>>

(* The popped candidate lies beyond a full beam: break.                    *)
Break(row) ==
  /\ search = "expand"
  /\ Frontmost(row)
  /\ BeyondBeam(row)
  /\ candidates' = candidates \ {row}
  /\ search' = "done"
  /\ UNCHANGED <<graphVars, callVars, visited, best, current, pending>>

(* Nothing is left to expand.                                              *)
Exhaust ==
  /\ search = "expand"
  /\ candidates = {}
  /\ search' = "done"
  /\ UNCHANGED <<graphVars, callVars, visited, candidates, best, current, pending>>

(* Mutants of Admissible: a full beam admits nothing; the beam is taken    *)
(* for full one row too early.                                             *)
AdmitsOnlyRoom(row) == Cardinality(best) < ef

AdmitsOneFewer(row) ==
  Cardinality(best) + 1 < ef \/ \E b \in best : Closer(dataset, query, row, b)

(* The inner loop skips a row that is not allowed or was seen already, and *)
(* admits another one if the beam has room or holds a worse row.           *)
Admissible(row) ==
  Cardinality(best) < ef \/ \E b \in best : Closer(dataset, query, row, b)

(* Mutant of VisitNeighbor: a row seen before is looked at again.          *)
VisitAgain(row) ==
  /\ search = "visit" /\ row \in pending
  /\ pending' = pending \ {row}
  /\ visited' = IF row \in Allowed THEN visited \cup {row} ELSE visited
  /\ IF row \in Allowed /\ Admissible(row)
     THEN /\ candidates' = candidates \cup {row}
          /\ best' = PushTopK(dataset, query, ef, best, row)
     ELSE UNCHANGED <<candidates, best>>
  /\ UNCHANGED <<graphVars, callVars, current, search>>

VisitNeighbor(row) ==
  /\ search = "visit"
  /\ row \in pending
  /\ pending' = pending \ {row}
  /\ IF row \in Allowed \ visited
     THEN /\ visited' = visited \cup {row}
          /\ IF Admissible(row)
             THEN /\ candidates' = candidates \cup {row}
                  /\ best' = PushTopK(dataset, query, ef, best, row)
             ELSE UNCHANGED <<candidates, best>>
     ELSE UNCHANGED <<visited, candidates, best>>
  /\ UNCHANGED <<graphVars, callVars, current, search>>

(* The inner loop ends.                                                    *)
NextCandidate ==
  /\ search = "visit"
  /\ pending = {}
  /\ search' = "expand"
  /\ UNCHANGED <<graphVars, callVars, visited, candidates, best, current, pending>>

Step ==
  \/ \E row \in Rows : Expand(row) \/ Break(row) \/ VisitNeighbor(row)
  \/ Exhaust
  \/ NextCandidate

(* The function returns best to its caller, whose step this is part of;   *)
(* the caller may change the graph in the same step.                       *)
Return ==
  /\ search = "done"
  /\ query' = dataset[0]
  /\ entry_points' = {}
  /\ ef' = 0
  /\ allowed_rows' = 0
  /\ visited' = {} /\ candidates' = {} /\ best' = {} /\ pending' = {}
  /\ current' = 0
  /\ search' = "idle"
  /\ UNCHANGED dataset

-----------------------------------------------------------------------------
(* What the callers and the invariants say about a graph.                  *)

(* No link with an allowed row leaves the set.                             *)
ClosedUnderLinks(set) ==
  \A r \in set : adjacency[r] \cap Allowed \subseteq set

(* The allowed rows a walk over links can reach from a set of entries.     *)
Reachable(entries) ==
  {r \in Allowed : \A set \in SUBSET Allowed :
     (entries \cap Allowed \subseteq set /\ ClosedUnderLinks(set)) => r \in set}
=============================================================================
