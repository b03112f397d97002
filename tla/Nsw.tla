-------------------------------- MODULE Nsw --------------------------------
(***************************************************************************)
(* NswIndex (vector-db/core/src/nsw.rs): try_new inserts the rows one by   *)
(* one, each with a search, a reciprocal link and a pruning of every row   *)
(* the link touched; the finished graph then answers searches.             *)
(***************************************************************************)
EXTENDS SearchLayer

CONSTANTS
  M,                \* NswConfig.max_connections
  EfConstruction,   \* NswConfig.ef_construction
  EfSearches,       \* the ef_search values queries are made with
  Ks                \* the k values queries are made with

(* validate_config.                                                        *)
ASSUME ConfigAssumption ==
  /\ M \in Nat \ {0}
  /\ EfConstruction \in Nat /\ EfConstruction >= M
  /\ EfSearches \subseteq Nat \ {0}
  /\ Ks \subseteq Nat

VARIABLES
  row,            \* the row being inserted; N once the index is built
  entry_point,    \* where every search of the graph starts
  affected,       \* rows of the last link still to be pruned
  phase,          \* what try_new is doing with row, or "built"
  k,              \* how many rows the query asked for
  result          \* the rows it got

nswVars == <<row, entry_point, affected, phase, k, result>>
allVars == <<vars, nswVars>>

Init ==
  /\ dataset \in [Rows -> Vector]
  /\ adjacency = [r \in Rows |-> {}]
  /\ NoSearch
  /\ row = 0
  /\ entry_point = 0
  /\ affected = {}
  /\ phase = "insert"
  /\ k = 0
  /\ result = {}

-----------------------------------------------------------------------------
(* Row 0 has nothing to link to.                                           *)
InsertFirst ==
  /\ phase = "insert"
  /\ row = 0
  /\ row' = 1
  /\ phase' = IF N = 1 THEN "built" ELSE "insert"
  /\ UNCHANGED <<vars, entry_point, affected, k, result>>

(* A later row searches the rows before it from the last row inserted.     *)
InsertNext ==
  /\ phase = "insert"
  /\ row > 0
  /\ Call(dataset[row], {entry_point}, MaxOf(EfConstruction, M), row)
  /\ phase' = "search"
  /\ UNCHANGED <<adjacency, row, entry_point, affected, k, result>>

(* The search is try_new's or, once the index is built, a query's.         *)
Search ==
  /\ phase \in {"search", "query"}
  /\ Step
  /\ UNCHANGED nswVars

(* Mutant of Link: only the new row is left to prune.                      *)
LinkPrunesNewRowOnly ==
  /\ phase = "search"
  /\ LET selected == Nearest(dataset, query, best, M)
     IN  adjacency' = [r \in Rows |-> IF r = row THEN selected
                         ELSE IF r \in selected THEN adjacency[r] \cup {row}
                         ELSE adjacency[r]]
  /\ affected' = {row}
  /\ Return
  /\ phase' = "prune"
  /\ UNCHANGED <<row, entry_point, k, result>>

(* The M nearest rows found are linked to the new row in both directions.  *)
Link ==
  /\ phase = "search"
  /\ LET selected == Nearest(dataset, query, best, M)
     IN  /\ adjacency' = [r \in Rows |->
                            IF r = row THEN adjacency[r] \cup selected
                            ELSE IF r \in selected THEN adjacency[r] \cup {row}
                            ELSE adjacency[r]]
         /\ affected' = selected \cup {row}
  /\ Return
  /\ phase' = "prune"
  /\ UNCHANGED <<row, entry_point, k, result>>

(* Mutants of Kept: one link too few; the links nearest to the row being   *)
(* inserted.                                                               *)
KeptOneFewer(owner) == Nearest(dataset, dataset[owner], adjacency[owner], M - 1)

KeptNearRow(owner) == Nearest(dataset, dataset[row], adjacency[owner], M)

(* prune_neighbors: a row keeps the M neighbours nearest to itself.        *)
Kept(owner) == Nearest(dataset, dataset[owner], adjacency[owner], M)

(* Mutant of Prune: the dropped row keeps its link to the owner.           *)
PruneOneSided(owner) ==
  /\ phase = "prune"
  /\ owner \in affected
  /\ \A other \in affected : owner <= other
  /\ adjacency' = [adjacency EXCEPT ![owner] = Kept(owner)]
  /\ affected' = affected \ {owner}
  /\ UNCHANGED <<dataset, searchVars, row, entry_point, phase, k, result>>

(* The affected rows are pruned in ascending order, and a row dropped by   *)
(* its owner drops the owner in turn.                                      *)
Prune(owner) ==
  /\ phase = "prune"
  /\ owner \in affected
  /\ \A other \in affected : owner <= other
  /\ adjacency' = [r \in Rows |->
                     IF r = owner THEN Kept(owner)
                     ELSE IF r \in adjacency[owner] \ Kept(owner)
                     THEN adjacency[r] \ {owner}
                     ELSE adjacency[r]]
  /\ affected' = affected \ {owner}
  /\ UNCHANGED <<dataset, searchVars, row, entry_point, phase, k, result>>

(* The inserted row becomes the entry point, whatever became of its links. *)
Inserted ==
  /\ phase = "prune"
  /\ affected = {}
  /\ entry_point' = row
  /\ row' = row + 1
  /\ phase' = IF row + 1 = N THEN "built" ELSE "insert"
  /\ UNCHANGED <<vars, affected, k, result>>

-----------------------------------------------------------------------------
(* Mutant of Query: the beam may be narrower than k.                       *)
QueryNarrow ==
  /\ phase = "built"
  /\ \E q \in Vector, ef_search \in EfSearches, asked \in Ks :
       /\ Call(q, {entry_point}, ef_search, N)
       /\ k' = asked
  /\ phase' = "query"
  /\ result' = {}
  /\ UNCHANGED <<adjacency, row, entry_point, affected>>

(* search_with_ef: the beam is at least k wide.                            *)
Query ==
  /\ phase = "built"
  /\ \E q \in Vector, ef_search \in EfSearches, asked \in Ks :
       /\ Call(q, {entry_point}, MaxOf(ef_search, asked), N)
       /\ k' = asked
  /\ phase' = "query"
  /\ result' = {}
  /\ UNCHANGED <<adjacency, row, entry_point, affected>>

(* truncate(k).                                                            *)
Answer ==
  /\ phase = "query"
  /\ Return
  /\ result' = Nearest(dataset, query, best, k)
  /\ phase' = "built"
  /\ UNCHANGED <<adjacency, row, entry_point, affected, k>>

Build == InsertFirst \/ InsertNext \/ Link \/ (\E r \in Rows : Prune(r)) \/ Inserted

Next == Build \/ Search \/ Query \/ Answer

(* try_new and search run to their end; queries come as they like.         *)
Spec == Init /\ [][Next]_allVars /\ WF_allVars(Build \/ Search \/ Answer)

-----------------------------------------------------------------------------
(* The build's own state: the rows before row have been inserted, row      *)
(* itself is linked while its neighbours are pruned, no row is its own     *)
(* neighbour, and a search runs exactly in the two phases that call it.    *)
Linked == IF phase = "prune" THEN 0 .. row ELSE 0 .. row - 1

TypeOK ==
  /\ adjacency \in [Rows -> SUBSET Rows]
  /\ \A r \in Rows : adjacency[r] \subseteq Linked \ {r}
  /\ row \in 0 .. N
  /\ entry_point \in Rows
  /\ row > 0 => entry_point = row - 1
  /\ affected \subseteq Rows
  /\ phase \in {"insert", "search", "prune", "built", "query"}
  /\ phase \in {"search", "query"} <=> search # "idle"
  /\ phase \in {"built", "query"} <=> row = N
  /\ affected # {} => phase = "prune"
  /\ k \in Ks \cup {0}
  /\ result \subseteq Rows

(* Links are reciprocal after every step, in the middle of an insertion    *)
(* too: what one end drops the other end drops (nsw.rs:57-60, 74-78).      *)
Reciprocal == \A a, b \in Rows : b \in adjacency[a] <=> a \in adjacency[b]

(* No row has more than M links, except that a row still to be pruned may  *)
(* have one more: a link added to a full row is paid for by the pruning.   *)
DegreeBound ==
  \A r \in Rows :
    Cardinality(adjacency[r]) <= IF r \in affected THEN M + 1 ELSE M

(* A link is lost only because one of its ends is left with M neighbours   *)
(* that are all closer to it than the other end (graph.rs:96-107).         *)
CrowdedOut(owner, other) ==
  /\ Cardinality(adjacency'[owner]) = M
  /\ \A n \in adjacency'[owner] : Closer(dataset, dataset[owner], n, other)

LossesJustified ==
  \A a \in Rows : \A b \in adjacency[a] \ adjacency'[a] :
    CrowdedOut(a, b) \/ CrowdedOut(b, a)

LossIsJustified == [][LossesJustified]_allVars

(* A query gets the k nearest rows of the entry point's component when its *)
(* beam is as wide as the component, and whatever the beam it gets fewer   *)
(* than k rows only if the component has no more.  It never sees a row     *)
(* outside the component, which pruning may have cut off (nsw.rs:80, 113). *)
AnswerIsHonest ==
  [][phase = "query" /\ phase' = "built" =>
       LET component == Reachable({entry_point})
       IN  /\ result' \subseteq component
           /\ Cardinality(result') = MinOf(k, Cardinality(component))
           /\ Cardinality(component) <= ef
                => result' = Nearest(dataset, query, component, k)]_allVars

(* The index gets built, and every query is answered.                      *)
CallsReturn == []<>(phase = "built")

(* The build implements BoundedGraph: an edge is a pair of rows either of  *)
(* which lists the other.                                                  *)
Edges == {{e[1], e[2]} : e \in {p \in Rows \X Rows : p[2] \in adjacency[p[1]]}}

Graph == INSTANCE BoundedGraph WITH
  Row <- Rows, Cap <- M, rows <- Linked, links <- Edges

BuildsBoundedGraph == Graph!Spec
=============================================================================
