-------------------------------- MODULE Hnsw --------------------------------
(***************************************************************************)
(* HnswIndex (vector-db/core/src/hnsw.rs): a stack of layers, each a graph *)
(* over the rows whose random level reaches it.  try_new inserts the rows  *)
(* one by one: a greedy descent through the layers above the row's level,  *)
(* then, on every layer from there down, a search, a reciprocal link and a *)
(* pruning as in the NSW index.  A query descends the same way to layer 0. *)
(***************************************************************************)
EXTENDS NeighborOrder

CONSTANTS
  N,                \* the number of rows of the dataset
  M,                \* HnswConfig.max_connections
  EfConstruction,   \* HnswConfig.ef_construction
  MaxLevel,         \* HnswConfig.max_level
  EfSearches,       \* the ef_search values queries are made with
  Ks                \* the k values queries are made with

(* validate_config.                                                        *)
ASSUME HnswAssumption ==
  /\ N \in Nat \ {0}
  /\ M \in Nat \ {0}
  /\ EfConstruction \in Nat /\ EfConstruction >= M
  /\ MaxLevel \in Nat \ {0}
  /\ EfSearches \subseteq Nat \ {0}
  /\ Ks \subseteq Nat

VARIABLES
  dataset,
  layers,          \* layer -> row -> the rows it is linked to there
  levels,          \* row -> its level
  entry_point,     \* where the descent starts
  top_level,       \* the layer it starts on
  row,             \* the row being inserted; N once the index is built
  target,          \* the vector being inserted or searched for
  width,           \* the ef its layer searches are made with
  current_level,   \* the layer the descent has come to
  nearest_entry,   \* the row it has come to
  affected,        \* rows of the last link still to be pruned
  phase,           \* what try_new or search_with_ef is doing, or "built"
  k,               \* how many rows the query asked for
  result,          \* the rows it got
  query, entry_points, ef, allowed_rows, visited, candidates, best, current,
  pending, search  \* the locals of search_layer

indexVars   == <<dataset, layers, levels, entry_point, top_level, row>>
descentVars == <<target, width, current_level, nearest_entry>>
searchVars  == <<query, entry_points, ef, allowed_rows, visited, candidates, best,
                 current, pending, search>>
queryVars   == <<k, result>>
vars == <<indexVars, descentVars, affected, phase, queryVars, searchVars>>

Rows   == 0 .. N - 1
Levels == 0 .. MaxLevel

Layer == layers[current_level]

(* search_layer on the layer the descent has come to.                      *)
Search == INSTANCE SearchLayer WITH adjacency <- Layer

MaxOf(a, b) == IF a < b THEN b ELSE a
MinOf(a, b) == IF a < b THEN a ELSE b

(* No insertion and no query is under way: their locals do not exist.      *)
NoDescent ==
  /\ target = dataset[0]
  /\ width = 0
  /\ current_level = 0
  /\ nearest_entry = 0

EndDescent ==
  /\ target' = dataset[0]
  /\ width' = 0
  /\ current_level' = 0
  /\ nearest_entry' = 0

(* A layer that does not exist yet has no links.                           *)
Init ==
  /\ dataset \in [Rows -> Vector]
  /\ layers = [l \in Levels |-> [r \in Rows |-> {}]]
  /\ levels = [r \in Rows |-> 0]
  /\ entry_point = 0
  /\ top_level = 0
  /\ row = 0
  /\ NoDescent
  /\ affected = {}
  /\ phase = "insert"
  /\ k = 0
  /\ result = {}
  /\ Search!NoSearch

-----------------------------------------------------------------------------
(* Row 0 has nothing to link to.  random_level may give any level.         *)
InsertFirst ==
  /\ phase = "insert"
  /\ row = 0
  /\ \E level \in Levels :
       /\ levels' = [levels EXCEPT ![0] = level]
       /\ top_level' = level
  /\ row' = 1
  /\ phase' = IF N = 1 THEN "built" ELSE "insert"
  /\ UNCHANGED <<dataset, layers, entry_point, descentVars, affected, queryVars,
                 searchVars>>

(* A later row starts from the entry point on the top layer, which is      *)
(* where level.min(top_level) lies too when the row's level is no lower.   *)
InsertNext ==
  /\ phase = "insert"
  /\ row > 0
  /\ \E level \in Levels : levels' = [levels EXCEPT ![row] = level]
  /\ target' = dataset[row]
  /\ width' = MaxOf(EfConstruction, M)
  /\ current_level' = top_level
  /\ nearest_entry' = entry_point
  /\ phase' = "descend"
  /\ UNCHANGED <<dataset, layers, entry_point, top_level, row, affected, queryVars,
                 searchVars>>

(* The layer the greedy descent ends on.                                   *)
Floor == IF row = N THEN 0 ELSE levels[row]

(* The neighbours greedy_search looks at.                                  *)
Onward == {n \in Layer[nearest_entry] : n < row}

(* Mutant of GreedyMove: the nearest neighbour need not be nearer.         *)
GreedyMoveAnyway(next) ==
  /\ phase = "descend" /\ current_level > Floor
  /\ next \in Onward /\ \A n \in Onward \ {next} : Closer(dataset, target, next, n)
  /\ nearest_entry' = next
  /\ UNCHANGED <<indexVars, target, width, current_level, affected, phase, queryVars,
                 searchVars>>

(* greedy_search moves on to the nearest neighbour as long as that is      *)
(* nearer than where it stands.                                            *)
GreedyMove(next) ==
  /\ phase = "descend"
  /\ current_level > Floor
  /\ next \in Onward
  /\ \A n \in Onward \ {next} : Closer(dataset, target, next, n)
  /\ Closer(dataset, target, next, nearest_entry)
  /\ nearest_entry' = next
  /\ UNCHANGED <<indexVars, target, width, current_level, affected, phase, queryVars,
                 searchVars>>

(* It returns, and the descent goes down a layer from there.               *)
GreedyStop ==
  /\ phase = "descend"
  /\ current_level > Floor
  /\ \A n \in Onward : ~Closer(dataset, target, n, nearest_entry)
  /\ current_level' = current_level - 1
  /\ UNCHANGED <<indexVars, target, width, nearest_entry, affected, phase, queryVars,
                 searchVars>>

(* From the row's level, or from layer 0 for a query, search_layer is      *)
(* called; row is the dataset's length once the index is built.            *)
CallLayer ==
  /\ phase = "descend"
  /\ current_level <= Floor
  /\ Search!Call(target, {nearest_entry}, width, row)
  /\ phase' = "search"
  /\ UNCHANGED <<indexVars, descentVars, affected, queryVars>>

SearchStep ==
  /\ phase = "search"
  /\ UNCHANGED <<indexVars, descentVars, affected, phase, queryVars>>
  /\ Search!Step

-----------------------------------------------------------------------------
(* Mutant of Link: the next layer is entered from the farthest row found.  *)
LinkEntersFarthest ==
  /\ phase = "search" /\ row < N
  /\ LET selected == Nearest(dataset, target, best, M)
     IN  /\ layers' = [layers EXCEPT ![current_level] =
               [r \in Rows |-> IF r = row THEN Layer[r] \cup selected
                               ELSE IF r \in selected THEN Layer[r] \cup {row}
                               ELSE Layer[r]]]
         /\ affected' = selected \cup {row}
  /\ nearest_entry' = CHOOSE r \in best : \A b \in best \ {r} : Closer(dataset, target, b, r)
  /\ Search!Return
  /\ phase' = "prune"
  /\ UNCHANGED <<levels, entry_point, top_level, row, target, width, current_level,
                 queryVars>>

(* The M nearest rows found are linked to the new row in both directions.  *)
(* The nearest one is where the next layer's search will start; the code   *)
(* notes it after the pruning, which does not read it.                     *)
Link ==
  /\ phase = "search"
  /\ row < N
  /\ LET selected == Nearest(dataset, target, best, M)
     IN  /\ layers' = [layers EXCEPT ![current_level] =
               [r \in Rows |-> IF r = row THEN Layer[r] \cup selected
                               ELSE IF r \in selected THEN Layer[r] \cup {row}
                               ELSE Layer[r]]]
         /\ affected' = selected \cup {row}
  /\ nearest_entry' = IF best = {} THEN nearest_entry
                      ELSE CHOOSE r \in Nearest(dataset, target, best, 1) : TRUE
  /\ Search!Return
  /\ phase' = "prune"
  /\ UNCHANGED <<levels, entry_point, top_level, row, target, width, current_level,
                 queryVars>>

(* Mutant of Kept: one link too few.                                       *)
KeptOneFewer(owner) == Nearest(dataset, dataset[owner], Layer[owner], M - 1)

(* prune_neighbors: a row keeps the M neighbours nearest to itself.        *)
Kept(owner) == Nearest(dataset, dataset[owner], Layer[owner], M)

(* Mutant of Prune: the dropped row keeps its link to the owner.           *)
PruneOneSided(owner) ==
  /\ phase = "prune" /\ owner \in affected
  /\ \A other \in affected : owner <= other
  /\ layers' = [layers EXCEPT ![current_level][owner] = Kept(owner)]
  /\ affected' = affected \ {owner}
  /\ UNCHANGED <<dataset, levels, entry_point, top_level, row, descentVars, phase,
                 queryVars, searchVars>>

(* The affected rows are pruned in ascending order, and a row dropped by   *)
(* its owner drops the owner in turn, on this layer.                       *)
Prune(owner) ==
  /\ phase = "prune"
  /\ owner \in affected
  /\ \A other \in affected : owner <= other
  /\ layers' = [layers EXCEPT ![current_level] =
        [r \in Rows |-> IF r = owner THEN Kept(owner)
                        ELSE IF r \in Layer[owner] \ Kept(owner)
                        THEN Layer[r] \ {owner}
                        ELSE Layer[r]]]
  /\ affected' = affected \ {owner}
  /\ UNCHANGED <<dataset, levels, entry_point, top_level, row, descentVars, phase,
                 queryVars, searchVars>>

(* The row goes on to the layer below.                                     *)
NextLayer ==
  /\ phase = "prune"
  /\ affected = {}
  /\ current_level > 0
  /\ current_level' = current_level - 1
  /\ phase' = "descend"
  /\ UNCHANGED <<indexVars, target, width, nearest_entry, affected, queryVars,
                 searchVars>>

(* Mutant of Inserted: every row becomes the entry point, as in NSW.       *)
InsertedAlwaysLeads ==
  /\ phase = "prune" /\ affected = {} /\ current_level = 0
  /\ entry_point' = row /\ top_level' = MaxOf(levels[row], top_level)
  /\ row' = row + 1
  /\ phase' = IF row + 1 = N THEN "built" ELSE "insert"
  /\ UNCHANGED <<dataset, layers, levels, affected, queryVars, searchVars>>
  /\ EndDescent

(* Layer 0 is done.  A row that reaches higher than all before becomes the *)
(* entry point, alone on the layers it adds.                               *)
Inserted ==
  /\ phase = "prune"
  /\ affected = {}
  /\ current_level = 0
  /\ IF levels[row] > top_level
     THEN entry_point' = row /\ top_level' = levels[row]
     ELSE UNCHANGED <<entry_point, top_level>>
  /\ row' = row + 1
  /\ phase' = IF row + 1 = N THEN "built" ELSE "insert"
  /\ UNCHANGED <<dataset, layers, levels, affected, queryVars, searchVars>>
  /\ EndDescent

-----------------------------------------------------------------------------
(* Mutant of Query: the beam may be narrower than k.                       *)
QueryNarrow ==
  /\ phase = "built"
  /\ \E q \in Vector, ef_search \in EfSearches, asked \in Ks :
       target' = q /\ width' = ef_search /\ k' = asked
  /\ current_level' = top_level /\ nearest_entry' = entry_point
  /\ result' = {}
  /\ phase' = "descend"
  /\ UNCHANGED <<indexVars, affected, searchVars>>

(* search_with_ef: the beam is at least k wide.                            *)
Query ==
  /\ phase = "built"
  /\ \E q \in Vector, ef_search \in EfSearches, asked \in Ks :
       /\ target' = q
       /\ width' = MaxOf(ef_search, asked)
       /\ k' = asked
  /\ current_level' = top_level
  /\ nearest_entry' = entry_point
  /\ result' = {}
  /\ phase' = "descend"
  /\ UNCHANGED <<indexVars, affected, searchVars>>

(* truncate(k).                                                            *)
Answer ==
  /\ phase = "search"
  /\ row = N
  /\ Search!Return
  /\ result' = Nearest(dataset, target, best, k)
  /\ phase' = "built"
  /\ UNCHANGED <<indexVars, affected, k>>
  /\ EndDescent

Descend == CallLayer \/ SearchStep \/ GreedyStop \/ \E r \in Rows : GreedyMove(r)

Build ==
  \/ InsertFirst \/ InsertNext \/ Link \/ NextLayer \/ Inserted
  \/ \E r \in Rows : Prune(r)

Next == Build \/ Descend \/ Query \/ Answer

(* try_new and search run to their end; queries come as they like.         *)
Spec == Init /\ [][Next]_vars /\ WF_vars(Build \/ Descend \/ Answer)

-----------------------------------------------------------------------------
(* The rows a layer has taken in: the inserted ones whose level reaches    *)
(* it, and the row being inserted once it is linked there.                 *)
Linking(l) ==
  /\ phase \in {"descend", "search", "prune"} /\ row < N
  /\ l <= MinOf(levels[row], top_level)
  /\ current_level < l \/ (current_level = l /\ phase = "prune")

Members(l) ==
  {r \in 0 .. row - 1 : levels[r] >= l} \cup (IF Linking(l) THEN {row} ELSE {})

(* The descent starts on a row of the highest level there is, and stands   *)
(* on a row that was inserted before and reaches the layer it has come to. *)
EntryLeads ==
  /\ row > 0 => entry_point < row /\ levels[entry_point] = top_level
  /\ \A r \in 0 .. row - 1 : levels[r] <= top_level
  /\ phase \in {"descend", "search"} =>
       nearest_entry < row /\ levels[nearest_entry] >= current_level

(* The types; a search runs exactly in the phase that calls it, only a     *)
(* linked row is pruned, and a descent stands where it may.                *)
TypeOK ==
  /\ layers \in [Levels -> [Rows -> SUBSET Rows]]
  /\ levels \in [Rows -> Levels]
  /\ entry_point \in Rows /\ nearest_entry \in Rows
  /\ top_level \in Levels /\ current_level \in Levels
  /\ row \in 0 .. N
  /\ target \in Vector
  /\ affected \subseteq Rows
  /\ phase \in {"insert", "descend", "search", "prune", "built"}
  /\ phase = "search" <=> search # "idle"
  /\ phase = "built" => row = N
  /\ affected # {} => phase = "prune"
  /\ k \in Ks \cup {0}
  /\ result \subseteq Rows
  /\ EntryLeads

(* The layers nest: a link of a layer joins two different rows that both   *)
(* reach it.  Only the entries passed from layer to layer see to that      *)
(* (hnsw.rs:66-87, 117-119): nothing tests a row's level.                  *)
LayersNest ==
  \A l \in Levels : \A r \in Rows : layers[l][r] # {} =>
    r \in Members(l) /\ layers[l][r] \subseteq Members(l) \ {r}

(* On every layer and after every step links stay on the layer's rows and  *)
(* are reciprocal, and no row has more than M of them, except one more on  *)
(* a row still to be pruned.                                               *)
LayersSound ==
  /\ LayersNest
  /\ \A l \in Levels : \A r \in Rows :
       /\ \A s \in layers[l][r] : r \in layers[l][s]
       /\ Cardinality(layers[l][r]) <=
            IF r \in affected /\ l = current_level THEN M + 1 ELSE M

(* Every layer is built as BoundedGraph says: it takes its rows in one by  *)
(* one, linked to at most M rows it has, and only a row over the limit     *)
(* loses a link.                                                           *)
Edges(l) == {{e[1], e[2]} : e \in {p \in Rows \X Rows : p[2] \in layers[l][p[1]]}}

Graph(l) == INSTANCE BoundedGraph WITH
  Row <- Rows, Cap <- M, rows <- Members(l), links <- Edges(l)

LayersBounded ==
  /\ \A l \in Levels : Graph(l)!Init
  /\ [][\A l \in Levels : UNCHANGED <<Members(l), Edges(l)>> \/ Graph(l)!Next]_vars

(* From the entry point to the last layer a descent only comes nearer to   *)
(* its target, whatever the layers in between have lost to pruning.        *)
ComesNearer ==
  \/ nearest_entry' = nearest_entry
  \/ Closer(dataset, target, nearest_entry', nearest_entry)

DescentOnlyImproves ==
  [][phase' # "built" /\ phase \in {"descend", "search"} => ComesNearer]_vars

(* A query gets the k nearest rows of the layer-0 component its descent    *)
(* ended in when its beam is as wide as the component, fewer than k rows   *)
(* only if the component has no more, and, asked for one at all, a row no  *)
(* farther than the entry point.                                           *)
AnswerIsHonest ==
  [][phase = "search" /\ phase' = "built" =>
       LET component == Search!Reachable({nearest_entry})
       IN  /\ result' \subseteq component
           /\ Cardinality(result') = MinOf(k, Cardinality(component))
           /\ Cardinality(component) <= ef
                => result' = Nearest(dataset, target, component, k)
           /\ k > 0 => \E r \in result' :
                ~Closer(dataset, target, entry_point, r)]_vars

(* The index gets built, and every query is answered.                      *)
CallsReturn == []<>(phase = "built")
=============================================================================
