----------------------------- MODULE HnswProofs -----------------------------
(***************************************************************************)
(* The layers HnswIndex builds and the answers its descent gives, for      *)
(* every number of rows, data set, metric, levels and configuration        *)
(* validate_config accepts.                                                *)
(***************************************************************************)
EXTENDS Hnsw, NeighborOrderProofs

(* What GraphSearchProofs shows of search_layer holds on every layer; the  *)
(* caller is Hnsw, so that GraphSearch has no calls of its own to make.    *)
Beam == INSTANCE GraphSearchProofs
          WITH adjacency <- Layer, Queries <- {}, Widths <- {}, Entries <- {}

-----------------------------------------------------------------------------
(* The search of Hnsw and the one the lemmas of Beam speak of are the same *)
(* instance of the same module under two names.                            *)
LEMMA SameCount ==
  ASSUME NEW S
  PROVE  /\ Search!Cardinality(S) = Cardinality(S)
         /\ Beam!Cardinality(S) = Cardinality(S)
  BY Zenon DEF Search!Cardinality, Beam!Cardinality, Cardinality

LEMMA SameCloser ==
  ASSUME NEW data, NEW q, NEW a, NEW b
  PROVE  /\ Search!Closer(data, q, a, b) <=> Closer(data, q, a, b)
         /\ Beam!Closer(data, q, a, b) <=> Closer(data, q, a, b)
  BY Zenon DEF Closer, Search!Closer, Beam!Closer

LEMMA SameNearest ==
  ASSUME NEW data, NEW q, NEW S, NEW n
  PROVE  /\ Search!Nearest(data, q, S, n) = Nearest(data, q, S, n)
         /\ Beam!Nearest(data, q, S, n) = Nearest(data, q, S, n)
  <1>1. \A r : /\ {s \in S : Search!Closer(data, q, s, r)} = {s \in S : Closer(data, q, s, r)}
               /\ {s \in S : Beam!Closer(data, q, s, r)} = {s \in S : Closer(data, q, s, r)}
    BY SameCloser
  <1> QED BY <1>1, SameCount DEF Nearest, Search!Nearest, Beam!Nearest

LEMMA SamePush ==
  ASSUME NEW data, NEW q, NEW n, NEW heap, NEW r
  PROVE  /\ Search!PushTopK(data, q, n, heap, r) = PushTopK(data, q, n, heap, r)
         /\ Beam!PushTopK(data, q, n, heap, r) = PushTopK(data, q, n, heap, r)
  BY SameCount, SameCloser DEF PushTopK, Search!PushTopK, Beam!PushTopK

LEMMA SameCall ==
  ASSUME NEW q, NEW entries, NEW beam, NEW allowed
  PROVE  Beam!Call(q, entries, beam, allowed) <=> Search!Call(q, entries, beam, allowed)
  BY SameNearest DEF Beam!Call, Search!Call, Beam!MinOf, Search!MinOf, Beam!MaxOf, Search!MaxOf

LEMMA SameSearch ==
  /\ Search!Step => Beam!Step
  /\ Search!Return => Beam!Return
  /\ Search!NoSearch => Beam!NoSearch
  /\ \A e : Beam!Reachable(e) = Search!Reachable(e)
  <1> USE DEF Search!graphVars, Search!callVars, Beam!graphVars, Beam!callVars
  <1>1. \A r : Beam!Frontmost(r) <=> Search!Frontmost(r)
    BY Zenon, SameCloser DEF Beam!Frontmost, Search!Frontmost
  <1>2. \A r : Beam!BeyondBeam(r) <=> Search!BeyondBeam(r)
    BY Zenon, SameCloser, SameCount DEF Beam!BeyondBeam, Search!BeyondBeam
  <1>3. \A r : Beam!Admissible(r) <=> Search!Admissible(r)
    BY Zenon, SameCloser, SameCount DEF Beam!Admissible, Search!Admissible
  <1>4. \A r : Search!Expand(r) => Beam!Expand(r)
    BY Zenon, <1>1, <1>2 DEF Search!Expand, Beam!Expand
  <1>5. \A r : Search!Break(r) => Beam!Break(r)
    BY Zenon, <1>1, <1>2 DEF Search!Break, Beam!Break
  <1>6. ASSUME NEW r, Search!VisitNeighbor(r) PROVE Beam!VisitNeighbor(r)
    BY <1>3, <1>6, SamePush
       DEF Search!VisitNeighbor, Beam!VisitNeighbor, Search!Allowed, Beam!Allowed
  <1>7. (Search!Exhaust => Beam!Exhaust) /\ (Search!NextCandidate => Beam!NextCandidate)
    BY Zenon DEF Search!Exhaust, Beam!Exhaust, Search!NextCandidate, Beam!NextCandidate
  <1>8. Search!Step => Beam!Step
    BY Zenon, <1>4, <1>5, <1>6, <1>7 DEF Search!Step, Beam!Step, Search!Rows, Beam!Rows
  <1>9. (Search!Return => Beam!Return) /\ (Search!NoSearch => Beam!NoSearch)
    BY Zenon DEF Search!Return, Beam!Return, Search!NoSearch, Beam!NoSearch
  <1>10. ASSUME NEW e PROVE Beam!Reachable(e) = Search!Reachable(e)
    BY Zenon DEF Beam!Reachable, Search!Reachable, Beam!ClosedUnderLinks,
       Search!ClosedUnderLinks, Beam!Allowed, Search!Allowed
  <1> QED BY <1>8, <1>9, <1>10

(* The rows and the layers are finite sets of naturals.                    *)
LEMMA FiniteRows ==
  /\ N \in Nat \ {0} /\ M \in Nat \ {0} /\ MaxLevel \in Nat
  /\ Rows \in SUBSET Nat /\ 0 \in Rows /\ 0 \in Levels /\ Levels \in SUBSET Nat
  /\ \A r : r \in Rows <=> r \in Nat /\ r < N
  /\ \A S \in SUBSET Rows : IsFiniteSet(S) /\ Cardinality(S) \in Nat
  /\ Cardinality(Rows) = N
  /\ Beam!Rows = Rows
  <1>1. N \in Nat \ {0} /\ M \in Nat \ {0} /\ MaxLevel \in Nat
    BY HnswAssumption
  <1>2. IsFiniteSet(Rows) /\ Cardinality(Rows) = N
    BY <1>1, FS_Interval DEF Rows
  <1>3. \A S \in SUBSET Rows : IsFiniteSet(S) /\ Cardinality(S) \in Nat
    BY <1>2, FS_Subset, FS_CardinalityType
  <1> QED BY <1>1, <1>2, <1>3 DEF Rows, Levels, Beam!Rows

-----------------------------------------------------------------------------
(* One layer as a value: what linking and pruning do to any graph.         *)
Graphs == [Rows -> SUBSET Rows]

Reciprocal(adj) == \A r \in Rows : \A s \in adj[r] : r \in adj[s]

Linked(adj, new, selected) ==
  [r \in Rows |-> IF r = new THEN adj[r] \cup selected
                  ELSE IF r \in selected THEN adj[r] \cup {new}
                  ELSE adj[r]]

Pruned(adj, owner, kept) ==
  [r \in Rows |-> IF r = owner THEN kept
                  ELSE IF r \in adj[owner] \ kept THEN adj[r] \ {owner}
                  ELSE adj[r]]

(* Linking a row that had no links to M others keeps the links reciprocal  *)
(* and puts nobody more than one over the limit.                           *)
LEMMA LinkedGraph ==
  ASSUME NEW adj \in Graphs, Reciprocal(adj),
         NEW new \in Rows, adj[new] = {},
         NEW selected \in SUBSET (Rows \ {new}), Cardinality(selected) <= M,
         \A r \in Rows : Cardinality(adj[r]) <= M
  PROVE  /\ Linked(adj, new, selected) \in Graphs
         /\ Reciprocal(Linked(adj, new, selected))
         /\ \A r \in Rows : Cardinality(Linked(adj, new, selected)[r]) <=
              IF r \in selected \cup {new} THEN M + 1 ELSE M
  <1> DEFINE L == Linked(adj, new, selected)
  <1>1. /\ L \in Graphs
        /\ L[new] = selected
        /\ \A r \in selected : L[r] = adj[r] \cup {new}
        /\ \A r \in Rows : r # new /\ r \notin selected => L[r] = adj[r]
    BY DEF Linked, Graphs
  <1>2. \A r, s \in Rows : s \in adj[r] => r # new /\ s # new
    BY DEF Reciprocal
  <1> HIDE DEF L
  <1>3. Reciprocal(L)
    <2> SUFFICES ASSUME NEW r \in Rows, NEW s \in L[r] PROVE r \in L[s]
      BY DEF Reciprocal
    <2>0. s \in Rows
      BY <1>1 DEF Graphs
    <2>1. CASE r = new
      BY <1>1, <2>1
    <2>2. CASE r # new /\ s = new
      <3>1. s \notin adj[r]
        BY <1>2, <2>0, <2>2
      <3> QED BY <1>1, <2>2, <3>1
    <2>3. CASE r # new /\ s # new
      <3>1. s \in adj[r]
        BY <1>1, <2>3
      <3>2. r \in adj[s]
        BY <3>1 DEF Reciprocal
      <3> QED BY <1>1, <2>0, <2>3, <3>2
    <2> QED BY <2>1, <2>2, <2>3
  <1>4. ASSUME NEW r \in Rows
        PROVE  Cardinality(L[r]) <= IF r \in selected \cup {new} THEN M + 1 ELSE M
    <2>1. /\ adj[r] \in SUBSET Rows /\ IsFiniteSet(adj[r]) /\ Cardinality(adj[r]) \in Nat
          /\ Cardinality(adj[r]) <= M /\ Cardinality(selected) \in Nat /\ M \in Nat
      BY FiniteRows DEF Graphs
    <2>2. CASE r = new
      BY <1>1, <2>1, <2>2
    <2>3. CASE r \in selected
      <3>1. Cardinality(adj[r] \cup {new}) =
              IF new \in adj[r] THEN Cardinality(adj[r]) ELSE Cardinality(adj[r]) + 1
        BY <2>1, FS_AddElement
      <3>2. L[r] = adj[r] \cup {new}
        BY <1>1, <2>3
      <3>3. Cardinality(L[r]) <= M + 1
        BY <2>1, <3>1, <3>2
      <3> QED BY <2>3, <3>3
    <2>4. CASE r # new /\ r \notin selected
      BY <1>1, <2>1, <2>4
    <2> QED BY <2>2, <2>3, <2>4
  <1> QED BY <1>1, <1>3, <1>4 DEF L

(* Pruning only takes links away, both ends of them, and brings the owner  *)
(* back to the limit.                                                      *)
LEMMA PrunedGraph ==
  ASSUME NEW adj \in Graphs, Reciprocal(adj),
         NEW owner \in Rows, owner \notin adj[owner],
         NEW kept \in SUBSET adj[owner], Cardinality(kept) <= M
  PROVE  /\ Pruned(adj, owner, kept) \in Graphs
         /\ Reciprocal(Pruned(adj, owner, kept))
         /\ \A r \in Rows : Pruned(adj, owner, kept)[r] \subseteq adj[r]
         /\ \A r \in Rows : Cardinality(Pruned(adj, owner, kept)[r]) <= Cardinality(adj[r])
         /\ Cardinality(Pruned(adj, owner, kept)[owner]) <= M
  <1> DEFINE P == Pruned(adj, owner, kept)
  <1>1. /\ P \in Graphs
        /\ P[owner] = kept
        /\ \A r \in Rows : r # owner =>
             P[r] = IF r \in adj[owner] \ kept THEN adj[r] \ {owner} ELSE adj[r]
    BY DEF Pruned, Graphs
  <1> HIDE DEF P
  <1>2. \A r \in Rows : P[r] \subseteq adj[r]
    BY <1>1
  <1>3. Reciprocal(P)
    <2> SUFFICES ASSUME NEW r \in Rows, NEW s \in P[r] PROVE r \in P[s]
      BY DEF Reciprocal
    <2>1. s \in Rows /\ s \in adj[r] /\ r \in adj[s]
      BY <1>2 DEF Graphs, Reciprocal
    <2>2. CASE r = owner
      BY <1>1, <2>1, <2>2
    <2>3. CASE s = owner
      BY <1>1, <2>1, <2>3
    <2>4. CASE r # owner /\ s # owner
      BY <1>1, <2>1, <2>4
    <2> QED BY <2>2, <2>3, <2>4
  <1>4. ASSUME NEW r \in Rows PROVE Cardinality(P[r]) <= Cardinality(adj[r])
    <2>1. P[r] \in SUBSET adj[r] /\ IsFiniteSet(adj[r])
      BY <1>2, FiniteRows DEF Graphs
    <2> QED BY <2>1, FS_Subset
  <1> QED BY <1>1, <1>2, <1>3, <1>4 DEF P

-----------------------------------------------------------------------------
(* Where try_new or a query stands.  A descent has come to a layer there   *)
(* is and to a row no farther than the entry point; a search is made for   *)
(* its target on a layer the row being inserted reaches, from the row the  *)
(* descent has come to; and a query's beam is at least k wide.             *)
Descent ==
  /\ phase \in {"descend", "search", "prune"} =>
       /\ row > 0 /\ current_level <= top_level
       /\ nearest_entry < row /\ levels[nearest_entry] >= current_level
       /\ \/ nearest_entry = entry_point
          \/ Closer(dataset, target, nearest_entry, entry_point)
  /\ phase \in {"insert", "prune"} => row < N
  /\ row = 0 => entry_point = 0
  /\ phase = "search" =>
       /\ current_level <= Floor
       /\ query = target /\ entry_points = {nearest_entry}
       /\ allowed_rows = row /\ ef = MinOf(MaxOf(width, 1), row)
  /\ phase = "prune" => current_level <= levels[row]
  /\ phase \in {"descend", "search"} /\ row = N => k <= width
  /\ width \in Nat

(* The inductive invariant.  LayersSound alone is not inductive: that a    *)
(* row links only to rows of its layer follows from where the descent has  *)
(* come to and from what a search can reach from there.                    *)
IInv == Beam!LocalsOK /\ Beam!Walk /\ TypeOK /\ LayersSound /\ Descent

(* The rows of a layer, now and after a step.                              *)
MembersAre ==
  \A l \in Levels :
    /\ Members(l) \subseteq Rows
    /\ \A r \in Rows : r \in Members(l) <=>
         (r < row /\ levels[r] >= l) \/ (r = row /\ Linking(l))

LEMMA MembersRows == TypeOK /\ Descent => MembersAre
  <1> SUFFICES ASSUME TypeOK, Descent, NEW l \in Levels
               PROVE  /\ Members(l) \subseteq Rows
                      /\ \A r \in Rows : r \in Members(l) <=>
                           (r < row /\ levels[r] >= l) \/ (r = row /\ Linking(l))
    BY DEF MembersAre
  <1>1. row \in Nat /\ row <= N /\ row - 1 \in Int /\ (Linking(l) => row < N)
    BY FiniteRows DEF TypeOK, Linking
  <1>2. \A r \in Nat : r \in 0 .. row - 1 <=> r < row
    BY <1>1
  <1>3. Linking(l) => row \in Rows
    BY <1>1, FiniteRows
  <1> QED BY <1>1, <1>2, <1>3, FiniteRows DEF Members

LEMMA MembersRowsNext == TypeOK' /\ Descent' => MembersAre'
  BY MembersRows, PTL

(* The facts every step needs.                                             *)
LEMMA Facts ==
  ASSUME IInv
  PROVE  /\ layers \in [Levels -> Graphs] /\ Layer \in Graphs
         /\ dataset \in [Rows -> Vector] /\ query \in Vector /\ target \in Vector
         /\ levels \in [Rows -> Levels] /\ current_level \in Levels /\ top_level \in Levels
         /\ row \in Nat /\ row <= N /\ nearest_entry \in Rows /\ entry_point \in Rows
         /\ \A r \in Rows : levels[r] \in Nat
         /\ Beam!Allowed = 0 .. allowed_rows - 1
         /\ visited \subseteq Rows /\ best \subseteq visited
         /\ ef \in Nat /\ width \in Nat /\ k \in Nat
         /\ \A l \in Levels : Reciprocal(layers[l])
         /\ \A l \in Levels : \A r \in Rows : r \notin layers[l][r]
  <1> USE DEF IInv, TypeOK, Beam!LocalsOK
  <1>1. /\ layers \in [Levels -> Graphs] /\ Layer \in Graphs
        /\ dataset \in [Rows -> Vector] /\ query \in Vector /\ target \in Vector
        /\ levels \in [Rows -> Levels] /\ current_level \in Levels /\ top_level \in Levels
        /\ nearest_entry \in Rows /\ entry_point \in Rows
    BY FiniteRows DEF Graphs, Layer
  <1>2. row \in Nat /\ row <= N
    BY FiniteRows
  <1>3. \A r \in Rows : levels[r] \in Nat
    BY FiniteRows
  <1>4. visited \subseteq Rows /\ best \subseteq visited
    <2>1. allowed_rows \in 0 .. N /\ visited \subseteq Beam!Allowed /\ best \subseteq visited
      BY FiniteRows
    <2>2. Beam!Allowed \subseteq Rows
      BY <2>1, FiniteRows DEF Beam!Allowed, Rows
    <2> QED BY <2>1, <2>2
  <1>5. ef \in Nat /\ width \in Nat /\ k \in Nat
    BY FiniteRows, HnswAssumption DEF Descent
  <1>6. \A l \in Levels : Reciprocal(layers[l])
    BY DEF LayersSound, Reciprocal
  <1>7. \A l \in Levels : \A r \in Rows : r \notin layers[l][r]
    BY DEF LayersSound, LayersNest
  <1> QED BY <1>1, <1>2, <1>3, <1>4, <1>5, <1>6, <1>7 DEF Beam!Allowed

(* No step but Link and Prune touches a layer.                             *)
LEMMA QuietLayers ==
  ASSUME LayersSound, UNCHANGED layers,
         \A l \in Levels : Members(l) \subseteq Members(l)',
         (affected = {} /\ affected' = {}) \/ UNCHANGED <<affected, current_level>>
  PROVE  LayersSound'
  <1>1. LayersNest'
    BY DEF LayersSound, LayersNest
  <1>2. ASSUME NEW l \in Levels, NEW r \in Rows
        PROVE  /\ \A s \in layers'[l][r] : r \in layers'[l][s]
               /\ Cardinality(layers'[l][r]) <=
                    IF r \in affected' /\ l = current_level' THEN M + 1 ELSE M
    <2>1. /\ \A s \in layers[l][r] : r \in layers[l][s]
          /\ Cardinality(layers[l][r]) <=
               IF r \in affected /\ l = current_level THEN M + 1 ELSE M
      BY DEF LayersSound
    <2> QED BY <2>1
  <1> QED BY <1>1, <1>2 DEF LayersSound

(* The locals of search_layer do not depend on which layer is looked at,   *)
(* and no call is active outside the search phase.                         *)
LEMMA QuietSearch ==
  ASSUME IInv, TypeOK', UNCHANGED <<dataset, searchVars>>, phase' # "search"
  PROVE  Beam!LocalsOK' /\ Beam!Walk'
  <1>1. Layer' \in [Rows -> SUBSET Rows]
    BY DEF TypeOK, Layer
  <1>2. Beam!LocalsOK'
    BY <1>1, FiniteRows DEF IInv, Beam!LocalsOK, Beam!Allowed, searchVars
  <1>3. search' = "idle"
    BY DEF TypeOK
  <1> QED BY <1>2, <1>3 DEF Beam!Walk


-----------------------------------------------------------------------------
LEMMA InitInv == Init => IInv
  <1> SUFFICES ASSUME Init PROVE IInv
    OBVIOUS
  <1> USE DEF Init, NoDescent
  <1>1. layers \in [Levels -> Graphs] /\ Layer \in Graphs /\ dataset \in [Rows -> Vector]
    BY FiniteRows DEF Graphs, Layer
  <1>2. Beam!LocalsOK
    BY <1>1, FiniteRows, SameSearch, HnswAssumption, DistanceAssumption, Beam!NoSearchLocals
       DEF Graphs
  <1>3. search = "idle"
    BY DEF Search!NoSearch
  <1>4. TypeOK
    BY <1>1, <1>3, FiniteRows, HnswAssumption DEF TypeOK, EntryLeads, Graphs
  <1>5. LayersSound
    BY FiniteRows, FS_EmptySet DEF LayersSound, LayersNest
  <1> QED BY <1>2, <1>3, <1>4, <1>5, FiniteRows DEF IInv, Beam!Walk, Descent

LEMMA InsertFirstInv == IInv /\ InsertFirst => IInv'
  <1> SUFFICES ASSUME IInv, InsertFirst PROVE IInv'
    OBVIOUS
  <1>1. PICK level \in Levels : levels' = [levels EXCEPT ![0] = level] /\ top_level' = level
    BY DEF InsertFirst
  <1>2. /\ phase = "insert" /\ row = 0 /\ row' = 1
        /\ phase' = IF N = 1 THEN "built" ELSE "insert"
        /\ UNCHANGED <<dataset, layers, entry_point, descentVars, affected, queryVars,
                       searchVars>>
    BY DEF InsertFirst
  <1>3. search = "idle" /\ affected = {} /\ k \in Nat
    BY <1>2, Facts DEF IInv, TypeOK
  <1>4. TypeOK'
    <2>1. entry_point' = 0 /\ levels'[0] = level /\ levels' \in [Rows -> Levels]
      <3>1. entry_point = 0
        BY <1>2 DEF IInv, Descent
      <3> QED BY <1>1, <1>2, <3>1, FiniteRows DEF IInv, TypeOK
    <2>2. EntryLeads'
      BY <1>1, <1>2, <2>1, FiniteRows DEF EntryLeads
    <2> QED BY <1>1, <1>2, <1>3, <2>1, <2>2, FiniteRows
            DEF IInv, TypeOK, descentVars, queryVars, searchVars
  <1>5. Descent'
    BY <1>2, <1>3, FiniteRows DEF IInv, Descent, descentVars
  <1>6. LayersSound'
    <2>1. \A l \in Levels : Members(l) \subseteq Members(l)'
      BY <1>2 DEF Members, Linking
    <2> QED BY <1>2, <1>3, <2>1, QuietLayers DEF IInv
  <1> QED BY <1>2, <1>4, <1>5, <1>6, QuietSearch DEF IInv

LEMMA InsertNextInv == IInv /\ InsertNext => IInv'
  <1> SUFFICES ASSUME IInv, InsertNext PROVE IInv'
    OBVIOUS
  <1>1. PICK level \in Levels : levels' = [levels EXCEPT ![row] = level]
    BY DEF InsertNext
  <1>2. /\ phase = "insert" /\ row > 0 /\ phase' = "descend"
        /\ target' = dataset[row] /\ width' = MaxOf(EfConstruction, M)
        /\ current_level' = top_level /\ nearest_entry' = entry_point
        /\ UNCHANGED <<dataset, layers, entry_point, top_level, row, affected, queryVars,
                       searchVars>>
    BY DEF InsertNext
  <1>3. search = "idle" /\ affected = {} /\ k \in Nat
    BY <1>2, Facts DEF IInv, TypeOK
  <1>4. row \in Rows /\ row < N /\ row \in Nat
    BY <1>2, FiniteRows DEF IInv, TypeOK, Descent
  <1>5. /\ \A r \in 0 .. row - 1 : r \in Rows /\ r < row /\ r # row
        /\ \A r \in 0 .. row - 1 : levels'[r] = levels[r]
    <2>1. \A r \in 0 .. row - 1 : r \in Rows /\ r < row /\ r # row
      BY <1>4, FiniteRows
    <2> QED BY <1>1, <2>1 DEF IInv, TypeOK
  <1>6. width' \in Nat
    BY <1>2, FiniteRows, HnswAssumption DEF MaxOf
  <1>7. entry_point < row /\ levels[entry_point] = top_level /\ levels'[entry_point] = top_level
    <2>1. entry_point < row /\ levels[entry_point] = top_level /\ entry_point \in Rows
      BY <1>2 DEF IInv, TypeOK, EntryLeads
    <2> QED BY <1>1, <1>4, <2>1, FiniteRows DEF IInv, TypeOK
  <1>8. TypeOK'
    <2>1. target' \in Vector /\ levels' \in [Rows -> Levels]
      BY <1>1, <1>2, <1>4, Facts
    <2>2. top_level \in Nat /\ entry_point \in Nat
      BY Facts, FiniteRows
    <2>3. EntryLeads'
      BY <1>2, <1>5, <1>7, <2>2 DEF IInv, TypeOK, EntryLeads
    <2> QED BY <1>2, <1>3, <2>1, <2>3 DEF IInv, TypeOK, queryVars, searchVars
  <1>9. Descent'
    <2>1. current_level' <= top_level' /\ levels'[nearest_entry'] >= current_level'
      BY <1>2, <1>7, Facts, FiniteRows
    <2> QED BY <1>2, <1>4, <1>6, <1>7, <2>1 DEF Descent
  <1>10. LayersSound'
    <2>1. \A l \in Levels : Members(l) \subseteq Members(l)'
      BY <1>2, <1>5 DEF Members, Linking
    <2> QED BY <1>2, <1>3, <2>1, QuietLayers DEF IInv
  <1> QED BY <1>2, <1>8, <1>9, <1>10, QuietSearch DEF IInv

(* The neighbour the greedy descent moves to reaches the layer too.        *)
LEMMA GreedyMoveInv == ASSUME NEW r \in Rows PROVE IInv /\ GreedyMove(r) => IInv'
  <1> SUFFICES ASSUME IInv, GreedyMove(r) PROVE IInv'
    OBVIOUS
  <1>1. /\ phase = "descend" /\ phase' = "descend" /\ nearest_entry' = r
        /\ r \in Layer[nearest_entry] /\ r < row
        /\ Closer(dataset, target, r, nearest_entry)
        /\ UNCHANGED <<indexVars, target, width, current_level, affected, queryVars,
                       searchVars>>
    BY DEF GreedyMove, Onward
  <1>2. search = "idle" /\ affected = {}
    BY <1>1 DEF IInv, TypeOK
  <1>3. levels[r] >= current_level
    <2>1. r \in Members(current_level) /\ current_level \in Levels
      BY <1>1, Facts DEF IInv, LayersSound, LayersNest, Layer
    <2> QED BY <1>1, <2>1, MembersRows, Facts, FiniteRows DEF MembersAre, IInv
  <1>4. r = entry_point \/ Closer(dataset, target, r, entry_point)
    <2>1. \/ nearest_entry = entry_point
          \/ Closer(dataset, target, nearest_entry, entry_point)
      BY <1>1 DEF IInv, Descent
    <2> QED BY <1>1, <2>1, Facts, FiniteRows, CloserOrder
  <1>5. TypeOK'
    BY <1>1, <1>2, <1>3 DEF IInv, TypeOK, EntryLeads, indexVars, queryVars, searchVars
  <1>6. Descent'
    BY <1>1, <1>3, <1>4 DEF IInv, Descent, indexVars, queryVars, searchVars
  <1>7. LayersSound'
    <2>1. \A l \in Levels : Members(l) \subseteq Members(l)'
      BY <1>1 DEF Members, Linking, indexVars
    <2> QED BY <1>1, <1>2, <2>1, QuietLayers DEF IInv, indexVars
  <1> QED BY <1>1, <1>5, <1>6, <1>7, QuietSearch DEF IInv, indexVars

LEMMA GreedyStopInv == IInv /\ GreedyStop => IInv'
  <1> SUFFICES ASSUME IInv, GreedyStop PROVE IInv'
    OBVIOUS
  <1>1. /\ phase = "descend" /\ phase' = "descend" /\ current_level > Floor
        /\ current_level' = current_level - 1
        /\ UNCHANGED <<indexVars, target, width, nearest_entry, affected, queryVars,
                       searchVars>>
    BY DEF GreedyStop
  <1>2. search = "idle" /\ affected = {}
    BY <1>1 DEF IInv, TypeOK
  <1>3. current_level \in Nat /\ current_level - 1 \in Levels
    <2>1. Floor \in Nat
      <3>1. row # N => row \in Rows
        BY Facts, FiniteRows
      <3> QED BY <3>1, Facts DEF Floor
    <2> QED BY <1>1, <2>1, Facts, FiniteRows DEF Levels
  <1>4. levels[nearest_entry] \in Nat /\ top_level \in Nat
    BY Facts, FiniteRows
  <1>5. TypeOK'
    BY <1>1, <1>2, <1>3, <1>4 DEF IInv, TypeOK, EntryLeads, indexVars, queryVars, searchVars
  <1>6. Descent'
    BY <1>1, <1>3, <1>4 DEF IInv, Descent, indexVars, queryVars, searchVars
  <1>7. LayersSound'
    <2>1. \A l \in Levels : Members(l) \subseteq Members(l)'
      <3>1. \A l \in Levels : Linking(l) => Linking(l)'
        BY <1>1, <1>3, FiniteRows DEF Linking, indexVars
      <3> QED BY <1>1, <3>1 DEF Members, indexVars
    <2> QED BY <1>1, <1>2, <2>1, QuietLayers DEF IInv, indexVars
  <1> QED BY <1>1, <1>5, <1>6, <1>7, QuietSearch DEF IInv, indexVars

LEMMA CallLayerInv == IInv /\ CallLayer => IInv'
  <1> SUFFICES ASSUME IInv, CallLayer PROVE IInv'
    OBVIOUS
  <1>1. /\ phase = "descend" /\ phase' = "search" /\ current_level <= Floor
        /\ Search!Call(target, {nearest_entry}, width, row)
        /\ UNCHANGED <<indexVars, descentVars, affected, queryVars>>
    BY DEF CallLayer
  <1>2. affected = {} /\ row \in 0 .. N
    BY <1>1 DEF IInv, TypeOK
  <1>3. Beam!LocalsOK' /\ Beam!Walk' /\ search' = "expand"
    <2>1. Beam!Call(target, {nearest_entry}, width, row)
      BY <1>1, SameCall
    <2>2. {nearest_entry} \in SUBSET Beam!Rows
      BY Facts, FiniteRows
    <2>3. UNCHANGED Layer
      BY <1>1 DEF Layer, indexVars, descentVars
    <2> QED BY <1>2, <2>1, <2>2, <2>3, Facts, HnswAssumption, DistanceAssumption,
               Beam!CallLocals, Beam!CallWalk DEF IInv
  <1>4. /\ query' = target /\ entry_points' = {nearest_entry} /\ allowed_rows' = row
        /\ ef' = MinOf(MaxOf(width, 1), row)
    BY <1>1 DEF Search!Call, Search!MinOf, Search!MaxOf, MinOf, MaxOf
  <1>5. TypeOK'
    BY <1>1, <1>2, <1>3 DEF IInv, TypeOK, EntryLeads, indexVars, descentVars, queryVars
  <1>6. Descent'
    BY <1>1, <1>4 DEF IInv, Descent, Floor, indexVars, descentVars, queryVars
  <1>7. LayersSound'
    <2>1. \A l \in Levels : Members(l) \subseteq Members(l)'
      BY <1>1 DEF Members, Linking, indexVars, descentVars
    <2> QED BY <1>1, <1>2, <2>1, QuietLayers DEF IInv, indexVars, descentVars
  <1> QED BY <1>3, <1>5, <1>6, <1>7 DEF IInv

LEMMA SearchStepInv == IInv /\ SearchStep => IInv'
  <1> SUFFICES ASSUME IInv, SearchStep PROVE IInv'
    OBVIOUS
  <1>1. /\ phase = "search" /\ Beam!Step
        /\ UNCHANGED <<indexVars, descentVars, affected, phase, queryVars>>
    BY SameSearch DEF SearchStep
  <1>2. /\ Beam!LocalsOK' /\ Beam!Walk' /\ search' # "idle"
        /\ UNCHANGED <<query, entry_points, ef, allowed_rows>>
    <2>1. Beam!LocalsOK' /\ UNCHANGED Beam!callVars /\ search' # "idle"
      BY <1>1, HnswAssumption, DistanceAssumption, Beam!StepLocals DEF IInv
    <2>2. Beam!Walk'
      BY <1>1, HnswAssumption, DistanceAssumption, Beam!StepWalk DEF IInv
    <2> QED BY <2>1, <2>2 DEF Beam!callVars
  <1>3. affected = {}
    BY <1>1 DEF IInv, TypeOK
  <1>4. TypeOK'
    BY <1>1, <1>2 DEF IInv, TypeOK, EntryLeads, indexVars, descentVars, queryVars
  <1>5. Descent'
    BY <1>1, <1>2 DEF IInv, Descent, Floor, indexVars, descentVars, queryVars
  <1>6. LayersSound'
    <2>1. \A l \in Levels : Members(l) \subseteq Members(l)'
      BY <1>1 DEF Members, Linking, indexVars, descentVars
    <2> QED BY <1>1, <1>3, <2>1, QuietLayers DEF IInv, indexVars, descentVars
  <1> QED BY <1>2, <1>4, <1>5, <1>6 DEF IInv

(* What the search on a layer gives Link: rows that reach the layer, at    *)
(* most M of them; the new row has no link there yet.                      *)
LEMMA FoundRows ==
  ASSUME IInv, phase = "search", row < N
  PROVE  /\ row \in Rows /\ affected = {}
         /\ visited \subseteq {r \in Rows : r < row /\ levels[r] >= current_level}
         /\ nearest_entry \in visited
         /\ best = Nearest(dataset, target, visited, ef)
         /\ Layer[row] = {}
         /\ current_level <= levels[row] /\ current_level <= top_level
  <1> DEFINE reach == {r \in Rows : r < row /\ levels[r] >= current_level}
  <1>1. /\ row \in Rows /\ row > 0 /\ affected = {} /\ search # "idle"
        /\ query = target /\ entry_points = {nearest_entry} /\ allowed_rows = row
        /\ current_level <= levels[row] /\ current_level <= top_level
        /\ nearest_entry \in reach /\ Beam!Allowed = 0 .. row - 1
    <2>1. /\ row > 0 /\ query = target /\ entry_points = {nearest_entry} /\ allowed_rows = row
          /\ current_level <= Floor /\ current_level <= top_level
          /\ nearest_entry < row /\ levels[nearest_entry] >= current_level
      BY DEF IInv, Descent
    <2>2. row \in Rows /\ nearest_entry \in Rows /\ Beam!Allowed = 0 .. allowed_rows - 1
      BY Facts, FiniteRows
    <2>3. affected = {} /\ search # "idle"
      BY DEF IInv, TypeOK
    <2>4. Floor = levels[row]
      BY <2>2, FiniteRows DEF Floor
    <2> QED BY <2>1, <2>2, <2>3, <2>4
  <1>2. \A r \in Rows : r \in Members(current_level) => r \in reach
    <2>1. ~Linking(current_level)
      <3>1. current_level \in Nat
        BY Facts, FiniteRows
      <3>2. ~(current_level < current_level)
        BY <3>1
      <3> QED BY <3>2 DEF Linking
    <2> QED BY <2>1, MembersRows, Facts DEF MembersAre, IInv
  <1>3. \A r \in Rows : Layer[r] # {} => r \in reach /\ Layer[r] \subseteq reach
    <2>1. Layer \in Graphs /\ current_level \in Levels
      BY Facts
    <2>2. \A r \in Rows : Layer[r] # {} =>
            r \in Members(current_level) /\ Layer[r] \subseteq Members(current_level)
      BY <2>1 DEF IInv, LayersSound, LayersNest, Layer
    <2> HIDE DEF reach
    <2> QED BY <1>2, <2>1, <2>2 DEF Graphs
  <1>4. \A r \in 0 .. row - 1 : r \in Rows
    BY <1>1, FiniteRows
  <1>5. /\ visited \subseteq Beam!Reachable({nearest_entry})
        /\ best = Nearest(dataset, target, visited, ef)
        /\ {nearest_entry} \cap Beam!Allowed \subseteq visited
    BY <1>1, SameNearest DEF IInv, Beam!Walk
  <1>6. Beam!Reachable({nearest_entry}) \subseteq reach
    <2>1. reach \subseteq Beam!Allowed
      BY <1>1, FiniteRows
    <2>2. \A r \in reach : Layer[r] \cap Beam!Allowed \subseteq reach
      BY <1>3
    <2> HIDE DEF reach
    <2> QED BY <1>1, <2>1, <2>2 DEF Beam!Reachable, Beam!ClosedUnderLinks
  <1>7. nearest_entry \in visited
    BY <1>1, <1>5, FiniteRows
  <1>8. Layer[row] = {}
    BY <1>1, <1>3, FiniteRows
  <1> QED BY <1>1, <1>5, <1>6, <1>7, <1>8

LEMMA SelectedRows ==
  ASSUME IInv, phase = "search", row < N
  PROVE  LET selected == Nearest(dataset, target, best, M)
         IN  /\ selected \in SUBSET (Rows \ {row}) /\ selected \subseteq best
             /\ \A r \in selected : r < row /\ levels[r] >= current_level
             /\ Cardinality(selected) \in Nat /\ Cardinality(selected) <= M
             /\ \A r \in Rows : Cardinality(Layer[r]) <= M
  <1> DEFINE selected == Nearest(dataset, target, best, M)
  <1>1. /\ best \in SUBSET Rows /\ IsFiniteSet(best) /\ Rows \in SUBSET Nat /\ M \in Nat
        /\ dataset \in [Rows -> Vector] /\ target \in Vector
    BY Facts, FiniteRows
  <1>2. /\ selected \subseteq best
        /\ Cardinality(selected) \in Nat /\ Cardinality(selected) <= M
    BY <1>1, NearestBound
  <1>3. \A r \in selected : r \in Rows /\ r < row /\ levels[r] >= current_level
    <2>1. best \subseteq visited
      BY Facts
    <2>2. visited \subseteq {r \in Rows : r < row /\ levels[r] >= current_level}
      BY FoundRows
    <2> QED BY <1>2, <2>1, <2>2
  <1>4. \A r \in Rows : Cardinality(Layer[r]) <= M
    BY FoundRows, Facts DEF IInv, LayersSound, Layer
  <1> HIDE DEF selected
  <1>5. row \notin selected
    BY <1>3, FiniteRows
  <1> QED BY <1>1, <1>2, <1>3, <1>4, <1>5 DEF selected

(* The nearest row found is in the beam, and no farther than the row the   *)
(* search entered the layer from.                                          *)
LEMMA NearestFound ==
  ASSUME IInv, phase = "search"
  PROVE  /\ best # {} /\ \E r \in Nearest(dataset, target, best, 1) : TRUE
         /\ \A r \in Nearest(dataset, target, best, 1) :
              /\ r \in best
              /\ r = nearest_entry \/ Closer(dataset, target, r, nearest_entry)
  <1>1. /\ visited \in SUBSET Rows /\ best \subseteq visited /\ IsFiniteSet(visited)
        /\ IsFiniteSet(best) /\ best \in SUBSET Rows /\ Rows \in SUBSET Nat
        /\ dataset \in [Rows -> Vector] /\ target \in Vector
    BY Facts, FiniteRows
  <1>2. /\ ef \in Nat /\ ef > 0
        /\ nearest_entry \in visited /\ best = Nearest(dataset, target, visited, ef)
    <2>1. /\ row > 0 /\ row \in Nat /\ search # "idle" /\ allowed_rows = row
          /\ nearest_entry < row /\ entry_points = {nearest_entry} /\ query = target
          /\ ef = MinOf(MaxOf(width, 1), row) /\ width \in Nat
      BY Facts DEF IInv, TypeOK, Descent
    <2>2. {nearest_entry} \cap Beam!Allowed \subseteq visited
          /\ best = Nearest(dataset, target, visited, ef)
      BY <2>1, SameNearest DEF IInv, Beam!Walk
    <2>3. nearest_entry \in Beam!Allowed
      BY <2>1, Facts, FiniteRows
    <2> QED BY <2>1, <2>2, <2>3 DEF MinOf, MaxOf
  <1>3. nearest_entry \in best \/ \E b \in best : Closer(dataset, target, b, nearest_entry)
    <2>1. CASE nearest_entry \in best
      BY <2>1
    <2>2. CASE nearest_entry \notin best
      <3>1. \A b \in best : Closer(dataset, target, b, nearest_entry)
        BY <1>1, <1>2, <2>2, NearestCloser
      <3>2. Cardinality(best) = ef
        BY <1>1, <1>2, <2>2, NearestKeepsK
      <3>3. best # {}
        BY <1>2, <3>2, FS_EmptySet
      <3> QED BY <3>1, <3>3
    <2> QED BY <2>1, <2>2
  <1>4. best # {}
    BY <1>3
  <1>5. PICK n \in best : \A b \in best \ {n} : Closer(dataset, target, n, b)
    BY <1>1, <1>4, NearestExists
  <1>6. \A b \in best : ~Closer(dataset, target, b, n)
    BY <1>1, <1>5, CloserOrder
  <1>7. n \in Nearest(dataset, target, best, 1)
    <2>1. {s \in best : Closer(dataset, target, s, n)} = {}
      BY <1>6
    <2> QED BY <2>1, FS_EmptySet DEF Nearest
  <1>8. \A r \in Nearest(dataset, target, best, 1) : r = n
    <2> SUFFICES ASSUME NEW r \in Nearest(dataset, target, best, 1), r # n PROVE FALSE
      OBVIOUS
    <2> DEFINE nearer == {s \in best : Closer(dataset, target, s, r)}
    <2>1. r \in best /\ Cardinality(nearer) < 1
      BY DEF Nearest
    <2>2. n \in nearer
      BY <1>5, <2>1
    <2>3. IsFiniteSet(nearer)
      BY <1>1, FS_Subset
    <2> HIDE DEF nearer
    <2>4. Cardinality(nearer) \in Nat /\ Cardinality(nearer) # 0
      BY <2>2, <2>3, FS_CardinalityType, FS_EmptySet
    <2> QED BY <2>1, <2>4
  <1>9. n = nearest_entry \/ Closer(dataset, target, n, nearest_entry)
    BY <1>1, <1>2, <1>3, <1>5, CloserOrder
  <1> QED BY <1>4, <1>5, <1>7, <1>8, <1>9

(* A step that changes one layer only.                                     *)
LEMMA OneLayer ==
  ASSUME LayersSound, layers \in [Levels -> Graphs], current_level \in Levels,
         NEW adj \in Graphs, layers' = [layers EXCEPT ![current_level] = adj],
         UNCHANGED current_level, Reciprocal(adj),
         \A l \in Levels : Members(l) \subseteq Members(l)',
         \A r \in Rows : adj[r] # {} =>
           r \in Members(current_level)' /\ adj[r] \subseteq Members(current_level)' \ {r},
         \A r \in Rows : Cardinality(adj[r]) <= IF r \in affected' THEN M + 1 ELSE M
  PROVE  LayersSound'
  <1>1. /\ layers'[current_level] = adj /\ current_level' = current_level
        /\ \A l \in Levels : l # current_level => layers'[l] = layers[l]
    OBVIOUS
  <1>2. LayersNest'
    <2> SUFFICES ASSUME NEW l \in Levels, NEW r \in Rows, layers'[l][r] # {}
                 PROVE  r \in Members(l)' /\ layers'[l][r] \subseteq Members(l)' \ {r}
      BY DEF LayersNest
    <2>1. CASE l = current_level
      BY <1>1, <2>1
    <2>2. CASE l # current_level
      BY <1>1, <2>2 DEF LayersSound, LayersNest
    <2> QED BY <2>1, <2>2
  <1>3. ASSUME NEW l \in Levels, NEW r \in Rows
        PROVE  /\ \A s \in layers'[l][r] : r \in layers'[l][s]
               /\ Cardinality(layers'[l][r]) <=
                    IF r \in affected' /\ l = current_level' THEN M + 1 ELSE M
    <2>1. CASE l = current_level
      BY <1>1, <2>1 DEF Reciprocal
    <2>2. CASE l # current_level
      BY <1>1, <2>2 DEF LayersSound
    <2> QED BY <2>1, <2>2
  <1> QED BY <1>2, <1>3 DEF LayersSound

(* Link as a change of one layer, and where the descent goes on from.      *)
LEMMA LinkStep ==
  ASSUME IInv, Link
  PROVE  LET selected == Nearest(dataset, target, best, M)
         IN  /\ phase = "search" /\ phase' = "prune" /\ row < N /\ Beam!Return
             /\ layers' = [layers EXCEPT ![current_level] = Linked(Layer, row, selected)]
             /\ affected' = selected \cup {row}
             /\ UNCHANGED <<dataset, levels, entry_point, top_level, row, target, width,
                            current_level, queryVars>>
             /\ nearest_entry' \in best
             /\ nearest_entry' = nearest_entry
                \/ Closer(dataset, target, nearest_entry', nearest_entry)
  <1>1. /\ phase = "search" /\ phase' = "prune" /\ row < N /\ Beam!Return
        /\ nearest_entry' = IF best = {} THEN nearest_entry
                            ELSE CHOOSE r \in Nearest(dataset, target, best, 1) : TRUE
    BY SameSearch DEF Link
  <1>2. UNCHANGED <<dataset, levels, entry_point, top_level, row, target, width,
                    current_level, queryVars>>
    BY DEF Link, Search!Return
  <1>3. nearest_entry' \in Nearest(dataset, target, best, 1)
    BY <1>1, NearestFound
  <1>4. /\ nearest_entry' \in best
        /\ nearest_entry' = nearest_entry
           \/ Closer(dataset, target, nearest_entry', nearest_entry)
    BY <1>1, <1>3, NearestFound
  <1>5. LET selected == Nearest(dataset, target, best, M)
        IN  /\ layers' = [layers EXCEPT ![current_level] = Linked(Layer, row, selected)]
            /\ affected' = selected \cup {row}
    BY Zenon DEF Link, Linked
  <1> QED BY <1>1, <1>2, <1>4, <1>5

LEMMA LinkInv == IInv /\ Link => IInv'
  <1> SUFFICES ASSUME IInv, Link PROVE IInv'
    OBVIOUS
  <1> DEFINE selected == Nearest(dataset, target, best, M)
             adj == Linked(Layer, row, selected)
  <1>1. /\ phase = "search" /\ phase' = "prune" /\ row < N /\ Beam!Return
        /\ layers' = [layers EXCEPT ![current_level] = adj]
        /\ affected' = selected \cup {row}
        /\ UNCHANGED <<dataset, levels, entry_point, top_level, row, target, width,
                       current_level, queryVars>>
        /\ nearest_entry' \in best
        /\ nearest_entry' = nearest_entry
           \/ Closer(dataset, target, nearest_entry', nearest_entry)
    BY LinkStep
  <1>2. /\ row \in Rows /\ affected = {} /\ Layer[row] = {}
        /\ visited \subseteq {r \in Rows : r < row /\ levels[r] >= current_level}
        /\ current_level <= levels[row] /\ current_level <= top_level
    BY <1>1, FoundRows
  <1>3. /\ selected \in SUBSET (Rows \ {row})
        /\ \A r \in selected : r < row /\ levels[r] >= current_level
        /\ Cardinality(selected) \in Nat /\ Cardinality(selected) <= M
        /\ \A r \in Rows : Cardinality(Layer[r]) <= M
    BY <1>1, SelectedRows
  <1> HIDE DEF selected
  <1>4. /\ adj \in Graphs /\ Reciprocal(adj)
        /\ \A r \in Rows : Cardinality(adj[r]) <= IF r \in affected' THEN M + 1 ELSE M
    BY <1>1, <1>2, <1>3, Facts, LinkedGraph DEF Layer
  <1>5. /\ \A r \in Rows : adj[r] \subseteq Layer[r] \cup selected \cup {row}
        /\ \A r \in Rows : adj[r] # {} => Layer[r] # {} \/ r \in selected \cup {row}
        /\ \A r \in Rows : r \notin adj[r]
    <2>1. \A r \in Rows : r \notin Layer[r]
      BY Facts DEF Layer
    <2> QED BY <1>2, <1>3, <2>1 DEF Linked
  <1> HIDE DEF adj
  <1>6. nearest_entry' \in Rows /\ nearest_entry' < row /\ levels[nearest_entry'] >= current_level
    BY <1>1, <1>2, Facts
  <1>7. layers' \in [Levels -> Graphs] /\ Layer' \in Graphs
    BY <1>1, <1>4, Facts DEF Layer
  <1>8. search' = "idle" /\ Beam!LocalsOK'
    BY <1>1, <1>7, FiniteRows, HnswAssumption, DistanceAssumption, Beam!ReturnLocals
       DEF IInv, Graphs
  <1>9. TypeOK'
    <2>1. affected' \subseteq Rows
      BY <1>1, <1>2, <1>3
    <2>2. EntryLeads'
      BY <1>1 DEF IInv, TypeOK, EntryLeads
    <2> QED BY <1>1, <1>6, <1>7, <1>8, <2>1, <2>2 DEF IInv, TypeOK, Graphs, queryVars
  <1>10. Descent'
    <2>1. \/ nearest_entry' = entry_point
          \/ Closer(dataset, target, nearest_entry', entry_point)
      <3>1. \/ nearest_entry = entry_point
            \/ Closer(dataset, target, nearest_entry, entry_point)
        BY <1>1 DEF IInv, Descent
      <3> QED BY <1>1, <1>6, <3>1, Facts, FiniteRows, CloserOrder
    <2> QED BY <1>1, <1>2, <1>6, <2>1 DEF IInv, Descent
  <1>11. LayersSound'
    <2>1. Linking(current_level)'
      <3>1. current_level <= MinOf(levels[row], top_level)
        BY <1>2 DEF MinOf
      <3> QED BY <1>1, <3>1 DEF Linking
    <2>2. \A l \in Levels : Members(l) \subseteq Members(l)'
      <3>1. \A l \in Levels : Linking(l) => Linking(l)'
        BY <1>1 DEF Linking
      <3> QED BY <1>1, <3>1 DEF Members
    <2>3. MembersAre' /\ current_level \in Levels
      BY <1>9, <1>10, MembersRowsNext, Facts
    <2>4. \A r \in selected \cup {row} : r \in Members(current_level)'
      BY <1>1, <1>2, <1>3, <2>1, <2>3 DEF MembersAre
    <2>5. \A r \in Rows : Layer[r] # {} =>
            r \in Members(current_level)' /\ Layer[r] \subseteq Members(current_level)'
      <3>1. current_level' = current_level /\ current_level \in Levels
        BY <1>1, Facts
      <3> QED BY <2>2, <3>1 DEF IInv, LayersSound, LayersNest, Layer
    <2>6. ASSUME NEW r \in Rows, adj[r] # {}
          PROVE  r \in Members(current_level)'
                 /\ adj[r] \subseteq Members(current_level)' \ {r}
      BY <1>5, <2>4, <2>5, <2>6
    <2> QED BY <1>1, <1>4, <2>2, <2>6, Facts, OneLayer DEF IInv
  <1> QED BY <1>8, <1>9, <1>10, <1>11 DEF IInv, Beam!Walk

(* What prune_neighbors leaves a row with.                                 *)
LEMMA KeptRows ==
  ASSUME IInv, NEW owner \in Rows
  PROVE  /\ Kept(owner) \in SUBSET Layer[owner]
         /\ Cardinality(Kept(owner)) <= M
         /\ owner \notin Layer[owner]
         /\ Layer[owner] \in SUBSET Rows /\ IsFiniteSet(Layer[owner])
  <1>1. /\ Layer[owner] \in SUBSET Rows /\ IsFiniteSet(Layer[owner])
        /\ dataset[owner] \in Vector /\ M \in Nat /\ Rows \in SUBSET Nat
        /\ dataset \in [Rows -> Vector]
    BY Facts, FiniteRows DEF Graphs
  <1>2. owner \notin Layer[owner]
    BY Facts DEF Layer
  <1> QED BY <1>1, <1>2, NearestBound DEF Kept

(* Prune as a change of one layer.                                         *)
LEMMA PruneStep ==
  ASSUME IInv, NEW owner \in Rows, Prune(owner)
  PROVE  /\ phase = "prune" /\ owner \in affected
         /\ layers' = [layers EXCEPT ![current_level] = Pruned(Layer, owner, Kept(owner))]
         /\ affected' = affected \ {owner}
         /\ UNCHANGED <<dataset, levels, entry_point, top_level, row, descentVars, phase,
                        queryVars, searchVars>>
  BY DEF Prune, Pruned

LEMMA PruneInv == ASSUME NEW owner \in Rows PROVE IInv /\ Prune(owner) => IInv'
  <1> SUFFICES ASSUME IInv, Prune(owner) PROVE IInv'
    OBVIOUS
  <1> DEFINE kept == Kept(owner)
             adj == Pruned(Layer, owner, kept)
  <1>1. /\ phase = "prune" /\ owner \in affected
        /\ layers' = [layers EXCEPT ![current_level] = adj]
        /\ affected' = affected \ {owner}
        /\ UNCHANGED <<dataset, levels, entry_point, top_level, row, descentVars, phase,
                       queryVars, searchVars>>
    BY PruneStep
  <1>2. /\ kept \in SUBSET Layer[owner] /\ Cardinality(kept) <= M
        /\ owner \notin Layer[owner]
    BY KeptRows
  <1> HIDE DEF kept
  <1>3. /\ adj \in Graphs /\ Reciprocal(adj)
        /\ \A r \in Rows : adj[r] \subseteq Layer[r]
        /\ \A r \in Rows : Cardinality(adj[r]) <= Cardinality(Layer[r])
        /\ Cardinality(adj[owner]) <= M
    BY <1>2, Facts, PrunedGraph DEF Layer
  <1> HIDE DEF adj
  <1>4. layers' \in [Levels -> Graphs]
    BY <1>1, <1>3, Facts
  <1>5. TypeOK'
    <2>1. EntryLeads'
      BY <1>1 DEF IInv, TypeOK, EntryLeads
    <2> QED BY <1>1, <1>4, <2>1
            DEF IInv, TypeOK, Graphs, descentVars, queryVars, searchVars
  <1>6. Descent'
    BY <1>1 DEF IInv, Descent, descentVars, queryVars, searchVars
  <1>7. LayersSound'
    <2>1. \A l \in Levels : Members(l)' = Members(l)
      BY <1>1 DEF Members, Linking, descentVars
    <2>2. \A r \in Rows : Layer[r] # {} =>
            r \in Members(current_level) /\ Layer[r] \subseteq Members(current_level) \ {r}
      BY Facts DEF IInv, LayersSound, LayersNest, Layer
    <2>3. ASSUME NEW r \in Rows
          PROVE  Cardinality(adj[r]) <= IF r \in affected' THEN M + 1 ELSE M
      <3>1. Cardinality(Layer[r]) <= IF r \in affected THEN M + 1 ELSE M
        BY Facts DEF IInv, LayersSound, Layer
      <3>2. /\ Cardinality(adj[r]) \in Nat /\ Cardinality(Layer[r]) \in Nat /\ M \in Nat
            /\ Cardinality(adj[r]) <= Cardinality(Layer[r])
        BY <1>3, Facts, FiniteRows DEF Graphs
      <3>3. CASE r = owner
        BY <1>1, <1>3, <3>3
      <3>4. CASE r # owner
        <4>1. r \in affected' <=> r \in affected
          BY <1>1, <3>4
        <4> QED BY <3>1, <3>2, <4>1
      <3> QED BY <3>3, <3>4
    <2>4. ASSUME NEW r \in Rows, adj[r] # {}
          PROVE  r \in Members(current_level)'
                 /\ adj[r] \subseteq Members(current_level)' \ {r}
      <3>1. Members(current_level)' = Members(current_level)
        BY <1>1, <2>1, Facts DEF descentVars
      <3> QED BY <1>3, <2>2, <2>4, <3>1
    <2>5. UNCHANGED current_level
      BY <1>1 DEF descentVars
    <2> QED BY <1>1, <1>3, <2>1, <2>3, <2>4, <2>5, Facts, OneLayer DEF IInv
  <1>8. Beam!LocalsOK' /\ Beam!Walk'
    <2>1. search = "idle" /\ search' = "idle"
      BY <1>1 DEF IInv, TypeOK, searchVars
    <2>2. Layer' \in Graphs
      BY <1>4, <1>5 DEF Layer, TypeOK
    <2> QED BY <1>1, <2>1, <2>2, FiniteRows
            DEF IInv, Beam!LocalsOK, Beam!Walk, Beam!Allowed, Graphs, searchVars
  <1> QED BY <1>5, <1>6, <1>7, <1>8 DEF IInv

LEMMA NextLayerInv == IInv /\ NextLayer => IInv'
  <1> SUFFICES ASSUME IInv, NextLayer PROVE IInv'
    OBVIOUS
  <1>1. /\ phase = "prune" /\ phase' = "descend" /\ affected = {} /\ current_level > 0
        /\ current_level' = current_level - 1
        /\ UNCHANGED <<indexVars, target, width, nearest_entry, affected, queryVars,
                       searchVars>>
    BY DEF NextLayer
  <1>2. search = "idle"
    BY <1>1 DEF IInv, TypeOK
  <1>3. /\ current_level \in Nat /\ current_level - 1 \in Levels
        /\ levels[nearest_entry] \in Nat /\ top_level \in Nat
    BY <1>1, Facts, FiniteRows DEF Levels
  <1>4. /\ nearest_entry < row /\ levels[nearest_entry] >= current_level
        /\ current_level <= top_level
    BY <1>1 DEF IInv, Descent
  <1>5. TypeOK'
    <2>1. EntryLeads'
      BY <1>1, <1>3, <1>4 DEF IInv, TypeOK, EntryLeads, indexVars
    <2> QED BY <1>1, <1>2, <1>3, <2>1 DEF IInv, TypeOK, indexVars, queryVars, searchVars
  <1>6. Descent'
    <2>1. row < N
      BY <1>1 DEF IInv, Descent
    <2> QED BY <1>1, <1>3, <1>4, <2>1, FiniteRows, Facts
            DEF IInv, Descent, indexVars, queryVars, searchVars
  <1>7. LayersSound'
    <2>1. \A l \in Levels : Linking(l) => Linking(l)'
      BY <1>1, <1>3, FiniteRows DEF Linking, indexVars
    <2>2. \A l \in Levels : Members(l) \subseteq Members(l)'
      BY <1>1, <2>1 DEF Members, indexVars
    <2> QED BY <1>1, <2>2, QuietLayers DEF IInv, indexVars
  <1> QED BY <1>1, <1>5, <1>6, <1>7, QuietSearch DEF IInv, indexVars

LEMMA InsertedInv == IInv /\ Inserted => IInv'
  <1> SUFFICES ASSUME IInv, Inserted PROVE IInv'
    OBVIOUS
  <1>1. /\ phase = "prune" /\ affected = {} /\ row' = row + 1
        /\ phase' = IF row + 1 = N THEN "built" ELSE "insert"
        /\ UNCHANGED <<dataset, layers, levels, affected, queryVars, searchVars>>
        /\ target' = dataset[0] /\ width' = 0 /\ current_level' = 0 /\ nearest_entry' = 0
    BY DEF Inserted, EndDescent
  <1>2. IF levels[row] > top_level THEN entry_point' = row /\ top_level' = levels[row]
        ELSE UNCHANGED <<entry_point, top_level>>
    BY DEF Inserted
  <1>3. /\ search = "idle" /\ row > 0 /\ row < N /\ row \in Rows /\ row \in Nat
        /\ levels[row] \in Levels /\ levels[row] \in Nat /\ top_level \in Nat
    BY <1>1, Facts, FiniteRows DEF IInv, TypeOK, Descent
  <1>4. row + 1 \in 0 .. N /\ row + 1 > 0 /\ row + 1 - 1 = row
    BY <1>3, FiniteRows
  <1>5. \A r \in 0 .. row : (r \in 0 .. row - 1 \/ r = row) /\ r \in Rows /\ levels[r] \in Nat
    <2>1. \A r \in 0 .. row : (r \in 0 .. row - 1 \/ r = row) /\ r \in Nat /\ r < N
      BY <1>3, HnswAssumption
    <2>2. \A r \in 0 .. row : r \in Rows
      BY <2>1, FiniteRows
    <2> QED BY <2>1, <2>2, Facts
  <1>6. TypeOK'
    <2>1. entry_point' \in Rows /\ top_level' \in Levels
      BY <1>2, <1>3, Facts
    <2>2. entry_point' < row' /\ levels[entry_point'] = top_level'
      <3>1. entry_point < row /\ levels[entry_point] = top_level /\ entry_point \in Nat
        BY <1>3, Facts, FiniteRows DEF IInv, TypeOK, EntryLeads
      <3> QED BY <1>1, <1>2, <1>3, <3>1
    <2>3. \A r \in 0 .. row : levels[r] <= top_level'
      <3>1. \A r \in 0 .. row - 1 : levels[r] <= top_level
        BY DEF IInv, TypeOK, EntryLeads
      <3> QED BY <1>2, <1>3, <1>5, <3>1
    <2>4. EntryLeads'
      <3>1. row' - 1 = row /\ row' > 0
        <4>1. row' = row + 1 /\ row \in Nat
          BY <1>1, <1>3
        <4> QED BY <4>1
      <3>2. phase' \notin {"descend", "search"}
        BY <1>1
      <3>3. \A r \in 0 .. row' - 1 : levels[r] <= top_level'
        BY <2>3, <3>1
      <3> QED BY <1>1, <2>2, <3>2, <3>3 DEF EntryLeads
    <2>5. phase' = "built" => row' = N
      BY <1>1
    <2>6. target' \in Vector /\ current_level' \in Levels /\ nearest_entry' \in Rows
      BY <1>1, Facts, FiniteRows
    <2> QED BY <1>1, <1>3, <1>4, <2>1, <2>4, <2>5, <2>6
            DEF IInv, TypeOK, queryVars, searchVars
  <1>7. Descent'
    BY <1>1, <1>3, <1>4, FiniteRows DEF Descent
  <1>8. LayersSound'
    <2>1. ASSUME NEW l \in Levels PROVE Members(l) \subseteq Members(l)'
      <3>1. Linking(l) => levels[row] >= l
        BY <1>3, <2>1, FiniteRows DEF Linking, MinOf
      <3>2. 0 .. row - 1 \subseteq 0 .. row /\ row \in 0 .. row
        BY <1>3
      <3> QED BY <1>1, <1>4, <3>1, <3>2 DEF Members
    <2> QED BY <1>1, <2>1, QuietLayers DEF IInv
  <1> QED BY <1>1, <1>6, <1>7, <1>8, QuietSearch DEF IInv

LEMMA QueryInv == IInv /\ Query => IInv'
  <1> SUFFICES ASSUME IInv, Query PROVE IInv'
    OBVIOUS
  <1>1. PICK q \in Vector, ef_search \in EfSearches, asked \in Ks :
          target' = q /\ width' = MaxOf(ef_search, asked) /\ k' = asked
    BY DEF Query
  <1>2. /\ phase = "built" /\ phase' = "descend" /\ current_level' = top_level
        /\ nearest_entry' = entry_point /\ result' = {}
        /\ UNCHANGED <<indexVars, affected, searchVars>>
    BY DEF Query
  <1>3. search = "idle" /\ affected = {} /\ row = N /\ row > 0
    BY <1>2, FiniteRows DEF IInv, TypeOK
  <1>4. width' \in Nat /\ k' <= width'
    <2>1. ef_search \in Nat /\ asked \in Nat
      BY HnswAssumption
    <2> QED BY <1>1, <2>1 DEF MaxOf
  <1>5. entry_point < row /\ levels[entry_point] = top_level /\ top_level \in Nat
    BY <1>3, Facts, FiniteRows DEF IInv, TypeOK, EntryLeads
  <1>6. TypeOK'
    BY <1>1, <1>2, <1>3, <1>5 DEF IInv, TypeOK, EntryLeads, indexVars, searchVars
  <1>7. Descent'
    BY <1>1, <1>2, <1>3, <1>4, <1>5 DEF Descent, indexVars
  <1>8. LayersSound'
    <2>1. \A l \in Levels : Members(l) \subseteq Members(l)'
      BY <1>2 DEF Members, Linking, indexVars
    <2> QED BY <1>2, <1>3, <2>1, QuietLayers DEF IInv, indexVars
  <1> QED BY <1>2, <1>6, <1>7, <1>8, QuietSearch DEF IInv, indexVars

LEMMA AnswerInv == IInv /\ Answer => IInv'
  <1> SUFFICES ASSUME IInv, Answer PROVE IInv'
    OBVIOUS
  <1>1. /\ phase = "search" /\ phase' = "built" /\ row = N /\ Beam!Return
        /\ result' = Nearest(dataset, target, best, k)
        /\ UNCHANGED <<indexVars, affected, k>>
        /\ target' = dataset[0] /\ width' = 0 /\ current_level' = 0 /\ nearest_entry' = 0
    BY SameSearch DEF Answer, EndDescent
  <1>2. affected = {} /\ row > 0
    BY <1>1, FiniteRows DEF IInv, TypeOK
  <1>3. search' = "idle" /\ Beam!LocalsOK'
    <2>1. Layer' \in Graphs
      BY <1>1, Facts, FiniteRows DEF Layer, indexVars
    <2> QED BY <1>1, <2>1, FiniteRows, HnswAssumption, DistanceAssumption, Beam!ReturnLocals
            DEF IInv, Graphs
  <1>4. result' \subseteq Rows
    BY <1>1, Facts DEF Nearest
  <1>5. TypeOK'
    <2>1. EntryLeads'
      BY <1>1 DEF IInv, TypeOK, EntryLeads, indexVars
    <2>2. target' \in Vector /\ current_level' \in Levels /\ nearest_entry' \in Rows
      BY <1>1, Facts, FiniteRows
    <2> QED BY <1>1, <1>2, <1>3, <1>4, <2>1, <2>2 DEF IInv, TypeOK, indexVars
  <1>6. Descent'
    BY <1>1, <1>2 DEF Descent, indexVars
  <1>7. LayersSound'
    <2>1. \A l \in Levels : Members(l) \subseteq Members(l)'
      BY <1>1, FiniteRows DEF Members, Linking, indexVars
    <2> QED BY <1>1, <1>2, <2>1, QuietLayers DEF IInv, indexVars
  <1> QED BY <1>3, <1>5, <1>6, <1>7 DEF IInv, Beam!Walk

LEMMA NextInv == IInv /\ [Next]_vars => IInv'
  <1> SUFFICES ASSUME IInv, [Next]_vars PROVE IInv'
    OBVIOUS
  <1>1. CASE UNCHANGED vars
    <2> USE <1>1 DEF vars, indexVars, descentVars, queryVars, searchVars
    <2>1. TypeOK' /\ Descent'
      BY DEF IInv, TypeOK, EntryLeads, Descent, Floor
    <2>2. LayersSound'
      BY DEF IInv, LayersSound, LayersNest, Members, Linking
    <2>3. UNCHANGED Layer
      BY DEF Layer
    <2>4. Beam!LocalsOK' /\ Beam!Walk'
      BY <2>3 DEF IInv, Beam!LocalsOK, Beam!Walk, Beam!Allowed, Beam!Reachable,
         Beam!ClosedUnderLinks
    <2> QED BY <2>1, <2>2, <2>4 DEF IInv
  <1>2. CASE Next
    BY <1>2, InsertFirstInv, InsertNextInv, GreedyMoveInv, GreedyStopInv, CallLayerInv,
       SearchStepInv, LinkInv, PruneInv, NextLayerInv, InsertedInv, QueryInv, AnswerInv
       DEF Next, Build, Descend
  <1> QED BY <1>1, <1>2

(* Every state of every build and of every query on it has the invariant.  *)
THEOREM Invariance == Spec => []IInv
  BY InitInv, NextInv, PTL DEF Spec

(* The types hold, and a descent stands where it may (hnsw.rs:66-131).     *)
THEOREM TypeCorrect == Spec => []TypeOK
  BY Invariance, PTL DEF IInv

(* On every layer and after every step links are reciprocal, stay on the   *)
(* rows that reach the layer and are at most M a row, but for the row a    *)
(* link has just been added to (hnsw.rs:66-131, graph.rs:67-107).          *)
THEOREM LayersAreSound == Spec => []LayersSound
  BY Invariance, PTL DEF IInv

-----------------------------------------------------------------------------
(* From the entry point to the last layer a descent only comes nearer to   *)
(* its target, whatever pruning has done to the layers in between          *)
(* (hnsw.rs:66-87, 147-181).                                              *)
THEOREM DescentImproves == Spec => DescentOnlyImproves
  <1>1. IInv /\ [Next]_vars =>
          [phase' # "built" /\ phase \in {"descend", "search"} => ComesNearer]_vars
    <2> SUFFICES ASSUME IInv, Next, phase' # "built", phase \in {"descend", "search"}
                 PROVE  ComesNearer
      OBVIOUS
    <2>1. ASSUME NEW r \in Rows, GreedyMove(r) PROVE ComesNearer
      BY <2>1 DEF GreedyMove, ComesNearer
    <2>2. CASE GreedyStop \/ CallLayer \/ SearchStep
      BY <2>2 DEF GreedyStop, CallLayer, SearchStep, descentVars, ComesNearer
    <2>3. CASE Link
      BY <2>3, LinkStep DEF ComesNearer
    <2>4. ~(InsertFirst \/ InsertNext \/ NextLayer \/ Inserted \/ Query \/ Answer)
          /\ \A r \in Rows : ~Prune(r)
      BY DEF InsertFirst, InsertNext, NextLayer, Inserted, Query, Answer, Prune
    <2> QED BY <2>1, <2>2, <2>3, <2>4 DEF Next, Build, Descend
  <1> QED BY <1>1, Invariance, PTL DEF Spec, DescentOnlyImproves

(* What a query gets once the last search has ended.                       *)
LEMMA AnswerOfQuery ==
  ASSUME IInv, Answer
  PROVE  LET component == Search!Reachable({nearest_entry})
         IN  /\ result' \subseteq component
             /\ Cardinality(result') = MinOf(k, Cardinality(component))
             /\ Cardinality(component) <= ef
                  => result' = Nearest(dataset, target, component, k)
             /\ k > 0 => \E r \in result' : ~Closer(dataset, target, entry_point, r)
  <1> DEFINE component == Search!Reachable({nearest_entry})
  <1>1. /\ phase = "search" /\ row = N /\ search = "done"
        /\ result' = Nearest(dataset, target, best, k)
    BY DEF Answer, Search!Return
  <1>2. /\ entry_points = {nearest_entry} /\ ef = MinOf(MaxOf(width, 1), N) /\ k <= width
        /\ \/ nearest_entry = entry_point
           \/ Closer(dataset, target, nearest_entry, entry_point)
    BY <1>1 DEF IInv, Descent
  <1>3. /\ best \subseteq component /\ component \in SUBSET Rows
        /\ best = component \/ Cardinality(best) = ef
        /\ Cardinality(component) <= ef => best = component
    <2>1. component = Beam!Reachable(entry_points)
      BY <1>2, SameSearch
    <2>2. /\ best \subseteq component /\ component \in SUBSET Rows
          /\ best = component \/ Beam!Cardinality(best) = ef
          /\ Beam!Cardinality(component) <= ef => best = component
      BY <1>1, <2>1, FiniteRows, HnswAssumption, DistanceAssumption, Beam!DoneFull DEF IInv
    <2> QED BY <2>2, SameCount
  <1> HIDE DEF component
  <1>4. /\ best \in SUBSET Rows /\ IsFiniteSet(best) /\ IsFiniteSet(component)
        /\ Rows \in SUBSET Nat /\ k \in Nat /\ width \in Nat /\ N \in Nat
        /\ dataset \in [Rows -> Vector] /\ target \in Vector
        /\ Cardinality(best) \in Nat /\ Cardinality(component) \in Nat
        /\ nearest_entry \in Rows /\ entry_point \in Rows
    BY <1>3, Facts, FiniteRows
  <1>5. result' \subseteq best
    BY <1>1 DEF Nearest
  <1>6. Cardinality(result') = MinOf(k, Cardinality(component))
    <2>1. Cardinality(result') = MinOf(k, Cardinality(best))
      BY <1>1, <1>4, NearestSize DEF MinOf
    <2>2. Cardinality(best) <= Cardinality(component) /\ Cardinality(component) <= N
      BY <1>3, <1>4, FiniteRows, FS_Subset, FS_Interval
    <2>3. best = component \/ (Cardinality(best) = ef /\ ef < Cardinality(component))
      BY <1>2, <1>3, <1>4, <2>2 DEF MinOf, MaxOf
    <2>4. ef < Cardinality(component) => k <= ef
      BY <1>2, <1>4, <2>2 DEF MinOf, MaxOf
    <2> QED BY <1>4, <2>1, <2>2, <2>3, <2>4 DEF MinOf
  <1>7. ASSUME k > 0 PROVE \E r \in result' : ~Closer(dataset, target, entry_point, r)
    <2>1. PICK r \in Nearest(dataset, target, best, 1) : TRUE
      BY <1>1, NearestFound
    <2>2. r \in best /\ (r = nearest_entry \/ Closer(dataset, target, r, nearest_entry))
      BY <1>1, <2>1, NearestFound
    <2>3. r \in result'
      <3> DEFINE nearer == {s \in best : Closer(dataset, target, s, r)}
      <3>1. Cardinality(nearer) < 1 /\ (Cardinality(nearer) < k => r \in result')
        BY <1>1, <2>1, <2>2 DEF Nearest
      <3>2. IsFiniteSet(nearer)
        BY <1>4, FS_Subset
      <3> HIDE DEF nearer
      <3>3. Cardinality(nearer) \in Nat
        BY <3>2, FS_CardinalityType
      <3> QED BY <1>4, <1>7, <3>1, <3>3
    <2>4. ~Closer(dataset, target, entry_point, r)
      BY <1>2, <1>4, <2>2, CloserOrder
    <2> QED BY <2>3, <2>4
  <1>8. Cardinality(component) <= ef => result' = Nearest(dataset, target, component, k)
    BY <1>1, <1>3
  <1> QED BY <1>3, <1>5, <1>6, <1>7, <1>8 DEF component

(* A query is answered with rows of the layer-0 component its descent      *)
(* ended in: k of them, or all there are; its k nearest when the beam is   *)
(* as wide as the component; and, if it asks for any, with a row no        *)
(* farther than the entry point (hnsw.rs:147-181).                         *)
THEOREM AnswersAreHonest == Spec => AnswerIsHonest
  <1> DEFINE Honest == phase = "search" /\ phase' = "built" =>
       LET component == Search!Reachable({nearest_entry})
       IN  /\ result' \subseteq component
           /\ Cardinality(result') = MinOf(k, Cardinality(component))
           /\ Cardinality(component) <= ef
                => result' = Nearest(dataset, target, component, k)
           /\ k > 0 => \E r \in result' :
                ~Closer(dataset, target, entry_point, r)
  <1>1. IInv /\ [Next]_vars => [Honest]_vars
    <2> SUFFICES ASSUME IInv, Next, phase = "search", phase' = "built" PROVE Honest
      OBVIOUS
    <2>1. Answer
      BY DEF Next, Build, Descend, InsertFirst, InsertNext, GreedyMove, GreedyStop,
         CallLayer, SearchStep, Link, Prune, NextLayer, Inserted, Query
    <2> QED BY <2>1, AnswerOfQuery
  <1> QED BY <1>1, Invariance, PTL DEF Spec, AnswerIsHonest

-----------------------------------------------------------------------------
(* The edges of one layer.                                                 *)
EdgesOf(adj) == {{e[1], e[2]} : e \in {p \in Rows \X Rows : p[2] \in adj[p[1]]}}

Loopless(adj) == \A r \in Rows : r \notin adj[r]

(* An edge is a pair of rows, each of which lists the other.               *)
LEMMA EdgeOf ==
  ASSUME NEW adj \in Graphs, Reciprocal(adj)
  PROVE  /\ \A a, b \in Rows : {a, b} \in EdgesOf(adj) <=> b \in adj[a]
         /\ \A e \in EdgesOf(adj) : \E a, b \in Rows : e = {a, b} /\ b \in adj[a]
  <1>1. \A a, b \in Rows : b \in adj[a] => {a, b} \in EdgesOf(adj)
    <2> SUFFICES ASSUME NEW a \in Rows, NEW b \in Rows, b \in adj[a]
                 PROVE  {a, b} \in EdgesOf(adj)
      OBVIOUS
    <2>1. <<a, b>> \in {p \in Rows \X Rows : p[2] \in adj[p[1]]}
      OBVIOUS
    <2>2. {<<a, b>>[1], <<a, b>>[2]} = {a, b}
      OBVIOUS
    <2> QED BY <2>1, <2>2 DEF EdgesOf
  <1>2. \A e \in EdgesOf(adj) : \E a, b \in Rows : e = {a, b} /\ b \in adj[a]
    BY DEF EdgesOf
  <1>3. \A a, b \in Rows : {a, b} \in EdgesOf(adj) => b \in adj[a]
    <2> SUFFICES ASSUME NEW a \in Rows, NEW b \in Rows, {a, b} \in EdgesOf(adj)
                 PROVE  b \in adj[a]
      OBVIOUS
    <2>1. PICK c \in Rows, d \in Rows : {a, b} = {c, d} /\ d \in adj[c]
      BY <1>2
    <2>2. (a = c /\ b = d) \/ (a = d /\ b = c)
      BY <2>1
    <2> QED BY <2>1, <2>2 DEF Reciprocal
  <1> QED BY <1>1, <1>2, <1>3

(* The number of edges at a row is the length of its list.                 *)
LEMMA DegreeOf ==
  ASSUME NEW adj \in Graphs, Reciprocal(adj), Loopless(adj), NEW r \in Rows
  PROVE  Cardinality({e \in EdgesOf(adj) : r \in e}) = Cardinality(adj[r])
  <1> DEFINE E == {e \in EdgesOf(adj) : r \in e}
             f == [n \in adj[r] |-> {r, n}]
  <1>1. adj[r] \in SUBSET Rows /\ r \notin adj[r] /\ IsFiniteSet(adj[r])
    BY FiniteRows DEF Graphs, Loopless
  <1>2. f \in [adj[r] -> E]
    BY <1>1, EdgeOf
  <1>3. \A m, n \in adj[r] : f[m] = f[n] => m = n
    BY <1>1
  <1>4. \A e \in E : \E n \in adj[r] : f[n] = e
    <2> SUFFICES ASSUME NEW e \in E PROVE \E n \in adj[r] : e = {r, n}
      OBVIOUS
    <2>1. PICK a \in Rows, b \in Rows : e = {a, b} /\ b \in adj[a]
      BY EdgeOf
    <2>2. a \in adj[b] /\ (r = a \/ r = b)
      BY <2>1 DEF Reciprocal
    <2> QED BY <2>1, <2>2
  <1>5. ExistsBijection(adj[r], E)
    <2> HIDE DEF f, E
    <2>1. f \in Bijection(adj[r], E)
      BY <1>2, <1>3, <1>4 DEF Bijection, Injection, Surjection, IsInjective
    <2> QED BY <2>1 DEF ExistsBijection
  <1> HIDE DEF E
  <1>6. Cardinality(E) = Cardinality(adj[r])
    BY <1>1, <1>5, FS_Bijection
  <1> QED BY <1>6 DEF E

(* Linking adds the edges of the new row.                                  *)
LEMMA LinkedEdges ==
  ASSUME NEW adj \in Graphs, Reciprocal(adj), NEW new \in Rows, adj[new] = {},
         NEW selected \in SUBSET (Rows \ {new}), Linked(adj, new, selected) \in Graphs,
         Reciprocal(Linked(adj, new, selected))
  PROVE  EdgesOf(Linked(adj, new, selected)) = EdgesOf(adj) \cup {{new, n} : n \in selected}
  <1> DEFINE L == Linked(adj, new, selected)
  <1>1. \A a, b \in Rows : b \in L[a] <=>
          b \in adj[a] \/ (a = new /\ b \in selected) \/ (a \in selected /\ b = new)
    BY DEF Linked, Graphs
  <1> HIDE DEF L
  <1>2. L \in Graphs /\ Reciprocal(L)
    BY DEF L
  <1>3. ASSUME NEW e \in EdgesOf(L) PROVE e \in EdgesOf(adj) \cup {{new, n} : n \in selected}
    <2>1. PICK a \in Rows, b \in Rows : e = {a, b} /\ b \in L[a]
      BY <1>2, EdgeOf
    <2> QED BY <1>1, <2>1, EdgeOf
  <1>4. ASSUME NEW e \in EdgesOf(adj) PROVE e \in EdgesOf(L)
    <2>1. PICK a \in Rows, b \in Rows : e = {a, b} /\ b \in adj[a]
      BY EdgeOf
    <2> QED BY <1>1, <1>2, <2>1, EdgeOf
  <1>5. ASSUME NEW n \in selected PROVE {new, n} \in EdgesOf(L)
    BY <1>1, <1>2, EdgeOf
  <1> QED BY <1>3, <1>4, <1>5 DEF L

(* Pruning takes away the edge to the one row that is dropped.             *)
LEMMA PrunedEdges ==
  ASSUME NEW adj \in Graphs, Reciprocal(adj), Loopless(adj), NEW owner \in Rows,
         NEW kept \in SUBSET adj[owner],
         NEW x \in adj[owner], \A y \in adj[owner] : y \in kept <=> y # x,
         Pruned(adj, owner, kept) \in Graphs, Reciprocal(Pruned(adj, owner, kept))
  PROVE  EdgesOf(Pruned(adj, owner, kept)) = EdgesOf(adj) \ {{owner, x}}
  <1> DEFINE P == Pruned(adj, owner, kept)
  <1>1. x \in Rows /\ x # owner /\ owner \in adj[x] /\ \A r \in Rows : adj[r] \subseteq Rows
    BY DEF Graphs, Reciprocal, Loopless
  <1>2. \A a, b \in Rows : b \in P[a] <=> b \in adj[a] /\ {a, b} # {owner, x}
    <2> SUFFICES ASSUME NEW a \in Rows, NEW b \in Rows
                 PROVE  b \in P[a] <=> b \in adj[a] /\ {a, b} # {owner, x}
      OBVIOUS
    <2>1. {a, b} = {owner, x} <=> (a = owner /\ b = x) \/ (a = x /\ b = owner)
      OBVIOUS
    <2>2. CASE a = owner
      <3>1. P[a] = kept
        BY <2>2 DEF Pruned
      <3> QED BY <1>1, <2>1, <2>2, <3>1
    <2>3. CASE a # owner
      <3>1. a \in adj[owner] \ kept <=> a = x
        OBVIOUS
      <3>2. P[a] = IF a = x THEN adj[a] \ {owner} ELSE adj[a]
        BY <2>3, <3>1 DEF Pruned
      <3> QED BY <2>1, <2>3, <3>2
    <2> QED BY <2>2, <2>3
  <1> HIDE DEF P
  <1>3. P \in Graphs /\ Reciprocal(P)
    BY DEF P
  <1>4. ASSUME NEW e \in EdgesOf(P) PROVE e \in EdgesOf(adj) \ {{owner, x}}
    <2>1. PICK a \in Rows, b \in Rows : e = {a, b} /\ b \in P[a]
      BY <1>3, EdgeOf
    <2> QED BY <1>2, <2>1, EdgeOf
  <1>5. ASSUME NEW e \in EdgesOf(adj) \ {{owner, x}} PROVE e \in EdgesOf(P)
    <2>1. PICK a \in Rows, b \in Rows : e = {a, b} /\ b \in adj[a]
      BY EdgeOf
    <2> QED BY <1>2, <1>3, <1>5, <2>1, EdgeOf
  <1> QED BY <1>4, <1>5 DEF P

-----------------------------------------------------------------------------
(* Each layer against the bounded graph.                                   *)
LEMMA LayerEdges ==
  ASSUME IInv, NEW l \in Levels
  PROVE  /\ Edges(l) = EdgesOf(layers[l])
         /\ layers[l] \in Graphs /\ Reciprocal(layers[l]) /\ Loopless(layers[l])
         /\ Members(l) \subseteq Rows
  <1>1. layers[l] \in Graphs /\ Reciprocal(layers[l]) /\ Loopless(layers[l])
    BY Facts DEF Loopless
  <1>2. Members(l) \subseteq Rows
    BY MembersRows DEF IInv, MembersAre
  <1> QED BY <1>1, <1>2 DEF Edges, EdgesOf

(* A row is overfull in the abstract graph when its adjacency list is.     *)
LEMMA OverfullRow ==
  ASSUME IInv, NEW l \in Levels, NEW r \in Rows
  PROVE  Graph(l)!Overfull(r) <=> Cardinality(layers[l][r]) > M
  <1>1. \A S : Graph(l)!Cardinality(S) = Cardinality(S)
    BY Zenon DEF Graph!Cardinality, Cardinality
  <1>2. Graph(l)!LinksOf(r) = {e \in EdgesOf(layers[l]) : r \in e}
    BY LayerEdges DEF Graph!LinksOf
  <1>3. Graph(l)!Overfull(r) <=> Cardinality(Graph(l)!LinksOf(r)) > M
    BY Zenon, <1>1 DEF Graph!Overfull
  <1> QED BY <1>2, <1>3, LayerEdges, DegreeOf

(* A layer with nothing left to prune may take in a row.                   *)
LEMMA TakesIn ==
  ASSUME IInv, NEW l \in Levels, affected = {} \/ Members(l) = {},
         NEW r \in Rows, r \notin Members(l),
         NEW neighbors \in SUBSET Members(l), Cardinality(neighbors) <= M,
         Members(l)' = Members(l) \cup {r},
         Edges(l)' = Edges(l) \cup {{r, n} : n \in neighbors}
  PROVE  Graph(l)!Next
  <1>1. \A S : Graph(l)!Cardinality(S) = Cardinality(S)
    BY Zenon DEF Graph!Cardinality, Cardinality
  <1>2. \A other \in Members(l) : ~Graph(l)!Overfull(other)
    <2> SUFFICES ASSUME NEW other \in Members(l)
                 PROVE  ~(Cardinality(layers[l][other]) > M)
      BY LayerEdges, OverfullRow
    <2>1. /\ other \in Rows /\ M \in Nat
          /\ layers[l][other] \in SUBSET Rows
      BY LayerEdges, FiniteRows DEF Graphs
    <2>2. Cardinality(layers[l][other]) \in Nat
      BY <2>1, FiniteRows
    <2>3. Cardinality(layers[l][other]) <= M
      BY <2>1 DEF IInv, LayersSound
    <2> QED BY <2>1, <2>2, <2>3
  <1>3. Graph(l)!TakeIn(r, neighbors)
    BY <1>1, <1>2 DEF Graph!TakeIn
  <1> QED BY <1>3 DEF Graph!Next

LEMMA InitRefines == Init => \A l \in Levels : Graph(l)!Init
  <1> SUFFICES ASSUME Init, NEW l \in Levels PROVE Members(l) = {} /\ Edges(l) = {}
    BY DEF Graph!Init
  <1>1. Members(l) = {}
    BY DEF Init, Members, Linking
  <1>2. Edges(l) = {}
    BY DEF Init, Edges
  <1> QED BY <1>1, <1>2

(* The first row is taken in, without links, where its level reaches.      *)
LEMMA InsertFirstRefines ==
  ASSUME IInv, InsertFirst, NEW l \in Levels
  PROVE  UNCHANGED <<Members(l), Edges(l)>> \/ Graph(l)!Next
  <1>1. /\ phase = "insert" /\ row = 0 /\ row' = 1 /\ phase' \in {"insert", "built"}
        /\ UNCHANGED layers /\ affected = {}
    BY DEF InsertFirst, IInv, TypeOK
  <1>2. Members(l) = {} /\ Edges(l)' = Edges(l)
    BY <1>1 DEF Members, Linking, Edges
  <1>3. Members(l)' = {r \in {0} : levels'[r] >= l}
    <2>1. 0 .. row' - 1 = {0}
      BY <1>1
    <2>2. ~Linking(l)'
      BY <1>1 DEF Linking
    <2> QED BY <2>1, <2>2 DEF Members
  <1>4. CASE levels'[0] >= l
    <2>1. Members(l)' = Members(l) \cup {0}
      BY <1>2, <1>3, <1>4
    <2>2. Cardinality({}) <= M /\ 0 \in Rows
      BY FS_EmptySet, FiniteRows
    <2>3. Edges(l)' = Edges(l) \cup {{0, n} : n \in {}}
      BY <1>2
    <2> QED BY <1>1, <1>2, <2>1, <2>2, <2>3, TakesIn
  <1>5. CASE ~(levels'[0] >= l)
    BY <1>2, <1>3, <1>5
  <1> QED BY <1>4, <1>5

(* A later row is taken in by a layer when it is linked there.             *)
LEMMA LinkRefines ==
  ASSUME IInv, Link, NEW l \in Levels
  PROVE  UNCHANGED <<Members(l), Edges(l)>> \/ Graph(l)!Next
  <1> DEFINE selected == Nearest(dataset, target, best, M)
             adj == Linked(Layer, row, selected)
  <1>1. /\ phase = "search" /\ phase' = "prune" /\ row < N
        /\ layers' = [layers EXCEPT ![current_level] = adj]
        /\ UNCHANGED <<levels, top_level, row, current_level>>
    BY LinkStep
  <1>2. /\ row \in Rows /\ row \in Nat /\ affected = {} /\ Layer[row] = {}
        /\ current_level <= levels[row] /\ current_level <= top_level
        /\ current_level \in Levels /\ current_level \in Nat
    BY <1>1, FoundRows, Facts, FiniteRows
  <1>3. /\ selected \in SUBSET (Rows \ {row})
        /\ \A r \in selected : r < row /\ levels[r] >= current_level
        /\ Cardinality(selected) <= M
        /\ \A r \in Rows : Cardinality(Layer[r]) <= M
    BY <1>1, SelectedRows
  <1> HIDE DEF selected
  <1>4. adj \in Graphs /\ Reciprocal(adj) /\ Layer \in Graphs /\ Reciprocal(Layer)
    BY <1>2, <1>3, Facts, LinkedGraph DEF Layer
  <1>5. layers'[current_level] = adj
        /\ \A level \in Levels : level # current_level => layers'[level] = layers[level]
    BY <1>1, <1>2, Facts
  <1> HIDE DEF adj
  <1>6. CASE l # current_level
    <2>1. Linking(l)' <=> Linking(l)
      BY <1>1, <1>6 DEF Linking
    <2>2. Members(l)' = Members(l)
      BY <1>1, <2>1 DEF Members
    <2>3. Edges(l)' = Edges(l)
      BY <1>5, <1>6 DEF Edges
    <2> QED BY <2>2, <2>3
  <1>7. CASE l = current_level
    <2>1. ~Linking(l) /\ Linking(l)'
      <3>1. ~(current_level < current_level)
        BY <1>2
      <3>2. current_level <= MinOf(levels[row], top_level)
        BY <1>2 DEF MinOf
      <3> QED BY <1>1, <1>7, <3>1, <3>2 DEF Linking
    <2>2. Members(l) = {r \in 0 .. row - 1 : levels[r] >= l} /\ Members(l)' = Members(l) \cup {row}
      BY <1>1, <2>1 DEF Members
    <2>3. row \notin Members(l)
      BY <1>2, <2>2
    <2>4. selected \in SUBSET Members(l)
      <3>1. \A r \in selected : r \in 0 .. row - 1
        BY <1>2, <1>3, FiniteRows
      <3> QED BY <1>3, <1>7, <2>2, <3>1
    <2>5. Edges(l)' = Edges(l) \cup {{row, n} : n \in selected}
      <3>1. Edges(l)' = EdgesOf(adj) /\ Edges(l) = EdgesOf(Layer)
        BY <1>5, <1>7 DEF Edges, EdgesOf, Layer
      <3>2. EdgesOf(adj) = EdgesOf(Layer) \cup {{row, n} : n \in selected}
        BY <1>2, <1>3, <1>4, LinkedEdges DEF adj
      <3> QED BY <3>1, <3>2
    <2> QED BY <1>2, <1>3, <2>2, <2>3, <2>4, <2>5, TakesIn
  <1> QED BY <1>6, <1>7

(* A row that drops a link is one over the limit and drops no other.       *)
LEMMA DroppedRow ==
  ASSUME IInv, NEW owner \in Rows, owner \in affected,
         NEW x \in Layer[owner] \ Kept(owner)
  PROVE  /\ Cardinality(Layer[owner]) > M
         /\ \A y \in Layer[owner] \ Kept(owner) : y = x
  <1> DEFINE A == Layer[owner]
             K == Nearest(dataset, dataset[owner], A, M)
  <1>1. /\ A \in SUBSET Rows /\ IsFiniteSet(A) /\ Cardinality(A) \in Nat
        /\ M \in Nat /\ dataset[owner] \in Vector
        /\ dataset \in [Rows -> Vector] /\ Rows \in SUBSET Nat
    BY KeptRows, Facts, FiniteRows
  <1>2. Cardinality(A) <= M + 1
    BY Facts DEF IInv, LayersSound, Layer
  <1>3. Kept(owner) = K
    BY DEF Kept
  <1> HIDE DEF A
  <1>4. ~(Cardinality(A) <= M)
    <2>1. Cardinality(A) <= M => K = A
      BY <1>1, NearestAll
    <2> QED BY <1>3, <2>1 DEF A
  <1>5. \A y \in A \ K : y = x
    <2>1. x \in A \ K
      BY <1>3 DEF A
    <2> QED BY <1>1, <1>2, <2>1, NearestDropsOne
  <1> QED BY <1>1, <1>3, <1>4, <1>5 DEF A

(* Pruning a row drops one link of its layer, or none.                     *)
LEMMA PruneRefines ==
  ASSUME IInv, NEW owner \in Rows, Prune(owner), NEW l \in Levels
  PROVE  UNCHANGED <<Members(l), Edges(l)>> \/ Graph(l)!Next
  <1> DEFINE kept == Kept(owner)
             adj == Pruned(Layer, owner, kept)
  <1>1. /\ owner \in affected /\ layers' = [layers EXCEPT ![current_level] = adj]
        /\ UNCHANGED <<levels, top_level, row, current_level, phase>>
    BY PruneStep DEF descentVars
  <1>2. Members(l)' = Members(l)
    BY <1>1 DEF Members, Linking
  <1>3. /\ kept \in SUBSET Layer[owner] /\ Cardinality(kept) <= M
        /\ owner \notin Layer[owner]
    BY KeptRows
  <1>4. /\ layers'[current_level] = adj /\ current_level \in Levels
        /\ \A level \in Levels : level # current_level => layers'[level] = layers[level]
    BY <1>1, Facts
  <1>5. \A x, y \in Layer[owner] \ kept : Cardinality(Layer[owner]) > M /\ y = x
    BY <1>1, DroppedRow
  <1> HIDE DEF kept
  <1>6. adj \in Graphs /\ Reciprocal(adj)
        /\ Layer \in Graphs /\ Reciprocal(Layer) /\ Loopless(Layer)
    BY <1>3, Facts, PrunedGraph DEF Layer, Loopless
  <1>7. l # current_level \/ kept = Layer[owner] => Edges(l)' = Edges(l)
    <2>1. CASE l # current_level
      BY <1>4, <2>1 DEF Edges
    <2>2. CASE l = current_level /\ kept = Layer[owner]
      <3>1. adj = Layer
        BY <1>6, <2>2 DEF Pruned, Graphs
      <3>2. layers'[l] = layers[l]
        BY <1>4, <2>2, <3>1 DEF Layer
      <3> QED BY <3>2 DEF Edges
    <2> QED BY <2>1, <2>2
  <1>8. CASE l = current_level /\ kept # Layer[owner]
    <2>1. PICK x \in Layer[owner] : x \notin kept
      BY <1>3, <1>8
    <2>2. \A y \in Layer[owner] : y \in kept <=> y # x
      BY <1>5, <2>1
    <2>3. x \in Rows /\ {owner, x} \in EdgesOf(Layer)
      <3>1. x \in Rows
        BY <1>6, <2>1 DEF Graphs
      <3> QED BY <1>6, <2>1, <3>1, EdgeOf
    <2>4. EdgesOf(adj) = EdgesOf(Layer) \ {{owner, x}}
      BY <1>3, <1>6, <2>1, <2>2, PrunedEdges
    <2>5. Edges(l)' = EdgesOf(adj) /\ Edges(l) = EdgesOf(Layer)
      BY <1>4, <1>8 DEF Edges, EdgesOf, Layer
    <2>6. Graph(l)!Overfull(owner)
      <3>1. Cardinality(layers[l][owner]) > M
        BY <1>5, <1>8, <2>1 DEF Layer
      <3> QED BY <3>1, OverfullRow
    <2> HIDE DEF adj
    <2>7. Graph(l)!Drop(owner, {owner, x})
      BY <1>2, <2>3, <2>4, <2>5, <2>6 DEF Graph!Drop, Graph!LinksOf
    <2> QED BY <2>3, <2>5, <2>7 DEF Graph!Next
  <1> QED BY <1>2, <1>7, <1>8

(* A row that reaches higher than all before is taken in, alone, by the    *)
(* layers it adds; the others have it already.                             *)
LEMMA InsertedRefines ==
  ASSUME IInv, Inserted, NEW l \in Levels
  PROVE  UNCHANGED <<Members(l), Edges(l)>> \/ Graph(l)!Next
  <1>1. /\ phase = "prune" /\ phase' \in {"insert", "built"} /\ affected = {}
        /\ current_level = 0 /\ row' = row + 1 /\ UNCHANGED <<layers, levels>>
    BY DEF Inserted
  <1>2. /\ row < N /\ row \in Rows /\ row \in Nat /\ l \in Nat
        /\ levels[row] \in Nat /\ top_level \in Nat
    BY <1>1, Facts, FiniteRows DEF IInv, Descent
  <1>3. Edges(l)' = Edges(l)
    BY <1>1 DEF Edges
  <1>4. Members(l)' = {r \in 0 .. row : levels[r] >= l}
    <2>1. ~Linking(l)' /\ row' - 1 = row
      <3>1. row' = row + 1 /\ row \in Nat
        BY <1>1, <1>2
      <3>2. row' - 1 = row
        BY <3>1
      <3> QED BY <1>1, <3>2 DEF Linking
    <2> QED BY <1>1, <2>1 DEF Members
  <1>5. Linking(l) <=> l <= levels[row] /\ l <= top_level
    BY <1>1, <1>2 DEF Linking, MinOf
  <1>6. \A r : r \in 0 .. row <=> r \in 0 .. row - 1 \/ r = row
    BY <1>2
  <1>7. CASE l <= levels[row] /\ ~(l <= top_level)
    <2>1. Members(l) = {}
      <3>1. \A r \in 0 .. row - 1 : levels[r] <= top_level /\ levels[r] \in Nat
        <4>1. \A r \in 0 .. row - 1 : r \in Rows
          BY <1>2, FiniteRows
        <4> QED BY <4>1, Facts DEF IInv, TypeOK, EntryLeads
      <3>2. \A r \in 0 .. row - 1 : ~(levels[r] >= l)
        BY <1>2, <1>7, <3>1
      <3> QED BY <1>5, <1>7, <3>2 DEF Members
    <2>2. Members(l)' = {row}
      <3>1. {r \in 0 .. row - 1 : levels[r] >= l} = {}
        BY <2>1 DEF Members
      <3> QED BY <1>2, <1>4, <1>6, <1>7, <3>1
    <2>3. Cardinality({}) <= M
      BY FS_EmptySet, FiniteRows
    <2>4. Edges(l)' = Edges(l) \cup {{row, n} : n \in {}}
      BY <1>3
    <2> QED BY <1>1, <1>2, <2>1, <2>2, <2>3, <2>4, TakesIn
  <1>8. CASE ~(l <= levels[row] /\ ~(l <= top_level))
    <2>1. levels[row] >= l <=> Linking(l)
      BY <1>2, <1>5, <1>8
    <2>2. Members(l)' = Members(l)
      BY <1>4, <1>6, <2>1 DEF Members
    <2> QED BY <1>3, <2>2
  <1> QED BY <1>7, <1>8

(* The other steps leave the layers as they are.                           *)
LEMMA OthersRefine ==
  ASSUME IInv, NEW l \in Levels,
         \/ InsertNext \/ GreedyStop \/ CallLayer \/ SearchStep \/ NextLayer
         \/ Query \/ Answer \/ (\E r \in Rows : GreedyMove(r)) \/ UNCHANGED vars
  PROVE  UNCHANGED <<Members(l), Edges(l)>>
  <1> USE DEF vars, indexVars, descentVars
  <1>1. UNCHANGED <<layers, row>>
    BY DEF InsertNext, GreedyStop, CallLayer, SearchStep, NextLayer, Query, Answer,
       GreedyMove
  <1>2. \A r \in 0 .. row - 1 : levels'[r] = levels[r]
    <2>1. CASE InsertNext
      <3>1. PICK level \in Levels : levels' = [levels EXCEPT ![row] = level]
        BY <2>1 DEF InsertNext
      <3>2. row \in Nat /\ levels \in [Rows -> Levels] /\ row <= N
        BY Facts
      <3>3. \A r \in 0 .. row - 1 : r \in Rows /\ r # row
        BY <3>2, FiniteRows
      <3> QED BY <3>1, <3>2, <3>3
    <2>2. CASE ~InsertNext
      BY <2>2 DEF GreedyStop, CallLayer, SearchStep, NextLayer, Query, Answer, GreedyMove
    <2> QED BY <2>1, <2>2
  <1>3. Linking(l)' <=> Linking(l)
    <2>1. CASE GreedyStop
      <3>1. /\ current_level \in Nat /\ l \in Nat /\ top_level \in Nat
            /\ row \in Nat /\ N \in Nat
        BY Facts, FiniteRows
      <3>2. row < N => row # N /\ row \in Rows
        BY <3>1, FiniteRows
      <3>3. row < N => levels[row] \in Nat
        BY <3>2, Facts
      <3> QED BY <2>1, <3>1, <3>2, <3>3 DEF GreedyStop, Linking, Floor, MinOf
    <2>2. CASE NextLayer
      <3>1. current_level \in Nat /\ l \in Nat
        BY Facts, FiniteRows
      <3> QED BY <2>2, <3>1 DEF NextLayer, Linking
    <2>3. CASE InsertNext
      <3>1. top_level \in Nat /\ l \in Nat /\ row \in Rows
        BY <2>3, Facts, FiniteRows DEF InsertNext, IInv, Descent
      <3>2. levels'[row] \in Nat
        <4>1. PICK level \in Levels : levels' = [levels EXCEPT ![row] = level]
          BY <2>3 DEF InsertNext
        <4> QED BY <3>1, <4>1, Facts, FiniteRows
      <3>3. l <= MinOf(levels'[row], top_level) => ~(top_level < l)
        BY <3>2, <3>1 DEF MinOf
      <3> QED BY <2>3, <3>1, <3>3 DEF InsertNext, Linking
    <2>4. CASE Query \/ Answer
      <3>1. row = N /\ row \in Nat
        BY <2>4, Facts DEF Query, Answer, IInv, TypeOK
      <3> QED BY <1>1, <3>1 DEF Linking
    <2>5. CASE CallLayer \/ SearchStep \/ (\E r \in Rows : GreedyMove(r)) \/ UNCHANGED vars
      BY <2>5 DEF CallLayer, SearchStep, GreedyMove, Linking
    <2> QED BY <2>1, <2>2, <2>3, <2>4, <2>5
  <1> QED BY <1>1, <1>2, <1>3 DEF Members, Edges

(* Every layer is built as the bounded graph says: it takes its rows in    *)
(* one by one, linked to at most M rows it has, and only a row over the    *)
(* limit loses a link, one at a time (hnsw.rs:50-131).                     *)
THEOREM LayersImplementBoundedGraph == Spec => LayersBounded
  <1> DEFINE Bounded == \A l \in Levels : UNCHANGED <<Members(l), Edges(l)>> \/ Graph(l)!Next
  <1>1. IInv /\ [Next]_vars => [Bounded]_vars
    <2> SUFFICES ASSUME IInv, [Next]_vars, NEW l \in Levels
                 PROVE  UNCHANGED <<Members(l), Edges(l)>> \/ Graph(l)!Next
      OBVIOUS
    <2> QED BY InsertFirstRefines, LinkRefines, PruneRefines, InsertedRefines, OthersRefine
            DEF Next, Build, Descend
  <1> QED BY <1>1, InitRefines, Invariance, PTL DEF Spec, LayersBounded
=============================================================================
