------------------------- MODULE GraphSearchProofs -------------------------
(***************************************************************************)
(* search_layer keeps the types of its locals and the promise of its walk  *)
(* whoever calls it, which the two graph indexes rest on, and what it      *)
(* returns to any caller, from any graph, of any number of rows and under  *)
(* any metric.                                                             *)
(***************************************************************************)
EXTENDS GraphSearch, NeighborOrderProofs

(* Every set of rows is finite.                                            *)
LEMMA RowsFinite ==
  /\ Rows \in SUBSET Nat /\ 0 \in Rows /\ N \in Nat
  /\ \A S \in SUBSET Rows : IsFiniteSet(S) /\ Cardinality(S) \in Nat
  <1>1. IsFiniteSet(Rows)
    BY NAssumption, FS_Interval DEF Rows
  <1>2. \A S \in SUBSET Rows : IsFiniteSet(S)
    BY <1>1, FS_Subset
  <1> QED BY <1>2, NAssumption, FS_CardinalityType DEF Rows

LEMMA AllowedRows == allowed_rows \in 0 .. N => Allowed \subseteq Rows
  BY NAssumption DEF Allowed, Rows

(* NoSearch has the types.                                                 *)
LEMMA NoSearchLocals ==
  ASSUME dataset \in [Rows -> Vector], adjacency \in [Rows -> SUBSET Rows], NoSearch
  PROVE  LocalsOK
  BY RowsFinite, FS_EmptySet DEF LocalsOK, NoSearch, Allowed

(* A call that passes rows and a width sets the locals up.                 *)
LEMMA CallLocals ==
  ASSUME LocalsOK,
         NEW q \in Vector, NEW entries \in SUBSET Rows, NEW width \in Nat,
         NEW allowed \in 0 .. N,
         Call(q, entries, width, allowed), UNCHANGED adjacency
  PROVE  LocalsOK' /\ search' = "expand"
  <1> DEFINE seeds == {e \in entries : e < allowed}
             cap   == MinOf(MaxOf(width, 1), allowed)
  <1>1. cap \in 0 .. N
    BY NAssumption DEF MinOf, MaxOf
  <1>2. seeds \in SUBSET Rows /\ IsFiniteSet(seeds) /\ cap \in Nat
    <2>1. seeds \in SUBSET Rows
      OBVIOUS
    <2>2. IsFiniteSet(seeds)
      <3> HIDE DEF seeds
      <3> QED BY <2>1, RowsFinite
    <2>3. cap \in Nat
      <3> HIDE DEF cap
      <3> QED BY <1>1, NAssumption
    <2> QED BY <2>1, <2>2, <2>3
  <1>3. /\ Nearest(dataset, q, seeds, cap) \subseteq seeds
        /\ Cardinality(Nearest(dataset, q, seeds, cap)) <= cap
    <2> HIDE DEF cap, seeds
    <2> QED BY <1>2, RowsFinite, NearestBound DEF LocalsOK
  <1>4. seeds \subseteq 0 .. allowed - 1
    <2>1. \A e \in seeds : e \in Nat /\ e < allowed
      BY RowsFinite
    <2>2. allowed \in Nat
      BY NAssumption
    <2> HIDE DEF seeds
    <2> QED BY <2>1, <2>2
  <1>5. /\ visited' = seeds /\ candidates' = seeds /\ ef' = cap
        /\ best' = Nearest(dataset, q, seeds, cap)
        /\ query' = q /\ entry_points' = entries /\ allowed_rows' = allowed
        /\ search' = "expand" /\ UNCHANGED <<dataset, current, pending>>
    BY DEF Call
  <1> HIDE DEF cap, seeds
  <1> QED BY <1>1, <1>3, <1>4, <1>5 DEF LocalsOK, Allowed, Rows

(* A step of the search keeps the types, the graph and the arguments, and  *)
(* is taken only while the search is active.                               *)
LEMMA StepLocals ==
  ASSUME LocalsOK, Step
  PROVE  /\ LocalsOK'
         /\ UNCHANGED <<graphVars, callVars>>
         /\ search # "idle" /\ search' # "idle"
  <1> USE DEF LocalsOK, Allowed, Rows, graphVars, callVars
  <1>1. ASSUME NEW r \in Rows, Expand(r)
        PROVE  /\ LocalsOK' /\ UNCHANGED <<graphVars, callVars>>
               /\ search # "idle" /\ search' # "idle"
    BY <1>1 DEF Expand, Frontmost
  <1>2. ASSUME NEW r \in Rows, Break(r)
        PROVE  /\ LocalsOK' /\ UNCHANGED <<graphVars, callVars>>
               /\ search # "idle" /\ search' # "idle"
    BY <1>2 DEF Break
  <1>3. ASSUME NEW r \in Rows, VisitNeighbor(r)
        PROVE  /\ LocalsOK' /\ UNCHANGED <<graphVars, callVars>>
               /\ search # "idle" /\ search' # "idle"
    <2>1. /\ PushTopK(dataset, query, ef, best, r) \subseteq best \cup {r}
          /\ Cardinality(PushTopK(dataset, query, ef, best, r)) <= ef
      <3>1. best \in SUBSET Rows
        BY AllowedRows
      <3>2. IsFiniteSet(best) /\ Rows \in SUBSET Nat
        BY <3>1, RowsFinite
      <3>3. ef \in Nat
        BY NAssumption
      <3> QED BY <3>1, <3>2, <3>3, PushTopKBound
    <2>2. /\ visited' \subseteq Allowed /\ candidates' \subseteq visited'
          /\ best' \subseteq visited' /\ Cardinality(best') <= ef
      BY <1>3, <2>1 DEF VisitNeighbor
    <2> QED BY <1>3, <2>2 DEF VisitNeighbor
  <1>4. ASSUME Exhaust
        PROVE  /\ LocalsOK' /\ UNCHANGED <<graphVars, callVars>>
               /\ search # "idle" /\ search' # "idle"
    BY <1>4 DEF Exhaust
  <1>5. ASSUME NextCandidate
        PROVE  /\ LocalsOK' /\ UNCHANGED <<graphVars, callVars>>
               /\ search # "idle" /\ search' # "idle"
    BY <1>5 DEF NextCandidate
  <1> QED BY <1>1, <1>2, <1>3, <1>4, <1>5 DEF Step

(* The return clears the locals, whatever graph its caller leaves.         *)
LEMMA ReturnLocals ==
  ASSUME LocalsOK, Return, adjacency' \in [Rows -> SUBSET Rows]
  PROVE  LocalsOK' /\ search = "done" /\ search' = "idle"
  BY RowsFinite, FS_EmptySet DEF LocalsOK, Return, Allowed

-----------------------------------------------------------------------------
(* What a search has done so far.  The beam is the nearest of the rows     *)
(* seen; the search has seen its entries and only rows they reach; of a    *)
(* row that stays in the beam but is no candidate any more all neighbours  *)
(* have been seen, except the pending ones of the row being expanded; and  *)
(* when the search ends no candidate is left in the beam, whether the      *)
(* candidates ran out or the loop broke off.                               *)
Walk ==
  search # "idle" =>
    /\ best = Nearest(dataset, query, visited, ef)
    /\ entry_points \cap Allowed \subseteq visited
    /\ visited \subseteq Reachable(entry_points)
    /\ search = "visit" => current \in visited /\ pending \subseteq adjacency[current]
    /\ \A r \in best \ candidates : \A s \in adjacency[r] \cap Allowed :
         s \in visited \/ (search = "visit" /\ r = current /\ s \in pending)
    /\ search = "done" => best \cap candidates = {}

(* Rows the entries reach are linked only to such rows.                    *)
LEMMA ReachableClosed ==
  ASSUME NEW entries, NEW r \in Reachable(entries), NEW s \in adjacency[r] \cap Allowed
  PROVE  s \in Reachable(entries)
  BY DEF Reachable, ClosedUnderLinks

LEMMA CallWalk ==
  ASSUME LocalsOK,
         NEW q \in Vector, NEW entries \in SUBSET Rows, NEW width \in Nat,
         NEW allowed \in 0 .. N,
         Call(q, entries, width, allowed), UNCHANGED adjacency
  PROVE  Walk'
  <1> DEFINE seeds == {e \in entries : e < allowed}
             cap   == MinOf(MaxOf(width, 1), allowed)
  <1>1. /\ visited' = seeds /\ candidates' = seeds /\ ef' = cap
        /\ best' = Nearest(dataset, q, seeds, cap)
        /\ query' = q /\ entry_points' = entries /\ allowed_rows' = allowed
        /\ search' = "expand" /\ UNCHANGED dataset
    BY DEF Call
  <1>2. seeds = entries \cap Allowed'
    <2>1. \A e \in entries : e \in Nat
      BY RowsFinite
    <2>2. \A e \in entries : e < allowed <=> e \in 0 .. allowed - 1
      BY <2>1, NAssumption
    <2> QED BY <1>1, <2>2 DEF Allowed
  <1>3. best' \subseteq seeds
    <2> HIDE DEF seeds, cap
    <2> QED BY <1>1 DEF Nearest
  <1>4. seeds \subseteq Reachable(entries)'
    <2> HIDE DEF seeds
    <2> QED BY <1>2 DEF Reachable
  <1> HIDE DEF seeds, cap
  <1> QED BY <1>1, <1>2, <1>3, <1>4 DEF Walk

(* The steps that look at no row.                                          *)
LEMMA TurnWalk ==
  ASSUME LocalsOK, Walk,
         (\E r \in Rows : Expand(r) \/ Break(r)) \/ Exhaust \/ NextCandidate
  PROVE  Walk'
  <1>1. /\ search \in {"expand", "visit"}
        /\ UNCHANGED <<dataset, adjacency, query, entry_points, ef, allowed_rows,
                       visited, best>>
    BY DEF Expand, Break, Exhaust, NextCandidate, graphVars, callVars
  <1>2. /\ best' = Nearest(dataset, query, visited, ef)'
        /\ (entry_points \cap Allowed)' \subseteq visited'
        /\ visited' \subseteq Reachable(entry_points)'
    BY <1>1 DEF Walk, Allowed, Reachable, ClosedUnderLinks
  <1>3. \A r \in best \ candidates : \A s \in adjacency[r] \cap Allowed :
          s \in visited \/ (search = "visit" /\ r = current /\ s \in pending)
    BY <1>1 DEF Walk
  <1>4. CASE \E r \in Rows : Expand(r)
    <2>1. PICK r \in Rows : Expand(r)
      BY <1>4
    <2>2. /\ r \in visited /\ candidates' = candidates \ {r} /\ current' = r
          /\ pending' = adjacency[r] /\ search = "expand" /\ search' = "visit"
      BY <2>1 DEF Expand, Frontmost, LocalsOK
    <2> QED BY <1>1, <1>2, <1>3, <2>2 DEF Walk, Allowed
  <1>5. CASE \E r \in Rows : Break(r)
    <2>1. PICK r \in Rows : Break(r)
      BY <1>5
    <2>2. \A b \in best : b \notin candidates
      <3>1. ASSUME NEW b \in best, b \in candidates PROVE FALSE
        <4>1. Closer(dataset, query, b, r)
          BY <2>1 DEF Break, BeyondBeam
        <4>2. b = r \/ Closer(dataset, query, r, b)
          BY <2>1, <3>1 DEF Break, Frontmost
        <4>3. /\ b \in Rows /\ Rows \in SUBSET Nat
              /\ dataset \in [Rows -> Vector] /\ query \in Vector
          BY AllowedRows, RowsFinite DEF LocalsOK
        <4> QED BY <4>1, <4>2, <4>3, CloserOrder
      <3> QED BY <3>1
    <2>3. candidates' = candidates \ {r} /\ search = "expand" /\ search' = "done"
      BY <2>1 DEF Break
    <2> QED BY <1>1, <1>2, <1>3, <2>2, <2>3 DEF Walk, Allowed
  <1>6. CASE Exhaust
    BY <1>1, <1>2, <1>3, <1>6 DEF Walk, Allowed, Exhaust
  <1>7. CASE NextCandidate
    BY <1>1, <1>2, <1>3, <1>7 DEF Walk, Allowed, NextCandidate
  <1> QED BY <1>4, <1>5, <1>6, <1>7

LEMMA VisitWalk ==
  ASSUME LocalsOK, Walk, NEW row \in Rows, VisitNeighbor(row)
  PROVE  Walk'
  <1>1. /\ search = "visit" /\ search' = "visit" /\ row \in pending
        /\ pending' = pending \ {row}
        /\ UNCHANGED <<dataset, adjacency, query, entry_points, ef, allowed_rows, current>>
    BY DEF VisitNeighbor, graphVars, callVars
  <1>2. /\ best = Nearest(dataset, query, visited, ef)
        /\ entry_points \cap Allowed \subseteq visited
        /\ visited \subseteq Reachable(entry_points)
        /\ current \in visited /\ pending \subseteq adjacency[current]
        /\ \A r \in best \ candidates : \A s \in adjacency[r] \cap Allowed :
             s \in visited \/ (r = current /\ s \in pending)
    BY <1>1 DEF Walk
  <1>3. Allowed' = Allowed /\ Reachable(entry_points)' = Reachable(entry_points)
    BY <1>1 DEF Allowed, Reachable, ClosedUnderLinks
  <1>4. CASE row \notin Allowed \ visited
    <2>1. UNCHANGED <<visited, candidates, best>>
      BY <1>4 DEF VisitNeighbor
    <2> QED BY <1>1, <1>2, <1>3, <1>4, <2>1 DEF Walk
  <1>5. CASE row \in Allowed \ visited
    <2>1. visited' = visited \cup {row}
      BY <1>5 DEF VisitNeighbor
    <2>2. /\ Rows \in SUBSET Nat /\ dataset \in [Rows -> Vector] /\ query \in Vector
          /\ visited \in SUBSET Rows /\ IsFiniteSet(visited) /\ ef \in Nat
          /\ row \in Rows \ visited
      BY <1>5, RowsFinite, AllowedRows, NAssumption DEF LocalsOK
    <2>3. /\ best' = Nearest(dataset, query, visited \cup {row}, ef)
          /\ \A r \in best' \ candidates' : r \in best \ candidates
      <3>1. CASE Admissible(row)
        <4>1. candidates' = candidates \cup {row}
              /\ best' = PushTopK(dataset, query, ef, best, row)
          BY <1>5, <3>1 DEF VisitNeighbor
        <4>2. best' \subseteq best \cup {row}
          BY <4>1 DEF PushTopK
        <4> QED BY <1>2, <2>2, <4>1, <4>2, PushKeepsNearest
      <3>2. CASE ~Admissible(row)
        <4>1. UNCHANGED <<candidates, best>>
          BY <1>5, <3>2 DEF VisitNeighbor
        <4>2. /\ ~(Cardinality(best) < ef)
              /\ \A b \in best : ~Closer(dataset, query, row, b)
          BY <3>2 DEF Admissible
        <4> QED BY <1>2, <2>2, <4>1, <4>2, SkipKeepsNearest
      <3> QED BY <3>1, <3>2
    <2>4. row \in Reachable(entry_points)
      BY <1>1, <1>2, <1>5, ReachableClosed
    <2> QED BY <1>1, <1>2, <1>3, <2>1, <2>3, <2>4 DEF Walk
  <1> QED BY <1>4, <1>5

LEMMA StepWalk ==
  ASSUME LocalsOK, Walk, Step
  PROVE  Walk'
  BY TurnWalk, VisitWalk DEF Step

-----------------------------------------------------------------------------
(* What a search that has ended returns, from any graph.                   *)

(* Where the beam was wide enough for what was seen it has seen all that   *)
(* the entries reach.                                                      *)
LEMMA DoneAll ==
  ASSUME LocalsOK, Walk, search = "done", best = visited
  PROVE  best = Reachable(entry_points)
  <1>1. ClosedUnderLinks(visited) /\ visited \in SUBSET Allowed
    BY DEF Walk, ClosedUnderLinks, LocalsOK
  <1>2. Reachable(entry_points) \subseteq visited
    BY <1>1 DEF Walk, Reachable
  <1> QED BY <1>2 DEF Walk

(* The beam is all the entries reach, or it is full.                       *)
LEMMA DoneFull ==
  ASSUME LocalsOK, Walk, search = "done"
  PROVE  /\ best \subseteq Reachable(entry_points)
         /\ Reachable(entry_points) \in SUBSET Rows
         /\ best = Reachable(entry_points) \/ Cardinality(best) = ef
         /\ Cardinality(Reachable(entry_points)) <= ef => best = Reachable(entry_points)
  <1>1. /\ Rows \in SUBSET Nat /\ dataset \in [Rows -> Vector] /\ query \in Vector
        /\ visited \in SUBSET Rows /\ IsFiniteSet(visited) /\ ef \in Nat
        /\ Allowed \subseteq Rows
    BY RowsFinite, AllowedRows, NAssumption DEF LocalsOK
  <1>2. Reachable(entry_points) \in SUBSET Rows /\ visited \subseteq Reachable(entry_points)
    BY <1>1 DEF Reachable, Walk
  <1>3. best = visited \/ Cardinality(best) = ef
    BY <1>1, NearestKeepsK DEF Walk
  <1>4. ASSUME Cardinality(Reachable(entry_points)) <= ef
        PROVE  best = visited
    <2>1. IsFiniteSet(Reachable(entry_points)) /\ Cardinality(Reachable(entry_points)) \in Nat
      BY <1>2, RowsFinite
    <2>2. Cardinality(visited) <= Cardinality(Reachable(entry_points))
      BY <1>2, <2>1, FS_Subset
    <2>3. Cardinality(visited) <= ef
      BY <1>1, <1>4, <2>1, <2>2, FS_CardinalityType
    <2> QED BY <1>1, <2>3, NearestAll DEF Walk
  <1>5. best \subseteq visited
    BY DEF LocalsOK
  <1> QED BY <1>2, <1>3, <1>4, <1>5, DoneAll

-----------------------------------------------------------------------------
(* The inductive invariant: the locals' types and what a search has done.  *)
CallsInv == LocalsOK /\ Walk

LEMMA CallsInitInv == CallsInit => CallsInv
  <1> SUFFICES ASSUME CallsInit PROVE CallsInv
    OBVIOUS
  <1>1. adjacency \in [Rows -> SUBSET Rows]
    BY DEF CallsInit, LinkGraphs
  <1>2. LocalsOK
    BY <1>1, NoSearchLocals DEF CallsInit
  <1>3. Walk
    BY DEF CallsInit, NoSearch, Walk
  <1> QED BY <1>2, <1>3 DEF CallsInv

LEMMA CallsNextInv == CallsInv /\ [CallsNext]_vars => CallsInv'
  <1> SUFFICES ASSUME CallsInv, [CallsNext]_vars PROVE CallsInv'
    OBVIOUS
  <1> USE DEF CallsInv
  <1>1. CASE Begin
    <2>1. PICK q \in Queries, entries \in Entries, width \in Widths, allowed \in 0 .. N :
            Call(q, entries, width, allowed)
      BY <1>1 DEF Begin
    <2>2. q \in Vector /\ entries \in SUBSET Rows /\ width \in Nat /\ UNCHANGED adjacency
      BY <1>1, CallAssumption DEF Begin
    <2> QED BY <2>1, <2>2, CallLocals, CallWalk
  <1>2. CASE Step
    BY <1>2, StepLocals, StepWalk
  <1>3. CASE Finish
    <2>1. LocalsOK' /\ search' = "idle"
      BY <1>3, ReturnLocals DEF Finish, LocalsOK
    <2> QED BY <2>1 DEF Walk
  <1>4. CASE UNCHANGED vars
    BY <1>4 DEF LocalsOK, Walk, Allowed, Reachable, ClosedUnderLinks, vars, graphVars,
                searchVars, callVars
  <1> QED BY <1>1, <1>2, <1>3, <1>4 DEF CallsNext

LEMMA CallsInvariant == CallsSpec => []CallsInv
  BY CallsInitInv, CallsNextInv, PTL DEF CallsSpec

-----------------------------------------------------------------------------
(* The locals of search_layer keep their types, and the beam its width.    *)
THEOREM LocalsTyped == CallsSpec => []LocalsOK
  <1>1. CallsInv => LocalsOK
    BY DEF CallsInv
  <1> QED BY <1>1, CallsInvariant, PTL

(* The order in which neighbours are visited does not show in the beam     *)
(* (graph.rs:40-52).                                                       *)
THEOREM BeamNearest == CallsSpec => []BeamIsNearestSeen
  <1>1. CallsInv => BeamIsNearestSeen
    BY DEF CallsInv, Walk, BeamIsNearestSeen
  <1> QED BY <1>1, CallsInvariant, PTL

(* The early break loses nothing the beam could take (graph.rs:37).        *)
THEOREM BreakHarmless == CallsSpec => []BeamClosed
  <1>1. ASSUME CallsInv, search = "done",
               NEW r \in best, NEW s \in (adjacency[r] \cap Allowed) \ best
        PROVE  Cardinality(best) = ef /\ \A b \in best : Closer(dataset, query, b, s)
    <2>1. /\ Rows \in SUBSET Nat /\ dataset \in [Rows -> Vector] /\ query \in Vector
          /\ visited \in SUBSET Rows /\ IsFiniteSet(visited) /\ ef \in Nat
      BY <1>1, RowsFinite, AllowedRows, NAssumption DEF CallsInv, LocalsOK
    <2>2. best = Nearest(dataset, query, visited, ef) /\ s \in visited \ best
      BY <1>1 DEF CallsInv, Walk
    <2> QED BY <2>1, <2>2, NearestKeepsK, NearestCloser
  <1>2. CallsInv => BeamClosed
    BY <1>1 DEF BeamClosed
  <1> QED BY <1>2, CallsInvariant, PTL

(* A search sees only what its entries reach, and returns all of that when *)
(* its beam is wide enough (graph.rs:16, 36-55).                           *)
THEOREM WideBeamReturnsAll == CallsSpec => []WideBeamIsExhaustive
  <1>1. CallsInv => WideBeamIsExhaustive
    BY DoneFull DEF CallsInv, Walk, WideBeamIsExhaustive
  <1> QED BY <1>1, CallsInvariant, PTL
=============================================================================
