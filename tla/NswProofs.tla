----------------------------- MODULE NswProofs -----------------------------
(***************************************************************************)
(* The graph NswIndex::try_new builds, for every number of rows, every     *)
(* data set and metric and every configuration validate_config accepts.    *)
(***************************************************************************)
EXTENDS Nsw, GraphSearchProofs

(* Where try_new stands: rows 1 and up are searched and pruned, and the    *)
(* search of a row is confined to the rows before it; the first row is the *)
(* first entry point.                                                      *)
Progress ==
  /\ phase \in {"search", "prune"} => row > 0
  /\ phase = "search" => allowed_rows = row
  /\ row = 0 => entry_point = 0

(* The inductive invariant.  Neither half of the links' structure is       *)
(* inductive alone: that a new row starts without links follows from       *)
(* reciprocity, since no linked row lists it yet, and that pruning restores *)
(* the degree bound needs that a row is at most one link over it.          *)
IInv == LocalsOK /\ TypeOK /\ Progress /\ Reciprocal /\ DegreeBound

LEMMA InitInv == Init => IInv
  <1> SUFFICES ASSUME Init PROVE IInv
    OBVIOUS
  <1>1. LocalsOK
    BY NoSearchLocals DEF Init
  <1>2. TypeOK
    BY RowsFinite, NAssumption DEF Init, NoSearch, TypeOK, Linked, Rows
  <1>3. Progress /\ Reciprocal
    BY DEF Init, Progress, Reciprocal
  <1>4. DegreeBound
    BY FS_EmptySet, ConfigAssumption DEF Init, DegreeBound
  <1> QED BY <1>1, <1>2, <1>3, <1>4 DEF IInv

LEMMA InsertFirstInv == IInv /\ InsertFirst => IInv'
  <1> SUFFICES ASSUME IInv, InsertFirst PROVE IInv'
    OBVIOUS
  <1> USE DEF IInv, InsertFirst, vars, graphVars, searchVars, callVars
  <1>1. LocalsOK'
    BY DEF LocalsOK, Allowed
  <1>2. TypeOK'
    <2>1. Linked \subseteq Linked'
      BY DEF Linked
    <2>2. \A r \in Rows : adjacency'[r] \subseteq Linked' \ {r}
      BY <2>1 DEF TypeOK
    <2>3. row' \in 0 .. N /\ (row' > 0 => entry_point' = row' - 1)
      BY NAssumption DEF Progress
    <2>4. phase' \in {"built", "query"} <=> row' = N
      BY NAssumption
    <2>5. search' = "idle" /\ phase' \in {"insert", "built"} /\ affected = {}
      BY DEF TypeOK
    <2>6. /\ adjacency' \in [Rows -> SUBSET Rows] /\ entry_point' \in Rows
          /\ affected' \subseteq Rows /\ k' \in Ks \cup {0} /\ result' \subseteq Rows
      BY DEF TypeOK
    <2>7. affected' = {}
      BY <2>5
    <2> QED BY <2>2, <2>3, <2>4, <2>5, <2>6, <2>7 DEF TypeOK
  <1>3. Progress' /\ Reciprocal' /\ DegreeBound'
    BY DEF Progress, Reciprocal, DegreeBound
  <1> QED BY <1>1, <1>2, <1>3

LEMMA InsertNextInv == IInv /\ InsertNext => IInv'
  <1> SUFFICES ASSUME IInv, InsertNext PROVE IInv'
    OBVIOUS
  <1> USE DEF IInv
  <1>0. /\ dataset[row] \in Vector /\ {entry_point} \in SUBSET Rows
        /\ MaxOf(EfConstruction, M) \in Nat /\ row \in 0 .. N
    BY ConfigAssumption, NAssumption
       DEF InsertNext, TypeOK, LocalsOK, Rows, MaxOf
  <1>1. LocalsOK' /\ search' = "expand"
    BY <1>0, CallLocals DEF InsertNext
  <1>2. TypeOK'
    BY <1>1 DEF TypeOK, InsertNext, Linked
  <1>3. Progress' /\ Reciprocal' /\ DegreeBound'
    BY DEF Progress, Reciprocal, DegreeBound, InsertNext, Call
  <1> QED BY <1>1, <1>2, <1>3

LEMMA SearchInv == IInv /\ Search => IInv'
  <1> SUFFICES ASSUME IInv, Search PROVE IInv'
    OBVIOUS
  <1> USE DEF IInv
  <1>1. /\ LocalsOK' /\ UNCHANGED <<graphVars, callVars>>
        /\ search # "idle" /\ search' # "idle"
    BY StepLocals DEF Search
  <1>2. TypeOK'
    BY <1>1 DEF TypeOK, Search, nswVars, graphVars, Linked
  <1>3. Progress' /\ Reciprocal' /\ DegreeBound'
    BY <1>1 DEF Progress, Reciprocal, DegreeBound, Search, nswVars, graphVars, callVars
  <1> QED BY <1>1, <1>2, <1>3

(* What the search gives Link: rows linked before, at most M of them, and  *)
(* the new row has no link yet.                                            *)
LEMMA SelectedRows ==
  ASSUME IInv, phase = "search"
  PROVE  LET selected == Nearest(dataset, query, best, M)
         IN  /\ selected \subseteq 0 .. row - 1
             /\ Cardinality(selected) \in Nat /\ Cardinality(selected) <= M
             /\ row \in Rows \ selected
             /\ adjacency[row] = {}
             /\ affected = {}
  <1> DEFINE selected == Nearest(dataset, query, best, M)
  <1>1. /\ row \in Rows /\ row > 0 /\ allowed_rows = row /\ affected = {}
        /\ M \in Nat
    BY ConfigAssumption, NAssumption DEF IInv, TypeOK, Progress, Rows
  <1>2. best \subseteq 0 .. row - 1 /\ best \in SUBSET Rows
    BY <1>1, AllowedRows DEF IInv, LocalsOK, Allowed
  <1>3. IsFiniteSet(best) /\ Rows \in SUBSET Nat
    BY <1>2, RowsFinite
  <1>4. /\ selected \subseteq best
        /\ Cardinality(selected) \in Nat /\ Cardinality(selected) <= M
    BY <1>1, <1>2, <1>3, NearestBound DEF IInv, LocalsOK
  <1>5. \A r \in Rows : row \notin adjacency[r]
    BY <1>1 DEF IInv, TypeOK, Linked
  <1>6. adjacency[row] = {}
    BY <1>1, <1>5 DEF IInv, Reciprocal, LocalsOK
  <1>7. row \notin selected
    <2> HIDE DEF selected
    <2> QED BY <1>1, <1>2, <1>4 DEF Rows
  <1> QED BY <1>1, <1>2, <1>4, <1>6, <1>7

LEMMA LinkInv == IInv /\ Link => IInv'
  <1> SUFFICES ASSUME IInv, Link PROVE IInv'
    OBVIOUS
  <1> DEFINE selected == Nearest(dataset, query, best, M)
  <1>1. /\ phase = "search" /\ phase' = "prune" /\ Return
        /\ affected' = selected \cup {row}
        /\ UNCHANGED <<row, entry_point, k, result>>
        /\ adjacency' = [r \in Rows |->
                           IF r = row THEN adjacency[r] \cup selected
                           ELSE IF r \in selected THEN adjacency[r] \cup {row}
                           ELSE adjacency[r]]
    BY DEF Link
  <1>2. /\ selected \subseteq 0 .. row - 1
        /\ Cardinality(selected) \in Nat /\ Cardinality(selected) <= M
        /\ row \in Rows \ selected /\ adjacency[row] = {} /\ affected = {}
    BY <1>1, SelectedRows
  <1> HIDE DEF selected
  <1>3. row \in Nat /\ row > 0 /\ row < N
    BY <1>1, NAssumption DEF IInv, TypeOK, Progress
  <1>4. selected \subseteq Rows
    BY <1>2, <1>3, NAssumption DEF Rows
  <1>5. adjacency' \in [Rows -> SUBSET Rows]
    BY <1>1, <1>2, <1>4 DEF IInv, LocalsOK
  <1>6. LocalsOK' /\ search' = "idle"
    BY <1>1, <1>5, ReturnLocals DEF IInv
  <1>7. TypeOK'
    <2>1. Linked = 0 .. row - 1 /\ Linked' = 0 .. row
      BY <1>1 DEF Linked
    <2>2. ASSUME NEW r \in Rows
          PROVE  adjacency'[r] \subseteq Linked' \ {r}
      <3>1. adjacency[r] \subseteq (0 .. row - 1) \ {r}
        BY <2>1 DEF IInv, TypeOK
      <3>2. 0 .. row - 1 \subseteq 0 .. row /\ row \in 0 .. row /\ row \notin selected
        BY <1>2, <1>3
      <3>3. CASE r = row
        <4>1. adjacency'[r] = selected
          BY <1>1, <1>2, <3>3
        <4> QED BY <1>2, <2>1, <3>2, <3>3, <4>1
      <3>4. CASE r # row
        <4>1. adjacency'[r] \subseteq adjacency[r] \cup {row}
          BY <1>1, <3>4
        <4> QED BY <2>1, <3>1, <3>2, <3>4, <4>1
      <3> QED BY <3>3, <3>4
    <2>3. affected' \subseteq Rows
      BY <1>1, <1>2, <1>4
    <2> QED BY <1>1, <1>3, <1>5, <1>6, <2>2, <2>3 DEF IInv, TypeOK
  <1>8. Progress'
    BY <1>1, <1>3 DEF Progress
  <1>9. Reciprocal'
    BY <1>1, <1>2, <1>4 DEF IInv, Reciprocal
  <1>10. DegreeBound'
    <2> SUFFICES ASSUME NEW r \in Rows
                 PROVE  Cardinality(adjacency'[r]) <= IF r \in affected' THEN M + 1 ELSE M
      BY DEF DegreeBound
    <2>1. /\ adjacency[r] \in SUBSET Rows /\ M \in Nat
          /\ IsFiniteSet(adjacency[r]) /\ Cardinality(adjacency[r]) \in Nat
          /\ Cardinality(adjacency[r]) <= M
      BY <1>2, RowsFinite, ConfigAssumption DEF IInv, LocalsOK, DegreeBound
    <2>2. CASE r = row
      <3>1. adjacency'[r] = selected
        BY <1>1, <1>2, <2>2
      <3>2. row \in affected'
        BY <1>1
      <3>3. Cardinality(selected) <= M + 1
        BY <1>2, <2>1
      <3> QED BY <2>2, <3>1, <3>2, <3>3
    <2>3. CASE r \in selected
      <3>1. adjacency'[r] = adjacency[r] \cup {row}
        BY <1>1, <1>2, <2>3
      <3>2. Cardinality(adjacency[r] \cup {row}) =
              IF row \in adjacency[r] THEN Cardinality(adjacency[r])
              ELSE Cardinality(adjacency[r]) + 1
        BY <2>1, FS_AddElement
      <3>3. Cardinality(adjacency'[r]) <= M + 1
        BY <2>1, <3>1, <3>2
      <3>4. r \in affected'
        BY <1>1, <2>3
      <3> QED BY <3>3, <3>4
    <2>4. CASE r # row /\ r \notin selected
      BY <1>1, <2>1, <2>4
    <2> QED BY <2>2, <2>3, <2>4
  <1> QED BY <1>6, <1>7, <1>8, <1>9, <1>10 DEF IInv

(* What prune_neighbors leaves a row with.                                 *)
LEMMA KeptRows ==
  ASSUME IInv, NEW owner \in Rows
  PROVE  /\ Kept(owner) \subseteq adjacency[owner]
         /\ Cardinality(Kept(owner)) <= M
         /\ adjacency[owner] \in SUBSET Rows /\ IsFiniteSet(adjacency[owner])
         /\ dataset[owner] \in Vector /\ M \in Nat
  <1>1. /\ adjacency[owner] \in SUBSET Rows /\ dataset[owner] \in Vector /\ M \in Nat
        /\ IsFiniteSet(adjacency[owner]) /\ Rows \in SUBSET Nat
    BY RowsFinite, ConfigAssumption DEF IInv, LocalsOK
  <1>2. dataset \in [Rows -> Vector]
    BY DEF IInv, LocalsOK
  <1> QED BY <1>1, <1>2, NearestBound DEF Kept

LEMMA PruneInv == ASSUME NEW owner \in Rows PROVE IInv /\ Prune(owner) => IInv'
  <1> SUFFICES ASSUME IInv, Prune(owner) PROVE IInv'
    OBVIOUS
  <1>1. /\ phase = "prune" /\ owner \in affected
        /\ affected' = affected \ {owner}
        /\ UNCHANGED <<dataset, searchVars, row, entry_point, phase, k, result>>
        /\ adjacency' = [r \in Rows |->
                           IF r = owner THEN Kept(owner)
                           ELSE IF r \in adjacency[owner] \ Kept(owner)
                           THEN adjacency[r] \ {owner}
                           ELSE adjacency[r]]
    BY DEF Prune
  <1>2. /\ Kept(owner) \subseteq adjacency[owner]
        /\ Cardinality(Kept(owner)) <= M /\ M \in Nat
    BY KeptRows
  <1>3. adjacency \in [Rows -> SUBSET Rows]
    BY DEF IInv, LocalsOK
  <1> DEFINE K == Kept(owner)
  <1> HIDE DEF K
  <1>4. adjacency' = [r \in Rows |->
                        IF r = owner THEN K
                        ELSE IF r \in adjacency[owner] \ K THEN adjacency[r] \ {owner}
                        ELSE adjacency[r]]
    BY <1>1 DEF K
  <1>5. K \subseteq adjacency[owner] /\ Cardinality(K) <= M
    BY <1>2 DEF K
  <1>6. \A r \in Rows : adjacency'[r] \subseteq adjacency[r]
    BY <1>4, <1>5
  <1>7. adjacency' \in [Rows -> SUBSET Rows]
    BY <1>3, <1>4, <1>5
  <1>8. LocalsOK'
    BY <1>1, <1>7 DEF IInv, LocalsOK, Allowed, searchVars, callVars
  <1>9. TypeOK'
    <2>1. Linked' = Linked
      BY <1>1 DEF Linked
    <2>2. \A r \in Rows : adjacency'[r] \subseteq Linked' \ {r}
      BY <1>6, <2>1 DEF IInv, TypeOK
    <2>3. affected' \subseteq Rows
      BY <1>1 DEF IInv, TypeOK
    <2> QED BY <1>1, <1>7, <2>2, <2>3 DEF IInv, TypeOK, searchVars
  <1>10. Progress'
    BY <1>1 DEF IInv, Progress
  <1>11. Reciprocal'
    <2> SUFFICES ASSUME NEW a \in Rows, NEW b \in Rows
                 PROVE  b \in adjacency'[a] <=> a \in adjacency'[b]
      BY DEF Reciprocal
    <2>1. b \in adjacency[a] <=> a \in adjacency[b]
      BY DEF IInv, Reciprocal
    <2>2. owner \notin adjacency[owner]
      BY DEF IInv, TypeOK
    <2>3. \A r \in Rows : r \in adjacency[owner] <=> owner \in adjacency[r]
      BY DEF IInv, Reciprocal
    <2>4. CASE a = owner
      BY <1>4, <1>5, <2>1, <2>2, <2>4
    <2>5. CASE b = owner
      BY <1>4, <1>5, <2>1, <2>2, <2>5
    <2>6. CASE a # owner /\ b # owner
      BY <1>4, <2>1, <2>6
    <2> QED BY <2>4, <2>5, <2>6
  <1>12. DegreeBound'
    <2> SUFFICES ASSUME NEW r \in Rows
                 PROVE  Cardinality(adjacency'[r]) <= IF r \in affected' THEN M + 1 ELSE M
      BY DEF DegreeBound
    <2>1. CASE r = owner
      <3>1. adjacency'[r] = K /\ r \notin affected'
        BY <1>1, <1>4, <2>1
      <3> QED BY <1>5, <3>1
    <2>2. CASE r # owner
      <3>1. adjacency[r] \in SUBSET Rows /\ adjacency'[r] \in SUBSET adjacency[r]
        BY <1>3, <1>6
      <3>2. IsFiniteSet(adjacency[r]) /\ Cardinality(adjacency[r]) \in Nat
        BY <3>1, RowsFinite
      <3>3. Cardinality(adjacency'[r]) <= Cardinality(adjacency[r])
        BY <3>1, <3>2, FS_Subset
      <3>4. Cardinality(adjacency'[r]) \in Nat
        BY <3>1, RowsFinite
      <3>5. Cardinality(adjacency[r]) <= IF r \in affected THEN M + 1 ELSE M
        BY DEF IInv, DegreeBound
      <3> QED BY <1>1, <1>2, <2>2, <3>2, <3>3, <3>4, <3>5
    <2> QED BY <2>1, <2>2
  <1> QED BY <1>8, <1>9, <1>10, <1>11, <1>12 DEF IInv

LEMMA InsertedInv == IInv /\ Inserted => IInv'
  <1> SUFFICES ASSUME IInv, Inserted PROVE IInv'
    OBVIOUS
  <1> USE DEF IInv, Inserted, vars, graphVars, searchVars, callVars
  <1>1. LocalsOK'
    BY DEF LocalsOK, Allowed
  <1>2. row \in 0 .. N - 1
    BY NAssumption DEF TypeOK
  <1>3. TypeOK'
    <2>1. Linked' = Linked
      BY <1>2 DEF Linked
    <2>2. row + 1 \in 0 .. N /\ row' - 1 = row
      BY <1>2, NAssumption
    <2>3. \A r \in Rows : adjacency'[r] \subseteq Linked' \ {r}
      BY <2>1 DEF TypeOK
    <2>4. phase' \in {"built", "query"} <=> row' = N
      OBVIOUS
    <2>5. search' = "idle" /\ phase' \in {"insert", "built"}
      BY DEF TypeOK
    <2>6. entry_point' \in Rows /\ (row' > 0 => entry_point' = row' - 1)
      BY <1>2, <2>2 DEF Rows
    <2> HIDE DEF Inserted
    <2>7. UNCHANGED <<adjacency, affected, k, result>> /\ affected = {} /\ row' = row + 1
      BY DEF Inserted
    <2> QED BY <2>2, <2>3, <2>4, <2>5, <2>6, <2>7 DEF TypeOK
  <1>4. Progress' /\ Reciprocal' /\ DegreeBound'
    BY <1>2, NAssumption DEF Progress, Reciprocal, DegreeBound
  <1> QED BY <1>1, <1>3, <1>4

LEMMA QueryInv == IInv /\ Query => IInv'
  <1> SUFFICES ASSUME IInv, Query PROVE IInv'
    OBVIOUS
  <1> USE DEF IInv
  <1>1. PICK q \in Vector, ef_search \in EfSearches, asked \in Ks :
          /\ Call(q, {entry_point}, MaxOf(ef_search, asked), N)
          /\ k' = asked
    BY DEF Query
  <1>2. /\ {entry_point} \in SUBSET Rows /\ N \in 0 .. N
        /\ MaxOf(ef_search, asked) \in Nat
    BY ConfigAssumption, NAssumption DEF TypeOK, MaxOf
  <1>3. LocalsOK' /\ search' = "expand"
    BY <1>1, <1>2, CallLocals DEF Query
  <1>4. TypeOK'
    BY <1>1, <1>3 DEF TypeOK, Query, Linked
  <1>5. Progress' /\ Reciprocal' /\ DegreeBound'
    BY DEF Progress, Reciprocal, DegreeBound, Query
  <1> QED BY <1>3, <1>4, <1>5

LEMMA AnswerInv == IInv /\ Answer => IInv'
  <1> SUFFICES ASSUME IInv, Answer PROVE IInv'
    OBVIOUS
  <1> USE DEF IInv
  <1>1. LocalsOK' /\ search' = "idle"
    BY ReturnLocals DEF Answer, LocalsOK
  <1>2. result' \subseteq Rows
    <2>1. best \subseteq Rows
      BY AllowedRows DEF LocalsOK
    <2> QED BY <2>1 DEF Answer, Nearest
  <1>3. TypeOK'
    BY <1>1, <1>2 DEF TypeOK, Answer, Linked
  <1>4. Progress' /\ Reciprocal' /\ DegreeBound'
    BY DEF Progress, Reciprocal, DegreeBound, Answer
  <1> QED BY <1>1, <1>3, <1>4

LEMMA NextInv == IInv /\ [Next]_allVars => IInv'
  <1> SUFFICES ASSUME IInv, [Next]_allVars PROVE IInv'
    OBVIOUS
  <1>1. CASE UNCHANGED allVars
    BY <1>1 DEF IInv, LocalsOK, TypeOK, Progress, Reciprocal, DegreeBound, Linked,
       Allowed, allVars, nswVars, vars, graphVars, searchVars, callVars
  <1>2. CASE Build
    BY <1>2, InsertFirstInv, InsertNextInv, LinkInv, PruneInv, InsertedInv DEF Build
  <1>3. CASE Search \/ Query \/ Answer
    BY <1>3, SearchInv, QueryInv, AnswerInv
  <1> QED BY <1>1, <1>2, <1>3 DEF Next

(* The invariant holds in every state of every build and query.            *)
THEOREM Invariance == Spec => []IInv
  BY InitInv, NextInv, PTL DEF Spec

(* The type invariant: no row is linked to itself or to a row that has not *)
(* been inserted, and searches run only where try_new or a query call them *)
(* (nsw.rs:37-81).                                                         *)
THEOREM TypeCorrect == Spec => []TypeOK
  BY Invariance, PTL DEF IInv

(* Links are reciprocal in every state (nsw.rs:57-60, 74-78).              *)
THEOREM LinksReciprocal == Spec => []Reciprocal
  BY Invariance, PTL DEF IInv

(* No row outgrows max_connections by more than the link that is about to  *)
(* be pruned (nsw.rs:59, 67-73).                                           *)
THEOREM DegreesBounded == Spec => []DegreeBound
  BY Invariance, PTL DEF IInv

-----------------------------------------------------------------------------
(* What a query is called with: the beam holds k rows if there are as many. *)
Asked == phase = "query" => entry_points = {entry_point} /\ (k <= ef \/ ef = N)

LEMMA InitWalk == Init => Walk /\ Asked
  BY DEF Init, NoSearch, Walk, Asked

LEMMA NextWalk == IInv /\ Walk /\ Asked /\ [Next]_allVars => Walk' /\ Asked'
  <1> SUFFICES ASSUME IInv, Walk, Asked, [Next]_allVars PROVE Walk' /\ Asked'
    OBVIOUS
  <1> USE DEF IInv
  <1>1. CASE InsertFirst \/ Inserted \/ \E r \in Rows : Prune(r)
    <2>1. /\ phase \in {"insert", "prune"} /\ phase' \in {"insert", "prune", "built"}
          /\ search' = search
      BY <1>1 DEF InsertFirst, Inserted, Prune, vars, searchVars
    <2>2. search' = "idle"
      BY <2>1 DEF TypeOK
    <2> QED BY <2>1, <2>2 DEF Walk, Asked
  <1>2. CASE Link \/ Answer
    BY <1>2 DEF Link, Answer, Return, Walk, Asked
  <1>3. CASE InsertNext
    <2>1. /\ dataset[row] \in Vector /\ {entry_point} \in SUBSET Rows
          /\ MaxOf(EfConstruction, M) \in Nat /\ row \in 0 .. N
      BY <1>3, ConfigAssumption, NAssumption
         DEF InsertNext, TypeOK, LocalsOK, Rows, MaxOf
    <2>2. Walk'
      BY <1>3, <2>1, CallWalk DEF InsertNext
    <2> QED BY <1>3, <2>2 DEF InsertNext, Asked
  <1>4. CASE Query
    <2>1. PICK q \in Vector, ef_search \in EfSearches, asked \in Ks :
            /\ Call(q, {entry_point}, MaxOf(ef_search, asked), N)
            /\ k' = asked
      BY <1>4 DEF Query
    <2>2. /\ {entry_point} \in SUBSET Rows /\ N \in 0 .. N
          /\ ef_search \in Nat /\ asked \in Nat /\ MaxOf(ef_search, asked) \in Nat
      BY ConfigAssumption, NAssumption DEF TypeOK, MaxOf
    <2>3. Walk'
      BY <1>4, <2>1, <2>2, CallWalk DEF Query
    <2>4. entry_points' = {entry_point} /\ entry_point' = entry_point
      BY <1>4, <2>1 DEF Query, Call
    <2>5. ef' = MinOf(MaxOf(MaxOf(ef_search, asked), 1), N)
      BY <2>1 DEF Call
    <2>6. k' <= ef' \/ ef' = N
      BY <2>1, <2>2, <2>5, NAssumption DEF MinOf, MaxOf
    <2> QED BY <2>3, <2>4, <2>6 DEF Asked
  <1>5. CASE Search
    <2>1. Walk' /\ UNCHANGED callVars
      BY <1>5, StepWalk, StepLocals DEF Search
    <2> QED BY <1>5, <2>1 DEF Search, Asked, callVars, nswVars
  <1>6. CASE UNCHANGED allVars
    BY <1>6 DEF Walk, Asked, Allowed, Reachable, ClosedUnderLinks, allVars, nswVars,
                vars, graphVars, searchVars, callVars
  <1> QED BY <1>1, <1>2, <1>3, <1>4, <1>5, <1>6 DEF Next, Build

(* The answer of one query.                                                *)
LEMMA AnswerOfQuery ==
  ASSUME IInv, Walk, Asked, [Next]_allVars, phase = "query", phase' = "built"
  PROVE  LET component == Reachable({entry_point})
         IN  /\ result' \subseteq component
             /\ Cardinality(result') = MinOf(k, Cardinality(component))
             /\ Cardinality(component) <= ef
                  => result' = Nearest(dataset, query, component, k)
  <1> DEFINE component == Reachable({entry_point})
  <1>1. Answer
    BY DEF Next, Build, InsertFirst, InsertNext, Link, Prune, Inserted, Search, Query,
           Answer, allVars, nswVars
  <1>2. search = "done" /\ result' = Nearest(dataset, query, best, k)
    BY <1>1 DEF Answer, Return
  <1>3. entry_points = {entry_point} /\ (k <= ef \/ ef = N)
    BY DEF Asked
  <1>4. /\ best \subseteq component /\ component \in SUBSET Rows
        /\ best = component \/ Cardinality(best) = ef
        /\ Cardinality(component) <= ef => best = component
    BY <1>2, <1>3, DoneFull DEF IInv
  <1> HIDE DEF component
  <1>5. /\ Rows \in SUBSET Nat /\ dataset \in [Rows -> Vector] /\ query \in Vector
        /\ best \in SUBSET Rows /\ IsFiniteSet(best) /\ k \in Nat
        /\ Cardinality(component) \in Nat /\ Cardinality(best) \in Nat /\ ef \in Nat
    BY <1>4, RowsFinite, NAssumption, ConfigAssumption DEF IInv, LocalsOK, TypeOK
  <1>6. Cardinality(component) <= N
    <2>1. IsFiniteSet(Rows) /\ Cardinality(Rows) = N
      BY NAssumption, FS_Interval DEF Rows
    <2>2. Cardinality(component) <= Cardinality(Rows)
      BY <1>4, <2>1, FS_Subset
    <2> QED BY <2>1, <2>2
  <1>7. Cardinality(result') = IF k < Cardinality(best) THEN k ELSE Cardinality(best)
    BY <1>2, <1>5, NearestSize
  <1>8. Cardinality(result') = MinOf(k, Cardinality(component))
    <2>1. CASE best = component
      BY <1>7, <2>1 DEF MinOf
    <2>2. CASE best # component
      <3>1. Cardinality(best) = ef /\ ef < Cardinality(component)
        BY <1>4, <1>5, <2>2
      <3>2. k <= ef
        BY <1>3, <1>5, <1>6, <3>1, NAssumption
      <3> QED BY <1>5, <1>7, <3>1, <3>2 DEF MinOf
    <2> QED BY <2>1, <2>2
  <1>9. result' \subseteq component
    BY <1>2, <1>4 DEF Nearest
  <1> QED BY <1>2, <1>4, <1>8, <1>9 DEF component

(* A query misses a row of the entry point's component only for its beam,  *)
(* never for k, and sees no row outside it (nsw.rs:108-118).                *)
THEOREM AnswersHonest == Spec => AnswerIsHonest
  <1>1. IInv /\ Walk /\ Asked /\ [Next]_allVars
          => [phase = "query" /\ phase' = "built" =>
                LET component == Reachable({entry_point})
                IN  /\ result' \subseteq component
                    /\ Cardinality(result') = MinOf(k, Cardinality(component))
                    /\ Cardinality(component) <= ef
                         => result' = Nearest(dataset, query, component, k)]_allVars
    BY AnswerOfQuery
  <1> QED BY <1>1, InitInv, NextInv, InitWalk, NextWalk, PTL DEF Spec, AnswerIsHonest

-----------------------------------------------------------------------------
(* What a step of the build may do to the graph: links are lost only for  *)
(* closer ones, and the build implements the abstract BoundedGraph.        *)

(* A row that drops a link is one over the limit, and keeps M links, all   *)
(* nearer than the one it drops.                                           *)
LEMMA DroppedRow ==
  ASSUME IInv, NEW owner \in Rows, owner \in affected,
         NEW x \in adjacency[owner] \ Kept(owner)
  PROVE  /\ Cardinality(adjacency[owner]) = M + 1
         /\ Cardinality(Kept(owner)) = M
         /\ \A n \in Kept(owner) : Closer(dataset, dataset[owner], n, x)
         /\ \A y \in adjacency[owner] \ Kept(owner) : y = x
  <1> DEFINE A == adjacency[owner]
  <1>1. /\ A \in SUBSET Rows /\ IsFiniteSet(A) /\ Cardinality(A) \in Nat
        /\ M \in Nat /\ dataset[owner] \in Vector
        /\ dataset \in [Rows -> Vector] /\ Rows \in SUBSET Nat
    BY KeptRows, RowsFinite DEF IInv, LocalsOK
  <1>2. Cardinality(A) <= M + 1
    BY DEF IInv, DegreeBound
  <1>3. ~(Cardinality(A) <= M)
    <2>1. CASE Cardinality(A) <= M
      <3>1. Nearest(dataset, dataset[owner], A, M) = A
        <4> HIDE DEF A
        <4> QED BY <1>1, <2>1, NearestAll
      <3> QED BY <3>1 DEF Kept
    <2> QED BY <2>1
  <1>4. Cardinality(A) = M + 1
    BY <1>1, <1>2, <1>3
  <1> DEFINE K == Nearest(dataset, dataset[owner], A, M)
  <1>5. Kept(owner) = K
    BY DEF Kept
  <1>6. x \in A \ K
    BY <1>5
  <1> HIDE DEF A
  <1>7. Cardinality(K) = M
    BY <1>1, <1>4, NearestFull
  <1>8. \A n \in K : Closer(dataset, dataset[owner], n, x)
    BY <1>1, <1>6, NearestCloser
  <1>9. \A y \in A \ K : y = x
    BY <1>1, <1>2, <1>6, NearestDropsOne
  <1> QED BY <1>4, <1>5, <1>7, <1>8, <1>9 DEF A

LEMMA PruneLoss ==
  ASSUME IInv, NEW owner \in Rows, Prune(owner)
  PROVE  LossesJustified
  <1> SUFFICES ASSUME NEW a \in Rows, NEW b \in adjacency[a] \ adjacency'[a]
               PROVE  CrowdedOut(a, b) \/ CrowdedOut(b, a)
    BY DEF LossesJustified
  <1> DEFINE K == Kept(owner)
  <1>1. /\ owner \in affected
        /\ adjacency' = [r \in Rows |->
                           IF r = owner THEN K
                           ELSE IF r \in adjacency[owner] \ K THEN adjacency[r] \ {owner}
                           ELSE adjacency[r]]
        /\ UNCHANGED dataset
    BY DEF Prune
  <1>2. ASSUME NEW x \in adjacency[owner] \ K
        PROVE  CrowdedOut(owner, x)
    <2>1. /\ Cardinality(K) = M
          /\ \A n \in K : Closer(dataset, dataset[owner], n, x)
      BY <1>1, <1>2, DroppedRow
    <2>2. adjacency'[owner] = K
      BY <1>1
    <2> HIDE DEF K
    <2> QED BY <2>1, <2>2 DEF CrowdedOut
  <1> HIDE DEF K
  <1>3. CASE a = owner
    BY <1>1, <1>2, <1>3
  <1>4. CASE a # owner
    <2>1. a \in adjacency[owner] \ K /\ b = owner
      BY <1>1, <1>4
    <2> QED BY <1>2, <2>1
  <1> QED BY <1>3, <1>4

(* A link is lost only because one of its ends is left with M links that   *)
(* are all nearer to it (graph.rs:96-107, nsw.rs:74-78).                   *)
THEOREM LossJustified == Spec => LossIsJustified
  <1>1. IInv /\ [Next]_allVars => [LossesJustified]_allVars
    <2> SUFFICES ASSUME IInv, [Next]_allVars PROVE [LossesJustified]_allVars
      OBVIOUS
    <2>1. CASE UNCHANGED adjacency
      BY <2>1 DEF LossesJustified
    <2>2. CASE Link
      BY <2>2 DEF LossesJustified, Link, IInv, LocalsOK
    <2>3. ASSUME NEW r \in Rows, Prune(r) PROVE LossesJustified
      BY <2>3, PruneLoss
    <2> QED
      BY <2>1, <2>2, <2>3 DEF Next, Build, InsertFirst, InsertNext, Inserted, Search,
         Step, Expand, Break, Exhaust, VisitNeighbor, NextCandidate, Query, Answer,
         vars, graphVars
  <1> QED BY <1>1, Invariance, PTL DEF Spec, LossIsJustified

-----------------------------------------------------------------------------
(* An edge is a pair of different rows, each of which lists the other.     *)
LEMMA EdgeOf ==
  ASSUME IInv
  PROVE  /\ \A a, b \in Rows : {a, b} \in Edges <=> b \in adjacency[a]
         /\ \A e \in Edges : \E a, b \in Rows : e = {a, b} /\ b \in adjacency[a]
         /\ \A a \in Rows : adjacency[a] \subseteq Rows \ {a}
  <1>1. \A a, b \in Rows : b \in adjacency[a] => {a, b} \in Edges
    <2> SUFFICES ASSUME NEW a \in Rows, NEW b \in Rows, b \in adjacency[a]
                 PROVE  {a, b} \in Edges
      OBVIOUS
    <2>1. <<a, b>> \in {p \in Rows \X Rows : p[2] \in adjacency[p[1]]}
      OBVIOUS
    <2>2. {<<a, b>>[1], <<a, b>>[2]} = {a, b}
      OBVIOUS
    <2> QED BY <2>1, <2>2 DEF Edges
  <1>2. \A e \in Edges : \E a, b \in Rows : e = {a, b} /\ b \in adjacency[a]
    BY DEF Edges
  <1>3. \A a, b \in Rows : {a, b} \in Edges => b \in adjacency[a]
    <2> SUFFICES ASSUME NEW a \in Rows, NEW b \in Rows, {a, b} \in Edges
                 PROVE  b \in adjacency[a]
      OBVIOUS
    <2>1. PICK c \in Rows, d \in Rows : {a, b} = {c, d} /\ d \in adjacency[c]
      BY <1>2
    <2>2. (a = c /\ b = d) \/ (a = d /\ b = c)
      BY <2>1
    <2> QED BY <2>1, <2>2 DEF IInv, Reciprocal
  <1>4. \A a \in Rows : adjacency[a] \subseteq Rows \ {a}
    BY DEF IInv, TypeOK
  <1> QED BY <1>1, <1>2, <1>3, <1>4

(* The degree of a row is the length of its adjacency list.                *)
LEMMA DegreeOf ==
  ASSUME IInv, NEW r \in Rows
  PROVE  Cardinality({e \in Edges : r \in e}) = Cardinality(adjacency[r])
  <1> DEFINE E == {e \in Edges : r \in e}
             f == [n \in adjacency[r] |-> {r, n}]
  <1>1. adjacency[r] \in SUBSET Rows /\ r \notin adjacency[r] /\ IsFiniteSet(adjacency[r])
    BY EdgeOf, RowsFinite
  <1>2. f \in [adjacency[r] -> E]
    BY <1>1, EdgeOf
  <1>3. \A m, n \in adjacency[r] : f[m] = f[n] => m = n
    BY <1>1
  <1>4. \A e \in E : \E n \in adjacency[r] : f[n] = e
    <2> SUFFICES ASSUME NEW e \in E
                 PROVE  \E n \in adjacency[r] : e = {r, n}
      OBVIOUS
    <2>1. PICK a \in Rows, b \in Rows : e = {a, b} /\ b \in adjacency[a]
      BY EdgeOf
    <2>2. a \in adjacency[b]
      BY <2>1 DEF IInv, Reciprocal
    <2>3. r = a \/ r = b
      BY <2>1
    <2> QED BY <2>1, <2>2, <2>3
  <1>5. ExistsBijection(adjacency[r], E)
    <2> HIDE DEF f, E
    <2>1. f \in Bijection(adjacency[r], E)
      BY <1>2, <1>3, <1>4 DEF Bijection, Injection, Surjection, IsInjective
    <2> QED BY <2>1 DEF ExistsBijection
  <1> HIDE DEF E
  <1>6. Cardinality(E) = Cardinality(adjacency[r])
    BY <1>1, <1>5, FS_Bijection
  <1> QED BY <1>6 DEF E

(* Counting in the instance is counting.                                   *)
LEMMA SameCardinality ==
  ASSUME NEW S PROVE Graph!Cardinality(S) = Cardinality(S)
  BY Zenon DEF Graph!Cardinality, Cardinality

(* A row is overfull in the abstract graph when its adjacency list is.     *)
LEMMA OverfullRow ==
  ASSUME IInv, NEW r \in Rows
  PROVE  Graph!Overfull(r) <=> Cardinality(adjacency[r]) > M
  <1>1. Graph!LinksOf(r) = {e \in Edges : r \in e}
    BY DEF Graph!LinksOf
  <1>2. Graph!Overfull(r) <=> Cardinality(Graph!LinksOf(r)) > M
    BY Zenon, SameCardinality DEF Graph!Overfull
  <1> QED BY <1>1, <1>2, DegreeOf

LEMMA InitRefines == Init => Graph!Init
  <1> SUFFICES ASSUME Init PROVE Linked = {} /\ Edges = {}
    BY DEF Graph!Init
  <1>1. Linked = {}
    BY DEF Init, Linked
  <1>2. Edges = {}
    BY DEF Init, Edges
  <1> QED BY <1>1, <1>2

(* The first row is taken in without links.                                *)
LEMMA InsertFirstRefines == IInv /\ InsertFirst => Graph!TakeIn(0, {})
  <1> SUFFICES ASSUME IInv, InsertFirst PROVE Graph!TakeIn(0, {})
    OBVIOUS
  <1>1. Linked = {} /\ Linked' = {0}
    BY DEF InsertFirst, Linked
  <1>2. Edges' = Edges
    BY DEF InsertFirst, Edges, vars, graphVars
  <1>3. M \in Nat /\ M >= 0
    BY ConfigAssumption
  <1> QED BY <1>1, <1>2, <1>3, FS_EmptySet, SameCardinality DEF Graph!TakeIn

(* Any other row is taken in when it is linked.                            *)
LEMMA LinkRefines ==
  ASSUME IInv, Link
  PROVE  Graph!TakeIn(row, Nearest(dataset, query, best, M))
         /\ Nearest(dataset, query, best, M) \in SUBSET Linked
         /\ row \in Rows
  <1> DEFINE selected == Nearest(dataset, query, best, M)
  <1>1. /\ phase = "search" /\ phase' = "prune" /\ row' = row
        /\ adjacency' = [r \in Rows |->
                           IF r = row THEN adjacency[r] \cup selected
                           ELSE IF r \in selected THEN adjacency[r] \cup {row}
                           ELSE adjacency[r]]
    BY DEF Link
  <1>2. /\ selected \subseteq 0 .. row - 1
        /\ Cardinality(selected) <= M
        /\ row \in Rows \ selected /\ adjacency[row] = {} /\ affected = {}
    BY <1>1, SelectedRows
  <1>3. Linked = 0 .. row - 1 /\ Linked' = 0 .. row
    BY <1>1 DEF Linked
  <1> HIDE DEF selected
  <1>4. row \in 0 .. N - 1
    BY <1>2 DEF Rows
  <1>5. row \notin Linked /\ Linked' = Linked \cup {row} /\ Linked \subseteq Rows
    BY <1>3, <1>4, NAssumption DEF Rows
  <1>6. \A other \in Linked : ~Graph!Overfull(other)
    <2> SUFFICES ASSUME NEW other \in Linked
                 PROVE  ~(Cardinality(adjacency[other]) > M)
      BY <1>5, OverfullRow
    <2>1. Cardinality(adjacency[other]) <= M
      BY <1>2, <1>5 DEF IInv, DegreeBound
    <2>2. Cardinality(adjacency[other]) \in Nat /\ M \in Nat
      BY <1>5, EdgeOf, RowsFinite, ConfigAssumption
    <2> QED BY <2>1, <2>2
  <1>7. Edges' = Edges \cup {{row, n} : n \in selected}
    <2>0. IInv'
      BY LinkInv
    <2>1. ASSUME NEW e \in Edges' PROVE e \in Edges \cup {{row, n} : n \in selected}
      <3>1. PICK a \in Rows, b \in Rows : e = {a, b} /\ b \in adjacency'[a]
        BY <2>1 DEF Edges
      <3>2. b \in adjacency[a] \/ (a = row /\ b \in selected) \/ (a \in selected /\ b = row)
        BY <1>1, <3>1
      <3> QED BY <3>1, <3>2, EdgeOf
    <2>2. \A a, b \in Rows : b \in adjacency'[a] => {a, b} \in Edges'
      <3> SUFFICES ASSUME NEW a \in Rows, NEW b \in Rows, b \in adjacency'[a]
                   PROVE  {a, b} \in Edges'
        OBVIOUS
      <3>1. <<a, b>> \in {p \in Rows \X Rows : p[2] \in adjacency'[p[1]]}
        OBVIOUS
      <3>2. {<<a, b>>[1], <<a, b>>[2]} = {a, b}
        OBVIOUS
      <3> QED BY <3>1, <3>2 DEF Edges
    <2>3. ASSUME NEW e \in Edges PROVE e \in Edges'
      <3>1. PICK a \in Rows, b \in Rows : e = {a, b} /\ b \in adjacency[a]
        BY EdgeOf
      <3>2. b \in adjacency'[a]
        BY <1>1, <3>1
      <3> QED BY <2>2, <3>1, <3>2
    <2>4. ASSUME NEW n \in selected PROVE {row, n} \in Edges'
      <3>1. n \in Rows /\ n \in adjacency'[row]
        BY <1>1, <1>2, <1>3, <1>5, <2>4
      <3> QED BY <1>2, <2>2, <3>1
    <2> QED BY <2>1, <2>3, <2>4
  <1>8. selected \in SUBSET Linked
    BY <1>2, <1>3
  <1>9. Graph!TakeIn(row, selected)
    BY <1>2, <1>5, <1>6, <1>7, <1>8, SameCardinality DEF Graph!TakeIn
  <1> QED BY <1>2, <1>8, <1>9 DEF selected

(* Pruning a row drops one link, or none.                                  *)
LEMMA PruneRefines ==
  ASSUME IInv, NEW owner \in Rows, Prune(owner)
  PROVE  (\E e \in Edges : Graph!Drop(owner, e)) \/ UNCHANGED <<Linked, Edges>>
  <1> DEFINE K == Kept(owner)
  <1>1. /\ owner \in affected /\ Linked' = Linked
        /\ adjacency' = [r \in Rows |->
                           IF r = owner THEN K
                           ELSE IF r \in adjacency[owner] \ K THEN adjacency[r] \ {owner}
                           ELSE adjacency[r]]
    BY DEF Prune, Linked
  <1>2. K \subseteq adjacency[owner]
    BY KeptRows
  <1>3. CASE adjacency[owner] = K
    <2>1. adjacency' = adjacency
      BY <1>1, <1>3 DEF IInv, LocalsOK
    <2> QED BY <1>1, <2>1 DEF Edges
  <1>4. CASE adjacency[owner] # K
    <2>1. PICK x \in adjacency[owner] : x \notin K
      BY <1>2, <1>4
    <2>2. Cardinality(adjacency[owner]) = M + 1 /\ \A y \in adjacency[owner] \ K : y = x
      BY <1>1, <2>1, DroppedRow
    <2> HIDE DEF K
    <2>3. x \in Rows /\ x # owner /\ owner \in adjacency[x]
      BY <2>1, EdgeOf DEF IInv, Reciprocal
    <2>4. {owner, x} \in Edges /\ owner \in {owner, x}
      BY <2>1, <2>3, EdgeOf
    <2>5. Graph!Overfull(owner)
      <3>1. M \in Nat
        BY ConfigAssumption
      <3> QED BY <2>2, <3>1, OverfullRow
    <2>6. \A a, b \in Rows : b \in adjacency'[a] <=> b \in adjacency[a] /\ {a, b} # {owner, x}
      <3> SUFFICES ASSUME NEW a \in Rows, NEW b \in Rows
                   PROVE  b \in adjacency'[a] <=> b \in adjacency[a] /\ {a, b} # {owner, x}
        OBVIOUS
      <3>1. {a, b} = {owner, x} <=> (a = owner /\ b = x) \/ (a = x /\ b = owner)
        OBVIOUS
      <3>2. \A y \in adjacency[owner] : y \in K <=> y # x
        BY <2>1, <2>2
      <3>3. CASE a = owner
        BY <1>1, <1>2, <2>3, <3>1, <3>2, <3>3
      <3>4. CASE a # owner
        <4>1. a \in adjacency[owner] \ K <=> a = x
          BY <2>1, <2>2
        <4>2. adjacency'[a] = IF a = x THEN adjacency[a] \ {owner} ELSE adjacency[a]
          BY <1>1, <3>4, <4>1
        <4> QED BY <3>1, <3>4, <4>2
      <3> QED BY <3>3, <3>4
    <2>7. Edges' = Edges \ {{owner, x}}
      <3>1. ASSUME NEW e \in Edges' PROVE e \in Edges \ {{owner, x}}
        <4>1. PICK a \in Rows, b \in Rows : e = {a, b} /\ b \in adjacency'[a]
          BY <3>1 DEF Edges
        <4> QED BY <2>6, <4>1, EdgeOf
      <3>2. ASSUME NEW e \in Edges \ {{owner, x}} PROVE e \in Edges'
        <4>1. PICK a \in Rows, b \in Rows : e = {a, b} /\ b \in adjacency[a]
          BY EdgeOf
        <4>2. b \in adjacency'[a]
          BY <2>6, <3>2, <4>1
        <4>3. <<a, b>> \in {p \in Rows \X Rows : p[2] \in adjacency'[p[1]]}
          BY <4>2
        <4>4. {<<a, b>>[1], <<a, b>>[2]} = e
          BY <4>1
        <4> QED BY <4>3, <4>4 DEF Edges
      <3> QED BY <3>1, <3>2
    <2>8. Graph!Drop(owner, {owner, x})
      BY <1>1, <2>4, <2>5, <2>7 DEF Graph!Drop, Graph!LinksOf
    <2> QED BY <2>4, <2>8
  <1> QED BY <1>3, <1>4

(* Every step of the index is a step of the bounded graph or leaves it.    *)
LEMMA NextRefines == IInv /\ [Next]_allVars => [Graph!Next]_(Graph!graph)
  <1> SUFFICES ASSUME IInv, [Next]_allVars
               PROVE  Graph!Next \/ UNCHANGED <<Linked, Edges>>
    BY DEF Graph!graph
  <1>1. CASE InsertFirst
    <2>1. Graph!TakeIn(0, {}) /\ 0 \in Rows /\ {} \in SUBSET Linked
      BY <1>1, InsertFirstRefines, RowsFinite
    <2> QED BY <2>1 DEF Graph!Next
  <1>2. CASE Link
    BY <1>2, LinkRefines DEF Graph!Next
  <1>3. ASSUME NEW r \in Rows, Prune(r)
        PROVE  Graph!Next \/ UNCHANGED <<Linked, Edges>>
    BY <1>3, PruneRefines DEF Graph!Next
  <1>4. CASE Inserted
    <2>1. row \in Nat
      BY NAssumption DEF IInv, TypeOK
    <2>2. Linked' = Linked
      BY <1>4, <2>1 DEF Inserted, Linked
    <2>3. Edges' = Edges
      BY <1>4 DEF Inserted, Edges, vars, graphVars
    <2> QED BY <2>2, <2>3
  <1>5. CASE InsertNext \/ Search \/ Query \/ Answer \/ UNCHANGED allVars
    <2>1. UNCHANGED <<adjacency, row>>
      BY <1>5 DEF InsertNext, Search, Step, Expand, Break, Exhaust, VisitNeighbor,
         NextCandidate, Query, Answer, allVars, nswVars, vars, graphVars
    <2>2. phase = "prune" <=> phase' = "prune"
      BY <1>5 DEF InsertNext, Search, Query, Answer, allVars, nswVars
    <2> QED BY <2>1, <2>2 DEF Linked, Edges
  <1> QED BY <1>1, <1>2, <1>3, <1>4, <1>5 DEF Next, Build

(* The build of the index implements the bounded graph: rows are taken in  *)
(* one by one with at most M links to earlier rows, and only a row over    *)
(* the limit loses a link, one at a time (nsw.rs:37-81).                   *)
THEOREM ImplementsBoundedGraph == Spec => BuildsBoundedGraph
  BY InitRefines, NextRefines, Invariance, PTL DEF Spec, BuildsBoundedGraph, Graph!Spec
=============================================================================
