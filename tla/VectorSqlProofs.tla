--------------------------- MODULE VectorSqlProofs ---------------------------
(***************************************************************************)
(* What the SQL side promises: what a session keeps, for any tables, index *)
(* names, columns and option values, any number of statements on either    *)
(* path, and any failure or interruption of them; and what a query that an *)
(* index serves returns, for any tables, plans, literals and indexes.      *)
(***************************************************************************)
EXTENDS VectorSqlSession, VectorTopK, NeighborOrderProofs

-----------------------------------------------------------------------------
(* What a statement of each kind carries.                                  *)
LEMMA StatementFields ==
  ASSUME NEW s \in Statements
  PROVE  /\ s.path \in {"execute", "cli"}
         /\ s.kind \in Writes => s.table \in Table
         /\ s.kind = "update" => s.reads \in SUBSET Table
         /\ s.kind = "set" => s.value \in Value
         /\ s.kind = "index" => /\ s.form \in Forms /\ s.name \in IndexName
                                /\ s.table \in Table /\ s.column \in Column
  BY DEF Statements, Writes, Forms

(* A CREATE INDEX that is let through is a plain one, on both paths: what  *)
(* the logical plan has lost, the check of the text has refused.           *)
LEMMA OnlyPlainPasses ==
  ASSUME NEW s \in Statements, s.kind = "index", ~RefusedIndex(s)
  PROVE  s.form = "plain"
  <1>1. s.form \in Forms
    BY StatementFields
  <1> QED
    BY <1>1 DEF RefusedIndex, RefusesStatement, RefusesPlan, ValidCliSql, Planned,
                PlainSyntax, PlainColumn, IndexKind, Forms

(* A vetted write protects the table it names, on both paths.              *)
LEMMA VettedProtectsTarget ==
  ASSUME NEW s \in Statements, s.kind \in {"insert", "drop", "update"}
  PROVE  s.table \in Protected(s)
  BY DEF Protected

-----------------------------------------------------------------------------
(* While a statement runs nothing it was vetted against has changed, and   *)
(* there is room for the change it makes.                                  *)
RunIsVetted ==
  stage = "run" =>
    /\ ~Refused(statement)
    /\ statement.kind \in Writes => created < MaxVersion

(* An indexed table exists, since only DROP TABLE removes one.             *)
IndexedExists == \A index \in indexes : version[index.table] # Absent

(* What a SET or a RESET asks of base it gets at once, and the query       *)
(* context by the next rebuild; until the first there is one configuration.*)
BaseAsked == setting = asked

SettledAgrees == settled \/ ~forked => contextSetting = setting

(* The inductive invariant.  That indexes stay distinct and tables stay as *)
(* indexed rests on the vetting still being true when a statement runs.    *)
IInv ==
  /\ TypeOK
  /\ IndexesAreSound
  /\ RunIsVetted
  /\ IndexedExists
  /\ BaseAsked
  /\ SettledAgrees

LEMMA InitInv == Init => IInv
  <1> SUFFICES ASSUME Init PROVE IInv
    OBVIOUS
  <1>1. statement \in Statements
    BY DEF Init, Statements
  <1>2. 0 \in 0 .. MaxVersion
    BY SessionAssumption
  <1>3. version \in [Table -> 0 .. MaxVersion] /\ created \in 0 .. MaxVersion
    BY <1>2 DEF Init, Absent
  <1>4. TypeOK
    BY <1>1, <1>3, SessionAssumption DEF Init, TypeOK
  <1> QED
    BY <1>4, SessionAssumption
    DEF Init, IInv, IndexesAreSound, RunIsVetted, IndexedExists, BaseAsked, SettledAgrees

LEMMA SubmitInv == ASSUME IInv, NEW s \in Statements, Submit(s) PROVE IInv'
  <1>1. UNCHANGED <<version, created, setting, forked, contextSetting, asked, settled, rules, indexes>>
    BY DEF Submit, catalog, config
  <1>2. stage' \in {"run", "rejected"} /\ statement' = s
    BY DEF Submit
  <1>3. TypeOK'
    BY <1>1, <1>2 DEF IInv, TypeOK
  <1>4. RunIsVetted'
    <2>1. stage' = "run" => ~Refused(s)
      BY DEF Submit
    <2>2. Refused(s)' <=> Refused(s)
      BY <1>1 DEF Refused, RefusedIndex, Duplicate, Indexed
    <2> QED BY <1>1, <1>2, <2>1, <2>2 DEF RunIsVetted, Submit, Refused, RefusedIndex,
              Duplicate, Indexed, Protected
  <1> QED
    BY <1>1, <1>2, <1>3, <1>4
    DEF IInv, IndexesAreSound, IndexedExists, BaseAsked, SettledAgrees

LEMMA ExecuteWriteInv == ASSUME IInv, ExecuteWrite PROVE IInv'
  <1>1. UNCHANGED <<setting, forked, contextSetting, asked, settled, rules, indexes, statement>>
    BY DEF ExecuteWrite, config
  <1>2. statement \in Statements /\ statement.kind \in Writes /\ statement.table \in Table
    BY StatementFields DEF IInv, TypeOK, ExecuteWrite
  <1>3. created' = created + 1 /\ created' \in 1 .. MaxVersion
    BY <1>2, SessionAssumption DEF IInv, TypeOK, RunIsVetted, ExecuteWrite
  <1>4. version' \in [Table -> 0 .. MaxVersion]
    <2> DEFINE made == IF statement.kind = "drop" THEN Absent ELSE created'
    <2>1. made \in 0 .. MaxVersion
      BY <1>3, SessionAssumption DEF Absent
    <2>2. version' = [version EXCEPT ![statement.table] = made]
      BY DEF ExecuteWrite
    <2>3. version \in [Table -> 0 .. MaxVersion]
      BY DEF IInv, TypeOK
    <2> HIDE DEF made
    <2> QED BY <1>2, <2>1, <2>2, <2>3
  <1>5. TypeOK'
    BY <1>1, <1>3, <1>4 DEF IInv, TypeOK, ExecuteWrite
  <1>6. IndexedExists'
    <2> SUFFICES ASSUME NEW index \in indexes PROVE version'[index.table] # Absent
      BY <1>1 DEF IndexedExists
    <2>1. version[index.table] # Absent /\ index.table \in Table
      BY DEF IInv, IndexedExists, TypeOK
    <2>2. CASE index.table = statement.table
      <3>1. statement.kind # "drop"
        BY <1>2, <2>2, VettedProtectsTarget
        DEF IInv, RunIsVetted, ExecuteWrite, Refused, Indexed
      <3> QED BY <1>2, <1>3, <2>1, <2>2, <3>1 DEF ExecuteWrite, IInv, TypeOK, Absent
    <2>3. CASE index.table # statement.table
      BY <1>2, <2>1, <2>3 DEF ExecuteWrite, IInv, TypeOK
    <2> QED BY <2>2, <2>3
  <1> QED
    BY <1>1, <1>2, <1>5, <1>6
    DEF IInv, ExecuteWrite, IndexesAreSound, RunIsVetted, BaseAsked, SettledAgrees, Writes

LEMMA ExecuteSettingInv == ASSUME IInv, ExecuteSetting PROVE IInv'
  <1>1. UNCHANGED <<version, created, forked, rules, indexes, statement>>
    BY DEF ExecuteSetting, catalog
  <1>2. statement \in Statements /\ statement.kind = "set" => statement.value \in Value
    BY StatementFields DEF IInv, TypeOK
  <1>3. setting' \in Value /\ contextSetting' \in Value
    BY <1>2, SessionAssumption DEF IInv, TypeOK, ExecuteSetting
  <1>4. setting' = asked' /\ (~forked => contextSetting' = setting')
    <2>1. statement.kind \in {"set", "reset"} /\ statement.path \in {"execute", "cli"}
      BY StatementFields DEF ExecuteSetting, IInv, TypeOK
    <2>2. CASE statement.kind = "set"
      BY <2>2 DEF ExecuteSetting, OnContext
    <2>3. CASE statement.kind = "reset"
      BY <2>1, <2>3 DEF ExecuteSetting, OnContext, IInv, BaseAsked
    <2> QED BY <2>1, <2>2, <2>3
  <1>5. TypeOK' /\ ~settled' /\ stage' = "executed"
    BY <1>1, <1>3, <1>4 DEF IInv, TypeOK, ExecuteSetting
  <1> QED
    BY <1>1, <1>4, <1>5
    DEF IInv, IndexesAreSound, RunIsVetted, IndexedExists, BaseAsked, SettledAgrees

(* A query that ran and a statement that failed leave everything as it is. *)
LEMMA StageOnlyInv ==
  ASSUME IInv, UNCHANGED <<catalog, config, rules, indexes, statement>>,
         \/ stage' = "executed" /\ statement.kind = "select"
         \/ stage' = "failed"
  PROVE  IInv'
  BY DEF IInv, TypeOK, IndexesAreSound, RunIsVetted, IndexedExists, BaseAsked,
         SettledAgrees, catalog, config

LEMMA CompleteInv == ASSUME IInv, Complete PROVE IInv'
  <1>1. UNCHANGED <<version, created, setting, asked, indexes, statement>> /\ stage' = "done"
    BY DEF Complete, catalog
  <1>2. CASE OnContext(statement)
    <2>1. UNCHANGED <<contextSetting, rules, forked, settled>>
      BY <1>2 DEF Complete
    <2> QED
      BY <1>1, <2>1 DEF IInv, TypeOK, IndexesAreSound, RunIsVetted, IndexedExists,
        BaseAsked, SettledAgrees
  <1>3. CASE ~OnContext(statement)
    <2>1. contextSetting' = setting /\ rules' = indexes /\ forked' = TRUE /\ settled' = TRUE
      BY <1>1, <1>3 DEF Complete, Rebuild
    <2> QED
      BY <1>1, <2>1 DEF IInv, TypeOK, IndexesAreSound, RunIsVetted, IndexedExists,
        BaseAsked, SettledAgrees
  <1> QED BY <1>2, <1>3

LEMMA CreateIndexInv == ASSUME IInv, CreateIndex PROVE IInv'
  <1> DEFINE new == [name |-> statement.name, table |-> statement.table,
                     column |-> statement.column, form |-> statement.form,
                     version |-> version[statement.table]]
  <1>1. UNCHANGED <<version, created, setting, asked, statement>> /\ stage' = "done"
    BY DEF CreateIndex, catalog
  <1>2. indexes' = indexes \cup {new} /\ rules' = indexes' /\ contextSetting' = setting
        /\ forked' = TRUE /\ settled' = TRUE
    BY DEF CreateIndex, Rebuild
  <1>3. /\ statement \in Statements /\ statement.kind = "index"
        /\ statement.form \in Forms /\ statement.name \in IndexName
        /\ statement.table \in Table /\ statement.column \in Column
    BY StatementFields DEF IInv, TypeOK, CreateIndex
  <1>4. version[statement.table] \in 1 .. MaxVersion
    BY <1>3 DEF IInv, TypeOK, CreateIndex, Absent
  <1>5. TypeOK'
    BY <1>1, <1>2, <1>3, <1>4 DEF IInv, TypeOK
  <1>6. ~RefusedIndex(statement) /\ ~Duplicate(statement)
    BY DEF IInv, RunIsVetted, CreateIndex, Refused
  <1>7. IndexesAreSound'
    <2>1. \A index \in indexes :
            /\ index.name # new.name
            /\ <<index.table, index.column>> # <<new.table, new.column>>
      BY <1>3, <1>6 DEF Duplicate
    <2>2. new.form = "plain"
      BY <1>3, <1>6, OnlyPlainPasses
    <2> QED BY <1>2, <2>1, <2>2 DEF IInv, IndexesAreSound
  <1>8. IndexedExists'
    BY <1>1, <1>2, <1>4 DEF IInv, IndexedExists, Absent
  <1> QED
    BY <1>1, <1>2, <1>5, <1>7, <1>8 DEF IInv, RunIsVetted, BaseAsked, SettledAgrees

-----------------------------------------------------------------------------
LEMMA NextInv == IInv /\ [Next]_vars => IInv'
  <1> SUFFICES ASSUME IInv, [Next]_vars PROVE IInv'
    OBVIOUS
  <1>1. ASSUME NEW s \in Statements, Submit(s) PROVE IInv'
    BY <1>1, SubmitInv
  <1>2. CASE ExecuteWrite
    BY <1>2, ExecuteWriteInv
  <1>3. CASE ExecuteSetting
    BY <1>3, ExecuteSettingInv
  <1>4. CASE Select
    BY <1>4, StageOnlyInv DEF Select
  <1>5. CASE Complete
    BY <1>5, CompleteInv
  <1>6. CASE Fail
    BY <1>6, StageOnlyInv DEF Fail
  <1>7. CASE CreateIndex
    BY <1>7, CreateIndexInv
  <1>8. CASE UNCHANGED vars
    BY <1>8 DEF IInv, vars, catalog, config, TypeOK, IndexesAreSound, RunIsVetted,
      IndexedExists, BaseAsked, SettledAgrees, Refused, RefusedIndex, Duplicate, Indexed
  <1> QED BY <1>1, <1>2, <1>3, <1>4, <1>5, <1>6, <1>7, <1>8 DEF Next

LEMMA Invariant == Spec => []IInv
  BY InitInv, NextInv, PTL DEF Spec

-----------------------------------------------------------------------------
(* The types of the session's state, between any two statements and in the *)
(* middle of one (sql.rs:46-52).                                           *)
THEOREM TypeCorrect == Spec => []TypeOK
  <1>1. IInv => TypeOK
    BY DEF IInv
  <1> QED BY <1>1, Invariant, PTL

(* The registered indexes are distinct and plain, and the optimizer sees   *)
(* exactly them (sql.rs:101-118, 173-352, 415-423).                        *)
THEOREM IndexesSound == Spec => []IndexesAreSound
  <1>1. IInv => IndexesAreSound
    BY DEF IInv
  <1> QED BY <1>1, Invariant, PTL

(* Between a rebuild and the next SET or RESET, queries are planned under  *)
(* what the last SET, or RESET that reached base, asked for, even if that  *)
(* one failed midway (sql.rs:149-171, 415-423).                            *)
THEOREM SetHolds == Spec => []SetStaysInForce
  <1>1. IInv => SetStaysInForce
    BY DEF IInv, BaseAsked, SettledAgrees, SetStaysInForce
  <1> QED BY <1>1, Invariant, PTL

(* Only statements the session does not vet change an indexed table        *)
(* (sql.rs:124-147, 354-413).                                              *)
THEOREM IndexedSpared == Spec => VettedWritesSpareIndexed
  <1> DEFINE Spared == \A t \in Table :
        Indexed(t) /\ version'[t] # version[t]
          => statement.kind \in {"replace", "analyze", "prepared"}
  <1>1. ASSUME IInv, [Next]_vars PROVE Spared
    <2> SUFFICES ASSUME NEW t \in Table, Indexed(t), version'[t] # version[t]
                 PROVE  statement.kind \in {"replace", "analyze", "prepared"}
      OBVIOUS
    <2>1. ExecuteWrite
      BY <1>1 DEF Next, Submit, ExecuteSetting, Select, Complete, Fail, CreateIndex,
        vars, catalog
    <2>2. statement \in Statements /\ statement.kind \in Writes /\ t = statement.table
      BY <1>1, <2>1 DEF IInv, TypeOK, ExecuteWrite
    <2>3. statement.kind \notin {"insert", "drop", "update"}
      BY <1>1, <2>1, <2>2, VettedProtectsTarget DEF IInv, RunIsVetted, ExecuteWrite, Refused
    <2>4. statement.kind # "create"
      BY <1>1, <2>1, <2>2 DEF ExecuteWrite, Accepts, IInv, IndexedExists, Indexed
    <2> QED BY <2>2, <2>3, <2>4 DEF Writes
  <1>2. IInv /\ [Next]_vars => [Spared]_vars
    BY <1>1
  <1> QED BY <1>2, Invariant, PTL DEF Spec, VettedWritesSpareIndexed

-----------------------------------------------------------------------------
(* Rounding keeps the order, and is the same on both sides of zero.        *)
LEMMA CoarseOrder ==
  ASSUME NEW a \in Int, NEW b \in Int
  PROVE  /\ Coarse(a) \in Int
         /\ a <= b => Coarse(a) <= Coarse(b)
         /\ Coarse(-a) = -Coarse(a)
  <1>1. \A d \in Int : /\ d \div Grain \in Int
                       /\ Grain * (d \div Grain) <= d
                       /\ d < Grain * (d \div Grain) + Grain
    BY TopKAssumption
  <1>2. ASSUME NEW c \in Int, NEW d \in Int, c <= d
        PROVE  c \div Grain <= d \div Grain
    <2>1. PICK p \in Int : p = c \div Grain /\ Grain * p <= c
      BY <1>1
    <2>2. PICK q \in Int : q = d \div Grain /\ d < Grain * q + Grain
      BY <1>1
    <2>3. CASE p > q
      <3>1. Grain * p >= Grain * (q + 1)
        BY <2>3, TopKAssumption
      <3>2. Grain * (q + 1) = Grain * q + Grain
        BY TopKAssumption
      <3>3. Grain \in Int /\ Grain * p \in Int /\ Grain * q \in Int
        BY TopKAssumption
      <3> QED BY <1>2, <2>1, <2>2, <3>1, <3>2, <3>3
    <2> QED BY <2>1, <2>2, <2>3
  <1>3. \A d \in Int : d >= 0 => d \div Grain >= 0
    <2>1. 0 \div Grain = 0
      BY TopKAssumption
    <2> QED BY <1>2, <2>1
  <1>4. Coarse(a) \in Int /\ Coarse(-a) = -Coarse(a)
    <2>1. 0 \div Grain = 0
      BY TopKAssumption
    <2> QED BY <1>1, <2>1 DEF Coarse
  <1>5. ASSUME a <= b PROVE Coarse(a) <= Coarse(b)
    <2>1. CASE a >= 0
      BY <1>2, <1>5, <2>1 DEF Coarse
    <2>2. CASE a < 0 /\ b >= 0
      BY <1>1, <1>3, <2>2 DEF Coarse
    <2>3. CASE b < 0
      <3>1. -b <= -a
        BY <1>5
      <3>2. (-b) \div Grain <= (-a) \div Grain
        BY <1>2, <3>1
      <3> QED BY <1>1, <1>5, <2>3, <3>2 DEF Coarse
    <2> QED BY <2>1, <2>2, <2>3
  <1> QED BY <1>4, <1>5

-----------------------------------------------------------------------------
(* The rows of a table are counted once each: a number for every place.    *)
LEMMA Locations ==
  ASSUME NEW batches \in Tables
  PROVE  /\ Len(RowLocations(batches)) = Cardinality(Located(batches))
         /\ Cardinality(Located(batches)) \in Nat
         /\ DOMAIN RowLocations(batches) = 1 .. Cardinality(Located(batches))
         /\ \A n \in DOMAIN RowLocations(batches) : RowLocations(batches)[n] \in Located(batches)
         /\ \A m, n \in DOMAIN RowLocations(batches) :
              m # n => RowLocations(batches)[m] # RowLocations(batches)[n]
         /\ \A l \in Located(batches) :
              \E n \in DOMAIN RowLocations(batches) : RowLocations(batches)[n] = l
  <1> DEFINE S == Located(batches)
             Earlier(l) == {m \in S : m.batch < l.batch \/ (m.batch = l.batch /\ m.row < l.row)}
             Before == [l \in S |-> Earlier(l)]
             f == RowLocations(batches)
  <1>1. /\ IsSeq(batches) /\ \A b \in DOMAIN batches : IsSeq(batches[b])
    BY TablesAssumption
  <1>2. IsFiniteSet(S)
    <2> DEFINE OfBatch(b) == {[batch |-> b, row |-> r] : r \in DOMAIN batches[b]}
    <2>1. IsFiniteSet(DOMAIN batches) /\ \A b \in DOMAIN batches : IsFiniteSet(DOMAIN batches[b])
      BY <1>1, FS_Interval DEF IsSeq
    <2>2. ASSUME NEW b \in DOMAIN batches PROVE IsFiniteSet(OfBatch(b))
      <3> DEFINE locate == [r \in DOMAIN batches[b] |-> [batch |-> b, row |-> r]]
      <3>1. IsFiniteSet({locate[r] : r \in DOMAIN batches[b]})
        BY <2>1, FiniteImage
      <3>2. {locate[r] : r \in DOMAIN batches[b]} = OfBatch(b)
        OBVIOUS
      <3> QED BY <3>1, <3>2
    <2>3. IsFiniteSet({OfBatch(b) : b \in DOMAIN batches})
      <3> DEFINE parts == [b \in DOMAIN batches |-> OfBatch(b)]
      <3>1. IsFiniteSet({parts[b] : b \in DOMAIN batches})
        BY <2>1, FiniteImage
      <3>2. {parts[b] : b \in DOMAIN batches} = {OfBatch(b) : b \in DOMAIN batches}
        OBVIOUS
      <3> QED BY <3>1, <3>2
    <2> QED BY <2>2, <2>3, FS_UNION DEF Located
  <1>3. \A l \in S : l.batch \in Int /\ l.row \in Int /\ l = [batch |-> l.batch, row |-> l.row]
    BY <1>1 DEF Located, IsSeq
  <1>4. IsOrder(S, Before)
    <2>1. \A a \in S : a \notin Earlier(a)
      BY <1>3
    <2>2. \A a, b \in S : a # b => a \in Earlier(b) \/ b \in Earlier(a)
      BY <1>3
    <2>3. \A a \in S : \A b \in Earlier(a) : Earlier(b) \subseteq Earlier(a)
      BY <1>3
    <2> QED BY <2>1, <2>2, <2>3 DEF IsOrder
  <1>5. /\ Cardinality(S) \in Nat
        /\ \A place \in 0 .. Cardinality(S) - 1 : \E l \in S : Cardinality(Earlier(l)) = place
    <2>1. /\ Cardinality(S) \in Nat
          /\ \A place \in 0 .. Cardinality(S) - 1 : \E l \in S : Cardinality(Before[l]) = place
      <3> HIDE DEF S, Before
      <3> QED BY <1>2, <1>4, Ranks
    <2> QED BY <2>1
  <1>6. f = [n \in 1 .. Cardinality(S) |-> CHOOSE l \in S : Cardinality(Earlier(l)) = n - 1]
    BY DEF RowLocations
  <1>7. \A n \in 1 .. Cardinality(S) : f[n] \in S /\ Cardinality(Before[f[n]]) = n - 1
    <2> SUFFICES ASSUME NEW n \in 1 .. Cardinality(S)
                 PROVE  f[n] \in S /\ Cardinality(Before[f[n]]) = n - 1
      OBVIOUS
    <2>1. \E l \in S : Cardinality(Earlier(l)) = n - 1
      <3>1. n - 1 \in 0 .. Cardinality(S) - 1
        BY <1>5
      <3> HIDE DEF S, Earlier
      <3> QED BY <1>5, <3>1
    <2>2. f[n] = CHOOSE l \in S : Cardinality(Earlier(l)) = n - 1
      BY <1>6
    <2>3. f[n] \in S /\ Cardinality(Earlier(f[n])) = n - 1
      <3> HIDE DEF S, Earlier, f
      <3> QED BY <2>1, <2>2
    <2> QED BY <2>3
  <1>8. DOMAIN f = 1 .. Cardinality(S) /\ Len(f) = Cardinality(S)
    <2>1. f \in [1 .. Cardinality(S) -> S]
      <3> HIDE DEF S, f
      <3> QED BY <1>6, <1>7
    <2> HIDE DEF S, f
    <2> QED BY <1>5, <2>1, LengthOf
  <1> HIDE DEF S, Before, f, Earlier
  <1>9. /\ \A m, n \in 1 .. Cardinality(S) : m < n => f[m] # f[n]
        /\ \A a \in S : \E n \in 1 .. Cardinality(S) : f[n] = a
    BY <1>2, <1>4, <1>5, <1>7, InRankOrder
  <1>10. \A m, n \in 1 .. Cardinality(S) : m # n => f[m] # f[n]
    BY <1>5, <1>9
  <1> QED BY <1>5, <1>7, <1>8, <1>9, <1>10 DEF S, f

(* The row an index knows by a number.                                     *)
NumberedRow(n) == RowAt(RowLocations(table)[n])

LEMMA NumberedRows ==
  ASSUME table \in Tables
  PROVE  /\ RowCount \in Nat /\ DOMAIN RowLocations(table) = 1 .. RowCount
         /\ TableRows = {NumberedRow(n) : n \in 1 .. RowCount}
         /\ \A m, n \in 1 .. RowCount : m # n => NumberedRow(m).id # NumberedRow(n).id
         /\ Cardinality(TableRows) = RowCount
         /\ \A n \in 1 .. RowCount : \A column \in VectorColumns :
              NumberedRow(n)[column] # Null =>
                NumberedRow(n)[column] \in [1 .. DIMENSION -> Component \cup {Null, NonFinite}]
  <1>1. /\ RowCount \in Nat /\ DOMAIN RowLocations(table) = 1 .. RowCount
        /\ \A n \in 1 .. RowCount : RowLocations(table)[n] \in Located(table)
        /\ \A m, n \in 1 .. RowCount : m # n => RowLocations(table)[m] # RowLocations(table)[n]
    BY Locations DEF RowCount
  <1>2. \A m, n \in 1 .. RowCount : m # n => NumberedRow(m).id # NumberedRow(n).id
    BY <1>1, TablesAssumption DEF NumberedRow, RowAt
  <1>3. TableRows = {NumberedRow(n) : n \in 1 .. RowCount}
    BY DEF TableRows, NumberedRow
  <1>4. Cardinality(TableRows) = RowCount
    <2> DEFINE number == [n \in 1 .. RowCount |-> NumberedRow(n)]
    <2>1. IsFiniteSet(1 .. RowCount) /\ Cardinality(1 .. RowCount) = RowCount
      BY <1>1, FS_Interval
    <2>2. \A m, n \in 1 .. RowCount : number[m] = number[n] => m = n
      BY <1>2
    <2>3. Cardinality({number[n] : n \in 1 .. RowCount}) = RowCount
      BY <2>1, <2>2, FiniteImage
    <2>4. {number[n] : n \in 1 .. RowCount} = {NumberedRow(n) : n \in 1 .. RowCount}
      OBVIOUS
    <2> QED BY <1>3, <2>3, <2>4
  <1>5. \A n \in 1 .. RowCount : \A column \in VectorColumns :
          NumberedRow(n)[column] # Null =>
            NumberedRow(n)[column] \in [1 .. DIMENSION -> Component \cup {Null, NonFinite}]
    BY <1>1, TablesAssumption DEF NumberedRow, RowAt
  <1> QED BY <1>1, <1>2, <1>3, <1>4, <1>5

-----------------------------------------------------------------------------
(* A literal that is narrowed to a query keeps its value.                  *)
LEMMA LiteralKept ==
  ASSUME NEW literal, literal.list => LiteralOK(literal),
         NEW q \in ScalarVector(literal),
         Len(q) = DIMENSION, \A c \in DOMAIN q : q[c] # NonFinite
  PROVE  q = literal.values /\ q \in [1 .. DIMENSION -> Component]
  <1>1. literal.list /\ \A c \in DOMAIN literal.values : literal.values[c] # Null
    BY DEF ScalarVector
  <1>a. /\ IsSeq(literal.values)
        /\ literal.values \in [DOMAIN literal.values -> Component \cup {Null, NonFinite}]
        /\ literal.item \in {"Int32", "Int64"} =>
             \A c \in DOMAIN literal.values : literal.values[c] # Null =>
               Narrow(literal.values[c]) = literal.values[c]
    BY <1>1 DEF LiteralOK
  <1>2. q = literal.values
    <2>1. CASE literal.item \in {"Int32", "Int64"}
      <3>1. q = [c \in DOMAIN literal.values |-> Narrow(literal.values[c])]
        BY <1>1, <2>1 DEF ScalarVector
      <3>2. PICK v : v = literal.values
        OBVIOUS
      <3>3. v \in [DOMAIN v -> Component \cup {Null, NonFinite}]
        BY <1>a, <3>2
      <3>4. \A c \in DOMAIN v : Narrow(v[c]) = v[c]
        BY <1>a, <1>1, <2>1, <3>2
      <3>5. q = [c \in DOMAIN v |-> v[c]]
        BY <3>1, <3>2, <3>4
      <3>6. q = v
        BY <3>3, <3>5
      <3> QED BY <3>2, <3>6
    <2>2. CASE literal.item \notin {"Int32", "Int64"}
      BY <1>1, <2>2 DEF ScalarVector
    <2> QED BY <2>1, <2>2
  <1>3. DOMAIN q = 1 .. DIMENSION
    BY <1>a, <1>2 DEF IsSeq
  <1>4. q \in [DOMAIN q -> Component \cup {Null, NonFinite}] /\ \A c \in DOMAIN q : q[c] # Null
    BY <1>a, <1>1, <1>2
  <1>5. q \in [DOMAIN q -> Component]
    BY <1>4
  <1> QED BY <1>2, <1>3, <1>5

(* The vectors of an indexed column.                                       *)
LEMMA IndexedVectors ==
  ASSUME table \in Tables, NEW spec, Indexable(spec), NEW n \in 1 .. RowCount
  PROVE  /\ NumberedRow(n)[spec.column] \in [1 .. DIMENSION -> Component]
         /\ spec.metric = "cosine" => ~ZeroNorm(NumberedRow(n)[spec.column])
  <1>1. DatasetOf(spec.column)[n] = NumberedRow(n)[spec.column]
    BY DEF DatasetOf, NumberedRow
  <1>2. /\ NumberedRow(n)[spec.column] # Null
        /\ \A c \in 1 .. DIMENSION : NumberedRow(n)[spec.column][c] \notin {Null, NonFinite}
        /\ spec.metric = "cosine" => ~ZeroNorm(NumberedRow(n)[spec.column])
        /\ spec.column \in VectorColumns
    BY <1>1 DEF Indexable
  <1>3. NumberedRow(n)[spec.column] \in [1 .. DIMENSION -> Component \cup {Null, NonFinite}]
    BY <1>2, NumberedRows
  <1> QED BY <1>2, <1>3

(* The distance of a row from the query, before it is rounded.             *)
Exact(spec, q, n) == MetricDistance(spec.metric, q, NumberedRow(n)[spec.column])

(* An index that matches a plan measures what the plan sorts by.           *)
LEMMA MeasuresTheOrder ==
  ASSUME table \in Tables, plan \in Plans, IsTopKSort(plan),
         NEW spec \in Specs, Indexable(spec),
         NEW q \in MatchVectorOrder(plan.keys, plan.projection, spec),
         NEW n \in 1 .. RowCount
  PROVE  /\ Exact(spec, q, n) \in Int
         /\ plan.keys[1].descending <=> spec.metric = "dot"
         /\ SqlValue(NumberedRow(n)) = IF spec.metric = "dot" THEN -Exact(spec, q, n)
                                       ELSE Exact(spec, q, n)
         /\ SqlValue(Project(NumberedRow(n))) = SqlValue(NumberedRow(n))
  <1> DEFINE key    == plan.keys[1]
             schema == plan.projection
             pair   == ColumnAndLiteral(key.args[1], key.args[2], schema)
             column == MatchVectorColumn(pair[1], schema)
  <1>1. /\ Len(plan.keys) = 1 /\ key.descending = (spec.metric = "dot")
        /\ MetricForFunction(key.function) = spec.metric
        /\ Len(key.args) = 2 /\ pair # <<>>
        /\ column \in DOMAIN schema /\ schema[column] = spec.column
        /\ q \in ScalarVector(pair[2]) /\ Len(q) = DIMENSION
        /\ \A c \in DOMAIN q : q[c] # NonFinite
        /\ spec.metric = "cosine" => ~ZeroNorm(q)
    BY DEF MatchVectorOrder
  <1>2. 1 \in DOMAIN plan.keys /\ DOMAIN key.args = 1 .. 2
    <2> HIDE DEF schema, pair, column
    <2>1. DOMAIN plan.keys = 1 .. 1
      BY <1>1, PlansAssumption DEF IsSeq
    <2>2. 1 \in DOMAIN plan.keys
      BY <2>1
    <2>3. IsSeq(key.args)
      BY <2>2, PlansAssumption
    <2> HIDE DEF key
    <2> QED BY <1>1, <2>2, <2>3 DEF IsSeq
  <1>3. pair[2].kind = "literal" /\ pair[2] \in {key.args[1], key.args[2]}
    BY <1>1 DEF ColumnAndLiteral
  <1>4. pair[2].list => LiteralOK(pair[2])
    <2>1. PICK a \in DOMAIN key.args : pair[2] = key.args[a]
      BY <1>2, <1>3
    <2> HIDE DEF pair
    <2> QED BY <1>2, <1>3, <2>1, PlansAssumption
  <1>5. q = pair[2].values /\ q \in [1 .. DIMENSION -> Component]
    <2> HIDE DEF pair
    <2> QED BY <1>1, <1>4, LiteralKept
  <1>6. /\ NumberedRow(n)[spec.column] \in [1 .. DIMENSION -> Component]
        /\ spec.metric = "cosine" => ~ZeroNorm(NumberedRow(n)[spec.column])
    BY IndexedVectors
  <1>7. Exact(spec, q, n) \in Int
    BY <1>1, <1>5, <1>6, MetricAssumption, TopKAssumption DEF Exact
  <1>8. ASSUME NEW r, r[spec.column] = NumberedRow(n)[spec.column]
        PROVE  SqlValue(r) = IF spec.metric = "dot" THEN -Exact(spec, q, n)
                             ELSE Exact(spec, q, n)
    <2>1. SqlValue(r) =
            IF MetricForFunction(key.function) = "dot"
            THEN -MetricDistance(MetricForFunction(key.function), pair[2].values,
                                 r[schema[column]])
            ELSE MetricDistance(MetricForFunction(key.function), pair[2].values,
                                r[schema[column]])
      BY DEF SqlValue
    <2> HIDE DEF key, schema, pair, column
    <2> QED BY <1>1, <1>5, <1>8, <2>1 DEF Exact
  <1>9. Project(NumberedRow(n))[spec.column] = NumberedRow(n)[spec.column]
    BY <1>1 DEF Project
  <1>10. plan.keys[1].descending <=> spec.metric = "dot"
    BY <1>1
  <1> HIDE DEF key, schema, pair, column
  <1> QED BY <1>7, <1>8, <1>9, <1>10

-----------------------------------------------------------------------------
(* What any index returns: numbers of rows in the order of their rounded   *)
(* distances, none twice; and a flat one leaves out only later rows.       *)
Ranked(spec, q, found) ==
  /\ found \in Seq(1 .. RowCount)
  /\ \A m, n \in 1 .. Len(found) : m < n =>
       /\ found[m] # found[n]
       /\ Coarse(Exact(spec, q, found[m])) <= Coarse(Exact(spec, q, found[n]))

LeavesOutLater(spec, q, found) ==
  \A r \in 1 .. RowCount :
    (\A n \in 1 .. Len(found) : found[n] # r) =>
      \A n \in 1 .. Len(found) :
        Coarse(Exact(spec, q, found[n])) <= Coarse(Exact(spec, q, r))

LEMMA FlatRowsRanked ==
  ASSUME RowCount \in Nat, NEW spec, NEW q, NEW k \in 0 .. RowCount,
         \A n \in 1 .. RowCount : Exact(spec, q, n) \in Int
  PROVE  /\ Ranked(spec, q, FlatRows(spec, q, k))
         /\ LeavesOutLater(spec, q, FlatRows(spec, q, k))
         /\ Len(FlatRows(spec, q, k)) = k
  <1> DEFINE S == 1 .. RowCount
             At(n) == Coarse(MetricDistance(spec.metric, q, DatasetOf(spec.column)[n]))
             Ahead(n) == {m \in S : At(m) < At(n) \/ (At(m) = At(n) /\ m < n)}
             Before == [n \in S |-> Ahead(n)]
             f == FlatRows(spec, q, k)
  <1>1. \A n \in S : At(n) = Coarse(Exact(spec, q, n)) /\ At(n) \in Int
    <2>1. \A n \in S : MetricDistance(spec.metric, q, DatasetOf(spec.column)[n]) = Exact(spec, q, n)
      BY DEF DatasetOf, NumberedRow, Exact
    <2> QED BY <2>1, CoarseOrder
  <1>2. f = [place \in 1 .. k |-> CHOOSE n \in S : Cardinality(Ahead(n)) = place - 1]
    BY DEF FlatRows
  <1>3. IsFiniteSet(S) /\ Cardinality(S) = RowCount
    BY FS_Interval
  <1>4. IsOrder(S, Before)
    <2> HIDE DEF At
    <2>1. \A a \in S : a \notin Ahead(a)
      BY <1>1
    <2>2. \A a, b \in S : a # b => a \in Ahead(b) \/ b \in Ahead(a)
      BY <1>1
    <2>3. \A a \in S : \A b \in Ahead(a) : Ahead(b) \subseteq Ahead(a)
      BY <1>1
    <2> QED BY <2>1, <2>2, <2>3 DEF IsOrder
  <1>5. \A place \in 0 .. RowCount - 1 : \E n \in S : Cardinality(Ahead(n)) = place
    <2>1. \A place \in 0 .. RowCount - 1 : \E n \in S : Cardinality(Before[n]) = place
      <3> HIDE DEF S, Before
      <3> QED BY <1>3, <1>4, Ranks
    <2> HIDE DEF Ahead, S
    <2> QED BY <2>1
  <1>6. \A place \in 1 .. k : f[place] \in S /\ Cardinality(Before[f[place]]) = place - 1
    <2> SUFFICES ASSUME NEW place \in 1 .. k
                 PROVE  f[place] \in S /\ Cardinality(Before[f[place]]) = place - 1
      OBVIOUS
    <2>1. \E n \in S : Cardinality(Ahead(n)) = place - 1
      <3>1. place - 1 \in 0 .. RowCount - 1
        OBVIOUS
      <3> HIDE DEF S, Ahead
      <3> QED BY <1>5, <3>1
    <2>2. f[place] = CHOOSE n \in S : Cardinality(Ahead(n)) = place - 1
      <3> HIDE DEF S, Ahead, f
      <3> QED BY <1>2
    <2> HIDE DEF S, Ahead, f
    <2> QED BY <2>1, <2>2
  <1>7. f \in Seq(S) /\ Len(f) = k
    <2>1. f \in [1 .. k -> S]
      <3> HIDE DEF S, f
      <3> QED BY <1>2, <1>6
    <2>2. k \in Nat
      OBVIOUS
    <2> HIDE DEF S, f
    <2> QED BY <2>1, <2>2, LengthOf
  <1>8. /\ \A m, n \in 1 .. k : m < n => f[m] \in Before[f[n]] /\ f[m] # f[n]
        /\ \A a \in S : (\A n \in 1 .. k : f[n] # a) => \A n \in 1 .. k : f[n] \in Before[a]
    <2>1. k \in 0 .. Cardinality(S)
      BY <1>3
    <2> HIDE DEF S, Before, f
    <2> QED BY <1>3, <1>4, <1>6, <2>1, InRankOrder
  <1>9. \A a, b \in S : a \in Before[b] =>
          Coarse(Exact(spec, q, a)) <= Coarse(Exact(spec, q, b))
    <2> HIDE DEF At
    <2> QED BY <1>1
  <1> HIDE DEF S, Before, f
  <1>10. Ranked(spec, q, f)
    BY <1>6, <1>7, <1>8, <1>9 DEF Ranked, S
  <1>11. LeavesOutLater(spec, q, f)
    BY <1>6, <1>7, <1>8, <1>9 DEF LeavesOutLater, S
  <1> QED BY <1>7, <1>10, <1>11 DEF f

LEMMA SearchesRanked ==
  ASSUME RowCount \in Nat, NEW spec, NEW q, NEW k \in 1 .. RowCount,
         \A n \in 1 .. RowCount : Exact(spec, q, n) \in Int,
         NEW found \in Searches(spec, q, k)
  PROVE  /\ Ranked(spec, q, found)
         /\ spec.kind = "flat" => Len(found) = k /\ LeavesOutLater(spec, q, found)
  <1> DEFINE f == FlatRows(spec, q, k)
  <1>1. Ranked(spec, q, f) /\ LeavesOutLater(spec, q, f) /\ Len(f) = k
    BY FlatRowsRanked
  <1> HIDE DEF f
  <1>2. CASE found = f
    BY <1>1, <1>2
  <1>3. CASE found = Tail(f) /\ spec.kind # "flat"
    <2>1. f \in Seq(1 .. RowCount) /\ f # <<>>
      BY <1>1, EmptySeq DEF Ranked
    <2>2. /\ found \in Seq(1 .. RowCount) /\ Len(found) = k - 1
          /\ \A n \in 1 .. k - 1 : found[n] = f[n + 1]
      BY <1>1, <1>3, <2>1, HeadTailProperties
    <2>3. ASSUME NEW m \in 1 .. k - 1, NEW n \in 1 .. k - 1, m < n
          PROVE  /\ found[m] # found[n]
                 /\ Coarse(Exact(spec, q, found[m])) <= Coarse(Exact(spec, q, found[n]))
      <3>1. m + 1 \in 1 .. k /\ n + 1 \in 1 .. k /\ m + 1 < n + 1
        BY <2>3
      <3>2. /\ f[m + 1] # f[n + 1]
            /\ Coarse(Exact(spec, q, f[m + 1])) <= Coarse(Exact(spec, q, f[n + 1]))
        BY <1>1, <3>1 DEF Ranked
      <3> QED BY <2>2, <3>2
    <2> QED BY <1>3, <2>2, <2>3 DEF Ranked
  <1> QED BY <1>2, <1>3 DEF Searches, f

-----------------------------------------------------------------------------
(* The inductive invariant.  An index that serves a query matches its plan *)
(* and is an index of this table; what it found is one of its answers; and *)
(* what is returned are the rows found, in another order at most, which is *)
(* the one the final sort leaves where there is one.                       *)
Served ==
  pc \in {"rewritten", "selected", "batch", "done"} =>
    /\ IsTopKSort(plan) /\ server \in Specs /\ Indexable(server)
    /\ query \in MatchVectorOrder(plan.keys, plan.projection, server)

Found ==
  pc \in {"selected", "batch", "done"} =>
    rows \in Searches(server, query, MinOf(plan.fetch, RowCount))

Reordered(s, t) ==
  \E p \in [DOMAIN s -> DOMAIN s] :
    /\ \A m, n \in DOMAIN s : m < n => p[m] # p[n]
    /\ t = Permuted(s, p)

Returned ==
  /\ pc = "batch" => ~ordered /\ output = Lookup(rows)
  /\ pc = "done" =>
       IF ordered THEN output = Lookup(rows)
       ELSE /\ Reordered(Lookup(rows), output)
            /\ \A m, n \in DOMAIN output : m < n => ~SqlBefore(output[n], output[m])

TopKInv ==
  /\ table \in Tables /\ plan \in Plans
  /\ attachments \in Seq(Specs)
  /\ \A i \in DOMAIN attachments : Indexable(attachments[i])
  /\ Served /\ Found /\ Returned

LEMMA TopKInitInv == TopKInit => TopKInv
  <1> SUFFICES ASSUME TopKInit PROVE TopKInv
    OBVIOUS
  <1>1. attachments \in Seq(Specs) /\ DOMAIN attachments = {}
    BY EmptySeq DEF TopKInit
  <1> QED BY <1>1 DEF TopKInit, TopKInv, Served, Found, Returned

LEMMA AttachInv == TopKInv /\ Attach => TopKInv'
  <1> SUFFICES ASSUME TopKInv, Attach PROVE TopKInv'
    OBVIOUS
  <1>1. PICK spec \in Specs : Indexable(spec) /\ attachments' = Append(attachments, spec)
    BY DEF Attach
  <1>2. /\ attachments' \in Seq(Specs)
        /\ \A i \in DOMAIN attachments' : Indexable(attachments'[i])
    <2>1. /\ attachments' \in Seq(Specs) /\ Len(attachments') = Len(attachments) + 1
          /\ \A i \in 1 .. Len(attachments) : attachments'[i] = attachments[i]
          /\ attachments'[Len(attachments) + 1] = spec
      BY <1>1, AppendProperties DEF TopKInv
    <2>2. /\ Len(attachments) \in Nat /\ DOMAIN attachments = 1 .. Len(attachments)
          /\ DOMAIN attachments' = 1 .. Len(attachments')
      BY <2>1, LenProperties DEF TopKInv
    <2>3. \A i \in DOMAIN attachments' : i \in DOMAIN attachments \/ attachments'[i] = spec
      BY <2>1, <2>2
    <2> QED BY <1>1, <2>1, <2>2, <2>3 DEF TopKInv
  <1>3. pc = "attach" /\ UNCHANGED <<pc, table, plan>>
    BY DEF Attach
  <1>4. \A spec2 : Indexable(spec2)' <=> Indexable(spec2)
    BY <1>3 DEF Indexable, DatasetOf, RowCount, RowAt
  <1> QED BY <1>2, <1>3, <1>4 DEF TopKInv, Served, Found, Returned

LEMMA RewriteInv == TopKInv /\ Rewrite => TopKInv'
  <1> SUFFICES ASSUME TopKInv, Rewrite PROVE TopKInv'
    OBVIOUS
  <1>1. UNCHANGED <<table, attachments, plan, ordered, rows, output>>
    BY DEF Rewrite
  <1>2. \A spec : Indexable(spec)' <=> Indexable(spec)
    BY <1>1 DEF Indexable, DatasetOf, RowCount, RowAt
  <1>3. CASE pc' = "exact"
    BY <1>1, <1>2, <1>3 DEF TopKInv, Served, Found, Returned
  <1>4. CASE pc' # "exact"
    <2>1. PICK i \in Matches :
            \E q \in MatchVectorOrder(plan.keys, plan.projection, attachments[i]) :
            server' = attachments[i] /\ query' = q /\ pc' = "rewritten"
      BY <1>4 DEF Rewrite
    <2>2. IsTopKSort(plan) /\ i \in DOMAIN attachments
      BY <2>1 DEF Matches
    <2>3. attachments[i] \in Specs
      BY <2>2, LenProperties DEF TopKInv
    <2>4. Served'
      BY <1>1, <1>2, <2>1, <2>2, <2>3 DEF TopKInv, Served
    <2> QED BY <1>1, <1>2, <2>1, <2>4 DEF TopKInv, Found, Returned
  <1> QED BY <1>3, <1>4

(* Steps that leave the table, the plan and the index alone.               *)
LEMMA SameQuery ==
  ASSUME TopKInv, UNCHANGED <<table, attachments, plan, ordered, server, query>>,
         pc \in {"rewritten", "selected", "batch", "done"}
  PROVE  /\ Served' /\ table' \in Tables /\ plan' \in Plans /\ attachments' \in Seq(Specs)
         /\ (\A i \in DOMAIN attachments : Indexable(attachments[i]))'
         /\ Searches(server, query, MinOf(plan.fetch, RowCount))'
              = Searches(server, query, MinOf(plan.fetch, RowCount))
  <1>1. \A spec : Indexable(spec)' <=> Indexable(spec)
    BY DEF Indexable, DatasetOf, RowCount, RowAt
  <1>2. Searches(server, query, MinOf(plan.fetch, RowCount))'
          = Searches(server, query, MinOf(plan.fetch, RowCount))
    BY DEF Searches, FlatRows, DatasetOf, RowCount, RowAt
  <1>3. /\ IsTopKSort(plan) /\ server \in Specs /\ Indexable(server)
        /\ query \in MatchVectorOrder(plan.keys, plan.projection, server)
    BY DEF TopKInv, Served
  <1>4. Served'
    BY <1>1, <1>3 DEF Served
  <1>5. (\A i \in DOMAIN attachments : Indexable(attachments[i]))'
    BY <1>1 DEF TopKInv
  <1> QED BY <1>2, <1>4, <1>5 DEF TopKInv

LEMMA SelectRowsInv == TopKInv /\ SelectRows => TopKInv'
  <1> SUFFICES ASSUME TopKInv, SelectRows PROVE TopKInv'
    OBVIOUS
  <1>1. /\ UNCHANGED <<table, attachments, plan, ordered, server, query>>
        /\ pc = "rewritten" /\ pc' = "selected"
        /\ rows' \in Searches(server, query, MinOf(plan.fetch, RowCount))
    BY DEF SelectRows
  <1>2. Found'
    BY <1>1, SameQuery DEF Found
  <1>3. Returned'
    BY <1>1 DEF Returned
  <1> QED BY <1>1, <1>2, <1>3, SameQuery DEF TopKInv

LEMMA OutputBatchInv == TopKInv /\ OutputBatch => TopKInv'
  <1> SUFFICES ASSUME TopKInv, OutputBatch PROVE TopKInv'
    OBVIOUS
  <1>1. /\ UNCHANGED <<table, attachments, plan, ordered, server, query, rows>>
        /\ pc = "selected" /\ pc' = (IF ordered THEN "done" ELSE "batch")
        /\ output' = Lookup(rows)
    BY DEF OutputBatch
  <1>2. Lookup(rows)' = Lookup(rows)
    BY <1>1 DEF Lookup, Project, RowAt
  <1>3. Returned'
    BY <1>1, <1>2 DEF Returned
  <1>4. Found'
    BY <1>1, SameQuery DEF Found, TopKInv
  <1> QED BY <1>1, <1>3, <1>4, SameQuery DEF TopKInv

LEMMA FinalSortInv == TopKInv /\ FinalSort => TopKInv'
  <1> SUFFICES ASSUME TopKInv, FinalSort PROVE TopKInv'
    OBVIOUS
  <1>1. /\ UNCHANGED <<table, attachments, plan, ordered, server, query, rows>>
        /\ pc = "batch" /\ pc' = "done" /\ ~ordered /\ output = Lookup(rows)
    BY DEF FinalSort, TopKInv, Returned
  <1>2. Lookup(rows)' = Lookup(rows)
    BY <1>1 DEF Lookup, Project, RowAt
  <1>3. PICK p \in [DOMAIN output -> DOMAIN output] :
          /\ \A m, n \in DOMAIN output : m < n =>
               p[m] # p[n] /\ ~SqlBefore(output[p[n]], output[p[m]])
          /\ output' = Permuted(output, p)
    BY <1>1 DEF FinalSort, ClaimsOrder
  <1>4. Reordered(Lookup(rows), output')
    BY <1>1, <1>3 DEF Reordered
  <1>5. DOMAIN output' = DOMAIN output /\ \A n \in DOMAIN output : output'[n] = output[p[n]]
    BY <1>3 DEF Permuted
  <1>6. \A r, s : SqlBefore(r, s)' <=> SqlBefore(r, s)
    BY <1>1 DEF SqlBefore, SqlValue
  <1>7. (\A m, n \in DOMAIN output : m < n => ~SqlBefore(output[n], output[m]))'
    BY <1>3, <1>5, <1>6
  <1>8. Returned'
    BY <1>1, <1>2, <1>4, <1>7 DEF Returned
  <1>9. Found'
    BY <1>1, SameQuery DEF Found, TopKInv
  <1> QED BY <1>1, <1>8, <1>9, SameQuery DEF TopKInv

LEMMA TopKStepInv == TopKInv /\ [TopKNext]_topKVars => TopKInv'
  <1> SUFFICES ASSUME TopKInv, [TopKNext]_topKVars PROVE TopKInv'
    OBVIOUS
  <1>1. CASE UNCHANGED topKVars
    <2> USE <1>1 DEF topKVars
    <2>1. \A spec : Indexable(spec)' <=> Indexable(spec)
      BY DEF Indexable, DatasetOf, RowCount, RowAt
    <2>2. /\ Searches(server, query, MinOf(plan.fetch, RowCount))'
               = Searches(server, query, MinOf(plan.fetch, RowCount))
          /\ Lookup(rows)' = Lookup(rows)
      BY DEF Searches, FlatRows, DatasetOf, RowCount, RowAt, Lookup, Project
    <2>3. \A r, s : SqlBefore(r, s)' <=> SqlBefore(r, s)
      BY DEF SqlBefore, SqlValue
    <2>4. Served'
      BY <2>1 DEF TopKInv, Served
    <2>5. Found' /\ Returned'
      BY <2>2, <2>3 DEF TopKInv, Found, Returned
    <2> QED BY <2>1, <2>4, <2>5 DEF TopKInv
  <1> QED BY <1>1, AttachInv, RewriteInv, SelectRowsInv, OutputBatchInv, FinalSortInv DEF TopKNext

LEMMA TopKInvariant == TopKSpec => []TopKInv
  BY TopKInitInv, TopKStepInv, PTL DEF TopKSpec

-----------------------------------------------------------------------------
(* A reordering leaves nothing out.                                        *)
LEMMA PermutationOnto ==
  ASSUME NEW n \in Nat, NEW p \in [1 .. n -> 1 .. n],
         \A i, j \in 1 .. n : i < j => p[i] # p[j]
  PROVE  /\ \A i, j \in 1 .. n : p[i] = p[j] => i = j
         /\ \A j \in 1 .. n : \E i \in 1 .. n : p[i] = j
  <1>1. \A i, j \in 1 .. n : p[i] = p[j] => i = j
    <2> SUFFICES ASSUME NEW i \in 1 .. n, NEW j \in 1 .. n, p[i] = p[j], i # j PROVE FALSE
      OBVIOUS
    <2>1. i < j \/ j < i
      OBVIOUS
    <2> QED BY <2>1
  <1>2. IsFiniteSet(1 .. n)
    BY FS_Interval
  <1>3. p \in Injection(1 .. n, 1 .. n)
    BY <1>1 DEF Injection, IsInjective
  <1>4. p \in Surjection(1 .. n, 1 .. n)
    BY <1>2, <1>3, FS_Injection
  <1> QED BY <1>1, <1>4 DEF Surjection

(* What is known of a query an index has served.                           *)
LEMMA ServedQuery ==
  ASSUME TopKInv, pc = "done"
  PROVE  /\ RowCount \in Nat \ {0}
         /\ \A n \in 1 .. RowCount : Exact(server, query, n) \in Int
         /\ Ranked(server, query, rows)
         /\ server.kind = "flat" =>
              /\ Len(rows) = MinOf(plan.fetch, RowCount)
              /\ LeavesOutLater(server, query, rows)
         /\ \E p \in [1 .. Len(rows) -> 1 .. Len(rows)] :
              /\ \A i, j \in 1 .. Len(rows) : i < j => p[i] # p[j]
              /\ output = [n \in 1 .. Len(rows) |-> Project(NumberedRow(rows[p[n]]))]
              /\ ordered => \A n \in 1 .. Len(rows) : p[n] = n
  <1>1. /\ table \in Tables /\ plan \in Plans /\ IsTopKSort(plan)
        /\ server \in Specs /\ Indexable(server)
        /\ query \in MatchVectorOrder(plan.keys, plan.projection, server)
        /\ rows \in Searches(server, query, MinOf(plan.fetch, RowCount))
    BY DEF TopKInv, Served, Found
  <1>2. RowCount \in Nat \ {0}
    BY <1>1, NumberedRows DEF Indexable
  <1>3. \A n \in 1 .. RowCount : Exact(server, query, n) \in Int
    BY <1>1, MeasuresTheOrder
  <1>4. MinOf(plan.fetch, RowCount) \in 1 .. RowCount
    BY <1>1, <1>2, PlansAssumption DEF MinOf, IsTopKSort
  <1>5. /\ Ranked(server, query, rows)
        /\ server.kind = "flat" =>
             /\ Len(rows) = MinOf(plan.fetch, RowCount)
             /\ LeavesOutLater(server, query, rows)
    BY <1>1, <1>2, <1>3, <1>4, SearchesRanked
  <1>6. DOMAIN rows = 1 .. Len(rows) /\ Len(rows) \in Nat
    BY <1>5, LenProperties DEF Ranked
  <1>7. Lookup(rows) = [n \in 1 .. Len(rows) |-> Project(NumberedRow(rows[n]))]
    BY <1>6 DEF Lookup, NumberedRow
  <1>8. CASE ordered
    <2> DEFINE p == [n \in 1 .. Len(rows) |-> n]
    <2>1. output = Lookup(rows)
      BY <1>8 DEF TopKInv, Returned
    <2>2. /\ p \in [1 .. Len(rows) -> 1 .. Len(rows)]
          /\ \A n \in 1 .. Len(rows) : p[n] = n
      OBVIOUS
    <2>3. output = [n \in 1 .. Len(rows) |-> Project(NumberedRow(rows[p[n]]))]
      BY <1>7, <2>1, <2>2
    <2>4. \A i, j \in 1 .. Len(rows) : i < j => p[i] # p[j]
      BY <1>6, <2>2
    <2> HIDE DEF p
    <2> QED BY <1>2, <1>3, <1>5, <2>2, <2>3, <2>4
  <1>9. CASE ~ordered
    <2>1. PICK p \in [1 .. Len(rows) -> 1 .. Len(rows)] :
            /\ \A i, j \in 1 .. Len(rows) : i < j => p[i] # p[j]
            /\ output = Permuted(Lookup(rows), p)
      BY <1>7, <1>9 DEF TopKInv, Returned, Reordered
    <2>2. output = [n \in 1 .. Len(rows) |-> Project(NumberedRow(rows[p[n]]))]
      BY <1>7, <2>1 DEF Permuted
    <2> QED BY <1>2, <1>3, <1>5, <1>9, <2>1, <2>2
  <1> QED BY <1>8, <1>9

(* SQL puts one row clearly before another exactly if its rounded distance *)
(* is the smaller one, whether it is in the table or in the result.        *)
LEMMA ClearOrder ==
  ASSUME TopKInv, pc = "done", NEW m \in 1 .. RowCount, NEW n \in 1 .. RowCount,
         Coarse(Exact(server, query, m)) <= Coarse(Exact(server, query, n))
  PROVE  /\ ~ClearlyBefore(NumberedRow(n), Project(NumberedRow(m)))
         /\ ~ClearlyBefore(Project(NumberedRow(n)), Project(NumberedRow(m)))
  <1> DEFINE d(i) == Exact(server, query, i)
             Sql(i) == IF server.metric = "dot" THEN -d(i) ELSE d(i)
  <1>1. /\ table \in Tables /\ plan \in Plans /\ IsTopKSort(plan)
        /\ server \in Specs /\ Indexable(server)
        /\ query \in MatchVectorOrder(plan.keys, plan.projection, server)
    BY DEF TopKInv, Served
  <1>2. \A i \in 1 .. RowCount :
          /\ d(i) \in Int
          /\ plan.keys[1].descending <=> server.metric = "dot"
          /\ SqlValue(NumberedRow(i)) = Sql(i)
          /\ SqlValue(Project(NumberedRow(i))) = Sql(i)
    BY <1>1, MeasuresTheOrder
  <1>3. /\ d(m) \in Int /\ d(n) \in Int
        /\ Coarse(d(m)) \in Int /\ Coarse(d(n)) \in Int
        /\ Coarse(-d(m)) = -Coarse(d(m)) /\ Coarse(-d(n)) = -Coarse(d(n))
    <2> HIDE DEF d
    <2> QED BY <1>2, CoarseOrder
  <1>4. CASE server.metric = "dot"
    <2>1. plan.keys[1].descending
      BY <1>2, <1>4
    <2> HIDE DEF d
    <2>2. Coarse(Sql(n)) <= Coarse(Sql(m))
      BY <1>3, <1>4 DEF d
    <2>3. Coarse(Sql(n)) \in Int /\ Coarse(Sql(m)) \in Int
      BY <1>3, <1>4
    <2> HIDE DEF Sql
    <2> QED BY <1>2, <2>1, <2>2, <2>3 DEF ClearlyBefore
  <1>5. CASE server.metric # "dot"
    <2>1. ~plan.keys[1].descending
      BY <1>2, <1>5
    <2> HIDE DEF d
    <2>2. Coarse(Sql(m)) <= Coarse(Sql(n))
      BY <1>3, <1>5 DEF d
    <2>3. Coarse(Sql(n)) \in Int /\ Coarse(Sql(m)) \in Int
      BY <1>3, <1>5
    <2> HIDE DEF Sql
    <2> QED BY <1>2, <2>1, <2>2, <2>3 DEF ClearlyBefore
  <1> QED BY <1>4, <1>5

(* Whatever index VectorIndexOptimizer puts in the place of a sort, for    *)
(* any table, plan and literal: the rows returned are rows of the table,   *)
(* none twice, and a flat index returns as many as asked for and none that *)
(* SQL would clearly put after one it leaves out.                          *)
THEOREM IndexAnswers == TopKSpec => []IndexAnswersTheQuery
  <1>1. ASSUME TopKInv, pc = "done"
        PROVE  LET returned == {output[n].id : n \in DOMAIN output}
               IN  /\ \A n \in DOMAIN output : \E row \in TableRows : output[n] = Project(row)
                   /\ Cardinality(returned) = Len(output)
                   /\ server.kind = "flat" =>
                        /\ Len(output) = MinOf(plan.fetch, Cardinality(TableRows))
                        /\ \A row \in TableRows : row.id \notin returned =>
                             \A n \in DOMAIN output : ~ClearlyBefore(row, output[n])
    <2> DEFINE returned == {output[n].id : n \in DOMAIN output}
               k == Len(rows)
    <2>1. PICK p \in [1 .. k -> 1 .. k] :
            /\ \A i, j \in 1 .. k : i < j => p[i] # p[j]
            /\ output = [n \in 1 .. k |-> Project(NumberedRow(rows[p[n]]))]
      BY <1>1, ServedQuery
    <2>2. /\ k \in Nat /\ \A n \in 1 .. k : rows[n] \in 1 .. RowCount
          /\ \A m, n \in 1 .. k : m < n => rows[m] # rows[n]
      BY <1>1, ServedQuery, LenProperties, ElementOfSeq DEF Ranked
    <2>14. k = Len(rows)
      OBVIOUS
    <2> HIDE DEF k
    <2>3. /\ RowCount \in Nat /\ Cardinality(TableRows) = RowCount
          /\ TableRows = {NumberedRow(n) : n \in 1 .. RowCount}
          /\ \A m, n \in 1 .. RowCount : m # n => NumberedRow(m).id # NumberedRow(n).id
      BY <1>1, NumberedRows DEF TopKInv
    <2>4. \A n \in 1 .. k : p[n] \in 1 .. k /\ rows[p[n]] \in 1 .. RowCount
      BY <2>2
    <2>5. /\ \A i, j \in 1 .. k : p[i] = p[j] => i = j
          /\ \A j \in 1 .. k : \E i \in 1 .. k : p[i] = j
      BY <2>1, <2>2, PermutationOnto
    <2>6. \A m, n \in 1 .. k : rows[p[m]] = rows[p[n]] => m = n
      <3> SUFFICES ASSUME NEW m \in 1 .. k, NEW n \in 1 .. k, m # n
                   PROVE  rows[p[m]] # rows[p[n]]
        OBVIOUS
      <3>1. p[m] \in 1 .. k /\ p[n] \in 1 .. k /\ p[m] # p[n]
        BY <2>4, <2>5
      <3>2. p[m] < p[n] \/ p[n] < p[m]
        BY <2>2, <3>1
      <3> QED BY <2>2, <3>1, <3>2
    <2>7. \A r : Project(r).id = r.id
      BY <1>1, PlansAssumption DEF Project, TopKInv
    <2>8. DOMAIN output = 1 .. k /\ Len(output) = k
      <3> DEFINE Shown == {output[n] : n \in 1 .. k}
      <3>1. output \in [1 .. k -> Shown]
        BY <2>1
      <3> HIDE DEF Shown
      <3> QED BY <2>2, <3>1, LengthOf
    <2>9. \A n \in 1 .. k : /\ output[n] = Project(NumberedRow(rows[p[n]]))
                            /\ output[n].id = NumberedRow(rows[p[n]]).id
      BY <2>1, <2>7
    <2>10. Cardinality(returned) = Len(output)
      <3> DEFINE ids == [n \in 1 .. k |-> output[n].id]
      <3>1. \A m, n \in 1 .. k : ids[m] = ids[n] => m = n
        <4> SUFFICES ASSUME NEW m \in 1 .. k, NEW n \in 1 .. k, m # n
                     PROVE  ids[m] # ids[n]
          OBVIOUS
        <4>1. rows[p[m]] # rows[p[n]]
          BY <2>6
        <4>2. NumberedRow(rows[p[m]]).id # NumberedRow(rows[p[n]]).id
          BY <2>3, <2>4, <4>1
        <4> QED BY <2>9, <4>2
      <3>4. DOMAIN ids = 1 .. k /\ {ids[n] : n \in 1 .. k} = returned
        BY <2>8
      <3> HIDE DEF ids
      <3>2. IsFiniteSet(1 .. k) /\ Cardinality(1 .. k) = k
        BY <2>2, FS_Interval
      <3>3. Cardinality({ids[n] : n \in 1 .. k}) = k
        <4> DEFINE S == 1 .. k
        <4>1. IsFiniteSet(S) /\ Cardinality(S) = k /\ DOMAIN ids = S
          BY <3>2, <3>4
        <4>2. \A m, n \in S : ids[m] = ids[n] => m = n
          BY <3>1
        <4> HIDE DEF S
        <4>3. Cardinality({ids[n] : n \in S}) = Cardinality(S)
          BY <4>1, <4>2, FiniteImage
        <4> QED BY <4>1, <4>3 DEF S
      <3> QED BY <2>8, <3>3, <3>4
    <2>11. ASSUME server.kind = "flat", NEW row \in TableRows, row.id \notin returned,
                  NEW n \in DOMAIN output
           PROVE  ~ClearlyBefore(row, output[n])
      <3>1. PICK r \in 1 .. RowCount : row = NumberedRow(r)
        BY <2>3, <2>11
      <3>2. \A i \in 1 .. k : rows[i] # r
        <4> SUFFICES ASSUME NEW i \in 1 .. k, rows[i] = r PROVE FALSE
          OBVIOUS
        <4>1. PICK j \in 1 .. k : p[j] = i
          BY <2>5
        <4>2. output[j].id = row.id
          BY <2>9, <3>1, <4>1
        <4> QED BY <2>8, <2>11, <4>2
      <3>3. Coarse(Exact(server, query, rows[p[n]])) <= Coarse(Exact(server, query, r))
        BY <1>1, <2>4, <2>8, <2>11, <2>14, <3>2, ServedQuery DEF LeavesOutLater
      <3>4. rows[p[n]] \in 1 .. RowCount /\ output[n] = Project(NumberedRow(rows[p[n]]))
        BY <2>4, <2>8, <2>9
      <3> QED BY <1>1, <3>1, <3>3, <3>4, ClearOrder
    <2>12. \A n \in DOMAIN output : \E row \in TableRows : output[n] = Project(row)
      BY <2>3, <2>4, <2>8, <2>9
    <2>13. server.kind = "flat" => Len(output) = MinOf(plan.fetch, Cardinality(TableRows))
      BY <1>1, <2>3, <2>8, <2>14, ServedQuery
    <2> QED BY <2>10, <2>11, <2>12, <2>13
  <1>2. TopKInv => IndexAnswersTheQuery
    BY <1>1 DEF IndexAnswersTheQuery
  <1> QED BY <1>2, TopKInvariant, PTL

(* The rows come in SQL's order, up to the rounding of the index where     *)
(* vector_search.ordered has done away with the final sort.                *)
THEOREM OrderKept == TopKSpec => []OrderHolds
  <1>1. ASSUME TopKInv, pc = "done", NEW m \in DOMAIN output, NEW n \in DOMAIN output, m < n
        PROVE  IF ordered THEN ~ClearlyBefore(output[n], output[m])
               ELSE ~SqlBefore(output[n], output[m])
    <2>1. CASE ordered
      <3>1. PICK p \in [1 .. Len(rows) -> 1 .. Len(rows)] :
              /\ output = [i \in 1 .. Len(rows) |-> Project(NumberedRow(rows[p[i]]))]
              /\ \A i \in 1 .. Len(rows) : p[i] = i
        BY <1>1, <2>1, ServedQuery
      <3>2. /\ m \in 1 .. Len(rows) /\ n \in 1 .. Len(rows)
            /\ output[m] = Project(NumberedRow(rows[m]))
            /\ output[n] = Project(NumberedRow(rows[n]))
        BY <1>1, <3>1
      <3>3. /\ rows[m] \in 1 .. RowCount /\ rows[n] \in 1 .. RowCount
            /\ Coarse(Exact(server, query, rows[m])) <= Coarse(Exact(server, query, rows[n]))
        BY <1>1, <3>2, ServedQuery, ElementOfSeq DEF Ranked
      <3>4. ~ClearlyBefore(output[n], output[m])
        BY <1>1, <3>2, <3>3, ClearOrder
      <3> QED BY <2>1, <3>4
    <2>2. CASE ~ordered
      BY <1>1, <2>2 DEF TopKInv, Returned
    <2> QED BY <2>1, <2>2
  <1>2. TopKInv => OrderHolds
    BY <1>1 DEF OrderHolds
  <1> QED BY <1>2, TopKInvariant, PTL
=============================================================================
