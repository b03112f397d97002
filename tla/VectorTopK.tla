----------------------------- MODULE VectorTopK -----------------------------
(***************************************************************************)
(* What a vector index does to one query (datafusion/optimizer.rs,         *)
(* VectorIndexAttachment::try_new and IndexedSnapshot::lookup in           *)
(* datafusion/attachment.rs): which tables can be indexed, which sorts     *)
(* VectorIndexOptimizer::rewrite_sort replaces, and what the replacement   *)
(* returns.  The table does not change here; IndexAttachment is about what *)
(* happens when it does.  SQL computes distances in f64, an index rounds   *)
(* them to f32: Coarse is that rounding, the same for all distances.       *)
(***************************************************************************)
EXTENDS Integers, FiniteSets, Sequences

CONSTANTS
  Tables,           \* a table is a sequence of batches, a batch of rows, a
                    \* row a record with a column id that names it
  VectorColumns,    \* the columns of type FixedSizeList<Float32>
  DIMENSION,        \* their dimension
  Component,        \* the finite components a vector or a literal may have
  Specs,            \* the column, metric and kind of an index to attach
  MaxAttachments,   \* the indexes a context may have
  Plans,            \* the physical plans the optimizer may be given
  Null,             \* a NULL vector or component
  NonFinite,        \* a component that is not finite
  Grain,            \* how many f64 distances share one f32 distance
  Narrow(_),        \* a f64 or an integer component cast to f32
  MetricDistance(_, _, _)   \* Metric::distance before it is rounded

ASSUME TopKAssumption ==
  /\ DIMENSION \in Nat \ {0} /\ MaxAttachments \in Nat /\ Grain \in Nat \ {0}
  /\ \A spec \in Specs : spec.metric \in {"euclidean", "cosine", "dot"}

(* The metrics are numbers, except for the cosine of a zero vector.        *)
ZeroNorm(vector) == \A c \in DOMAIN vector : vector[c] = 0

ASSUME MetricAssumption ==
  \A u, v \in [1 .. DIMENSION -> Component] :
    /\ MetricDistance("euclidean", u, v) \in Int /\ MetricDistance("dot", u, v) \in Int
    /\ ~ZeroNorm(u) /\ ~ZeroNorm(v) => MetricDistance("cosine", u, v) \in Int

IsSeq(s) == Len(s) \in Nat /\ DOMAIN s = 1 .. Len(s)

(* The rows of some batches, each by its batch and its place in it.        *)
Located(batches) ==
  UNION {{[batch |-> b, row |-> r] : r \in DOMAIN batches[b]} : b \in DOMAIN batches}

ASSUME TablesAssumption ==
  \A batches \in Tables :
    /\ IsSeq(batches) /\ \A b \in DOMAIN batches : IsSeq(batches[b])
    /\ \A l, m \in Located(batches) :
         l # m => batches[l.batch][l.row].id # batches[m.batch][m.row].id
    /\ \A l \in Located(batches) : \A column \in VectorColumns :
         LET vector == batches[l.batch][l.row][column]
         IN  vector # Null => vector \in [1 .. DIMENSION -> Component \cup {Null, NonFinite}]

(* The components of a literal; an integer is one that f32 can hold, since *)
(* DataFusion coerces the others to Float64.                               *)
LiteralOK(literal) ==
  /\ IsSeq(literal.values)
  /\ literal.values \in [DOMAIN literal.values -> Component \cup {Null, NonFinite}]
  /\ literal.item \in {"Int32", "Int64"} =>
       \A c \in DOMAIN literal.values : literal.values[c] # Null =>
         Narrow(literal.values[c]) = literal.values[c]

(* A plan asks for the ids of the rows.                                    *)
ASSUME PlansAssumption ==
  \A p \in Plans :
    /\ p.fetch \in Nat /\ IsSeq(p.keys)
    /\ \E c \in DOMAIN p.projection : p.projection[c] = "id"
    /\ \A i \in DOMAIN p.keys :
         /\ IsSeq(p.keys[i].args)
         /\ \A a \in DOMAIN p.keys[i].args :
              p.keys[i].args[a].kind = "literal" /\ p.keys[i].args[a].list =>
                LiteralOK(p.keys[i].args[a])

VARIABLES
  pc,           \* "attach", "planned", "rewritten", "selected", "batch",
                \* "done", or "exact" when the plan is left alone
  table,        \* the batches of the table
  attachments,  \* the attached indexes, in order
  plan,         \* the plan being optimized
  ordered,      \* vector_search.ordered
  server,       \* the attachment that serves the query
  query,        \* the query vector it is searched with
  rows,         \* the row ids it returned
  output        \* the rows the query returns

topKVars == <<pc, table, attachments, plan, ordered, server, query, rows, output>>

None == [column |-> "none"]

Coarse(d) == IF d >= 0 THEN d \div Grain ELSE -((-d) \div Grain)

MinOf(a, b) == IF a <= b THEN a ELSE b
-----------------------------------------------------------------------------
(* row_locations of try_new: where each row id is, batch after batch.      *)
RowLocations(batches) ==
  LET Earlier(l) == {m \in Located(batches) :
                       m.batch < l.batch \/ (m.batch = l.batch /\ m.row < l.row)}
  IN  [n \in 1 .. Cardinality(Located(batches)) |->
         CHOOSE l \in Located(batches) : Cardinality(Earlier(l)) = n - 1]

RowAt(location) == table[location.batch][location.row]

RowCount == Len(RowLocations(table))

(* The vectors of the dataset an index on some column is built on.         *)
DatasetOf(column) ==
  [n \in 1 .. RowCount |-> RowAt(RowLocations(table)[n])[column]]

(* try_new and Dataset: there is a batch and a row, the column holds       *)
(* finite vectors without NULLs, and under the cosine none of length zero. *)
Indexable(spec) ==
  /\ table # <<>> /\ RowCount > 0
  /\ spec.column \in VectorColumns
  /\ \A n \in 1 .. RowCount :
       LET vector == DatasetOf(spec.column)[n]
       IN  /\ vector # Null
           /\ \A c \in 1 .. DIMENSION : vector[c] \notin {Null, NonFinite}
           /\ spec.metric = "cosine" => ~ZeroNorm(vector)
-----------------------------------------------------------------------------
(* match_vector_column: the index of a plain column, or of one in the cast *)
(* the planner makes for the distance functions; 0 for anything else.      *)
MatchVectorColumn(e, schema) ==
  CASE e.kind = "column" -> e.index
    [] e.kind = "cast" /\ e.index \in DOMAIN schema
         /\ schema[e.index] \in VectorColumns /\ e.to = "List<Float64>" -> e.index
    [] OTHER -> 0

MetricForFunction(name) ==
  CASE name \in {"array_distance", "list_distance"} -> "euclidean"
    [] name = "cosine_distance" -> "cosine"
    [] name \in {"inner_product", "dot_product"} -> "dot"
    [] OTHER -> "none"

(* Mutant of ScalarVector: a Float64 value is narrowed whatever it loses.  *)
ScalarVectorLossy(literal) ==
  IF /\ literal.list /\ \A c \in DOMAIN literal.values : literal.values[c] # Null
     /\ literal.item \in {"Float32", "Float64", "Int32", "Int64"}
  THEN {[c \in DOMAIN literal.values |->
           IF literal.values[c] = NonFinite THEN NonFinite ELSE Narrow(literal.values[c])]}
  ELSE {}

(* scalar_vector, primitive_vector, exact_f32_query_value: the vector of a *)
(* literal, if it is one; a Float64 value has to survive the narrowing.    *)
ScalarVector(literal) ==
  LET values == literal.values
      Some ==
        CASE literal.item = "Float32" -> {values}
          [] literal.item = "Float64" ->
               IF \A c \in DOMAIN values : values[c] # NonFinite /\ Narrow(values[c]) = values[c]
               THEN {values} ELSE {}
          [] literal.item \in {"Int32", "Int64"} -> {[c \in DOMAIN values |-> Narrow(values[c])]}
          [] OTHER -> {}
  IN  IF literal.list /\ \A c \in DOMAIN values : values[c] # Null THEN Some ELSE {}

(* The column and the literal of a distance, on either side.               *)
ColumnAndLiteral(left, right, schema) ==
  CASE MatchVectorColumn(left, schema) > 0 /\ right.kind = "literal" -> <<left, right>>
    [] MatchVectorColumn(right, schema) > 0 /\ left.kind = "literal" -> <<right, left>>
    [] OTHER -> <<>>

(* match_vector_order: the query vector, if the plan sorts by the distance *)
(* of the attachment's column from one, in the direction of its metric.    *)
MatchVectorOrder(keys, schema, spec) ==
  LET key     == keys[1]
      pair    == ColumnAndLiteral(key.args[1], key.args[2], schema)
      column  == MatchVectorColumn(pair[1], schema)
      Valid(q) == /\ Len(q) = DIMENSION
                  /\ \A c \in DOMAIN q : q[c] # NonFinite
                  /\ spec.metric = "cosine" => ~ZeroNorm(q)
  IN  IF /\ Len(keys) = 1
         /\ key.descending = (spec.metric = "dot")
         /\ MetricForFunction(key.function) = spec.metric
         /\ Len(key.args) = 2
         /\ pair # <<>>
         /\ column \in DOMAIN schema /\ schema[column] = spec.column
      THEN {q \in ScalarVector(pair[2]) : Valid(q)}
      ELSE {}

(* The shape rewrite_sort looks for: a sort with a fetch over a scan.      *)
IsTopKSort(p) == p.operator = "sort" /\ p.fetch > 0 /\ p.input = "memory"

(* The attachments that could serve the plan.                              *)
Matches ==
  IF IsTopKSort(plan)
  THEN {i \in DOMAIN attachments :
          MatchVectorOrder(plan.keys, plan.projection, attachments[i]) # {}}
  ELSE {}
-----------------------------------------------------------------------------
(* VectorIndex::search.  The flat index returns the k rows with the least  *)
(* rounded distances, ties by row; an approximate one may miss the first.  *)
FlatRows(spec, q, k) ==
  LET data == DatasetOf(spec.column)
      At(n) == Coarse(MetricDistance(spec.metric, q, data[n]))
      Ahead(n) == {m \in 1 .. RowCount : At(m) < At(n) \/ (At(m) = At(n) /\ m < n)}
  IN  [place \in 1 .. k |->
         CHOOSE n \in 1 .. RowCount : Cardinality(Ahead(n)) = place - 1]

Searches(spec, q, k) ==
  IF spec.kind = "flat" THEN {FlatRows(spec, q, k)}
  ELSE {FlatRows(spec, q, k), Tail(FlatRows(spec, q, k))}

(* The columns of a row the plan asks for.                                 *)
Project(row) ==
  [column \in {plan.projection[c] : c \in DOMAIN plan.projection} |-> row[column]]

(* IndexedSnapshot::lookup.                                                *)
Lookup(row_ids) ==
  [n \in DOMAIN row_ids |-> Project(RowAt(RowLocations(table)[row_ids[n]]))]
-----------------------------------------------------------------------------
(* The order the plan asks for: its function applied in f64 to a column    *)
(* and the literal as it was written, ascending or descending.             *)
SqlValue(row) ==
  LET key    == plan.keys[1]
      pair   == ColumnAndLiteral(key.args[1], key.args[2], plan.projection)
      vector == row[plan.projection[MatchVectorColumn(pair[1], plan.projection)]]
      metric == MetricForFunction(key.function)
      d      == MetricDistance(metric, pair[2].values, vector)
  IN  IF metric = "dot" THEN -d ELSE d

SqlBefore(r, s) ==
  IF plan.keys[1].descending THEN SqlValue(r) > SqlValue(s) ELSE SqlValue(r) < SqlValue(s)

(* The same after rounding: before by more than the rounding can hide.     *)
ClearlyBefore(r, s) ==
  IF plan.keys[1].descending THEN Coarse(SqlValue(r)) > Coarse(SqlValue(s))
  ELSE Coarse(SqlValue(r)) < Coarse(SqlValue(s))
-----------------------------------------------------------------------------
TopKInit ==
  /\ pc = "attach" /\ table \in Tables /\ attachments = <<>>
  /\ plan \in Plans /\ ordered \in BOOLEAN
  /\ server = None /\ query = <<>> /\ rows = <<>> /\ output = <<>>

(* VectorIndexAttachment::try_new, which may refuse.                       *)
Attach ==
  /\ pc = "attach" /\ Len(attachments) < MaxAttachments
  /\ \E spec \in Specs :
       Indexable(spec) /\ attachments' = Append(attachments, spec)
  /\ UNCHANGED <<pc, table, plan, ordered, server, query, rows, output>>

(* rewrite_sort: exactly one attachment has to match.                      *)
Rewrite ==
  /\ pc = "attach"
  /\ IF Cardinality(Matches) = 1
     THEN \E i \in Matches : \E q \in MatchVectorOrder(plan.keys, plan.projection, attachments[i]) :
            server' = attachments[i] /\ query' = q /\ pc' = "rewritten"
     ELSE pc' = "exact" /\ UNCHANGED <<server, query>>
  /\ UNCHANGED <<table, attachments, plan, ordered, rows, output>>

(* execute: selected_rows.                                                 *)
SelectRows ==
  /\ pc = "rewritten"
  /\ rows' \in Searches(server, query, MinOf(plan.fetch, RowCount))
  /\ pc' = "selected"
  /\ UNCHANGED <<table, attachments, plan, ordered, server, query, output>>

(* Mutant of OutputBatch: the final sort is left out in any case.          *)
OutputBatchUnsorted ==
  /\ pc = "selected"
  /\ output' = Lookup(rows) /\ pc' = "done"
  /\ UNCHANGED <<table, attachments, plan, ordered, server, query, rows>>

(* execute: output_batch.                                                  *)
OutputBatch ==
  /\ pc = "selected"
  /\ output' = Lookup(rows)
  /\ pc' = IF ordered THEN "done" ELSE "batch"
  /\ UNCHANGED <<table, attachments, plan, ordered, server, query, rows>>

Permuted(s, p) == [n \in DOMAIN s |-> s[p[n]]]

(* Mutant of ClaimsOrder: with_fetch leaves try_new's properties in place. *)
ClaimsOrderStill == TRUE

(* Whether the scan's properties say that its output is in SQL's order:    *)
(* try_new says so, with_fetch takes it back where a sort is put on top.   *)
ClaimsOrder == ordered

(* The SortExec with_fetch puts on top unless the index output is trusted  *)
(* to be in order.  It lets an input through that claims to be sorted, and *)
(* may return equal rows in any order otherwise.                           *)
FinalSort ==
  /\ pc = "batch"
  /\ \E p \in [DOMAIN output -> DOMAIN output] :
       /\ \A m, n \in DOMAIN output : m < n =>
            IF ClaimsOrder THEN p[m] < p[n]
            ELSE p[m] # p[n] /\ ~SqlBefore(output[p[n]], output[p[m]])
       /\ output' = Permuted(output, p)
  /\ pc' = "done"
  /\ UNCHANGED <<table, attachments, plan, ordered, server, query, rows>>

TopKNext == Attach \/ Rewrite \/ SelectRows \/ OutputBatch \/ FinalSort

TopKSpec == TopKInit /\ [][TopKNext]_topKVars
-----------------------------------------------------------------------------
TableRows == {RowAt(l) : l \in {RowLocations(table)[n] : n \in 1 .. RowCount}}

(* A query an index serves returns rows of its table, none twice and as    *)
(* many as asked for, and an exact index leaves out no row that SQL would  *)
(* put clearly before one that it returns.                                 *)
IndexAnswersTheQuery ==
  pc = "done" =>
    LET returned == {output[n].id : n \in DOMAIN output}
    IN  /\ \A n \in DOMAIN output : \E row \in TableRows : output[n] = Project(row)
        /\ Cardinality(returned) = Len(output)
        /\ server.kind = "flat" =>
             /\ Len(output) = MinOf(plan.fetch, Cardinality(TableRows))
             /\ \A row \in TableRows : row.id \notin returned =>
                  \A n \in DOMAIN output : ~ClearlyBefore(row, output[n])

(* The rows come in SQL's order; when vector_search.ordered has done away  *)
(* with the final sort, in SQL's order up to the rounding of the index.    *)
OrderHolds ==
  pc = "done" =>
    \A m, n \in DOMAIN output : m < n =>
      IF ordered THEN ~ClearlyBefore(output[n], output[m])
      ELSE ~SqlBefore(output[n], output[m])
=============================================================================
