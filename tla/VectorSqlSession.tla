-------------------------- MODULE VectorSqlSession --------------------------
(***************************************************************************)
(* VectorSqlSession (vector-db/datafusion/src/sql.rs): one SQL statement   *)
(* at a time, through execute or through the CLI's execute_cli_plan.  The  *)
(* session owns two DataFusion contexts over one catalog: base runs the    *)
(* statements, context runs the queries and has the vector-index rules,    *)
(* and context is made anew from base after a statement completes.  The    *)
(* caller may drop a statement's future (ctrl-C in the CLI's REPL) and     *)
(* DataFusion may fail, at any await.                                      *)
(*                                                                         *)
(* A table's version stands for its provider and the batches it holds:     *)
(* whatever changes either gives a version never used before.              *)
(***************************************************************************)
EXTENDS Integers, FiniteSets

CONSTANTS
  Table, IndexName, Column,
  Value,          \* values of a session option such as vector_search.ordered
  Default,        \* the value the option starts with and RESET restores
  MaxVersion      \* bound on the changes made to tables

ASSUME SessionAssumption ==
  /\ Default \in Value
  /\ MaxVersion \in Nat

Absent == 0

VARIABLES
  version,        \* table -> the version registered in the catalog, or Absent
  created,        \* versions made so far
  setting,        \* the option in base's configuration
  forked,         \* context is a session of its own, no clone sharing base's
  contextSetting, \* the option in context's configuration
  rules,          \* the attachments of context's optimizer rule
  indexes,        \* the indexes registered in the session
  statement,      \* the statement submitted last
  stage,          \* how far it got
  asked,          \* what the last SET, or RESET to reach base, asked for
  settled         \* the contexts were rebuilt after the last SET or RESET

catalog == <<version, created>>
config  == <<setting, forked, contextSetting, asked, settled>>
vars == <<catalog, config, rules, indexes, statement, stage>>

(* create is CREATE TABLE with or without AS, replace is CREATE OR REPLACE *)
(* TABLE.  update stands for what is_mutation vets by every table it       *)
(* mentions (UPDATE, DELETE, MERGE, TRUNCATE), insert for what it vets by  *)
(* target alone (INSERT), analyze for EXPLAIN ANALYZE INSERT, prepared for *)
(* EXECUTE of a prepared INSERT.                                           *)
Writes == {"create", "replace", "insert", "update", "drop", "analyze", "prepared"}

(* What the text of a CREATE INDEX says beyond a name and one column:      *)
(* nothing; UNIQUE or IF NOT EXISTS; INCLUDE, WHERE, WITH, CONCURRENTLY    *)
(* and the like; ASC or an operator class; DESC or NULLS FIRST; another    *)
(* number of columns or an expression; no name, no USING or another kind   *)
(* than the session's.                                                     *)
Forms == {"plain", "unique", "clause", "asc", "desc", "columns", "unfit"}

(* Every statement that tells the code's decisions apart.                  *)
Statements ==
  [path : {"execute", "cli"}, kind : Writes \ {"update"}, table : Table]
  \cup [path : {"execute", "cli"}, kind : {"update"}, table : Table, reads : SUBSET Table]
  \cup [path : {"execute", "cli"}, kind : {"set"}, value : Value]
  \cup [path : {"execute", "cli"}, kind : {"reset", "select"}]
  \cup [path : {"execute", "cli"}, kind : {"index"}, form : Forms,
        name : IndexName, table : Table, column : Column]

Init ==
  /\ version = [t \in Table |-> Absent] /\ created = 0
  /\ setting = Default /\ contextSetting = Default /\ asked = Default
  /\ forked = FALSE /\ settled = FALSE
  /\ rules = {} /\ indexes = {}
  /\ statement = [path |-> "execute", kind |-> "select"] /\ stage = "done"

-----------------------------------------------------------------------------
Indexed(table) == \E index \in indexes : index.table = table

(* Mutant of Protected: the CLI's path does not vet DROP TABLE.            *)
ProtectedButDrop(s) ==
  CASE s.kind = "insert" \/ (s.kind = "drop" /\ s.path = "execute") -> {s.table}
    [] s.kind = "update" -> {s.table}
    [] OTHER -> {}

(* The tables a statement must not find indexed: reject_stale_index_       *)
(* mutation on execute's path, reject_indexed_table on the CLI's.          *)
Protected(s) ==
  CASE s.kind \in {"insert", "drop"} -> {s.table}
    [] s.kind = "update" ->
         {s.table} \cup IF s.path = "execute" THEN s.reads ELSE {}
    [] OTHER -> {}

(* Mutant of Duplicate: a second index on the same target is let through.  *)
DuplicateName(s) == s.kind = "index" /\ \E index \in indexes : index.name = s.name

(* create_index and attach_index.                                          *)
Duplicate(s) ==
  /\ s.kind = "index"
  /\ \E index \in indexes :
       index.name = s.name \/ (index.table = s.table /\ index.column = s.column)

(* The syntax that makes a plain index, the one column it is about, and    *)
(* the kind the session was made for.                                      *)
PlainSyntax(form) == form \notin {"unique", "clause"}
PlainColumn(form) == form \notin {"asc", "desc", "columns"}
IndexKind(form)   == form # "unfit"

(* create_index, on execute's path, checks the statement itself.           *)
RefusesStatement(form) == ~PlainSyntax(form) \/ ~PlainColumn(form) \/ ~IndexKind(form)

(* Mutant of ValidCliSql: the plan alone is checked.                       *)
ValidCliSqlAlways(form) == TRUE

(* The CLI has the text checked before it makes a plan of it.              *)
ValidCliSql(form) == PlainSyntax(form) /\ PlainColumn(form)

(* DataFusion's logical CreateIndex has no place for the other clauses and *)
(* for what is the default anyway.                                         *)
Planned(form) == IF form \in {"clause", "asc"} THEN "plain" ELSE form

(* create_logical_index checks what is left in the plan.                   *)
RefusesPlan(form) == form \in {"unique", "desc", "columns"} \/ ~IndexKind(form)

RefusedIndex(s) ==
  /\ s.kind = "index"
  /\ IF s.path = "execute" THEN RefusesStatement(s.form)
     ELSE ~ValidCliSql(s.form) \/ RefusesPlan(Planned(s.form))

Refused(s) ==
  \/ RefusedIndex(s)
  \/ Duplicate(s)
  \/ \E table \in Protected(s) : Indexed(table)

Ready == stage \notin {"run", "executed"}

Submit(s) ==
  /\ Ready
  /\ s.kind \in Writes => created < MaxVersion
  /\ statement' = s
  /\ stage' = IF Refused(s) THEN "rejected" ELSE "run"
  /\ UNCHANGED <<catalog, config, rules, indexes>>

-----------------------------------------------------------------------------
(* What is no SqlStatement (DataFusion's own RESET) counts as a query on   *)
(* execute's path; EXPLAIN ANALYZE does on both, and runs what it explains. *)
OnContext(s) ==
  s.kind \in {"select", "analyze"} \/ (s.kind = "reset" /\ s.path = "execute")

(* DataFusion runs the statement against the shared catalog.               *)
Accepts(s) ==
  CASE s.kind = "create"  -> version[s.table] = Absent
    [] s.kind = "replace" -> TRUE
    [] OTHER -> version[s.table] # Absent

ExecuteWrite ==
  /\ stage = "run" /\ statement.kind \in Writes
  /\ Accepts(statement)
  /\ created' = created + 1
  /\ version' = [version EXCEPT ![statement.table] =
                   IF statement.kind = "drop" THEN Absent ELSE created']
  /\ stage' = "executed"
  /\ UNCHANGED <<config, rules, indexes, statement>>

(* SET and RESET change the context they run in; until the first rebuild   *)
(* that is both of them.  A RESET that runs in a context of its own is one *)
(* the next rebuild takes back.                                            *)
ExecuteSetting ==
  /\ stage = "run" /\ statement.kind \in {"set", "reset"}
  /\ LET value == IF statement.kind = "set" THEN statement.value ELSE Default
     IN  /\ setting' = IF OnContext(statement) /\ forked THEN setting ELSE value
         /\ contextSetting' =
              IF OnContext(statement) \/ ~forked THEN value ELSE contextSetting
  /\ asked' = IF statement.kind = "set" THEN statement.value
              ELSE IF statement.path = "cli" \/ ~forked THEN Default ELSE asked
  /\ settled' = FALSE
  /\ stage' = "executed"
  /\ UNCHANGED <<catalog, forked, rules, indexes, statement>>

Select ==
  /\ stage = "run" /\ statement.kind = "select"
  /\ stage' = "executed"
  /\ UNCHANGED <<catalog, config, rules, indexes, statement>>

(* Mutant of Rebuild: the new context is made from the old one.            *)
RebuildFromContext ==
  /\ contextSetting' = contextSetting
  /\ rules' = indexes'
  /\ forked' = TRUE /\ settled' = TRUE

(* rebuild_context: base's state with one rule for all registered indexes. *)
Rebuild ==
  /\ contextSetting' = setting
  /\ rules' = indexes'
  /\ forked' = TRUE /\ settled' = TRUE

(* The statement's results have been collected; a query leaves the         *)
(* contexts alone.                                                         *)
Complete ==
  /\ stage = "executed"
  /\ stage' = "done"
  /\ UNCHANGED <<catalog, setting, asked, indexes, statement>>
  /\ IF OnContext(statement)
     THEN UNCHANGED <<contextSetting, rules, forked, settled>>
     ELSE Rebuild

(* An error, or the future is dropped: what was done stays done and the    *)
(* contexts are not rebuilt.                                               *)
Fail ==
  /\ stage \in {"run", "executed"}
  /\ stage' = "failed"
  /\ UNCHANGED <<catalog, config, rules, indexes, statement>>

(* attach_index: the provider is resolved and the attachment built; only   *)
(* then are the index registered and the context rebuilt, without an await *)
(* in between.  A column or table it cannot index (no MemTable, nullable,  *)
(* no vectors, no row) is a Fail.                                          *)
CreateIndex ==
  /\ stage = "run" /\ statement.kind = "index"
  /\ version[statement.table] # Absent
  /\ indexes' = indexes \cup
       {[name |-> statement.name, table |-> statement.table,
         column |-> statement.column, form |-> statement.form,
         version |-> version[statement.table]]}
  /\ Rebuild
  /\ stage' = "done"
  /\ UNCHANGED <<catalog, setting, asked, statement>>

Next ==
  \/ \E s \in Statements : Submit(s)
  \/ ExecuteWrite \/ ExecuteSetting \/ Select \/ Complete \/ Fail \/ CreateIndex

Spec == Init /\ [][Next]_vars

-----------------------------------------------------------------------------
TypeOK ==
  /\ version \in [Table -> 0 .. MaxVersion] /\ created \in 0 .. MaxVersion
  /\ setting \in Value /\ contextSetting \in Value
  /\ asked \in Value
  /\ forked \in BOOLEAN /\ settled \in BOOLEAN
  /\ indexes \subseteq [name : IndexName, table : Table, column : Column,
                        form : Forms, version : 1 .. MaxVersion]
  /\ rules \subseteq indexes
  /\ statement \in Statements
  /\ stage \in {"run", "executed", "done", "rejected", "failed"}

(* No two indexes share a name or a target, each was asked for by a plain  *)
(* statement although one path checks the text and the other a plan that   *)
(* has lost part of it, and the optimizer sees exactly the registered      *)
(* ones, whatever failed or was interrupted in between (sql.rs:101-118,    *)
(* 173-352, 415-423).                                                      *)
IndexesAreSound ==
  /\ \A i, j \in indexes :
       i # j => i.name # j.name /\ <<i.table, i.column>> # <<j.table, j.column>>
  /\ \A index \in indexes : index.form = "plain"
  /\ rules = indexes

(* A table that has an index changes only under a statement the session    *)
(* does not vet: no INSERT, UPDATE, DELETE or DROP TABLE submitted as such *)
(* gets through on either path, with any statements failing or interrupted *)
(* before it.                                                              *)
VettedWritesSpareIndexed ==
  [][\A t \in Table :
       Indexed(t) /\ version'[t] # version[t]
         => statement.kind \in {"replace", "analyze", "prepared"}]_vars

(* From the first statement after a SET that rebuilds the contexts, if not *)
(* from its own completion, queries are planned under the value it asked   *)
(* for, although it failed or was interrupted midway, until another SET    *)
(* runs or a RESET that reaches base; a RESET on execute's path after the  *)
(* first rebuild does not, and is taken back by the next.                  *)
SetStaysInForce ==
  settled \/ ~forked => contextSetting = asked /\ setting = asked

(* What rust-02-datafusion.md:252-253 says: the session rejects changes to *)
(* an indexed table instead of allowing its attachment to become stale.    *)
NoAttachmentGoesStale == \A index \in indexes : version[index.table] = index.version

(* What rust-00-sql-shell.md:95 says: writes to unrelated tables, tables   *)
(* that have no index, remain legal.                                       *)
UnrelatedWritesStayLegal ==
  stage = "rejected" /\ statement.kind \in Writes => Indexed(statement.table)
=============================================================================
