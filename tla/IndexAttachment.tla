-------------------------- MODULE IndexAttachment --------------------------
(***************************************************************************)
(* A vector index attached to a live MemTable                              *)
(* (vector-db/datafusion/src/attachment.rs) and the physical rule that     *)
(* decides, for every planned query, whether the index may answer it       *)
(* (optimizer.rs), while other tasks register, drop and write tables of    *)
(* the same catalogs.                                                      *)
(*                                                                         *)
(* A table is a list of partitions, each behind its own read-write lock    *)
(* and each a sequence of record batches; a batch stands for its column    *)
(* buffers, so that equality is the Arc::ptr_eq of same_batch_identity.    *)
(* A name stands for a catalog, a schema and a table name, a schema for    *)
(* the names in it.  Vectors and rows are left out: an index returns rows  *)
(* of the batches it was built from, an exact plan rows of the batches its *)
(* scan captured.                                                          *)
(***************************************************************************)
EXTENDS Integers, Sequences, FiniteSets

CONSTANTS
  Provider,       \* MemTable instances
  Name,           \* names a table can be registered under
  Schema,         \* the schemas of all catalogs, each the set of its names
  Column,         \* vector columns an index or an ORDER BY can be about
  None,           \* no provider, no attachment
  P,              \* partitions of a MemTable
  MaxBatch,       \* batches the environment may create
  MaxAttachments, \* indexes the application may attach
  Initial         \* the batches the MemTables are created with

Partitions == 1 .. P
Batch      == 1 .. MaxBatch
Contents   == [Partitions -> Seq(Batch)]

ASSUME ConstantsAssumption ==
  /\ P \in Nat \ {0}
  /\ MaxBatch \in Nat /\ MaxAttachments \in Nat
  /\ None \notin Provider
  /\ UNION Schema = Name
  /\ Initial \subseteq [Provider -> Contents]

VARIABLES
  catalog,      \* name -> the provider registered under it, or None
  contents,     \* provider -> partition -> batches
  locked,       \* <<provider, partition>> held by a writer
  created,      \* batches created so far
  attach,       \* the attachment being built
  attachments,  \* the attachments of the context queries are planned in
  plan          \* the query being planned

table == <<catalog, contents, locked, created>>
vars  == <<table, attach, attachments, plan>>

Empty == [part \in Partitions |-> <<>>]
Idle  == [stage |-> "idle"]

(* Batches are numbered in the order they are created.                     *)
Init ==
  /\ catalog \in [Name -> Provider \cup {None}]
  /\ contents \in Initial
  /\ locked = {}
  /\ created \in Batch
  /\ \A p \in Provider, part \in Partitions :
       \A i \in DOMAIN contents[p][part] : contents[p][part][i] <= created
  /\ \E p \in Provider, part \in Partitions :
       \E i \in DOMAIN contents[p][part] : contents[p][part][i] = created
  /\ attach = Idle
  /\ attachments = <<>>
  /\ plan = Idle

-----------------------------------------------------------------------------
(* The other tasks of the process.                                         *)

Register(name, provider) ==
  /\ catalog[name] = None
  /\ catalog' = [catalog EXCEPT ![name] = provider]
  /\ UNCHANGED <<contents, locked, created, attach, attachments, plan>>

Deregister(name) ==
  /\ catalog[name] # None
  /\ catalog' = [catalog EXCEPT ![name] = None]
  /\ UNCHANGED <<contents, locked, created, attach, attachments, plan>>

(* A writer of a MemTable takes one partition's lock, appends its batch or *)
(* puts a rewritten one in place of the old ones, and lets go.             *)
StartWrite(provider, part) ==
  /\ <<provider, part>> \notin locked
  /\ created + Cardinality(locked) < MaxBatch
  /\ locked' = locked \cup {<<provider, part>>}
  /\ UNCHANGED <<catalog, contents, created, attach, attachments, plan>>

EndWrite(provider, part) ==
  /\ <<provider, part>> \in locked
  /\ created' = created + 1
  /\ \E kept \in {<<>>, contents[provider][part]} :
       contents' = [contents EXCEPT ![provider][part] = Append(kept, created')]
  /\ locked' = locked \ {<<provider, part>>}
  /\ UNCHANGED <<catalog, attach, attachments, plan>>

-----------------------------------------------------------------------------
(* A read of one partition, which waits for its writer.  whole records,    *)
(* for the properties, whether the copy is what the table holds all at     *)
(* once at that moment, or a mixture of two of its states.                 *)
Readable(provider, part) == part \in Partitions /\ <<provider, part>> \notin locked

Copied(copy, provider, part) == [copy EXCEPT ![part] = contents[provider][part]]

(* VectorIndexAttachment::try_new: the provider registered under the name  *)
(* has to be the MemTable the caller holds.                                *)
BeginAttach(name, provider, column) ==
  /\ attach = Idle
  /\ Len(attachments) < MaxAttachments
  /\ catalog[name] = provider
  /\ attach' = [stage |-> "read", name |-> name, provider |-> provider,
                column |-> column, snapshot |-> Empty, part |-> 1, whole |-> FALSE]
  /\ UNCHANGED <<table, attachments, plan>>

AttachPartition ==
  /\ attach.stage = "read"
  /\ Readable(attach.provider, attach.part)
  /\ LET copy == Copied(attach.snapshot, attach.provider, attach.part)
     IN  attach' = [attach EXCEPT !.snapshot = copy, !.part = @ + 1,
                                  !.whole = (copy = contents[attach.provider])]
  /\ UNCHANGED <<table, attachments, plan>>

(* Without a batch there is nothing to index and try_new fails; otherwise  *)
(* the index is built on the snapshot and a context is made that has it.   *)
EndAttach ==
  /\ attach.stage = "read"
  /\ attach.part \notin Partitions
  /\ attachments' =
       IF attach.snapshot = Empty THEN attachments
       ELSE Append(attachments,
              [name |-> attach.name, provider |-> attach.provider,
               column |-> attach.column, snapshot |-> attach.snapshot,
               whole |-> attach.whole])
  /\ attach' = Idle
  /\ UNCHANGED <<table, plan>>

-----------------------------------------------------------------------------
(* A query ORDER BY distance of one vector column: its logical plan holds  *)
(* the provider its table name resolved to, its context the attachments.   *)
BeginPlan(name, column) ==
  /\ plan = Idle
  /\ catalog[name] # None
  /\ plan' = [stage |-> "scan", provider |-> catalog[name], column |-> column,
              source |-> Empty, part |-> 1, whole |-> FALSE,
              rules |-> attachments, next |-> 1, matches |-> {},
              schemas |-> {}, names |-> {}, other |-> None]
  /\ UNCHANGED <<table, attach, attachments>>

(* MemTable::scan captures the partitions one by one.                      *)
ScanPartition ==
  /\ plan.stage = "scan"
  /\ Readable(plan.provider, plan.part)
  /\ LET copy == Copied(plan.source, plan.provider, plan.part)
     IN  plan' = [plan EXCEPT !.source = copy, !.part = @ + 1,
                              !.whole = (copy = contents[plan.provider])]
  /\ UNCHANGED <<table, attach, attachments>>

EndScan ==
  /\ plan.stage = "scan"
  /\ plan.part \notin Partitions
  /\ plan' = [plan EXCEPT !.stage = "rewrite"]
  /\ UNCHANGED <<table, attach, attachments>>

-----------------------------------------------------------------------------
(* rewrite_sort: the attachments are tried in order until a second match.  *)
(* live_table_matches takes no lock over the whole of its test, so that    *)
(* other tasks act between any two of its steps.                           *)
Trial == plan.rules[plan.next]

MoreTrials == plan.next <= Len(plan.rules) /\ Cardinality(plan.matches) < 2

Rejected ==
  [plan EXCEPT !.stage = "rewrite", !.next = @ + 1, !.schemas = {}, !.names = {}]

Accepted == [Rejected EXCEPT !.matches = @ \cup {plan.next}]

(* The name must still lead to the provider the index is bound to, and at  *)
(* once: a lookup is polled one time, and one that fails or is pending     *)
(* counts as no.  (The failure to upgrade the Weak is part of this: a      *)
(* dropped provider is registered nowhere and cannot come back.)           *)
TryAttachment ==
  /\ plan.stage = "rewrite"
  /\ MoreTrials
  /\ \/ plan' = Rejected
     \/ /\ catalog[Trial.name] = Trial.provider
        /\ plan' = [plan EXCEPT !.stage = "own", !.part = 1]
  /\ UNCHANGED <<table, attach, attachments>>

(* memtable_source_matches, one partition: try_read fails if a writer has  *)
(* the lock, and then the answer is None for the table.                    *)
PartitionMatches(provider, part) ==
  /\ <<provider, part>> \notin locked
  /\ contents[provider][part] = plan.source[part]

(* Mutant of CompareOwn: the live batches are not compared.                *)
CompareOwnNothing ==
  /\ plan.stage = "own"
  /\ plan' = [plan EXCEPT !.stage = "others", !.schemas = Schema]
  /\ UNCHANGED <<table, attach, attachments>>

(* Mutant of CompareOwn: it waits for a lock that a writer holds.          *)
CompareOwnWaits ==
  /\ plan.stage = "own"
  /\ <<Trial.provider, plan.part>> \notin locked
  /\ plan' = IF plan.part \notin Partitions
             THEN [plan EXCEPT !.stage = "others", !.schemas = Schema]
             ELSE IF PartitionMatches(Trial.provider, plan.part)
             THEN [plan EXCEPT !.part = @ + 1]
             ELSE Rejected
  /\ UNCHANGED <<table, attach, attachments>>

(* The provider's own batches must be the ones the scan captured; None     *)
(* counts as no (unwrap_or(false)).                                        *)
CompareOwn ==
  /\ plan.stage = "own"
  /\ plan' = IF plan.part \notin Partitions
             THEN [plan EXCEPT !.stage = "others", !.schemas = Schema]
             ELSE IF PartitionMatches(Trial.provider, plan.part)
             THEN [plan EXCEPT !.part = @ + 1]
             ELSE Rejected
  /\ UNCHANGED <<table, attach, attachments>>

(* The tables of a schema are listed when those of the one before have     *)
(* been compared; a catalog or a schema that has gone is a rejection.      *)
ListTables(schema) ==
  /\ plan.stage = "others" /\ plan.names = {}
  /\ schema \in plan.schemas
  /\ \/ plan' = Rejected
     \/ plan' = [plan EXCEPT !.schemas = @ \ {schema},
                             !.names = {n \in schema : catalog[n] # None}]
  /\ UNCHANGED <<table, attach, attachments>>

(* Every other table is looked up by name; one that went away meanwhile,   *)
(* or whose lookup fails or is pending, is a rejection; an alias of the    *)
(* provider itself is passed over.                                         *)
LookUpOther(name) ==
  /\ plan.stage = "others"
  /\ name \in plan.names
  /\ \/ plan' = Rejected
     \/ /\ catalog[name] = Trial.provider
        /\ plan' = [plan EXCEPT !.names = @ \ {name}]
     \/ /\ catalog[name] \notin {None, Trial.provider}
        /\ plan' = [plan EXCEPT !.names = @ \ {name}, !.stage = "other",
                                !.other = catalog[name], !.part = 1]
  /\ UNCHANGED <<table, attach, attachments>>

(* A different provider with the same batches makes the source ambiguous.  *)
(* None counts as no here too, and here no lets the rewrite go on.         *)
CompareOther ==
  /\ plan.stage = "other"
  /\ plan' = IF plan.part \notin Partitions THEN Rejected
             ELSE IF PartitionMatches(plan.other, plan.part)
             THEN [plan EXCEPT !.part = @ + 1]
             ELSE [plan EXCEPT !.stage = "others"]
  /\ UNCHANGED <<table, attach, attachments>>

(* Mutant of EndTrial: the snapshot is not compared with the scan.         *)
EndTrialWithoutSnapshot ==
  /\ plan.stage = "others"
  /\ plan.schemas = {} /\ plan.names = {}
  /\ plan' = IF plan.column = Trial.column THEN Accepted ELSE Rejected
  /\ UNCHANGED <<table, attach, attachments>>

(* source_matches and match_vector_order read nothing that changes.        *)
EndTrial ==
  /\ plan.stage = "others"
  /\ plan.schemas = {} /\ plan.names = {}
  /\ plan' = IF plan.source = Trial.snapshot /\ plan.column = Trial.column
             THEN Accepted
             ELSE Rejected
  /\ UNCHANGED <<table, attach, attachments>>

(* The plan is rewritten if exactly one attachment matched.                *)
Decide ==
  /\ plan.stage = "rewrite"
  /\ ~MoreTrials
  /\ plan' = [plan EXCEPT !.stage = "decided"]
  /\ UNCHANGED <<table, attach, attachments>>

Rewritten == plan.stage = "decided" /\ Cardinality(plan.matches) = 1

Server == plan.rules[CHOOSE i \in plan.matches : TRUE]

(* The plan is executed and dropped.                                       *)
EndPlan ==
  /\ plan.stage = "decided"
  /\ plan' = Idle
  /\ UNCHANGED <<table, attach, attachments>>

-----------------------------------------------------------------------------
Optimize ==
  \/ TryAttachment \/ CompareOwn \/ CompareOther \/ EndTrial \/ Decide
  \/ \E schema \in Schema : ListTables(schema)
  \/ \E name \in Name : LookUpOther(name)

Planning == ScanPartition \/ EndScan \/ Optimize

Attaching == AttachPartition \/ EndAttach

Environment ==
  \/ \E name \in Name : Deregister(name)
  \/ \E name \in Name, p \in Provider : Register(name, p)
  \/ \E p \in Provider, part \in Partitions : StartWrite(p, part)

Next ==
  \/ Environment
  \/ \E p \in Provider, part \in Partitions : EndWrite(p, part)
  \/ \E name \in Name, p \in Provider, c \in Column : BeginAttach(name, p, c)
  \/ Attaching
  \/ \E name \in Name, c \in Column : BeginPlan(name, c)
  \/ Planning
  \/ EndPlan

(* The rule is a synchronous call, which may hold the only thread there    *)
(* is: no other task need get anywhere before it returns.                  *)
Comparing == plan.stage \in {"rewrite", "own", "others", "other"}

(* Tasks that run keep running; nobody has to start one.                   *)
Spec ==
  /\ Init /\ [][Next]_vars
  /\ WF_vars(Planning) /\ WF_vars(~Comparing /\ Attaching)
  /\ \A p \in Provider, part \in Partitions : WF_vars(~Comparing /\ EndWrite(p, part))

-----------------------------------------------------------------------------
(* The types, and that an index is never built on nothing.                 *)
TypeOK ==
  /\ catalog \in [Name -> Provider \cup {None}]
  /\ contents \in [Provider -> Contents]
  /\ locked \subseteq Provider \X Partitions
  /\ created \in Batch
  /\ attach.stage \in {"idle", "read"}
  /\ \A i \in DOMAIN attachments :
       /\ attachments[i].name \in Name /\ attachments[i].provider \in Provider
       /\ attachments[i].column \in Column
       /\ attachments[i].snapshot \in Contents \ {Empty}
  /\ plan.stage \in {"idle", "scan", "rewrite", "own", "others", "other", "decided"}

(* An index answers a query only with the rows the query's own scan had    *)
(* captured, whatever was written, dropped or registered between the scan, *)
(* the tests of the optimizer and the execution.                           *)
ServesScannedRows == Rewritten => Server.snapshot = plan.source

(* try_new and MemTable::scan read the partitions one by one and may mix   *)
(* two states of the table; an answer by an index never shows a mixture.   *)
NeverServesTornRead ==
  Rewritten => Server.whole /\ (Server.provider = plan.provider => plan.whole)

(* Planning ends: its scan waits for writers, which get their turn then;   *)
(* the rule, during which they may get none, only tries the locks          *)
(* (attachment.rs:345), polls a lookup once (379-386) and tries every      *)
(* attachment once.                                                        *)
PlansEnd == plan.stage = "scan" ~> plan.stage = "decided"

(* What the comment of attachment.rs:292-299 says: a distinct provider     *)
(* that is registered and exposes the batches of the scan makes the source *)
(* ambiguous, so the test fails closed and does not pass it over.          *)
SharedBuffersFailClosed ==
  [][plan.stage = "other" /\ contents[plan.other] = plan.source
       => plan'.stage # "others"]_plan
=============================================================================
