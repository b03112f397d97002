# A TLA+ development of vector-db

The repository builds a small vector database from scratch: nearest-neighbour
indexes in `vector-db/core`, their use inside Apache DataFusion in
`vector-db/datafusion`, and a course around both. This directory specifies the
parts whose behaviour is hard to test, checks them with TLC on small instances,
and proves the most important facts for every instance with TLAPS.

Paths below are relative to the repository; `core/` is `vector-db/core/src/` and
`datafusion/` is `vector-db/datafusion/src/`.

## 1. Inventory

| Component | State it keeps | Operations | What makes it correct |
|---|---|---|---|
| Neighbor order and top-k (`core/search.rs`, `core/metric.rs`) | a bounded max-heap | `push`, `into_sorted`; distances | the heap holds the k least rows of the total order *distance, then row* |
| Graph search (`core/graph.rs`) | `visited`, `candidates`, `best` of one call | `search_layer`, `greedy_search`, `prune_neighbors` | the beam is the nearest rows seen, the early break loses nothing, the call returns |
| NSW index (`core/nsw.rs`) | `adjacency`, `entry_point` | `try_new` (row by row), `search_with_ef` | links reciprocal, degree bounded, links lost only for nearer ones, answers honest about the entry's component |
| HNSW index (`core/hnsw.rs`) | per-layer adjacency, `levels`, `entry_point` | `try_new`, `search_with_ef` | every layer as above; a row of a layer is in all layers below; the entry is in the top layer |
| IVF-Flat (`core/ivf.rs`) | centroids, inverted lists | `try_new` (k-means), `search_with_probes` | every row is on the list of its nearest centroid; under Euclidean distance a partition is empty only if it was of no use and the cost never grows; all probes give the exact answer |
| IVF-PQ (`core/pq.rs`) | IVF state, code books, codes | training, shortlist, exact re-rank | codes are scored against their own centroid; all probes and a full shortlist give the exact answer; an answer is never short in silence |
| Flat index, dataset (`core/flat.rs`, `core/dataset.rs`, `core/lib.rs`) | the dataset | exact scan, validation | the reference for the others |
| Attachment (`datafusion/attachment.rs`) | a snapshot of a `MemTable`'s batches, an index over it, a weak reference to the table | `try_new`, `live_table_matches`, `source_matches`, row lookup | the index answers only with the rows the plan's scan captured |
| Optimizer rule (`datafusion/optimizer.rs`) | the attachments of a context | `rewrite_sort`, `VectorIndexScanExec::execute` | exactly one matching attachment, otherwise the exact plan; the replacement returns what SQL asked for, in its order |
| SQL session (`datafusion/sql.rs`) | two contexts over one catalog, the registered indexes | `execute`, `execute_cli_plan`, `validate_cli_sql`, `CREATE INDEX`, `rebuild_context` | vetted statements leave indexed tables alone; only plain `CREATE INDEX` statements make an index, on both paths; both contexts agree |
| SQL shell (`vector-db/datafusion/examples/sql.rs`, vendored CLI) | none of its own | drives the session, drops futures on ctrl-C | (part of the session's environment) |
| Recall benchmark (`vector-db/core/examples/recall.rs`, `vector-db-benchmark-support/src/lib.rs`) | the records read, the runs, a progress stage and a failure latch | arguments, SIFT readers, builds, truth, warm-up and timed pass, report | fails only by a fault and prints all or nothing; indexes take equal turns; milestones once each and only of what is done |
| `vector_mem_table`, starter, xtask, course | – | conversions, exercises, tooling, text | – |

### How they interact

`NswIndex::try_new` and `search_with_ef` call `search_layer`, which calls
`TopK::push`; the builder is the only writer of the adjacency, and the search
reads it between writes. HNSW makes the same calls once per layer.
`VectorIndexAttachment::try_new` reads a live table partition by partition under
the partitions' own locks, builds an index on the copy and keeps a weak reference
to the table. A planned query captures the table's batches in its scan, again
partition by partition; the optimizer rule then compares registration, live
batches, the batches of all other registered tables, and the snapshot, without a
lock over the comparison. The session registers attachments and makes a new query
context (with one optimizer rule for all of them) from the base context after each
completed statement. Statements on both contexts share the catalog. The recall
benchmark calls the indexes in turn through the trait `VectorIndex` and reports to
standard error as it goes.

### What is hard here

* A search refills the heap it drains and stops early; evictions happen while it
  runs; zero widths, no entries and no allowed rows meet in one expression.
* Linking makes rows overfull; pruning repairs them one at a time and has to
  remove both ends; a row pruned later has already lost links to earlier prunings.
* The row inserted last is the entry point, whatever pruning did to it.
* Snapshot, scan and comparison interleave with writers, drops and registrations;
  `try_read` fails under a writer and "cannot tell" has to mean something.
* A statement may fail, or its future be dropped, between its effect on the shared
  catalog or configuration and the rebuild of the query context.
* The two paths into the session vet different sets of tables, and check `CREATE INDEX`
  once as a syntax tree and once as a plan that has lost part of it.
* SQL computes distances in f64 over the literal as it was written, an index in f32 over a
  narrowed one; the final sort is there or not depending on an option.
* The benchmark's files may change while they are read, its standard error may close, and a
  smoke run must not be measured by the truth of the full one.

`PROJECT.json` lists every hazard at its line with the properties that cover it.

## 2. Modules

```
NeighborOrder ── SearchLayer ─┬─ GraphSearch ── MCGraphSearch
   │                │         ├─ Nsw ── MCNsw          BoundedGraph (Nsw, and every
   │                │         └─ Hnsw ── MCHnsw          layer of Hnsw, implement it)
   │                │              │
NeighborOrderProofs ┴ GraphSearchProofs ┬ NswProofs
                                        └ HnswProofs (an instance for each layer)
NeighborOrder ── Ivf ─┬─ MCIvf
                      └─ Pq ─┬─ MCPq
NeighborOrderProofs ─────────┴─ IvfProofs
IndexAttachment ─┬─ MCIndexAttachment
                 └─ IndexAttachmentProofs
VectorSqlSession ──┬─ MCVectorSqlSession
VectorTopK ────────│┬─ MCVectorTopK
NeighborOrderProofs┴┴─ VectorSqlProofs
Progress ── SiftLoader ─┬─ Recall ─┬─ MCRecall
NeighborOrder ──────────┘          │
NeighborOrderProofs ───────────────┴─ RecallProofs
Metric (the distances, for the MC modules)
```

**NeighborOrder** has the constants `Vector` and `Distance`; the theorems hold for
*any* integer-valued distance. `Closer` is `Neighbor`'s `Ord`; `PushTopK` is
`TopK::push`; `Nearest(data, q, set, k)` is what the heap holds at the end,
defined by counting: the rows of `set` with fewer than `k` closer ones.

**SearchLayer** is `search_layer`, one iteration of its loops per action. Its
variables are the function's locals, plus `dataset` and `adjacency`, which belong
to the caller. `Call` is the entry with the seeding loop and the cap on `ef`;
`Expand`, `Break`, `Exhaust` are the outer loop, `VisitNeighbor` and
`NextCandidate` the inner loop; `Return` is part of a step of the caller. A list
of neighbours is a set, and the order in which the inner loop visits it is left
open: the properties hold for every order, hence for the one of the code.

**GraphSearch** calls `SearchLayer` in every way a caller could, over every
undirected graph without loops. It says what a search promises.

**Nsw** is the index. `InsertFirst`, `InsertNext` (call), `Search`, `Link` (return
and reciprocal links), `Prune(owner)` in ascending order of the affected rows, and
`Inserted` are the body of the loop of `try_new`; `Query`, `Search` and `Answer` are
`search_with_ef`. **BoundedGraph** is what the builder promises: rows are taken in
one by one with at most `Cap` links to earlier rows, and only a row that has more
than `Cap` links loses one, one at a time. `Nsw!BuildsBoundedGraph` states the
refinement: an abstract link is a pair of rows one of which lists the other, and
the abstract rows are `Linked`.

**Hnsw** is the layered index. It does not extend `SearchLayer` but instantiates it with
`adjacency <- Layer`, the layer the descent has come to. `InsertNext` starts a row on the top
layer with a random level (any level: the generator is a choice); `GreedyMove` and `GreedyStop` are
`greedy_search`, one move per step; `CallLayer`, `SearchStep`, `Link`, `Prune` and `NextLayer`
handle one layer; `Inserted` moves the entry point up when the row reaches higher than all others.
`Query`, the same descent and `Answer` are `search_with_ef`. `Members(l)` are the rows layer `l` has
taken in, a row on a new top layer when its insertion ends.

**Ivf** is the inverted-list index. `Init` puts the centroids on any distinct rows (what the
shuffle may pick); `Assign` is the first half of a round of k-means, `Reseed`, `Recenter` and
`RecenterOnRow` update one partition each, so that a reseeding sees some centroids updated and
some not, as `farthest_row` does; `Converged` and `IterationsDone` leave the loop; `FillLists`
builds the lists. `Query`, `Probe`, `Score` and `Answer` are `search_with_probes`, one list and one
row at a time through `PushTopK`. Means are exact: in the instances the components of stored vectors
are multiples of every count a mean divides by. A cosine centroid is not scaled to length one, which the
cosine does not see; that a zero mean cannot be scaled is kept.

**Pq** is the product-quantized index. It extends `Ivf` as `try_new` calls `IvfFlatIndex::try_new`:
`Coarse` is `Ivf`'s training; then `Residuals` (which may fail), `SeedCodebook`, `Refine` (one round of
one codebook), `EndCodebook` and `Encode`. `PqQuery`, `PqProbe` (which fills the lookup tables of a list),
`ScoreCode` and `Rerank` are `search_with_probes`; a query may end `refused`. What `try_new` refuses at the door
(`IsEuclidean`, a codebook of more words than rows) is part of `PqInit`, so that the assumptions on the constants are those
of the other indexes too. `MaxFloat` is `f32::MAX`:
a number so small that residuals and distances leave its range.

**IndexAttachment** models a catalog, `MemTable`s with one lock per partition, an
attachment under construction, one query being planned and the attachments of its
context. A batch is a number: equal numbers are the same buffers (`Arc::ptr_eq`). The
snapshot, the scan and each comparison are one action per partition or per table, so
that other tasks act in between; schemas are gone through one after the other and their tables are listed when their turn comes
(`ListTables`), and a lookup that fails, or is pending when it is polled once, is a rejection. `Register`, `Deregister`, `StartWrite` and `EndWrite`
are the other tasks; they and `MemTable::scan` live in DataFusion and are modelled
from how the code uses them. `whole` is a history field: whether a copy equals what the
table holds at the moment its last partition is read.

**VectorTopK** is one query over a table that does not change: which tables `try_new` accepts
(`Indexable`), where row ids are (`RowLocations`), which sorts `rewrite_sort` replaces
(`MatchVectorOrder`, with the planner's casts, the operands in either order and the literals it
accepts), and what execution returns (`SelectRows`, `OutputBatch`, `FinalSort`). `IndexAttachment`
is about the tables changing and knows of a query only its column; here a query is a plan. An index
rounds distances with `Coarse`, SQL does not; what the properties say is against SQL's own value
(`SqlValue`). An index that is not flat may miss the first row. `ClaimsOrder` is what the properties of the scan
say of its order: a sort put over an input that claims to be sorted would do nothing.

**VectorSqlSession** models the life of a statement (`Submit`, the step that takes
effect, `Complete` or `Fail`) on both paths, vetting (`Protected`, `Duplicate`), the forms of
`CREATE INDEX` (`RefusesStatement` on `execute`'s path, `ValidCliSql` and `RefusesPlan` on the
CLI's, with the planner's `Planned` between them), registration, and `Rebuild`. `forked` records that the query context is a session
of its own: until the first rebuild it is a clone that shares the base's state. `asked` and `settled` are history fields: the value
the last `SET` asked for (or `RESET`, if it reached the base configuration), and whether the contexts were rebuilt since.

**Progress**, **SiftLoader** and **Recall** are the recall benchmark. A `Progress` is a value, and
each of its methods yields the values it may leave behind: a write or flush may fail at any message,
and nothing is written after that. `SiftLoader` is `main`'s start: `ParseArgs`, then for each of
three files `Open` (`open_checked`), `ReadRecord` (one round of `read_fvecs` or `read_ivecs`, with
the checks in the order the code makes them) and `EndFile` (`check_trailing`). What a read returns is
the good record or any of `Misreads`, whatever the size check saw. `Recall` goes on with `Build`,
`SelectTruth`, `RecomputeTruth`, the warm-up and the timed pass of `run_balanced_with_progress`
(`Search` is one call), and `Report`. The flat index answers by `FlatSearch`; the others, behind the
trait, with fewer rows or with one of the faults that `validate_neighbors` is there to see. `fault`
is a history field: whether the environment did anything wrong.

## 3. Runs

| Run | Instance | What it shows |
|---|---|---|
| `graph_search` | 4 rows at distance 0 or 1 (ties occur), widths 0, 2, 4, no entry, one or two, 0–4 allowed rows, all 64 graphs | `BeamClosed` (the early break is harmless), `BeamIsNearestSeen` (visiting order does not show), `WideBeamIsExhaustive`, and every call returns |
| `nsw` | 5 rows with positions from {0, 1, 3}, `M` = 2, `ef_construction` = 3, widths 1 and 5, `k` 0 and 3 | reciprocity and degrees after every step, `LossIsJustified`, refinement of `BoundedGraph`; `AnswerIsHonest`, the build ends and queries return (`CallsReturn`) |
| `hnsw` | 4 rows from {-1, 1, 2} under the dot product, levels 0–2, `M` = 1, `ef_construction` = 2, widths 1 and 3, `k` 1 and 2 | `LayersSound` (rows nest, links stay in their layer, both ways) after every step; `TypeOK` says too that the entry point leads; each layer implements `BoundedGraph` (`LayersBounded`); `DescentOnlyImproves`; `AnswerIsHonest`; the build ends and queries return (`CallsReturn`) |
| `ivf` | 4 rows from three directions, two opposite, cosine; 3 partitions, 2 rounds, 1 and 3 probes | `ListsFollowCentroids`, `SelfQueryFindsRow`, `AnswerIsNearestProbed` (exact when every list is probed); `TypeOK` says too that no centroid is zero |
| `pq` | 4 rows from 4 points of the plane, Euclidean; 2 partitions, 2 rounds, 2 slices of one component, codebooks of 2, `rerank` 1 and 4, `k` 0, 2 and 4, 1 and 2 probes | `CostNeverGrows`, `DistortionNeverGrows`, `EmptyOnlyIfCovered`, `PqTypeOK` (codebooks stay finite), `ShortlistIsNearestDecoded`, `FullEffortIsExact`, `NeverSilentlyShort` |
| `attachment` | 2 tables × 2 partitions, 2 names, 4 batches (two writes), 1 attachment, a schema for each name; the second table starts with the first one's buffers | `ServesScannedRows`, `NeverServesTornRead`; planning ends (`PlansEnd`) |
| `attachment_alias` | 3 batches, 1 attachment | **violation**, see findings |
| `session` | 2 tables, 2 index names, 2 columns, 2 option values, 4 changes to tables | `IndexesAreSound`, `SetStaysInForce`, `VettedWritesSpareIndexed` |
| `session_stale`, `session_legal` | the same with 3 changes | **violations**, see findings |
| `benchmark` | 4 base rows, 3 in smoke mode, 3 queries (2), 3 indexes, `K` = 3, 3 truth files, 5 command lines, a fault of the environment and a failed write at any step | `FailsOnlyByFault`, `RoundsBalanced`, `ReportIsSound`, `MilestonesHonest`; no deadlock before the end of `main` |
| `topk` | tables of up to 3 rows in 3 batches, two vector columns, up to 2 of 4 indexes, 73 plans, `vector_search.ordered` on and off, two f64 distances to one f32 distance | `IndexAnswersTheQuery`, `OrderHolds` |

Each property of a passing run has a mutant in `PROJECT.json`: a plausible bug in
a definition of the model under which TLC finds the property violated. The mutants
stand in the modules next to the definitions they change.

### Bounds

A search sees only the order of the distances, and rows break ties, so two points and
all graphs give every ordered graph over four rows up to renaming; a beam narrower
than, equal to and wider than a component all occur. Five rows and `M` = 2 are the first instance in which
one insertion makes two rows overfull and a row pruned second has lost a link to the
first, and pruning cuts the entry point off from part of the graph. In HNSW
three levels let a descent pass two layers greedily, or search two, before the last, and
`M` = 1 makes upper layers lose links.
In `ivf`, three seed rows among four that may be equal leave partitions empty, before and after one of
the others has moved; `(1, 0)` three times and `(-3, 0)` have the mean zero; two rounds are enough to
converge on some datasets and too few on others, which is when lists and last assignments differ. In `pq`, the middle point of three is their
mean, so that a centroid ends on a row and reseeding from the wrong row would leave a partition empty;
a far corner in one partition with three other rows puts a residual out of `MaxFloat`'s range, and a query in the far corner does so to a distance;
`rerank` is below `k` and not. Two partitions and two writes are what a torn
read needs, and one write is enough to make an attachment, a scan or a comparison
stale; two tables and two names give an alias, a distinct provider under another name, and
re-registration; that of two attachments exactly one must match is exercised in `topk`, and the proofs
are for any number. In `topk`, three rows around an empty batch give ids that differ from places in a batch;
equal rows and rows equal after rounding give ties; components above 4 lose a bit when narrowed, and
there are literals with them. In `benchmark`, two queries of the smoke run and three of the full one make
25 % steps fall together and apart, three rounds turn every index through every place, and the rank of p99 needs
its rounding up; equally far rows make a right truth differ from the flat answer in order. In the
session, `MaxVersion` = 4 allows create, index, replace and re-create within one
behaviour; tables and index names are symmetric there (no constant, order or
liveness property tells them apart), and `SYMMETRY` says so.

### Fairness

`GraphSearch` is weakly fair in `Step` only: a call that was made runs, no one
has to make one. `Nsw` and `Hnsw` are weakly fair in build, search and answer steps and not
in `Query`. `Ivf` and `Pq` have no fairness: their loops count, and no liveness is claimed of them. These are loops of one thread that nothing can block. `Recall` has none either: its loops are
bounded, and that it stops only where `main` does is the deadlock check of its run (`Ended`). In
`IndexAttachment` the tasks that were started (planning, attaching, the write in
progress) are weakly fair; starting one is not. A writer holds a partition's lock
only across its own rewriting of that partition, which is why `EndWrite` is fair
and reads that wait for it get their turn, but neither it nor the attachment need advance while the
rule compares (`Comparing`): the rule is a synchronous call and may occupy the only thread of the executor, so that a
rule that waited for a writer would wait for ever. `CompareOwnWaits` is the mutant that does. The session and `VectorTopK` have no fairness: a statement
may stay where it is for ever, and no liveness is claimed.

One run sets `CHECK_DEADLOCK FALSE`: `topk`, whose query ends.

## 4. Findings

* **`attachment_alias`** — the comment at `datafusion/attachment.rs:297-299` says that a
  distinct provider that shares the scan's buffers makes the rewrite fail closed. The
  comparison answers `None` when `try_read` fails (line 345) and line 319 turns that into
  "does not match": while a writer holds one of its partitions, such a provider is
  passed over. The run exhibits it in a few steps. The answer is still right
  (`ServesScannedRows` holds in the same model), only the ambiguity goes unnoticed.
* **`session_stale`** — `course/src/rust-02-datafusion.md:252-253` says the session
  rejects changes to an indexed table instead of letting its attachment become stale.
  `CREATE OR REPLACE TABLE`, `EXPLAIN ANALYZE INSERT` and `EXECUTE` of a prepared `INSERT` are not
  vetted (`sql.rs:142`, `591-605`) and leave a stale attachment, which the optimizer then ignores.
* **`session_legal`** — `course/src/rust-00-sql-shell.md:95` says writes to unrelated tables
  remain legal. On `execute`'s path `UPDATE` and `DELETE` are vetted by every table they
  mention (`sql.rs:387-400`), so a subquery over an indexed table gets the update of
  another table rejected; the CLI's path accepts it.

## 5. Proofs

`tlapm` checks every leaf; the only assumptions are the named `ASSUME`s on the constants:
`DistanceAssumption` and `MetricAssumption` (distances are integers, except from a zero vector under the cosine),
`NAssumption` (at least one row), `ConfigAssumption`, `HnswAssumption`, `IvfConfigAssumption` and `PqConfigAssumption` (the checks of the configurations;
the last also that vectors have one dimension, which the slices divide, and that stored vectors and queries are finite), `CallAssumption` (a search is called
with vectors, rows and a width), `MeanAssumption` (a mean of
stored vectors is a vector of the metric, or zero under the cosine), `ExactAssumption` (vectors have one finite dimension, and
means of stored ones are exact: the model has integers where the code rounds), `SessionAssumption` and
`ConstantsAssumption` (what the constants of the session and the attachment are), `TopKAssumption`, `TablesAssumption`
(ids tell rows apart, vectors have the column's width) and `PlansAssumption` (a plan asks for ids; an integer literal that
reaches the rule is one f32 can hold, because DataFusion coerces the others to `Float64`), `SiftAssumption` (the checks the program's constants pass),
`FilesAssumption` (the files are good; whatever a damaged one gives is in `Misreads`) and `RecallAssumption` (the truth is wider than
one row, the ranks ascend from 1, a component that is not finite is not a number, clocks read naturals). TLC evaluates them in the runs.

* **NeighborOrderProofs** — `Closer` is a strict total order on rows; a finite set has a farthest
  row; `Nearest` returns at most `k` rows (`NearestBound`), all of them when there are at most
  `k` (`NearestAll`), exactly `k` when there are more by one (`NearestFull`), all nearer than the
  rows left out (`NearestCloser`), and leaves out one row of `k + 1` (`NearestDropsOne`);
  `TopK::push` keeps the bound (`PushTopKBound`), and a heap that holds the `k` nearest of the rows pushed
  so far holds the `k` nearest of one more (`PushKeepsNearest`): the reason why one heap is enough.
* **GraphSearchProofs** — whoever the caller is, the locals of `search_layer` keep their types
  across `Call`, `Step` and `Return`, and `Walk` is kept: the beam is the nearest of the rows seen (by
  `PushKeepsNearest` and, for a row the beam does not admit, `SkipKeepsNearest`), only rows the entries reach
  have been seen, and of a row that is in the beam and no candidate any more all neighbours were seen, up to
  the pending ones of the row being expanded. The last part is what the early `break` rests on: it is taken only
  when the beam has no candidate left, so that `Walk` says the same of both ways the loop can end (`DoneFull`).
  `LocalsTyped`, `BeamNearest`, `BreakHarmless` and `WideBeamReturnsAll`, the safety
  properties of the run `graph_search`, follow from `LocalsOK /\ Walk`.
* **NswProofs** — `TypeCorrect`, `LinksReciprocal`, `DegreesBounded`, `AnswersHonest`. The inductive invariant
  `IInv` is their conjunction with `LocalsOK` and `Progress`. `Progress` is what the three do not say:
  rows from `row` on have no links yet, a search of the build looks only at rows before `row` (so the
  rows it returns can be linked without a self-link or a duplicate), the entry point is
  an inserted row, and every affected row is inserted. Without it `Link` could raise a degree
  by more than one or `Prune` could meet a row two over the limit. `AnswersHonest` needs in addition `Walk` and
  `Asked` (the beam of a query holds `k` rows, or all).
  The same module proves the refinement, from `DroppedRow`: a row that drops a link is exactly one over the limit, keeps
  `M` links, all nearer than the one it drops. `LossJustified` follows; so does that `Prune`
  is one abstract `Drop` or a stutter, since the degree of a row is the number of abstract
  links it is in (`DegreeOf`, by a bijection). `ImplementsBoundedGraph` is
  the refinement for every number of rows, every metric and every configuration.
* **HnswProofs** — `TypeCorrect`, `LayersAreSound`, `DescentImproves`, `AnswersAreHonest`, `LayersImplementBoundedGraph`. What
  GraphSearchProofs shows of `search_layer` is used through an instance whose adjacency is the layer the descent has
  come to; changing layer happens only between searches. The invariant is `TypeOK`, `LayersSound`, `Descent` and, of the
  search, `LocalsOK` and `Walk`. `LayersSound` alone is not inductive: that a new row links only to rows of
  the layer it is linked on follows from where the descent has come from (`Descent`: the row it stands on is a row of
  the layer) and from what a search can reach from there, which links keep inside the layer. Every layer implements
  `BoundedGraph` with the bound `M`: a step is at most one abstract step of one
  layer and a stutter of the others, and a row that a new top layer takes in at the end of its insertion has no links there.
* **IvfProofs** — `TypeCorrect`, `ListsAreRight`, `AnswersNearest`, `StoredRowsFound`. The inductive invariant
  adds `InRound` (an update belongs to one of the rounds) and `QueryOK`: the heap holds the nearest of the rows
  *scored so far*, and the probed partitions are nearer to the query than all others. `AnswerIsNearestProbed` alone is not
  inductive, since it says nothing of a query under way, and pushing a row keeps `QueryOK` only because no row
  is on two lists (`ListsFollowCentroids`). A stored row is found because its list is that of the
  centroid the query probes first, and the heap then loses it only to `k` nearer rows.
  Its second part is the product codes: `PqTypeCorrect`, `ShortlistsNearest`, `ShortOnlyForWant`, `FullEffort`. While the
  centroids are trained the invariant `PqIInv` is Ivf's; afterwards it says that the residuals are finite, every row is on
  the list of its centroid, and (`ScanOK`) the rows still to be scored are of the list the tables were filled for.
  The heart is `ScoreIsDistance`: the sum over the slices of a row's table entries is the squared distance of the query from
  its decoded vector, since the slices partition the components (`SlicePlace`, `PlaceSlice`, `SumBlocks`). It needs a theory
  of finite sums (`SumRemove`, `SumUnion`, `SumImage`, `SumBlocks`), proved by minimal counterexample from the definition of
  `SumFunctionOnSet`, since induction theorems are out of reach here. Codewords stay finite because a mean
  lies between the bounds of what it is the mean of (`MeanBounds`). The shortlist is then the heap of `PushKeepsNearest` once
  more, over numbers instead of vectors (`Ranked`). `FullEffort` does not depend on what training does: the
  shortlist has every row, and a row left out of the exact ranking because f32 cannot hold its distance
  is farther than every row ranked (`NearestOfFewer`).
  Three facts are about training. `EmptyCovered` and `PqEmptyCovered`: under a metric that separates vectors, a training that converged
  leaves a partition empty only if every row is where a centroid is. The invariant remembers that the centroids came out of one
  round from some old ones (`UpdatedFrom`, `Midway` the state in its middle); the empty partition sits on the row that was farthest then, that row is
  assigned to another centroid equal to it, updated before the empty one, so that its distance was zero when the empty one was
  reseeded, and so was every other row's (`RoundCovers`); a centroid that moves later leaves the rows it covered covered. `Separating` is needed: under the cosine the statement is false. Rows (12,0), (12,0), (-36,0) with both
  partitions seeded on the equal rows all go to the first one, whose mean (-4,0) points the other way; the second is reseeded with (-36,0),
  no assignment changes, and training has converged with it empty and two rows as far from every centroid as can be.
  `CostFalls` and `PqCostFalls`: for the squared Euclidean distance no step raises the cost, by exchanging the sums over rows and components
  (`SumSwap`) and `MeanIsBest`, the bias–variance split of a sum of squares. `DistortionFalls` is the same of one slice, over the rows
  of each code (`SumBlocks`); residuals are taken from rounded means, so that no assumption makes the means of codes exact, and the theorem
  has this as a hypothesis on the behaviour (`CodeMeansExact`; TLC finds it to be an invariant of the instance of `pq`).
* **IndexAttachmentProofs** — `TypeCorrect`, `ServesScanned`, `NeverTorn`, for any number of tables, names,
  partitions, attachments and writes. The argument is that batches are never used twice: a partition written after it was
  copied ends in a batch newer than the copy (`Gone`), and stays so (`WriteAges`). So a copy that is torn at the
  moment it is complete can be told from its table for ever (`Torn`), which `ReadUpTo` prepares while the copy is being
  made; `OwnInv` says that the partition which gives a torn copy away is always still ahead of the comparison, so that
  the comparison fails when it gets there. `ServesScannedRows` alone is not inductive: it speaks of a finished plan,
  and the state of the comparison decides.
* **VectorSqlProofs** — of the session, `TypeCorrect`, `IndexesSound`, `SetHolds`, `IndexedSpared`. The invariant adds
  `RunIsVetted` (a statement that runs is still one that vetting lets through: nothing it was vetted against changes
  while it runs), `IndexedExists`, `BaseAsked` and `SettledAgrees` (base has at once what a `SET` asks for, the query context
  by the next rebuild). `OnlyPlainPasses` is the lemma that both paths together let only plain `CREATE INDEX`
  statements through; without `validate_cli_sql` it is false.
  Of the query an index serves, `IndexAnswers` and `OrderKept`. Row ids enumerate the table's rows (`Locations`, `NumberedRows`), the index's measure is
  SQL's value up to the rounding, in the direction of the sort (`MeasuresTheOrder`; `CoarseOrder` says rounding keeps order), and choosing rows by
  rank enumerates a set without repetition and in order (`FiniteImage`, `Ranks`, `InRankOrder` of NeighborOrderProofs). What leaves the
  index is carried through `SelectRows`, `OutputBatch` and the final sort, which permutes it (`PermutationOnto`).
* **RecallProofs** — `RoundsStayBalanced`, `FailuresExplained`, `ReportHolds`, `ReportsAreHonest`. `RecallInv` (`RunKept`) has four parts: what has been read is
  what the files hold, or there was a fault (`LoadInv`, by `GoodRead` and `BadRead`: the checks refuse exactly the bad records); the truth in use is right
  for the mode (`TruthInv`); who has searched what, `InOrderOfTurns` (`PassInv`); and what an end of the program means (`EndInv`).
  `RoundsStayBalanced` is then arithmetic: whose turn it is at a place depends only on the remainder of the round (`TurnsRecur`), of the rounds made each remainder
  has an equal share up to one (`EqualShare`), and `SearchesMade` and `PlacesShared` count. `FaultIsInvalid` and `ProperAnswer` say that
  `validate_neighbors` sees every fault of an answer and refuses no proper one, and `AgreesIfTrue` the same of the flat index and the truth. The report
  rests on the overlap being at most `K` (`OverlapBound`), so that averages stay on a grid, and on
  `NearestRank`: sorting the times puts the percentile where as many are below as it says.
  `ReportsAreHonest` has an invariant of its own (`LinesInv`, checked by TLC first): as long as nothing failed, the last line written says how far the open
  stage is, and no milestone beyond it is due. It also shows that the assertion of `begin` (a stage has units, `lib.rs:125`) never fires.

Each safety or action property of a passing run is stated by a theorem, for every value of the constants. Only model-checked is liveness
(`SearchReturns`, `CallsReturn`, `PlansEnd`), which needs `ENABLED`.
The models have no `RECURSIVE` operator: `Reachable` is the least closed set, and the distances of
`Metric`, which only the MC modules use, sum with a fold.

## 6. What is not modelled

* Floating point: distances are integers. That an index rounds to f32 what SQL computes in f64, which matters to
  `vector_search.ordered`, is in `VectorTopK` as a monotone loss of precision (`Coarse`); how a float sum rounds is not in the models. Means are
  exact: that the cost of k-means never grows, or that an empty partition was of no use, is shown up to rounding.
  The range of f32 is modelled where `Pq` tests it.
* DataFusion itself, Arrow, and the vendored CLI beyond what the code relies on.
* `vector_mem_table`, the starter, xtask and the course text: conversions, exercises, tooling.
* In the benchmark: wording, terminal redraw, durations beyond their order, the byte accounting of IVF-PQ and
  the check that names and configurations are the expected ones (constants of the program on both sides); output to a
  closed standard output.
* In the attachment: batches whose schema differs from their table's. In the optimizer: `EXPLAIN`'s texts, and literals of
  32- and 64-bit integers that lose bits in f32 (the code narrows them unchecked; DataFusion's coercion
  hands it `Float64`). A fetch DataFusion may have pushed into the memory source (a `LIMIT` below
  the sort) is not looked at by `rewrite_sort`; where the planner leaves it is decided outside the repository, and the
  model has scans without one. A write of the environment leaves a new batch in its partition; a `DELETE` that empties one is left out.
* In the session: normalisation of identifiers, statement counts. `DROP SCHEMA … CASCADE` and `CREATE OR REPLACE VIEW`, which
  neither path vets, are not among the writes: they take an indexed table away or put a view in its place, and leave
  a stale attachment like those of `session_stale`. A failure of `statement_count` after the statement took effect is one of the failures `Fail` stands for.

## 7. Plan

Done: graph search, NSW and HNSW with their refinement, IVF-Flat, IVF-PQ, the attachment, the optimizer rule and the session, the
benchmark; proofs for all of them. What is left is a composition: the session's statements as the environment of the attachment,
instead of the free `Register`, `Deregister`, `StartWrite` and `EndWrite` it has now, which allow more than the session does.
