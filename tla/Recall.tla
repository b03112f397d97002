------------------------------- MODULE Recall -------------------------------
(***************************************************************************)
(* The recall benchmark (vector-db/core/examples/recall.rs and             *)
(* run_balanced_with_progress of vector-benchmark-support): the files of   *)
(* SiftLoader, the builds, the exact truth, a warm-up and a timed pass in  *)
(* which the indexes take turns, and a report that is printed whole or not *)
(* at all.  The flat index answers as flat.rs does; the others are behind  *)
(* a trait, and what they answer is up to the environment.                 *)
(***************************************************************************)
EXTENDS SiftLoader, NeighborOrder

CONSTANTS
  INDEX_NAMES,       \* the indexes measured, flat first
  WARM_QUERY_COUNT,  \* the queries of the warm-up, when there are as many
  RANKS,             \* the ranks of the first-hit rates, 1, 10 and 100
  Lossy,             \* the indexes that miss the nearest row of every query
  Clocks             \* index -> the time each query may take, in turn

INDEX_COUNT == Len(INDEX_NAMES)
K == GROUND_TRUTH_WIDTH
Indexes == 0 .. INDEX_COUNT - 1

ASSUME RecallAssumption ==
  /\ INDEX_COUNT \in Nat \ {0}
  /\ WARM_QUERY_COUNT \in Nat
  /\ Lossy \subseteq Indexes \ {0}
  /\ RANKS \in [1 .. 3 -> Nat] /\ RANKS[1] = 1 /\ RANKS[1] < RANKS[2] /\ RANKS[2] < RANKS[3]
  /\ \A clock \in Clocks : clock \in [Indexes -> [1 .. QUERY_ROWS -> Nat]]
  /\ BaseFile \in Seq(Vector) /\ QueryFile \in Seq(Vector)
  /\ K > 1 /\ NonFinite \notin Int

VARIABLES
  clock,      \* the times of this behavior
  built,      \* how many indexes are built
  exact_top_100,
  offset,     \* how many indexes have had their turn in the current round
  runs,       \* index -> the latencies and results of the timed pass
  order,      \* history: the searches of the timed pass as they were made
  report      \* the lines printed

runVars == <<clock, built, exact_top_100, offset, runs, order, report>>
vars    == <<siftVars, runVars>>

MinOf(S) == CHOOSE x \in S : \A y \in S : x <= y
MaxOf(S) == CHOOSE x \in S : \A y \in S : x >= y
Elements(s) == {s[i] : i \in DOMAIN s}

(* The dataset, rows counted from zero.                                    *)
Data  == [r \in 0 .. Len(base) - 1 |-> base[r + 1]]
Total == Len(queries)

(* FlatIndex::search: the k nearest rows of all, sorted.                   *)
SearchAll(data, query, k) ==
  LET found == Nearest(data, query, DOMAIN data, k)
      Rank(r) == Cardinality({s \in found : Closer(data, query, s, r)})
  IN  [n \in 1 .. Cardinality(found) |->
         LET r == CHOOSE r \in found : Rank(r) = n - 1
         IN  [row |-> r, distance |-> Distance(query, data[r])]]

FlatSearch(query, k) == SearchAll(Data, query, k)

RowsOf(neighbors) == [n \in DOMAIN neighbors |-> neighbors[n].row]

(* What an index answers: the exact rows, or fewer of them.                *)
Proper(index, query) ==
  LET exact == FlatSearch(query, K)
  IN  IF index \in Lossy THEN Tail(exact) ELSE exact

(* What a faulty index may answer: too many rows, a row that does not      *)
(* exist, a distance that is not finite, a wrong order, a row twice.       *)
Misanswers(query) ==
  LET exact == FlatSearch(query, K)
      last  == exact[Len(exact)]
  IN  {FlatSearch(query, Len(base)) \o <<last>>,
       [exact EXCEPT ![Len(exact)].row = Len(base)],
       [exact EXCEPT ![Len(exact)].distance = NonFinite],
       Append(Tail(exact), Head(exact)),
       Append(Tail(exact), last)}

(* validate_neighbors.                                                     *)
InOrder(a, b) == a.distance < b.distance \/ (a.distance = b.distance /\ a.row <= b.row)

ValidNeighbors(neighbors) ==
  /\ Len(neighbors) <= MinOf({K, Len(base)})
  /\ \A n \in DOMAIN neighbors :
       neighbors[n].row < Len(base) /\ neighbors[n].distance # NonFinite
  /\ \A n \in 1 .. Len(neighbors) - 1 : InOrder(neighbors[n], neighbors[n + 1])
  /\ Cardinality(Elements(RowsOf(neighbors))) = Len(neighbors)

(* validate_run.                                                           *)
ValidRun(run) ==
  /\ Total > 0 /\ Len(exact_top_100) = Len(run.results)
  /\ Len(exact_top_100) = Len(run.latencies)
  /\ \A q \in DOMAIN exact_top_100 : Len(exact_top_100[q]) = K
  /\ \A q \in DOMAIN run.results : ValidNeighbors(run.results[q])
-----------------------------------------------------------------------------
(* first_hit: the exact nearest row is among the first ones returned.      *)
FirstHit(results, exact_first, rank) ==
  \E n \in DOMAIN results : n <= rank /\ results[n] = exact_first

(* overlap_at_100, in rows.                                                *)
Overlap(results, exact) ==
  Cardinality({n \in DOMAIN exact : exact[n] \in Elements(results)})

(* Mutant of Percentile: the rank is rounded down.                         *)
PercentileFloor(sorted, percent) ==
  LET rank == (percent * Len(sorted)) \div 100
  IN  sorted[MinOf({MaxOf({rank - 1, 0}), Len(sorted) - 1}) + 1]

(* percentile: nearest rank.                                               *)
Percentile(sorted, percent) ==
  LET rank == (percent * Len(sorted) + 99) \div 100
  IN  sorted[MinOf({MaxOf({rank - 1, 0}), Len(sorted) - 1}) + 1]

(* sort_unstable: each place gets the element with as many before it.      *)
Sorted(s) ==
  LET Before(n) == {m \in DOMAIN s : s[m] < s[n] \/ (s[m] = s[n] /\ m < n)}
  IN  [place \in DOMAIN s |-> s[CHOOSE n \in DOMAIN s : Cardinality(Before(n)) = place - 1]]

(* summarize, with counts of queries in the place of rates.                *)
Summarize(run) ==
  LET rows == [q \in DOMAIN run.results |-> RowsOf(run.results[q])]
      Hits(rank) == Cardinality({q \in DOMAIN rows :
                      FirstHit(rows[q], exact_top_100[q][1], rank)})
      Overlaps == {hit \in (DOMAIN rows) \X (1 .. K) :
                     hit[2] <= Overlap(rows[hit[1]], exact_top_100[hit[1]])}
      lengths  == {Len(rows[q]) : q \in DOMAIN rows}
      latencies == Sorted(run.latencies)
  IN  [r1 |-> Hits(RANKS[1]), r10 |-> Hits(RANKS[2]), r100 |-> Hits(RANKS[3]),
       overlap_at_100 |-> Cardinality(Overlaps),
       returned_min |-> MinOf(lengths), returned_max |-> MaxOf(lengths),
       p50 |-> Percentile(latencies, 50), p99 |-> Percentile(latencies, 99)]

(* The flat index finds exactly the selected truth.                        *)
Agrees(m) ==
  /\ m.r1 = Total /\ m.r10 = Total /\ m.r100 = Total
  /\ m.overlap_at_100 = Total * K /\ m.returned_min = K /\ m.returned_max = K

(* format_report: nothing if anything about it is wrong.                   *)
ReportOK ==
  /\ \A i \in Indexes : ValidRun(runs[i])
  /\ \A i \in Indexes : LET m == Summarize(runs[i]) IN m.r1 <= m.r10 /\ m.r10 <= m.r100
  /\ Agrees(Summarize(runs[0]))
-----------------------------------------------------------------------------
NoRuns == [i \in Indexes |-> [latencies |-> <<>>, results |-> <<>>]]

Init ==
  /\ LoadInit
  /\ clock \in Clocks /\ built = 0 /\ exact_top_100 = <<>>
  /\ offset = 0 /\ runs = NoRuns /\ order = <<>> /\ report = <<>>

(* One index: its build is announced, and announced again when it is done. *)
(* The exact truth is selected once the flat one is there.                 *)
Build ==
  /\ pc = "build" /\ built < INDEX_COUNT
  /\ LET label == INDEX_NAMES[built + 1]
         start == EventLine(label, "start")
     IN  \/ /\ built > 0 /\ fault' = TRUE
            /\ progress' \in Written(progress, <<start>>)
            /\ Abort("build") /\ UNCHANGED built
         \/ /\ progress' \in Written(progress, <<start, EventLine(label, "complete")>>)
            /\ built' = built + 1
            /\ pc' = IF built = 0 THEN "select" ELSE pc
            /\ UNCHANGED <<loadVars, completed, error, fault>>
  /\ UNCHANGED <<clock, exact_top_100, offset, runs, order, report>>

(* Mutant of SelectTruth: the smoke run is measured by the supplied truth. *)
SelectSupplied ==
  /\ pc = "select"
  /\ exact_top_100' = supplied_top_100 /\ pc' = "build"
  /\ UNCHANGED <<loadVars, completed, progress, error, fault, clock, built, offset,
                 runs, order, report>>

(* select_exact_truth: the smoke run begins to recompute it.               *)
SelectTruth ==
  /\ pc = "select"
  /\ \/ /\ mode = "full"
        /\ exact_top_100' = supplied_top_100 /\ pc' = "build"
        /\ UNCHANGED <<completed, progress>>
     \/ /\ mode = "smoke"
        /\ progress' \in Begin(progress, "recompute smoke truth", Total, 0)
        /\ completed' = 0 /\ pc' = "truth" /\ UNCHANGED exact_top_100
  /\ UNCHANGED <<loadVars, error, fault, clock, built, offset, runs, order, report>>

RecomputeTruth ==
  /\ pc = "truth"
  /\ \/ /\ completed < Total
        /\ exact_top_100' =
             Append(exact_top_100, RowsOf(FlatSearch(queries[completed + 1], K)))
        /\ completed' = completed + 1
        /\ progress' \in Advance(progress, completed + 1)
        /\ UNCHANGED pc
     \/ /\ completed = Total
        /\ progress' \in Finish(progress)
        /\ pc' = "build" /\ UNCHANGED <<exact_top_100, completed>>
  /\ UNCHANGED <<loadVars, error, fault, clock, built, offset, runs, order, report>>
-----------------------------------------------------------------------------
(* Mutant of WarmCount: more rounds are announced than there are queries.  *)
WarmCountUncapped == WARM_QUERY_COUNT

(* What the caller asks for, and what take leaves of it.                   *)
WarmCount  == MinOf({WARM_QUERY_COUNT, Total})
WarmRounds == MinOf({WarmCount, Total})
Rounds     == IF pc = "warm" THEN WarmRounds ELSE Total

(* A pass of run_balanced_with_progress starts, unless it has no rounds.   *)
BeginWarm ==
  /\ pc = "build" /\ built = INDEX_COUNT
  /\ progress' \in IF WarmCount = 0 THEN {progress}
                   ELSE Begin(progress, "warm search", WarmCount, INDEX_COUNT)
  /\ pc' = "warm" /\ completed' = 0
  /\ UNCHANGED <<loadVars, error, fault, runVars>>

(* The last warm round is over, if there was one.                          *)
EndWarm ==
  /\ pc = "warm" /\ completed = WarmRounds
  /\ progress' \in IF WarmCount = 0 THEN {progress} ELSE Finish(progress)
  /\ pc' = "warmed"
  /\ UNCHANGED <<loadVars, completed, error, fault, runVars>>

(* The timed pass follows, and has nothing of the warm-up in its results.  *)
BeginTimed ==
  /\ pc = "warmed"
  /\ progress' \in Begin(progress, "timed search", Total, INDEX_COUNT)
  /\ pc' = "timed" /\ completed' = 0
  /\ UNCHANGED <<loadVars, error, fault, runVars>>

(* Mutant of Turn: every round starts with the same index.                 *)
TurnFixed(round, place) == place

(* The index whose turn it is in a round.                                  *)
Turn(round, place) == (round + place) % INDEX_COUNT

(* One search; a round is over once every index has made it.               *)
Search ==
  /\ pc \in {"warm", "timed"} /\ completed < Rounds
  /\ LET index == Turn(completed, offset)
         query == queries[completed + 1]
     IN  \/ Abort("search") /\ fault' = TRUE /\ UNCHANGED <<progress, offset, runs, order>>
         \/ /\ IF pc = "warm" THEN UNCHANGED <<runs, order, fault>>
               ELSE \E bad \in IF fault THEN {FALSE} ELSE BOOLEAN :
                    \E result \in IF bad THEN Misanswers(query) ELSE {Proper(index, query)} :
                      /\ runs' = [runs EXCEPT
                           ![index].latencies = Append(@, clock[index][completed + 1]),
                           ![index].results = Append(@, result)]
                      /\ order' = Append(order, [index |-> index, query |-> completed])
                      /\ fault' = (fault \/ bad)
            /\ IF offset + 1 < INDEX_COUNT
               THEN offset' = offset + 1 /\ UNCHANGED <<completed, progress>>
               ELSE /\ offset' = 0 /\ completed' = completed + 1
                    /\ progress' \in Advance(progress, completed + 1)
            /\ UNCHANGED <<pc, loadVars, error>>
  /\ UNCHANGED <<clock, built, exact_top_100, report>>

(* The end of the timed pass, and the report or its refusal.               *)
Report ==
  /\ pc = "timed" /\ completed = Total
  /\ progress' \in Finish(progress)
  /\ \/ /\ ReportOK
        /\ pc' = "reported" /\ report' = [i \in Indexes |-> Summarize(runs[i])]
        /\ UNCHANGED error
     \/ /\ ~ReportOK
        /\ pc' = "aborted" /\ error' = "report" /\ UNCHANGED report
  /\ UNCHANGED <<loadVars, completed, fault, clock, built, exact_top_100, offset, runs, order>>

(* The end of main, the only place where the program stops.                *)
Ended == pc \in {"usage", "aborted", "reported"} /\ UNCHANGED vars

Next ==
  \/ Load /\ UNCHANGED runVars
  \/ Build \/ SelectTruth \/ RecomputeTruth
  \/ BeginWarm \/ EndWarm \/ BeginTimed \/ Search \/ Report \/ Ended

Spec == Init /\ [][Next]_vars
-----------------------------------------------------------------------------
(* A milestone that gets out never claims a unit that is not done, the     *)
(* last one only comes of a stage that went well, and the milestones of a  *)
(* stage are 0, 25, 50, 75 and 100 percent, each once and in this order,   *)
(* with nothing between them; after a failed write nothing follows.        *)
IsMilestone(line) == "percent" \in DOMAIN line

Follows(before, line) ==
  IF IsMilestone(line) /\ line.percent > 0
  THEN IsMilestone(before) /\ before.label = line.label /\ before.percent = line.percent - 25
  ELSE ~IsMilestone(before) \/ before.percent = 100

NewLinesHonest ==
  LET log == progress'.log
  IN  \A n \in Len(progress.log) + 1 .. Len(log) :
        /\ ~progress.failed
        /\ n > 1 => Follows(log[n - 1], log[n])
        /\ IsMilestone(log[n]) =>
             /\ log[n].completed <= completed'
             /\ log[n].percent = 100 => completed = completed' /\ error' \in {"none", "report"}

MilestonesHonest == [][NewLinesHonest]_<<progress, completed, error>>

(* The program fails if, and only if, something it depends on went wrong:  *)
(* an argument, a byte of the files (kept or not), a build, a search, an   *)
(* answer, or a supplied truth the flat index does not agree with.  A      *)
(* closed standard error is none of these, and the truth a smoke run       *)
(* computes for itself cannot disagree.  Nothing is printed by halves.     *)
TruthDisagrees ==
  /\ mode = "full"
  /\ \E q \in DOMAIN queries :
       LET exact == RowsOf(FlatSearch(queries[q], K))
       IN  \/ exact[1] # truth_file[q][1]
           \/ Elements(exact) # Elements(truth_file[q])

FailsOnlyByFault ==
  /\ pc = "aborted" => (fault \/ TruthDisagrees) /\ report = <<>>
  /\ pc = "reported" => ~fault /\ ~TruthDisagrees

(* In the timed pass every index has answered the same queries, up to the  *)
(* one whose round is under way, each once and in order (a search is for   *)
(* the query after those its index has answered), and of the places of a   *)
(* round, first to last, every index has had each equally often, up to one *)
(* round.                                                                  *)
SearchesBefore(n, index) == Cardinality({m \in 1 .. n - 1 : order[m].index = index})

Occupied(index, place) ==
  Cardinality({n \in DOMAIN order :
    order[n].index = index /\ (n - 1) % INDEX_COUNT = place})

RoundsBalanced ==
  pc \in {"timed", "reported"} =>
    /\ \A n \in DOMAIN order : order[n].query = SearchesBefore(n, order[n].index)
    /\ \A i \in Indexes :
         /\ Len(runs[i].results) = SearchesBefore(Len(order) + 1, i)
         /\ Len(runs[i].latencies) = Len(runs[i].results)
    /\ \A i, j \in Indexes :
         /\ Len(runs[i].results) - Len(runs[j].results) \in {-1, 0, 1}
         /\ \A place \in Indexes : Occupied(i, place) - Occupied(j, place) \in {-1, 0, 1}

(* A printed report measures each index, in either mode, against the       *)
(* nearest rows of the dataset it searched; the hit rates are monotone;    *)
(* p50 and p99 are times of the run that so many percent of the queries    *)
(* did not exceed, and fewer stayed below.                                 *)
IsRank(p, percent, times) ==
  /\ p \in Elements(times)
  /\ 100 * Cardinality({q \in DOMAIN times : times[q] <= p}) >= percent * Len(times)
  /\ 100 * Cardinality({q \in DOMAIN times : times[q] < p}) < percent * Len(times)

ReportIsSound ==
  pc = "reported" =>
    /\ \A q \in DOMAIN queries :
         Elements(exact_top_100[q]) = Nearest(Data, queries[q], DOMAIN Data, K)
    /\ \A i \in Indexes :
         LET m == report[i]
         IN  /\ m.r1 <= m.r10 /\ m.r10 <= m.r100 /\ m.r100 <= Total
             /\ IsRank(m.p50, 50, runs[i].latencies) /\ IsRank(m.p99, 99, runs[i].latencies)
             /\ m.overlap_at_100 <= m.returned_max * Total
=============================================================================
