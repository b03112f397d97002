----------------------------- MODULE SiftLoader -----------------------------
(***************************************************************************)
(* The start of the recall benchmark (parse_cli and                        *)
(* load_sift1m_with_progress in vector-benchmark-support/src/lib.rs): the  *)
(* arguments, then three files, record by record.  A file is checked to    *)
(* its last byte even when the mode keeps only its first records, and it   *)
(* may change between the check of its size and the end of the reading:    *)
(* what a read returns is up to the environment.                           *)
(***************************************************************************)
EXTENDS Progress, FiniteSets

CONSTANTS
  Args,               \* the command lines the program may be started with
  Flags,              \* the arguments that begin with a dash
  BaseFile,           \* the vectors of sift_base.fvecs
  QueryFile,          \* the vectors of sift_query.fvecs
  TruthFiles,         \* what sift_groundtruth.ivecs may hold, in order
  DIMENSIONS,         \* the components of a vector
  GROUND_TRUTH_WIDTH, \* the rows of a truth record, and the benchmark's K
  SMOKE_BASE_ROWS,    \* the base rows smoke mode keeps
  SMOKE_QUERY_ROWS,   \* the queries smoke mode keeps
  NonFinite           \* a component or a distance that is not finite

BASE_ROWS  == Len(BaseFile)
QUERY_ROWS == Len(QueryFile)

ASSUME SiftAssumption ==
  /\ DIMENSIONS \in Nat \ {0} /\ GROUND_TRUTH_WIDTH \in Nat \ {0}
  /\ SMOKE_BASE_ROWS \in GROUND_TRUTH_WIDTH .. BASE_ROWS
  /\ SMOKE_QUERY_ROWS \in 1 .. QUERY_ROWS
  /\ \A truth \in TruthFiles : Len(truth) = QUERY_ROWS

(* What is in the files is good; what may go wrong is in Handles, Misreads *)
(* and EndFile.                                                            *)
GoodVector(v) ==
  /\ DOMAIN v = 1 .. DIMENSIONS /\ Len(v) = DIMENSIONS
  /\ \A c \in DOMAIN v : v[c] # NonFinite

GoodIds(ids) ==
  /\ ids \in [1 .. GROUND_TRUTH_WIDTH -> 0 .. BASE_ROWS - 1]
  /\ \A i, j \in 1 .. GROUND_TRUTH_WIDTH : ids[i] = ids[j] => i = j

ASSUME FilesAssumption ==
  /\ \A r \in 1 .. BASE_ROWS : GoodVector(BaseFile[r])
  /\ \A q \in 1 .. QUERY_ROWS : GoodVector(QueryFile[q])
  /\ \A truth \in TruthFiles : \A q \in 1 .. QUERY_ROWS : GoodIds(truth[q])

VARIABLES
  pc,          \* what the program is doing
  mode,        \* "full" or "smoke", once the arguments are parsed
  truth_file,  \* the truth file of this behavior
  file,        \* the file being read, 1 to 3
  completed,   \* the units of the current stage that are done
  progress,    \* the progress reports
  base, queries, supplied_top_100,   \* the records kept
  error,       \* what the program failed with
  fault        \* history: whether the environment did anything wrong

loadVars == <<mode, truth_file, file, base, queries, supplied_top_100>>
siftVars == <<pc, loadVars, completed, progress, error, fault>>

(* parse_cli.                                                              *)
ParseCli(args) ==
  CASE Len(args) = 1 /\ args[1] \notin Flags -> "full"
    [] Len(args) = 2 /\ args[1] = "--smoke" /\ args[2] \notin Flags -> "smoke"
    [] OTHER -> "usage"

BaseRows  == IF mode = "full" THEN BASE_ROWS ELSE SMOKE_BASE_ROWS
QueryRows == IF mode = "full" THEN QUERY_ROWS ELSE SMOKE_QUERY_ROWS

Label(f)   == <<"load sift_base", "load sift_query", "load sift_groundtruth">>[f]
Records(f) == <<BASE_ROWS, QUERY_ROWS, QUERY_ROWS>>[f]
Retain(f)  == <<BaseRows, QueryRows, QueryRows>>[f]
Width(f)   == <<DIMENSIONS, DIMENSIONS, GROUND_TRUTH_WIDTH>>[f]
Contents(f) == <<BaseFile, QueryFile, truth_file>>[f]

(* The first of some checks, in the order they are made, that fails.       *)
FirstFailing(checks) ==
  IF \E i \in DOMAIN checks : checks[i][2]
  THEN checks[CHOOSE i \in DOMAIN checks :
                checks[i][2] /\ \A j \in 1 .. i - 1 : ~checks[j][2]][1]
  ELSE "none"

(* What open_checked meets; excess is the size beyond the expected one.    *)
Handles    == [open : {"found", "not_found", "denied"}, excess : {-1, 0, 1}]
GoodHandle == [open |-> "found", excess |-> 0]

OpenChecked(handle) ==
  FirstFailing(<< <<"missing", handle.open = "not_found">>,
                  <<"io", handle.open = "denied">>,
                  <<"size", handle.excess # 0>> >>)

(* A record as it is read: header is empty when the file ends in it, io    *)
(* names the read that fails, and the payload is short when the file ends. *)
GoodRecord(f, payload) == [header |-> <<Width(f)>>, payload |-> payload, io |-> "none"]

(* The ids a truth record may hold in place of good ones: the last is      *)
(* negative, too large or one that the record has already.                 *)
BadIds(ids) ==
  {[ids EXCEPT ![Len(ids)] = id] : id \in {-1, BASE_ROWS} \cup {ids[i] : i \in 1 .. Len(ids) - 1}}

(* What may be read in place of a good record.                             *)
Misreads(f, payload) ==
  LET good == GoodRecord(f, payload)
  IN  {[good EXCEPT !.io = at] : at \in {"header", "payload"}} \cup
      {[good EXCEPT !.header = h] : h \in {<<>>, <<-1>>, <<Width(f) + 1>>}} \cup
      {[good EXCEPT !.payload = SubSeq(payload, 1, Width(f) - 1)]} \cup
      {[good EXCEPT !.payload = p] :
         p \in IF f = 3 THEN BadIds(payload)
               ELSE {[payload EXCEPT ![1] = NonFinite]}}

(* The first id of a record that is refused, and why.                      *)
IdError(ids) ==
  LET Refused(i) ==
        FirstFailing(<< <<"negative_id", ids[i] < 0>>,
                        <<"out_of_range_id", ids[i] >= BASE_ROWS>>,
                        <<"duplicate_id", \E j \in 1 .. i - 1 : ids[j] = ids[i]>> >>)
  IN  FirstFailing([i \in DOMAIN ids |-> <<Refused(i), Refused(i) # "none">>])

(* read_header, check_dimension, fill, then the components or the ids.     *)
RecordError(f, rec) ==
  LET frame ==
        FirstFailing(<< <<"io", rec.io = "header">>,
                        <<"truncated_header", rec.header = <<>> >>,
                        <<"dimension", rec.header # <<Width(f)>> >>,
                        <<"io", rec.io = "payload">>,
                        <<"truncated_payload", Len(rec.payload) # Width(f)>> >>)
  IN  CASE frame # "none" -> frame
        [] frame = "none" /\ f = 3 -> IdError(rec.payload)
        [] OTHER -> IF \E c \in DOMAIN rec.payload : rec.payload[c] = NonFinite
                    THEN "non_finite" ELSE "none"
-----------------------------------------------------------------------------
LoadInit ==
  /\ pc = "args" /\ mode = "full" /\ file = 1 /\ completed = 0
  /\ truth_file \in TruthFiles
  /\ progress = NewProgress
  /\ base = <<>> /\ queries = <<>> /\ supplied_top_100 = <<>>
  /\ error = "none" /\ fault = FALSE

(* The `?` of the code: the stage stays open, nothing else is touched.     *)
Abort(kind) ==
  /\ pc' = "aborted" /\ error' = kind
  /\ UNCHANGED <<loadVars, completed>>

(* main: a command line parse_cli refuses ends the program with code 2.    *)
ParseArgs ==
  /\ pc = "args"
  /\ \E args \in Args :
       LET parsed == ParseCli(args)
       IN  /\ pc' = IF parsed = "usage" THEN "usage" ELSE "open"
           /\ mode' = IF parsed = "usage" THEN mode ELSE parsed
  /\ UNCHANGED <<truth_file, file, base, queries, supplied_top_100, completed,
                 progress, error, fault>>

(* open_checked, and the start of read_fvecs or read_ivecs.                *)
Open ==
  /\ pc = "open"
  /\ \E handle \in Handles :
       /\ fault' = (handle # GoodHandle)
       /\ IF OpenChecked(handle) # "none"
          THEN Abort(OpenChecked(handle)) /\ UNCHANGED progress
          ELSE /\ pc' = "read" /\ completed' = 0
               /\ progress' \in Begin(progress, Label(file), Records(file), 0)
               /\ UNCHANGED <<loadVars, error>>

(* The record, when the mode retains it.                                   *)
Kept(payload) == IF completed < Retain(file) THEN <<payload>> ELSE <<>>

(* One round of the loop over the records of a file.                       *)
ReadRecord ==
  /\ pc = "read" /\ completed < Records(file)
  /\ LET payload == Contents(file)[completed + 1]
         good    == GoodRecord(file, payload)
     IN  \E rec \in {good} \cup Misreads(file, payload) :
           /\ fault' = (rec # good)
           /\ IF RecordError(file, rec) # "none"
              THEN Abort(RecordError(file, rec)) /\ UNCHANGED progress
              ELSE /\ base' = IF file = 1 THEN base \o Kept(rec.payload) ELSE base
                   /\ queries' = IF file = 2 THEN queries \o Kept(rec.payload) ELSE queries
                   /\ supplied_top_100' =
                        IF file = 3 THEN supplied_top_100 \o Kept(rec.payload)
                        ELSE supplied_top_100
                   /\ completed' = completed + 1
                   /\ progress' \in Advance(progress, completed + 1)
                   /\ UNCHANGED <<pc, mode, truth_file, file, error>>

(* check_trailing, the end of the stage, and the next file or the end.     *)
EndFile ==
  /\ pc = "read" /\ completed = Records(file)
  /\ \/ /\ \E kind \in {"io", "trailing"} : Abort(kind)
        /\ fault' = TRUE /\ UNCHANGED progress
     \/ /\ progress' \in Finish(progress)
        /\ pc' = IF file = 3 THEN "build" ELSE "open"
        /\ file' = IF file = 3 THEN file ELSE file + 1
        /\ UNCHANGED <<mode, truth_file, base, queries, supplied_top_100, completed,
                       error, fault>>

Load == ParseArgs \/ Open \/ ReadRecord \/ EndFile
=============================================================================
