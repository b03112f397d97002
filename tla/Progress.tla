------------------------------ MODULE Progress ------------------------------
(***************************************************************************)
(* Progress (vector-benchmark-support/src/lib.rs): the benchmark's reports *)
(* on standard error, milestones of counted stages and start/complete      *)
(* events.  Reporting is best effort: the first failed write or flush      *)
(* silences it for good.  A value of Progress is a record; each method     *)
(* yields the set of values it may leave behind, one for every write that  *)
(* may be the first to fail.  Line ends and redrawing are left out.        *)
(***************************************************************************)
EXTENDS Integers, Sequences, FiniteSets

NoStage == [label |-> "none", total |-> 0, per_unit |-> 0, next_percent |-> 25]

(* Progress::new.                                                          *)
NewProgress == [failed |-> FALSE, stage |-> NoStage, log |-> <<>>]

(* write_milestone: the line that reports a stage at some percent, which   *)
(* counts the units up to there, rounded up, and the searches in them.     *)
Milestone(stage, percent) ==
  LET completed == (stage.total * percent + 99) \div 100
  IN  [label |-> stage.label, percent |-> percent, completed |-> completed,
       searches |-> completed * stage.per_unit]

EventLine(label, state) == [label |-> label, state |-> state]

(* write_message, once per message: nothing more is written once a write   *)
(* or a flush has failed; the message it failed on may have got out.       *)
Written(p, messages) ==
  IF p.failed \/ messages = <<>> THEN {p}
  ELSE {[p EXCEPT !.log = @ \o messages]} \cup
       {[p EXCEPT !.failed = TRUE, !.log = @ \o SubSeq(messages, 1, n)] :
          n \in 0 .. Len(messages)}

Begin(p, label, total, per_unit) ==
  LET stage == [label |-> label, total |-> total, per_unit |-> per_unit,
                next_percent |-> 25]
  IN  Written([p EXCEPT !.stage = stage], <<Milestone(stage, 0)>>)

(* Mutant of Due: a milestone is due while its unit is still under way.    *)
DueEarly(stage, completed) ==
  LET reached == {percent \in {25, 50, 75} :
                    percent >= stage.next_percent /\ (completed + 1) * 100 >= percent * stage.total}
  IN  [n \in 1 .. Cardinality(reached) |-> stage.next_percent + 25 * (n - 1)]

(* The milestones from the next one to the last one reached.               *)
Due(stage, completed) ==
  LET reached == {percent \in {25, 50, 75} :
                    percent >= stage.next_percent /\ completed * 100 >= percent * stage.total}
  IN  [n \in 1 .. Cardinality(reached) |-> stage.next_percent + 25 * (n - 1)]

Advance(p, completed) ==
  LET due == Due(p.stage, completed)
  IN  IF p.stage = NoStage THEN {p}
      ELSE Written([p EXCEPT !.stage.next_percent = @ + 25 * Len(due)],
                   [i \in DOMAIN due |-> Milestone(p.stage, due[i])])

Finish(p) ==
  IF p.stage = NoStage THEN {p}
  ELSE {[w EXCEPT !.stage = NoStage] : w \in Written(p, <<Milestone(p.stage, 100)>>)}
=============================================================================
