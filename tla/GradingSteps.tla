---------------------------- MODULE GradingSteps ---------------------------
(* What the Worker makes of the commands it runs in isolate: the log of a  *)
(* run (Sandbox.get_exit_status), the statistics of several runs           *)
(* (steps/stats.py) and the results of the steps of a job (cms/grading/    *)
(* steps).  A log tells the statuses isolate wrote, whether it was the     *)
(* wall clock that ran out or the memory, and the time used.               *)
EXTENDS Integers, Sequences, SequencesExt, FiniteSetsExt

CONSTANT None                  \* Python's None

ExitStatuses ==
  {"ok", "sandbox error", "wall timeout", "timeout", "memory limit", "signal", "nonzero return"}

ExecutionStatsType == [exit_status : ExitStatuses, time : Nat]

(* What a contestant may be told, and the outcomes a checker, a manager or *)
(* a task type gives.                                                      *)
Texts ==
  {"", "success", "fail", "timeout", "signal", "wall timeout", "memory limit",
   "nonzero return", "no compilation needed", "file not submitted", "no output",
   "completed", "manager", "checker", "diff"}
Outcomes == {"0.0", "1.0"}

ASSUME NoneAssumption ==
  /\ None \notin BOOLEAN /\ None \notin Texts \cup Outcomes
  /\ None \notin ExecutionStatsType /\ None # <<>>

-----------------------------------------------------------------------------
(* IsolateSandbox.                                                         *)

(* get_exit_status: the most important status there is.                    *)
ExitStatus(log) ==
  CASE "XX" \in log.status -> "sandbox error"
    [] "XX" \notin log.status /\ "TO" \in log.status ->
         IF log.wall THEN "wall timeout" ELSE "timeout"
    [] {"XX", "TO"} \cap log.status = {} /\ "SG" \in log.status ->
         IF log.oom THEN "memory limit" ELSE "signal"
    [] OTHER -> IF "RE" \in log.status THEN "nonzero return" ELSE "ok"

(* The exit code of isolate, and translate_box_exitcode: whether it is not *)
(* isolate itself that failed.                                             *)
ExitCode(log) == IF "XX" \in log.status THEN 2 ELSE IF log.status = {} THEN 0 ELSE 1
BoxSuccess(exitcode) == exitcode \in {0, 1}

-----------------------------------------------------------------------------
(* steps/stats.py and steps/utils.py.                                      *)

ExecutionStats(log) == [exit_status |-> ExitStatus(log), time |-> log.time]

(* merge_execution_stats, of statistics that are both there.               *)
MergeStats(first, second) ==
  [exit_status |-> IF first.exit_status = "ok" THEN second.exit_status ELSE first.exit_status,
   time |-> first.time + second.time]

Merged(stats) ==
  LET upTo[n \in 1 .. Len(stats)] ==
        IF n = 1 THEN stats[1] ELSE MergeStats(upTo[n - 1], stats[n])
  IN  upTo[Len(stats)]

(* generic_step: the commands run one after the other, up to the first     *)
(* that does not end well; None when isolate failed.                       *)
Executed(logs) ==
  LET bad == {i \in 1 .. Len(logs) : ExitStatus(logs[i]) # "ok"}
  IN IF bad = {} THEN logs ELSE SubSeq(logs, 1, Min(bad))

GenericStep(logs) ==
  LET done == Executed(logs)
  IN IF ~BoxSuccess(ExitCode(Last(done))) THEN None
     ELSE Merged([i \in 1 .. Len(done) |-> ExecutionStats(done[i])])

-----------------------------------------------------------------------------
(* The steps.  A result has success, the verdict of the step, the text for *)
(* the contestant and the statistics; a failure has none of them.          *)
Failure == [success |-> FALSE, verdict |-> None, text |-> None, stats |-> None]

Result(verdict, text, stats) ==
  [success |-> TRUE, verdict |-> verdict, text |-> text, stats |-> stats]

(* compilation_step: the memory limit has no case.                         *)
CompilationStep(logs) ==
  LET stats == GenericStep(logs) IN
  IF stats = None THEN Failure
  ELSE CASE stats.exit_status = "ok" -> Result(TRUE, "success", stats)
         [] stats.exit_status = "nonzero return" -> Result(FALSE, "fail", stats)
         [] stats.exit_status \in {"timeout", "wall timeout"} -> Result(FALSE, "timeout", stats)
         [] stats.exit_status = "signal" -> Result(FALSE, "signal", stats)
         [] OTHER -> Failure

(* human_evaluation_message.                                               *)
HumanEvaluationMessage(stats) ==
  IF stats.exit_status \in {"ok", "sandbox error"} THEN "" ELSE stats.exit_status

(* evaluation_step_after_run.                                              *)
EvaluationAfterRun(log) ==
  LET stats == ExecutionStats(log) IN
  IF stats.exit_status = "sandbox error" THEN Failure
  ELSE Result(stats.exit_status = "ok", HumanEvaluationMessage(stats), stats)

(* evaluation_step: the result is that of the last command, whatever the   *)
(* programs before it did, unless isolate failed.                          *)
EvaluationStep(logs) ==
  IF \E i \in 1 .. Len(logs) : ~BoxSuccess(ExitCode(logs[i])) THEN Failure
  ELSE EvaluationAfterRun(Last(logs))

(* trusted_step; here too the memory limit has no case.                    *)
TrustedStep(logs) ==
  LET stats == GenericStep(logs) IN
  IF stats = None \/ (stats # None /\ stats.exit_status = "memory limit") THEN Failure
  ELSE Result(stats.exit_status = "ok", None, stats)

(* checker_step, with what extract_outcome_and_text reads from the files   *)
(* of the checker: an outcome, or None when they make no sense.  The       *)
(* mutant does not look at how the checker ended.                          *)
CheckerStepAnyway(log, outcome) ==
  IF outcome = None THEN Failure ELSE Result(outcome, "checker", None)

CheckerStep(log, outcome) ==
  LET trusted == TrustedStep(<<log>>) IN
  IF ~trusted.success \/ trusted.verdict # TRUE \/ outcome = None THEN Failure
  ELSE Result(outcome, "checker", None)
=============================================================================
