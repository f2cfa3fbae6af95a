----------------------------- MODULE TaskTypes -----------------------------
(* What the task types make of a job once its programs have run            *)
(* (grading/tasktypes).  A job tells its task type, whether it compiles or *)
(* evaluates, whether what a program needs is there (configured), what the *)
(* contestant submitted (files: "sources", "output" when the file of the   *)
(* testcase is there, or "none"), the commands that run a program, the     *)
(* user processes, whether it has a checker ("none", "present" or          *)
(* "missing"), whether it only executes, and keep_sandbox.  What comes out *)
(* is filled into success, result (compilation_success or the outcome),    *)
(* text, plus and executables.                                             *)
EXTENDS GradingSteps

CONSTANT TimeLimit             \* of the jobs, as the logs count time

TaskType == {"Batch", "BatchAndOutput", "TwoSteps", "Communication", "OutputOnly"}

JobType ==
  [type : TaskType, kind : {"compile", "evaluate"}, configured : BOOLEAN,
   files : {"sources", "output", "none"}, commands : Nat \ {0}, users : Nat \ {0},
   checker : {"none", "present", "missing"}, only_execution : BOOLEAN,
   keep_sandbox : BOOLEAN]

(* Jobs that need no program, of files alone or of nothing at all.         *)
NoProgram(job) ==
  job.type = "OutputOnly" \/ (job.type = "BatchAndOutput" /\ job.files # "sources")

(* ... and, among them, those that evaluate an output that was submitted.  *)
ChecksFile(job) == job.kind = "evaluate" /\ job.files = "output"

(* The sandboxes a job creates before it runs anything.                    *)
Boxes(job) ==
  CASE job.kind = "compile" -> 1
    [] job.kind = "evaluate" /\ job.type = "TwoSteps" -> 2
    [] job.kind = "evaluate" /\ job.type = "Communication" -> job.users + 1
    [] OTHER -> 1

(* The commands run in each of them.  The manager is the first box of      *)
(* Communication; its users alone have several commands.                   *)
Commands(job, box) ==
  IF job.kind = "evaluate" /\ (job.type = "TwoSteps" \/ (job.type = "Communication" /\ box = 1))
  THEN 1 ELSE job.commands

(* Without a program: compile and evaluate of OutputOnly, BatchAndOutput.  *)
NoProgramResult(job) ==
  IF job.kind = "compile" THEN Result(TRUE, "no compilation needed", <<>>)
  ELSE Result("0.0", "file not submitted", <<>>)

(* What follows the programs: the job is filled with a step's result and   *)
(* its sandboxes are deleted (or left), the output is checked, or an       *)
(* exception ends the group.                                               *)
Fill(result) == [then |-> "fill", result |-> result]
FillAndLeave == [then |-> "leave", result |-> Result("0.0", "file not submitted", <<>>)]
Raise == [then |-> "raise"]
Check(stats) == [then |-> "check", stats |-> stats]

(* An evaluation step that is followed by an output of the contestant, or  *)
(* by none (output is FALSE).                                              *)
AfterEvaluation(job, step, output) ==
  CASE ~step.success -> Fill(step)
    [] step.success /\ ~step.verdict -> Fill(Result("0.0", step.text, step.stats))
    [] step.success /\ step.verdict /\ ~output -> Fill(Result("0.0", "no output", step.stats))
    [] OTHER -> IF job.only_execution THEN Fill(Result("0.0", "completed", step.stats))
                ELSE Check(step.stats)

(* BatchAndOutput.evaluate: a sandbox that failed gave no outcome and no   *)
(* output, as if nothing had been submitted; its box is left as it is.     *)
BatchAndOutputEvaluation(job, step, output) ==
  IF ~step.success THEN FillAndLeave ELSE AfterEvaluation(job, step, output)

(* TwoSteps.evaluate: the statistics of the two are merged before anyone   *)
(* looks at their success, which raises when the second has none.  The     *)
(* mutant gives a program whose sandbox failed no points.                  *)
TwoStepsEvaluationZero(job, first, second, output) ==
  IF ~second.success THEN Raise
  ELSE IF ~first.success THEN Fill([Failure EXCEPT !.verdict = "0.0", !.stats = second.stats])
  ELSE LET stats == MergeStats(first.stats, second.stats)
       IN AfterEvaluation(job, Result(first.verdict /\ second.verdict,
                                      HumanEvaluationMessage(stats), stats), output)

TwoStepsEvaluation(job, first, second, output) ==
  IF ~second.success THEN Raise
  ELSE IF ~first.success THEN Fill([Failure EXCEPT !.stats = second.stats])
  ELSE LET stats == MergeStats(first.stats, second.stats)
       IN AfterEvaluation(job, Result(first.verdict /\ second.verdict,
                                      HumanEvaluationMessage(stats), stats), output)

(* Communication.evaluate: users is the sequence of results of the user    *)
(* processes, outcome what the manager wrote; their total time counts.     *)
CommunicationEvaluation(job, manager, users, outcome) ==
  LET failed == {i \in 1 .. Len(users) : ~users[i].success}
      stats == Merged([i \in 1 .. Len(users) |-> users[i].stats])
      late == stats.time >= TimeLimit
      ok == (\A i \in 1 .. Len(users) : users[i].verdict) /\ ~late
      shown == IF late /\ stats.exit_status = "ok"
               THEN [stats EXCEPT !.exit_status = "timeout"] ELSE stats
  IN CASE failed \ {1} # {} -> Raise
       [] failed = {1} \/ (failed = {} /\ manager.verdict # TRUE) -> Fill(Failure)
       [] OTHER ->
            CASE job.only_execution -> Fill(Result("0.0", "completed", shown))
              [] ~job.only_execution /\ ~ok ->
                   Fill(Result("0.0", HumanEvaluationMessage(shown), shown))
              [] OTHER -> IF outcome = None THEN Raise
                          ELSE Fill(Result(outcome, "manager", shown))

(* The result of a job from the logs of its boxes; for an evaluation also  *)
(* whether there is an output, and what the manager wrote.                 *)
Outcome(job, logs, output, outcome) ==
  LET After(box) == EvaluationAfterRun(Last(logs[box])) IN
  CASE job.kind = "compile" -> Fill(CompilationStep(logs[1]))
    [] job.kind = "evaluate" /\ job.type = "Batch" ->
         AfterEvaluation(job, EvaluationStep(logs[1]), output)
    [] job.kind = "evaluate" /\ job.type = "BatchAndOutput" ->
         BatchAndOutputEvaluation(job, EvaluationStep(logs[1]), output)
    [] job.kind = "evaluate" /\ job.type = "TwoSteps" ->
         TwoStepsEvaluation(job, After(1), After(2), output)
    [] job.kind = "evaluate" /\ job.type = "Communication" ->
         CommunicationEvaluation(job, After(1),
                                 [i \in 1 .. job.users |-> After(i + 1)], outcome)
=============================================================================
