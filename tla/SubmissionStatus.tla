------------------------- MODULE SubmissionStatus -------------------------
(***************************************************************************)
(* What EvaluationService promises of a submission that is not disturbed   *)
(* (by invalidate_submission, or by a new_submission that enqueues what    *)
(* was done since it read it), as seen through SubmissionResult.           *)
(* get_status (db/submission.py): it is compiled once, then, if that       *)
(* succeeded, evaluated once; an outcome that was shown never changes.     *)
(* ScoringService's own two states, SCORING and SCORED, are one here.      *)
(* A user test has the same states (UserTestResult.get_status).            *)
(* A submission imported as compiled but without its executables, which    *)
(* get_status shows as EVALUATING, is IMPORTED here: it is compiled again. *)
(***************************************************************************)
CONSTANTS
  Submission,
  Imported     \* submissions that may be imported without executables

VARIABLES
  seen,        \* seen[s]: the status of s
  disturbed    \* submissions somebody had judged once more

Phase ==
  {"IMPORTED", "COMPILING", "COMPILATION_FAILED", "EVALUATING", "EVALUATED"}

Init ==
  /\ seen \in [Submission -> {"IMPORTED", "COMPILING"}]
  /\ \A s \in Submission : seen[s] = "IMPORTED" => s \in Imported
  /\ disturbed = {}

TombstoneIsFound(s) ==
  seen[s] = "IMPORTED" /\ seen'[s] = "COMPILING"

CompilationEnds(s) ==
  seen[s] = "COMPILING" /\ seen'[s] \in {"COMPILATION_FAILED", "EVALUATING"}

EvaluationEnds(s) ==
  seen[s] = "EVALUATING" /\ seen'[s] = "EVALUATED"

(* A flush of the result cache may move several submissions at once.       *)
Next ==
  /\ seen' \in [Submission -> Phase]
  /\ disturbed' \in SUBSET Submission /\ disturbed \subseteq disturbed'
  /\ \A s \in Submission :
       \/ TombstoneIsFound(s) \/ CompilationEnds(s) \/ EvaluationEnds(s)
       \/ seen'[s] = seen[s] \/ s \in disturbed'

Spec == Init /\ [][Next]_<<seen, disturbed>>
=============================================================================
