--------------------------- MODULE ScoringService ---------------------------
(***************************************************************************)
(* ScoringService (service/ScoringService.py): its executor, one result at *)
(* a time, its sweeper and its RPC methods, on the submissions of a task.  *)
(*                                                                         *)
(* A score is known by the judgement it was computed from: score[op] is 0  *)
(* when the result is not scored, or the value right[op] had when the      *)
(* executor read the result.  A step ends where the greenlet reads or      *)
(* commits to the database; the queue's order is left out.                 *)
(***************************************************************************)
EXTENDS Naturals

CONSTANTS
  Submission,
  Dataset,        \* the datasets of the task
  Autojudged,     \* those with the autojudge flag
  NoOperation

VARIABLES
  judged,     \* judged[op]: the compilation failed, or it is evaluated
  right,      \* right[op]: number of the current judgement
  score,      \* score[op]: 0, or the judgement it was scored from
  active,     \* the active dataset of the task
  queue,      \* the operations in the priority queue
  current,    \* the operation in execute
  phase,      \* where execute is: idle, popped, computed or committed
  computed,   \* the score it computed
  scoredCalls \* submissions whose submission_scored call is under way

resultVars == <<judged, right, score, active>>
executorVars == <<current, phase, computed>>
vars == <<resultVars, queue, executorVars, scoredCalls>>

(* ScoringOperation *)
Operation == Submission \X Dataset

TypeOK ==
  /\ judged \in [Operation -> BOOLEAN]
  /\ right \in [Operation -> Nat \ {0}]
  /\ score \in [Operation -> Nat]
  /\ active \in Dataset
  /\ queue \in SUBSET Operation
  /\ current \in Operation \cup {NoOperation}
  /\ phase \in {"idle", "popped", "computed", "committed"}
  /\ (phase = "idle") <=> (current = NoOperation)
  /\ computed \in Nat
  /\ scoredCalls \in SUBSET Submission

Scored(op) == score[op] # 0

(* SubmissionResult.needs_scoring *)
NeedsScoring(op) == judged[op] /\ ~Scored(op)

Init ==
  /\ judged = [op \in Operation |-> FALSE]
  /\ right = [op \in Operation |-> 1]
  /\ score = [op \in Operation |-> 0]
  /\ active \in Dataset
  /\ queue = {}
  /\ current = NoOperation /\ phase = "idle" /\ computed = 0
  /\ scoredCalls = {}

-----------------------------------------------------------------------------
(* new_evaluation, called by EvaluationService.                            *)
NewEvaluation(op) == queue' = queue \cup {op}

(* get_operations: the results of the datasets to judge that miss a score. *)
GetOperations ==
  {op \in Operation : op[2] \in Autojudged \cup {active} /\ NeedsScoring(op)}

(* _missing_operations *)
Sweep ==
  /\ queue' = queue \cup GetOperations
  /\ queue' # queue
  /\ UNCHANGED <<resultVars, executorVars, scoredCalls>>

Pop ==
  /\ phase = "idle"
  /\ \E op \in queue :
       /\ queue' = queue \ {op}
       /\ current' = op
  /\ phase' = "popped"
  /\ UNCHANGED <<resultVars, computed, scoredCalls>>

(* execute returns or raises.                                              *)
BackToIdle ==
  phase' = "idle" /\ current' = NoOperation /\ computed' = 0

(* execute until it has computed the score of what it read.                *)
Compute ==
  /\ phase = "popped"
  /\ IF NeedsScoring(current)
     THEN phase' = "computed" /\ computed' = right[current] /\ UNCHANGED current
     ELSE BackToIdle
  /\ UNCHANGED <<resultVars, queue, scoredCalls>>

(* execute commits the score, and nothing but the score.                   *)
Commit ==
  /\ phase = "computed"
  /\ score' = [score EXCEPT ![current] = computed]
  /\ phase' = "committed"
  /\ UNCHANGED <<judged, right, active, queue, current, computed, scoredCalls>>

(* The end of execute: the commit expired what was read, so the active     *)
(* dataset is read again.  The call may find ProxyService disconnected.    *)
Notify(reached) ==
  /\ phase = "committed"
  /\ scoredCalls' = IF current[2] = active /\ reached
                    THEN scoredCalls \cup {current[1]} ELSE scoredCalls
  /\ BackToIdle
  /\ UNCHANGED <<resultVars, queue>>

(* invalidate_submission, of the results ops.  Administrators call it when *)
(* the score type changed, and another score is right.                     *)
InvalidateSubmission(ops) ==
  LET rescored == {op \in ops : Scored(op)}
  IN  /\ right' = [op \in Operation |-> IF op \in ops THEN right[op] + 1 ELSE right[op]]
      /\ score' = [op \in Operation |-> IF op \in rescored THEN 0 ELSE score[op]]
      /\ queue' = queue \cup rescored
      /\ UNCHANGED <<judged, active, executorVars, scoredCalls>>

(* ScoringService dies and is started again.                               *)
Restart ==
  /\ queue' = {}
  /\ BackToIdle
  /\ UNCHANGED <<resultVars, scoredCalls>>
=============================================================================
