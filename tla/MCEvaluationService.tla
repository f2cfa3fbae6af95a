------------------------ MODULE MCEvaluationService ------------------------
(* Finite instances of EvaluationService for TLC: the .cfg files choose    *)
(* the sets and, by name, the alternative budgets of faults.               *)
EXTENDS EvaluationService, TLC

Once(kinds) == [k \in FaultKinds |-> IF k \in kinds THEN 1 ELSE 0]

(* A submission or a user test: both at once are too much for TLC. *)
OneOfEach == {{o} : o \in Object}

Judging ==
  {Once({k}) : k \in {"invalidate", "crash", "worker", "delete", "database"}}
Recoverable ==
  {Once({k}) : k \in {"disconnect", "timeout", "disable", "invalidate", "worker"}}

Symmetry == Permutations(Worker) \cup Permutations(Testcase)
=============================================================================
