--------------------------- MODULE MCWorkerPool ---------------------------
(* Finite instance of WorkerPool for TLC.                                  *)
EXTENDS WorkerPool, TLC

Symmetry == Permutations(Worker) \cup Permutations(Operation)
=============================================================================
