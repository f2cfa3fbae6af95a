-------------------------- MODULE WorkerPoolState ---------------------------
(***************************************************************************)
(* The state of the pool of Workers (service/workerpool.py) and what is    *)
(* always true of it, for WorkerPool, whose actions are the methods of the *)
(* class, and for EvaluationService, which owns the pool.                  *)
(*                                                                         *)
(* The dictionary _operations holds either a list or one of the            *)
(* placeholders WORKER_INACTIVE and WORKER_DISABLED.  Here the placeholder *)
(* is in status and the list, whose order nobody reads, is a set.          *)
(***************************************************************************)
CONSTANTS
  Worker,      \* the shards of the Worker service
  NoWorker     \* what the reverse map answers for an unassigned operation

ASSUME NoWorkerAssumption == NoWorker \notin Worker

VARIABLES
  status,      \* status[w]: what _operations[w] stands for
  operations,  \* operations[w]: the batch in _operations[w], {} when none
  reverse,     \* _operations_reverse, total: NoWorker for a missing key
  toIgnore,    \* _operations_to_ignore
  startTime,   \* startTime[w]: whether _start_time[w] is not None
  available,   \* _workers_available_event is set
  connected,   \* the RPC client of the worker is connected
  waking       \* workers whose on_worker_connected callback has yet to run

Inactive == "WORKER_INACTIVE"
Disabled == "WORKER_DISABLED"
Busy     == "busy"

(* The workers find_worker(WORKER_INACTIVE, require_connection=True) draws from. *)
FreeWorkers == {w \in Worker : status[w] = Inactive /\ connected[w]}

-----------------------------------------------------------------------------
(* The reverse map and the lists say the same thing, in both directions:   *)
(* what the comment on _operation_lock promises.  With a missing entry an  *)
(* operation would be assigned twice, and _remove_operations would raise;  *)
(* with one too many, enqueue would refuse the operation for ever.         *)
ReverseInSync ==
  \A op \in DOMAIN reverse, w \in Worker :
    reverse[op] = w <=> op \in operations[w]

(* A mark left by invalidate_submission concerns the batch the worker has  *)
(* now: it never survives to swallow a result of the next batch.           *)
IgnoreMarksBelongToBatch ==
  \A w \in Worker : toIgnore[w] \subseteq operations[w]

(* "assert is_busy" of check_timeouts: a worker with a start time is       *)
(* neither inactive nor disabled; and conversely a busy worker has one, or *)
(* no check would ever free it.                                            *)
TimedIffBusy ==
  \A w \in Worker : startTime[w] <=> status[w] = Busy

(* "if a worker is available, then this event is set": no wake-up of the   *)
(* executor is lost.  The exception is a worker that has just connected    *)
(* and whose on_worker_connected callback, which sets the event, is due.   *)
NoLostWakeup ==
  \A w \in FreeWorkers : available \/ w \in waking
=============================================================================
