---------------------------- MODULE WorkerPool ----------------------------
(***************************************************************************)
(* The pool of Workers kept by EvaluationService (service/workerpool.py).  *)
(*                                                                         *)
(* Every method of the pool that touches its dictionaries runs without     *)
(* giving control back to gevent, but for acquire_worker, which fills the  *)
(* dictionaries first and only then reads the database: the part before    *)
(* the read is the action Acquire, the rest belongs to the caller.  The    *)
(* greenlets that call the pool (the executor, the two periodic checks,    *)
(* the RPC callbacks and the RPC handlers) interleave between the calls.   *)
(*                                                                         *)
(* The flags _schedule_disabling and _ignore are raised only right before      *)
(* release_worker, in the same uninterrupted method, and release_worker    *)
(* lowers both: they are the argument "disabling" of ReleaseWorkers.       *)
(***************************************************************************)
EXTENDS WorkerPoolState, Naturals

CONSTANT Operation   \* the ESOperations that may be assigned

vars == <<status, operations, reverse, toIgnore, startTime, available,
          connected, waking>>

TypeOK ==
  /\ status \in [Worker -> {Inactive, Disabled, Busy}]
  /\ operations \in [Worker -> SUBSET Operation]
  /\ reverse \in [Operation -> Worker \cup {NoWorker}]
  /\ toIgnore \in [Worker -> SUBSET Operation]
  /\ startTime \in [Worker -> BOOLEAN]
  /\ available \in BOOLEAN
  /\ connected \in [Worker -> BOOLEAN]
  /\ waking \in SUBSET Worker

-----------------------------------------------------------------------------
(* add_worker, for every configured shard, once every worker has connected *)
(* and its callback has run; Restart starts from no connection.            *)
Init ==
  /\ status = [w \in Worker |-> Inactive]
  /\ operations = [w \in Worker |-> {}]
  /\ reverse = [op \in Operation |-> NoWorker]
  /\ toIgnore = [w \in Worker |-> {}]
  /\ startTime = [w \in Worker |-> FALSE]
  /\ available = TRUE
  /\ connected = [w \in Worker |-> TRUE]
  /\ waking = {}

(* __contains__                                                            *)
InPool(op) == reverse[op] # NoWorker

(* acquire_worker, up to the database access: _add_operations and the      *)
(* start time.  Callers pass operations that are not in the pool yet.      *)
Acquire(w, ops) ==
  /\ w \in FreeWorkers
  /\ status' = [status EXCEPT ![w] = Busy]
  /\ operations' = [operations EXCEPT ![w] = ops]
  /\ reverse' = [op \in Operation |-> IF op \in ops THEN w ELSE reverse[op]]
  /\ startTime' = [startTime EXCEPT ![w] = TRUE]
  /\ UNCHANGED <<toIgnore, available, connected, waking>>

(* acquire_worker when find_worker raises LookupError.                     *)
AcquireNone ==
  /\ FreeWorkers = {}
  /\ available' = FALSE
  /\ UNCHANGED <<status, operations, reverse, toIgnore, startTime, connected,
                 waking>>

(* Mutants of release_worker: one keeps the reverse entries of what is     *)
(* ignored, one the marks and the start time of a worker it disables.      *)
ReleaseAllButIgnored(ws, disabling) ==
  /\ status' = [w \in Worker |->
                  IF w \notin ws THEN status[w]
                  ELSE IF disabling THEN Disabled ELSE Inactive]
  /\ operations' = [w \in Worker |-> IF w \in ws THEN {} ELSE operations[w]]
  /\ reverse' = [op \in Operation |->
                   IF \E w \in ws : op \in operations[w] \ toIgnore[w]
                   THEN NoWorker ELSE reverse[op]]
  /\ toIgnore' = [w \in Worker |-> IF w \in ws THEN {} ELSE toIgnore[w]]
  /\ startTime' = [w \in Worker |-> w \notin ws /\ startTime[w]]
  /\ available' = (available \/ (ws # {} /\ ~disabling))

ReleaseKeepingMarks(ws, disabling) ==
  /\ status' = [w \in Worker |->
                  IF w \notin ws THEN status[w]
                  ELSE IF disabling THEN Disabled ELSE Inactive]
  /\ operations' = [w \in Worker |-> IF w \in ws THEN {} ELSE operations[w]]
  /\ reverse' = [op \in Operation |->
                   IF \E w \in ws : op \in operations[w]
                   THEN NoWorker ELSE reverse[op]]
  /\ toIgnore' = [w \in Worker |-> IF w \in ws /\ ~disabling THEN {} ELSE toIgnore[w]]
  /\ startTime' = [w \in Worker |-> (w \notin ws \/ disabling) /\ startTime[w]]
  /\ available' = (available \/ (ws # {} /\ ~disabling))

(* The part of release_worker after its two early returns, for a set ws of *)
(* workers, with _remove_operations.                                       *)
ReleaseWorkers(ws, disabling) ==
  /\ status' = [w \in Worker |->
                  IF w \notin ws THEN status[w]
                  ELSE IF disabling THEN Disabled ELSE Inactive]
  /\ operations' = [w \in Worker |-> IF w \in ws THEN {} ELSE operations[w]]
  /\ reverse' = [op \in Operation |->
                   IF \E w \in ws : op \in operations[w]
                   THEN NoWorker ELSE reverse[op]]
  /\ toIgnore' = [w \in Worker |-> IF w \in ws THEN {} ELSE toIgnore[w]]
  /\ startTime' = [w \in Worker |-> w \notin ws /\ startTime[w]]
  /\ available' = (available \/ (ws # {} /\ ~disabling))

(* release_worker as action_finished calls it.  On an inactive worker it   *)
(* raises ValueError, on a disabled one it returns True.                   *)
ReleaseWorker(w) ==
  /\ IF status[w] = Busy
     THEN ReleaseWorkers({w}, FALSE)
     ELSE UNCHANGED <<status, operations, reverse, toIgnore, startTime,
                      available>>
  /\ UNCHANGED <<connected, waking>>

(* ignore_operation for each operation of a set; the ones outside the pool *)
(* raise LookupError, which the caller swallows.                           *)
IgnoreOperations(ops) ==
  /\ toIgnore' = [w \in Worker |->
                    toIgnore[w] \cup {op \in ops : reverse[op] = w}]
  /\ UNCHANGED <<status, operations, reverse, startTime, available, connected,
                 waking>>

(* What check_timeouts and disable_worker give back of a worker's batch.   *)
NotIgnored(ws) == UNION {operations[w] \ toIgnore[w] : w \in ws}

(* check_timeouts, when ws are the workers past WORKER_TIMEOUT.  The quit  *)
(* RPC makes the process exit if it still listens: down are the workers    *)
(* that do.                                                                *)
CheckTimeouts(ws, down) ==
  /\ ws # {}
  /\ \A w \in ws : startTime[w]
  /\ down \subseteq ws
  /\ ReleaseWorkers(ws, TRUE)
  /\ connected' = [w \in Worker |-> w \notin down /\ connected[w]]
  /\ UNCHANGED waking

(* The busy workers check_connections finds disconnected.                  *)
Unconnected == {w \in Worker : ~connected[w] /\ status[w] = Busy}

(* check_connections.                                                      *)
CheckConnections ==
  /\ Unconnected # {}
  /\ ReleaseWorkers(Unconnected, FALSE)
  /\ UNCHANGED <<connected, waking>>

(* disable_worker; on a disabled worker it raises ValueError.              *)
DisableWorker(w) ==
  /\ status[w] # Disabled
  /\ IF status[w] = Inactive
     THEN /\ status' = [status EXCEPT ![w] = Disabled]
          /\ UNCHANGED <<operations, reverse, toIgnore, startTime, available>>
     ELSE ReleaseWorkers({w}, TRUE)
  /\ UNCHANGED <<connected, waking>>

(* A mutant of enable_worker that does not set the event.                  *)
EnableWorkerSilently(w) ==
  /\ status[w] = Disabled
  /\ status' = [status EXCEPT ![w] = Inactive]
  /\ toIgnore' = [toIgnore EXCEPT ![w] = {}]
  /\ UNCHANGED <<operations, reverse, startTime, available, connected, waking>>

(* enable_worker; on a worker that is not disabled it raises ValueError.   *)
EnableWorker(w) ==
  /\ status[w] = Disabled
  /\ status' = [status EXCEPT ![w] = Inactive]
  /\ toIgnore' = [toIgnore EXCEPT ![w] = {}]
  /\ available' = TRUE
  /\ UNCHANGED <<operations, reverse, startTime, connected, waking>>

(* The RPC client (re)connects, and spawns its on_connect handlers.        *)
Connect(w) ==
  /\ ~connected[w]
  /\ connected' = [connected EXCEPT ![w] = TRUE]
  /\ waking' = waking \cup {w}
  /\ UNCHANGED <<status, operations, reverse, toIgnore, startTime, available>>

(* on_worker_connected, the handler connect_to registered.                 *)
OnWorkerConnected(w) ==
  /\ w \in waking
  /\ waking' = waking \ {w}
  /\ available' = TRUE
  /\ UNCHANGED <<status, operations, reverse, toIgnore, startTime, connected>>

(* The connection to the worker breaks.  A handler already spawned still   *)
(* runs.                                                                   *)
Disconnect(w) ==
  /\ connected[w]
  /\ connected' = [connected EXCEPT ![w] = FALSE]
  /\ UNCHANGED <<status, operations, reverse, toIgnore, startTime, available,
                 waking>>

(* EvaluationService dies and its successor builds a new pool.             *)
Restart ==
  /\ status' = [w \in Worker |-> Inactive]
  /\ operations' = [w \in Worker |-> {}]
  /\ reverse' = [op \in Operation |-> NoWorker]
  /\ toIgnore' = [w \in Worker |-> {}]
  /\ startTime' = [w \in Worker |-> FALSE]
  /\ available' = TRUE
  /\ connected' = [w \in Worker |-> FALSE]
  /\ waking' = {}

-----------------------------------------------------------------------------
(* The pool with every caller it may have: EvaluationService never assigns *)
(* an operation that is in the pool already (its enqueue refuses it).      *)
Next ==
  \/ \E w \in Worker, ops \in SUBSET Operation :
       /\ ops # {}
       /\ \A op \in ops : ~InPool(op)
       /\ Acquire(w, ops)
  \/ AcquireNone
  \/ \E w \in Worker : ReleaseWorker(w)
  \/ \E ops \in SUBSET Operation : IgnoreOperations(ops)
  \/ \E ws \in SUBSET Worker : \E down \in SUBSET ws : CheckTimeouts(ws, down)
  \/ CheckConnections
  \/ \E w \in Worker : DisableWorker(w)
  \/ \E w \in Worker : EnableWorker(w)
  \/ \E w \in Worker : Connect(w)
  \/ \E w \in Worker : OnWorkerConnected(w)
  \/ \E w \in Worker : Disconnect(w)
  \/ Restart

Spec == Init /\ [][Next]_vars
=============================================================================
