------------------------- MODULE EvaluationService -------------------------
(***************************************************************************)
(* EvaluationService (service/EvaluationService.py): the executor that     *)
(* takes operations from the queue to the Workers, the cache of results    *)
(* and its flush to the database, the sweeper, the periodic checks on the  *)
(* Workers and the RPC handlers, with the pool of WorkerPool.              *)
(*                                                                         *)
(* A step is what a greenlet does between two points where it may yield:   *)
(* a database access, an RPC, a lock that is taken.  Greenlets that hold   *)
(* post_finish_lock over such points are the writer's; the other holders   *)
(* are single steps guarded by LockFree.                                   *)
(*                                                                         *)
(* One dataset, to be judged; the priority of an operation is left out     *)
(* (the queue gives up any of its entries), so is the content of results.  *)
(***************************************************************************)
EXTENDS WorkerPoolState, Naturals, FiniteSets, Sequences, SequencesExt

CONSTANTS
  Submission,               \* the submissions of the contest
  UserTest,                 \* its user tests: a contestant's own input, run once
  Testcase,                 \* the testcases of the dataset
  NoTestcase,
  MAX_COMPILATION_TRIES,    \* and MAX_USER_TEST_COMPILATION_TRIES: both are 3
  MAX_EVALUATION_TRIES,     \* and MAX_USER_TEST_EVALUATION_TRIES
  MAX_OPERATIONS_PER_BATCH,
  Contents,                 \* the sets of them the database may hold
  Tombstones,               \* submissions that may be imported compiled, without
                            \* their executables
  Announcing,               \* objects new_submission or new_user_test will be
                            \* called for
  ArchiveRequests,          \* values of archive_sandbox administrators ask for
  Faults                    \* budgets of faults: how many of each kind may happen

FaultKinds == {"disconnect", "timeout", "disable", "invalidate", "delete",
               "crash", "database", "worker"}

(* What an operation is about (object_id).                                 *)
Object == Submission \cup UserTest

ASSUME EvaluationServiceAssumption ==
  /\ NoTestcase \notin Testcase
  /\ Testcase # {}
  /\ Tombstones \subseteq Submission
  /\ Submission \cap UserTest = {}
  /\ IsFiniteSet(Submission) /\ IsFiniteSet(UserTest) /\ IsFiniteSet(Testcase)
  /\ Contents \subseteq SUBSET Object
  /\ Announcing \subseteq Object
  /\ ArchiveRequests \subseteq BOOLEAN
  /\ Faults \subseteq [FaultKinds -> Nat]
  /\ {MAX_COMPILATION_TRIES, MAX_EVALUATION_TRIES, MAX_OPERATIONS_PER_BATCH}
       \subseteq Nat \ {0}

(* ESOperation; two operations that differ in archive_sandbox are unequal. *)
(* Those of a user test have types of their own, here told by the object.  *)
CompilationOp(o, archive) ==
  [type |-> "compilation", obj |-> o, tc |-> NoTestcase, archive |-> archive]
EvaluationOp(o, t, archive) ==
  [type |-> "evaluation", obj |-> o, tc |-> t, archive |-> archive]

Archive == ArchiveRequests \cup {FALSE}
Operation ==
  {CompilationOp(s, a) : s \in Submission, a \in Archive}
    \cup {EvaluationOp(s, t, a) : s \in Submission, t \in Testcase, a \in Archive}
    \cup {CompilationOp(u, FALSE) : u \in UserTest}
    \cup {EvaluationOp(u, NoTestcase, FALSE) : u \in UserTest}

VARIABLES
  \* The executor.
  queue,       \* the operations in the priority queue
  executing,   \* _currently_executing
  executor,    \* where the executor's loop is: idle, waiting or acquiring
  alias,       \* the worker whose _operations entry IS the list executing
  \* RPC.
  calls,       \* execute_job_group calls whose callback has not run yet
  requests,    \* operations new_submission has read and is to enqueue
  lost,        \* operations the pool gave back, whose enqueue waits for the lock
  announced,   \* objects new_submission or new_user_test was called for
  late,        \* history: those it enqueued a done operation of
  \* The result cache and its flush.
  d, fd,       \* the two dictionaries of FlushingDict: sets of results
  writer,      \* where the flush is: idle, flushed, writing, rows, outcomes, dead
  \* The database.
  db,          \* db[o]: the SubmissionResult or UserTestResult
  deleted,     \* objects the database does not hold, or no longer
  \* History and bounds.
  epoch,       \* epoch[o][type]: how often an administrator invalidated them
  invalidated, \* submissions invalidate_submission was called for
  faults       \* faults that may still happen

poolVars == <<status, operations, reverse, toIgnore, startTime, available,
              connected, waking>>
executorVars == <<executing, executor, alias>>
requestVars == <<requests, lost, announced, late>>
cacheVars == <<d, fd, writer>>
dbVars == <<db, deleted, epoch, invalidated>>
vars == <<poolVars, queue, executorVars, calls, requestVars, cacheVars, dbVars,
          faults>>

Pool == INSTANCE WorkerPool

Types == {"compilation", "evaluation"}
Epoch == [Types -> Nat]

(* The fields of SubmissionResult ES reads and writes.  "tombstone" is the *)
(* outcome "ok" with executables whose digest is Digest.TOMBSTONE.         *)
SubmissionResult ==
  [compilation: {"none", "ok", "tombstone", "fail"}, compilationTries: Nat,
   evaluated: BOOLEAN, evaluations: SUBSET Testcase, evaluationTries: Nat]

(* UserTestResult: its outcome comes without evaluations.                  *)
UserTestResult ==
  [compilation: {"none", "ok", "fail"}, compilationTries: Nat,
   evaluated: BOOLEAN, evaluations: {{}}, evaluationTries: Nat]

Result == [op: Operation, epoch: Nat, outcome: {"ok", "fail", "error", "tombstone"}]
Job == [op: Operation, epoch: Nat, compilation: {"none", "ok", "tombstone", "fail"}]
Call ==
  [worker: Worker, id: Nat \ {0}, answer: {"pending", "error"}, jobs: SUBSET Job]
    \cup [worker: Worker, id: Nat \ {0}, answer: {"done"}, jobs: SUBSET Result]

TypeOK ==
  /\ Pool!TypeOK
  /\ queue \in SUBSET Operation
  /\ executing \in SUBSET Operation
  /\ executor \in {"idle", "waiting", "acquiring"}
  /\ alias \in Worker \cup {NoWorker}
  /\ calls \subseteq Call
  /\ requests \in SUBSET Operation /\ lost \in SUBSET Operation
  /\ announced \in SUBSET Object /\ late \in SUBSET Object
  /\ d \subseteq Result /\ fd \subseteq Result
  /\ writer \in {"idle", "flushed", "writing", "rows", "outcomes", "dead"}
  /\ db \in [Object -> SubmissionResult]
  /\ \A u \in UserTest : db[u] \in UserTestResult
  /\ deleted \in SUBSET Object
  /\ epoch \in [Object -> Epoch] /\ invalidated \in SUBSET Submission
  /\ faults \in [FaultKinds -> Nat]

-----------------------------------------------------------------------------
(* SubmissionResult after invalidate_compilation; also a new one.          *)
Blank == [compilation |-> "none", compilationTries |-> 0, evaluated |-> FALSE,
          evaluations |-> {}, evaluationTries |-> 0]

(* SubmissionResult.invalidate_evaluation of the testcases ts.             *)
WithoutEvaluations(row, ts) ==
  [row EXCEPT !.evaluated = FALSE, !.evaluationTries = 0,
              !.evaluations = @ \ ts]

CompilationSucceeded(row) == row.compilation \in {"ok", "tombstone"}

(* submission_to_compile and user_test_to_compile                          *)
ToCompile(row) ==
  row.compilation = "none" /\ row.compilationTries < MAX_COMPILATION_TRIES

(* submission_to_evaluate and user_test_to_evaluate; first a mutant that allows one try too many.    *)
ToEvaluateOnceMore(row) ==
  /\ CompilationSucceeded(row)
  /\ ~row.evaluated
  /\ row.evaluationTries <= MAX_EVALUATION_TRIES

ToEvaluate(row) ==
  /\ CompilationSucceeded(row)
  /\ ~row.evaluated
  /\ row.evaluationTries < MAX_EVALUATION_TRIES

(* What the evaluations of an object run on: a user test has its own input.*)
InputsOf(o) == IF o \in Submission THEN Testcase ELSE {NoTestcase}

(* submission_get_operations and user_test_get_operations                  *)
GetOperations(o, row, archive) ==
  IF ToCompile(row) THEN {CompilationOp(o, archive)}
  ELSE IF ToEvaluate(row)
       THEN {EvaluationOp(o, t, archive) : t \in InputsOf(o) \ row.evaluations}
       ELSE {}

(* get_relevant_operations; the mutant takes the level for a type.         *)
RelevantOfTheType(s, level) ==
  IF level = "compilation" THEN {CompilationOp(s, FALSE)}
  ELSE {EvaluationOp(s, t, FALSE) : t \in Testcase}

RelevantOperations(s, level) ==
  {EvaluationOp(s, t, FALSE) : t \in Testcase}
    \cup (IF level = "compilation" THEN {CompilationOp(s, FALSE)} ELSE {})

(* EvaluationService.write_results_one_row, for a result of the row.       *)
WriteRow(row, r) ==
  CASE r.op.type = "compilation" /\ r.outcome # "error" ->
         [Blank EXCEPT !.compilation = r.outcome]
    [] r.op.type = "compilation" /\ r.outcome = "error" ->
         [row EXCEPT !.compilationTries = @ + 1]
    [] r.op.type = "evaluation" /\ r.outcome = "ok" /\ r.op.obj \in Submission ->
         [row EXCEPT !.evaluations = @ \cup {r.op.tc}]
    [] r.op.type = "evaluation" /\ r.outcome = "ok" /\ r.op.obj \in UserTest ->
         [row EXCEPT !.evaluated = TRUE, !.evaluationTries = 0]
    [] r.op.type = "evaluation" /\ r.outcome = "error" ->
         [row EXCEPT !.evaluationTries = @ + 1]
    [] r.op.type = "evaluation" /\ r.outcome = "tombstone" ->
         IF row.compilation = "tombstone" THEN Blank ELSE row

-----------------------------------------------------------------------------
(* A greenlet that needs post_finish_lock may have it.                     *)
LockFree == writer \notin {"writing", "rows", "outcomes"}

(* A greenlet that needs _current_execution_lock may have it: execute has  *)
(* it while acquire_worker reads the database.  The mutant has no lock.    *)
NoExecutionLock == TRUE
ExecutionLockFree == executor # "acquiring"

Cached(op) == \E r \in d \cup fd : r.op = op

(* The queue after enqueue(op) for each op of ops, when it was q, the      *)
(* executor held ex and rev was the pool's reverse map: "operation in      *)
(* self.get_executor() or operation in self.result_cache" are refused.     *)
(* The mutants forget one of the places.                                   *)
EnqueuedDespiteCache(ops, q, ex, rev) ==
  q \cup {op \in ops : op \notin ex /\ rev[op] = NoWorker}
EnqueuedDespitePool(ops, q, ex, rev) ==
  q \cup {op \in ops : op \notin ex /\ ~Cached(op)}

Enqueued(ops, q, ex, rev) ==
  q \cup {op \in ops : op \notin ex /\ rev[op] = NoWorker /\ ~Cached(op)}

Fault(kind) ==
  /\ faults[kind] > 0
  /\ faults' = [faults EXCEPT ![kind] = @ - 1]

Init ==
  /\ Pool!Init
  /\ queue = {} /\ executing = {} /\ executor = "idle" /\ alias = NoWorker
  /\ calls = {} /\ requests = {} /\ lost = {} /\ announced = {} /\ late = {}
  /\ d = {} /\ fd = {} /\ writer = "idle"
  /\ \E held \in Contents : deleted = Object \ held
  /\ \E imported \in SUBSET (Tombstones \ deleted) :
       db = [o \in Object |->
               IF o \in imported THEN [Blank EXCEPT !.compilation = "tombstone"]
               ELSE Blank]
  /\ epoch = [o \in Object |-> [t \in Types |-> 0]] /\ invalidated = {}
  /\ faults \in Faults

-----------------------------------------------------------------------------
(* submission_enqueue_operations, or user_test_enqueue_operations, for the *)
(* pairs <<object, archive>>, when the database holds rows: what it tries to enqueue, and the rows    *)
(* once the submissions that only lacked their outcome got it.             *)
Wanted(pairs, rows) ==
  UNION {GetOperations(p[1], rows[p[1]], p[2]) : p \in pairs}

Finalized(pairs, rows) ==
  [o \in Object |->
     IF /\ o \in Submission
        /\ \E p \in pairs : p[1] = o
        /\ ToEvaluate(rows[o])
        /\ rows[o].evaluations = Testcase
     THEN [rows[o] EXCEPT !.evaluated = TRUE]
     ELSE rows[o]]

(* new_submission up to its first enqueue: it reads the database without   *)
(* the lock, and more of it (the dataset) before it enqueues.  ContestWeb- *)
(* Server announces a submission once, at most: the call may be lost.      *)
NewSubmission(s) ==
  /\ s \in (Submission \cap Announcing) \ (announced \cup deleted)
  /\ announced' = announced \cup {s}
  /\ requests' = requests \cup Wanted({<<s, FALSE>>}, db)
  /\ db' = Finalized({<<s, FALSE>>}, db)
  /\ UNCHANGED <<poolVars, queue, executorVars, calls, lost, late, cacheVars,
                 deleted, epoch, invalidated, faults>>

(* new_user_test, the same way.                                            *)
NewUserTest(u) ==
  /\ u \in (UserTest \cap Announcing) \ (announced \cup deleted)
  /\ announced' = announced \cup {u}
  /\ requests' = requests \cup Wanted({<<u, FALSE>>}, db)
  /\ UNCHANGED <<poolVars, queue, executorVars, calls, lost, late, cacheVars,
                 dbVars, faults>>

(* The database asks for the operation no more: it was done meanwhile.     *)
AlreadyDone(op) == op \notin Wanted({<<op.obj, op.archive>>}, db)

(* enqueue, for an operation of new_submission or new_user_test.  Nobody   *)
(* looks whether it was done since it was read.                            *)
Enqueue(op) ==
  /\ LockFree
  /\ op \in requests
  /\ requests' = requests \ {op}
  /\ queue' = Enqueued({op}, queue, executing, reverse)
  /\ late' = IF AlreadyDone(op) /\ op \in queue' \ queue THEN late \cup {op.obj} ELSE late
  /\ UNCHANGED <<poolVars, executorVars, calls, lost, announced, cacheVars,
                 dbVars, faults>>

(* check_workers_timeout, check_workers_connection or disable_worker, on   *)
(* what the pool gave back: enqueue, without a break if the lock is free.  *)
PutAgain(ops) ==
  IF LockFree
  THEN queue' = Enqueued(ops, queue, executing, reverse') /\ UNCHANGED lost
  ELSE lost' = lost \cup ops /\ UNCHANGED queue

(* Their enqueue, when they had to wait for the lock.                      *)
EnqueueLost ==
  /\ LockFree
  /\ lost # {}
  /\ queue' = Enqueued(lost, queue, executing, reverse)
  /\ lost' = {}
  /\ UNCHANGED <<poolVars, executorVars, calls, requests, announced, late,
                 cacheVars, dbVars, faults>>

(* get_user_tests_operations                                               *)
MissingUserTestOperations == Wanted({<<u, FALSE>> : u \in UserTest \ deleted}, db)

(* get_submissions_operations; the mutant forgets the ones to evaluate.    *)
MissingCompilations ==
  {CompilationOp(s, FALSE) : s \in {x \in Submission \ deleted : ToCompile(db[x])}}

MissingOperations == Wanted({<<s, FALSE>> : s \in Submission \ deleted}, db)

(* _missing_operations, called by the sweeper.                             *)
Sweep ==
  /\ LockFree
  /\ queue' = Enqueued(MissingOperations \cup MissingUserTestOperations,
                       queue, executing, reverse)
  /\ queue' # queue
  /\ UNCHANGED <<poolVars, executorVars, calls, requestVars, cacheVars,
                 dbVars, faults>>

-----------------------------------------------------------------------------
(* The size of the batch Executor.run pops from a queue of n operations:   *)
(* the first, then max_operations_per_batch computed on the others.        *)
BatchSize(n) ==
  LET most == (n - 1) \div Cardinality(Worker) + 1
      cap  == IF most < MAX_OPERATIONS_PER_BATCH THEN most
              ELSE MAX_OPERATIONS_PER_BATCH
  IN  IF n < cap THEN n ELSE cap

(* Executor.run pops a batch and enters execute.                           *)
PopBatch ==
  /\ executor = "idle"
  /\ queue # {}
  /\ \E batch \in SUBSET queue :
       /\ Cardinality(batch) = BatchSize(Cardinality(queue))
       /\ queue' = queue \ batch
       /\ executing' = batch
  /\ executor' = "waiting"
  /\ alias' = NoWorker
  /\ UNCHANGED <<poolVars, calls, requestVars, cacheVars, dbVars,
                 faults>>

(* execute, woken by the event with something left to execute, calls       *)
(* acquire_worker and keeps _current_execution_lock over its database      *)
(* access.  The pool stores the very list of _currently_executing.         *)
AcquireWorker ==
  /\ executor = "waiting"
  /\ available
  /\ executing # {}
  /\ \/ /\ Pool!AcquireNone
        /\ UNCHANGED executorVars
     \/ \E w \in Worker :
          /\ Pool!Acquire(w, executing)
          /\ alias' = w
          /\ executor' = "acquiring"
          /\ UNCHANGED executing
  /\ UNCHANGED <<queue, calls, requestVars, cacheVars, dbVars, faults>>

(* execute, woken by the event, finds everything dequeued.                 *)
NothingToExecute ==
  /\ executor = "waiting"
  /\ available
  /\ executing = {}
  /\ executor' = "idle"
  /\ UNCHANGED <<poolVars, queue, executing, alias, calls, requestVars,
                 cacheVars, dbVars, faults>>

(* JobGroup.from_operations; executables are those of the compilation.     *)
JobsOf(ops) ==
  {[op |-> op, epoch |-> epoch[op.obj][op.type],
    compilation |-> db[op.obj].compilation] : op \in ops}

(* Worker.work_lock: the worker executes a job group.                      *)
Working(w) == \E c \in calls : c.worker = w /\ c.answer = "pending"

(* The call acquire_worker makes of worker w: an error if it is not        *)
(* connected or declines because it is working.                            *)
NewCall(w, ops) ==
  [worker |-> w,
   id     |-> CHOOSE i \in 1..(Cardinality(calls) + 1) :
                \A c \in calls : c.id # i,
   answer |-> IF connected[w] /\ ~Working(w) THEN "pending" ELSE "error",
   jobs   |-> JobsOf(ops)]

(* The rest of acquire_worker and of execute: the job group is built and   *)
(* sent.                                                                   *)
SendJobGroup ==
  /\ executor = "acquiring"
  /\ \A op \in executing : op.obj \notin deleted
  /\ calls' = calls \cup {NewCall(alias, executing)}
  /\ executing' = {}
  /\ alias' = NoWorker
  /\ executor' = "idle"
  /\ UNCHANGED <<poolVars, queue, requestVars, cacheVars, dbVars,
                 faults>>

(* JobGroup.from_operations raises, for a database error or for an object  *)
(* that is gone; Executor.run logs the exception and goes on.              *)
AcquireWorkerRaises ==
  /\ executor = "acquiring"
  /\ \/ Fault("database")
     \/ /\ \E op \in executing : op.obj \in deleted
        /\ UNCHANGED faults
  /\ executor' = "idle"
  /\ UNCHANGED <<poolVars, queue, executing, alias, calls, requestVars,
                 cacheVars, dbVars>>

-----------------------------------------------------------------------------
(* What a worker may answer for a job; without executables it fails.       *)
Outcomes(job) ==
  CASE job.op.type = "compilation" -> {"ok", "fail", "error"}
    [] job.op.type = "evaluation" /\ job.compilation = "ok" -> {"ok", "error"}
    [] job.op.type = "evaluation" /\ job.compilation = "tombstone" ->
         {"tombstone", "error"}
    [] job.op.type = "evaluation" /\ job.compilation \in {"none", "fail"} -> {"error"}

(* Worker.execute_job_group returns.                                       *)
WorkerFinishes(c) ==
  /\ c.answer = "pending"
  /\ \E outcome \in [c.jobs -> {"ok", "fail", "error", "tombstone"}] :
       /\ \A j \in c.jobs : outcome[j] \in Outcomes(j)
       /\ calls' = (calls \ {c}) \cup
            {[c EXCEPT !.answer = "done",
                       !.jobs = {[op |-> j.op, epoch |-> j.epoch,
                                  outcome |-> outcome[j]] : j \in c.jobs}]}
  /\ UNCHANGED <<poolVars, queue, executorVars, requestVars, cacheVars,
                 dbVars, faults>>

Failed(c) == IF c.answer = "pending" THEN [c EXCEPT !.answer = "error"] ELSE c

(* Worker.execute_job_group raises JobException.                           *)
WorkerFails(c) ==
  /\ c.answer = "pending"
  /\ Fault("worker")
  /\ calls' = (calls \ {c}) \cup {Failed(c)}
  /\ UNCHANGED <<poolVars, queue, executorVars, requestVars, cacheVars,
                 dbVars>>

(* FlushingDict.add of each result of rs.                                  *)
AddAll(rs) == {r \in d : \A q \in rs : q.op # r.op} \cup rs

(* A mutant of action_finished that frees the worker only when it succeeded. *)
ActionFinishedOnSuccess(c) ==
  /\ LockFree
  /\ c.answer # "pending"
  /\ calls' = calls \ {c}
  /\ IF c.answer = "done" THEN Pool!ReleaseWorker(c.worker) ELSE UNCHANGED poolVars
  /\ d' = IF status[c.worker] = Pool!Busy /\ c.answer = "done"
          THEN AddAll({r \in c.jobs : r.op \notin toIgnore[c.worker]})
          ELSE d
  /\ UNCHANGED <<queue, executorVars, requestVars, fd, writer, dbVars,
                 faults>>

(* action_finished, the callback of a call.  Unless the worker is busy,    *)
(* release_worker raises or says to ignore everything.                     *)
ActionFinished(c) ==
  /\ LockFree
  /\ c.answer # "pending"
  /\ calls' = calls \ {c}
  /\ Pool!ReleaseWorker(c.worker)
  /\ d' = IF status[c.worker] = Pool!Busy /\ c.answer = "done"
          THEN AddAll({r \in c.jobs : r.op \notin toIgnore[c.worker]})
          ELSE d
  /\ UNCHANGED <<queue, executorVars, requestVars, fd, writer, dbVars,
                 faults>>

-----------------------------------------------------------------------------
(* FlushingDict._check_flush and flush, until write_results asks for       *)
(* post_finish_lock.                                                       *)
Flush ==
  /\ writer = "idle"
  /\ d # {}
  /\ fd' = d
  /\ d' = {}
  /\ writer' = "flushed"
  /\ UNCHANGED <<poolVars, queue, executorVars, calls, requestVars,
                 dbVars, faults>>

(* write_results takes the lock.  It waited for it after the greenlets of  *)
(* lost, and the lock's waiters are a FIFO.                                *)
StartWriting ==
  /\ writer = "flushed"
  /\ lost = {}
  /\ writer' = "writing"
  /\ UNCHANGED <<poolVars, queue, executorVars, calls, requestVars, d, fd, dbVars,
                 faults>>

(* The rows after the results of the sequence rs.                          *)
RowsAfter(rs) ==
  LET rows[n \in 0 .. Len(rs)] ==
        IF n = 0 THEN db
        ELSE [rows[n - 1] EXCEPT ![rs[n].op.obj] = WriteRow(@, rs[n])]
  IN  rows[Len(rs)]

(* write_results until its first commit, with write_results_one_row for    *)
(* each result, in any order.  A tombstone invalidates its submission and  *)
(* enqueues its compilation.                                               *)
WriteResults ==
  /\ writer = "writing"
  /\ writer' = "rows"
  /\ \E order \in SetToSeqs({r \in fd : r.op.obj \notin deleted}) :
       db' = RowsAfter(order)
  /\ LET found == {s \in Submission : db[s].compilation = "tombstone"
                                      /\ db'[s].compilation = "none"}
     IN queue' = Enqueued({CompilationOp(s, FALSE) : s \in found},
                          queue, executing, reverse)
  /\ UNCHANGED <<poolVars, executorVars, calls, requestVars, d, fd,
                 deleted, epoch, invalidated, faults>>

(* write_results from its first to its second commit: a result with as     *)
(* many evaluations as there are testcases gets its outcome.  The mutant   *)
(* does not count them.                                                    *)
SetOutcomesUncounted ==
  /\ writer = "rows"
  /\ writer' = "outcomes"
  /\ db' = [o \in Object |->
              IF /\ o \in Submission \ deleted
                 /\ \E r \in fd : r.op.type = "evaluation" /\ r.op.obj = o
              THEN [db[o] EXCEPT !.evaluated = TRUE]
              ELSE db[o]]
  /\ UNCHANGED <<poolVars, queue, executorVars, calls, requestVars, d,
                 fd, deleted, epoch, invalidated, faults>>

SetEvaluationOutcomes ==
  /\ writer = "rows"
  /\ writer' = "outcomes"
  /\ db' = [o \in Object |->
              IF /\ o \in Submission \ deleted
                 /\ \E r \in fd : r.op.type = "evaluation" /\ r.op.obj = o
                 /\ Cardinality(db[o].evaluations) = Cardinality(Testcase)
              THEN [db[o] EXCEPT !.evaluated = TRUE]
              ELSE db[o]]
  /\ UNCHANGED <<poolVars, queue, executorVars, calls, requestVars, d,
                 fd, deleted, epoch, invalidated, faults>>

(* The calls of user_test_enqueue_operations that user_test_compilation_   *)
(* ended and user_test_evaluation_ended make for the results rs, and those *)
(* of submission_enqueue_operations by compilation_ended and by evaluation_*)
(* ended, which is called only if the submission has its outcome: a failed *)
(* evaluation of a user test is put again at once, of a submission not.    *)
EndedUserTests(rs) ==
  {<<r.op.obj, FALSE>> : r \in {q \in rs : q.op.obj \in UserTest}}

EndedSubmissions(rs) ==
  LET ofSubmissions == {r \in rs : r.op.obj \in Submission}
  IN  {<<r.op.obj, FALSE>> : r \in {q \in ofSubmissions : q.op.type = "compilation"}}
        \cup {<<r.op.obj, r.op.archive>> :
                r \in {q \in ofSubmissions : q.op.type = "evaluation"
                                             /\ db[q.op.obj].evaluated}}

EndedPairs(rs) == EndedSubmissions(rs) \cup EndedUserTests(rs)

(* The rest of write_results and of flush.                                 *)
EndOperations ==
  /\ writer = "outcomes"
  /\ \A r \in fd : r.op.obj \notin deleted
  /\ queue' = Enqueued(Wanted(EndedPairs(fd), db), queue, executing, reverse)
  /\ db' = Finalized(EndedPairs(fd), db)
  /\ fd' = {}
  /\ writer' = "idle"
  /\ UNCHANGED <<poolVars, executorVars, calls, requestVars, d, deleted,
                 epoch, invalidated, faults>>

(* write_results meets an object that is gone: get_from_id of its result   *)
(* gives None, its use raises AttributeError, nobody catches it and the    *)
(* greenlet of _check_flush ends.  The objects in past came before.        *)
EndOperationsRaises ==
  /\ writer = "outcomes"
  /\ \E r \in fd : r.op.obj \in deleted
  /\ \E past \in SUBSET {r \in fd : r.op.obj \notin deleted} :
       /\ queue' = Enqueued(Wanted(EndedPairs(past), db), queue, executing, reverse)
       /\ db' = Finalized(EndedPairs(past), db)
  /\ writer' = "dead"
  /\ UNCHANGED <<poolVars, executorVars, calls, requestVars, d, fd,
                 deleted, epoch, invalidated, faults>>

-----------------------------------------------------------------------------
(* invalidate_submission of one submission, of all its testcases or, at    *)
(* level "evaluation", of one.  It holds post_finish_lock, and needs       *)
(* _current_execution_lock.  When execute failed, the list it dequeues     *)
(* from is also the one in the pool.                                       *)
InvalidateSubmission(s, level, ts, archive) ==
  /\ LockFree
  /\ ExecutionLockFree
  /\ s \notin deleted
  /\ Fault("invalidate")
  /\ LET relevant == RelevantOperations(s, level)
         row == IF level = "compilation" THEN Blank
                ELSE WithoutEvaluations(db[s], ts)
         rows == [db EXCEPT ![s] = row]
         held == executing \ (relevant \ queue)
     IN  /\ executing' = held
         /\ queue' = Enqueued(Wanted({<<s, archive>>}, rows),
                              queue \ relevant, held, reverse)
         /\ db' = Finalized({<<s, archive>>}, rows)
         /\ toIgnore' = [w \in Worker |->
                           toIgnore[w] \cup {op \in relevant : reverse[op] = w}]
         /\ operations' =
              IF alias \in Worker /\ status[alias] = Pool!Busy
              THEN [operations EXCEPT ![alias] = held] ELSE operations
  /\ invalidated' = invalidated \cup {s}
  /\ epoch' = [epoch EXCEPT ![s] =
                 [t \in Types |-> IF t = "evaluation" \/ level = "compilation"
                                  THEN @[t] + 1 ELSE @[t]]]
  /\ UNCHANGED <<status, reverse, startTime, available, connected, waking,
                 executor, alias, calls, requestVars, cacheVars, deleted>>

(* The submission or user test, or what it belongs to, is deleted from the *)
(* database by AdminWebServer or a script.                                 *)
DeleteObject(o) ==
  /\ o \notin deleted
  /\ Fault("delete")
  /\ deleted' = deleted \cup {o}
  /\ UNCHANGED <<poolVars, queue, executorVars, calls, requestVars,
                 cacheVars, db, epoch, invalidated>>

-----------------------------------------------------------------------------
(* A worker whose batch no callback will ever free.                        *)
Stuck(w) ==
  /\ status[w] = Pool!Busy
  /\ ~ \E c \in calls : c.worker = w
  /\ ~ (executor = "acquiring" /\ alias = w)

(* check_workers_timeout.  A stuck worker times out in the end; that       *)
(* another one does is a fault.                                            *)
CheckWorkersTimeout ==
  \E ws \in SUBSET Worker : \E down \in SUBSET ws :
    /\ Pool!CheckTimeouts(ws, down)
    /\ IF \A w \in ws : Stuck(w) THEN UNCHANGED faults ELSE Fault("timeout")
    /\ PutAgain(Pool!NotIgnored(ws))
    /\ calls' = {IF c.worker \in down THEN Failed(c) ELSE c : c \in calls}
    /\ UNCHANGED <<executorVars, requests, announced, late, cacheVars, dbVars>>

(* check_workers_connection                                                *)
CheckWorkersConnection ==
  /\ Pool!CheckConnections
  /\ PutAgain(UNION {operations[w] : w \in Pool!Unconnected})
  /\ UNCHANGED <<executorVars, calls, requests, announced, late, cacheVars, dbVars,
                 faults>>

(* disable_worker                                                          *)
DisableWorker(w) ==
  /\ Fault("disable")
  /\ Pool!DisableWorker(w)
  /\ PutAgain(Pool!NotIgnored({w}))
  /\ UNCHANGED <<executorVars, calls, requests, announced, late, cacheVars, dbVars>>

(* enable_worker                                                           *)
EnableWorker(w) ==
  /\ Pool!EnableWorker(w)
  /\ UNCHANGED <<queue, executorVars, calls, requestVars, cacheVars,
                 dbVars, faults>>

Connect(w) ==
  /\ Pool!Connect(w)
  /\ UNCHANGED <<queue, executorVars, calls, requestVars, cacheVars,
                 dbVars, faults>>

OnWorkerConnected(w) ==
  /\ Pool!OnWorkerConnected(w)
  /\ UNCHANGED <<queue, executorVars, calls, requestVars, cacheVars,
                 dbVars, faults>>

(* The connection to a worker breaks: the client fails the calls that wait *)
(* for an answer, the worker kills the greenlets that serve them.          *)
Disconnect(w) ==
  /\ Fault("disconnect")
  /\ Pool!Disconnect(w)
  /\ calls' = {IF c.worker = w THEN Failed(c) ELSE c : c \in calls}
  /\ UNCHANGED <<queue, executorVars, requestVars, cacheVars, dbVars>>

(* EvaluationService dies and is started again: only the database is left. *)
Crash ==
  /\ Fault("crash")
  /\ Pool!Restart
  /\ queue' = {} /\ executing' = {} /\ executor' = "idle" /\ alias' = NoWorker
  /\ calls' = {} /\ requests' = {} /\ lost' = {}
  /\ d' = {} /\ fd' = {} /\ writer' = "idle"
  /\ UNCHANGED <<announced, late, dbVars>>

-----------------------------------------------------------------------------
Levels == {<<"compilation", Testcase>>, <<"evaluation", Testcase>>}
            \cup {<<"evaluation", {t}>> : t \in Testcase}

Next ==
  \/ \E s \in Submission : NewSubmission(s)
  \/ \E u \in UserTest : NewUserTest(u)
  \/ \E op \in Operation : Enqueue(op)
  \/ EnqueueLost
  \/ Sweep
  \/ PopBatch
  \/ AcquireWorker
  \/ NothingToExecute
  \/ SendJobGroup
  \/ AcquireWorkerRaises
  \/ \E c \in calls : WorkerFinishes(c)
  \/ \E c \in calls : WorkerFails(c)
  \/ \E c \in calls : ActionFinished(c)
  \/ Flush
  \/ StartWriting
  \/ WriteResults
  \/ SetEvaluationOutcomes
  \/ EndOperations
  \/ EndOperationsRaises
  \/ \E s \in Submission, l \in Levels, a \in ArchiveRequests :
       InvalidateSubmission(s, l[1], l[2], a)
  \/ \E o \in Object : DeleteObject(o)
  \/ CheckWorkersTimeout
  \/ CheckWorkersConnection
  \/ \E w \in Worker : DisableWorker(w)
  \/ \E w \in Worker : EnableWorker(w)
  \/ \E w \in Worker : Connect(w)
  \/ \E w \in Worker : OnWorkerConnected(w)
  \/ \E w \in Worker : Disconnect(w)
  \/ Crash

Spec == Init /\ [][Next]_vars

-----------------------------------------------------------------------------
(* Fairness.  A greenlet that is ready runs (gevent serves its ready       *)
(* greenlets in turn) and whoever waits for post_finish_lock has it in the *)
(* end (its waiters are a FIFO), although it may be taken and freed        *)
(* meanwhile: weak and strong fairness.  The periodic checks and the       *)
(* sweeper are timers; the RPC client reconnects for ever; a job ends,     *)
(* because the sandbox bounds its time.  Faults, users and administrators  *)
(* are not fair.                                                           *)
FreeStuckWorkers == CheckWorkersTimeout /\ UNCHANGED faults

EndGroup == EndOperations \/ EndOperationsRaises
EndAcquire == SendJobGroup \/ (AcquireWorkerRaises /\ UNCHANGED faults)

WorkerAnswers(w) == \E c \in calls : c.worker = w /\ WorkerFinishes(c)
Callback(w) == \E c \in calls : c.worker = w /\ ActionFinished(c)

Fairness ==
  /\ WF_vars(PopBatch) /\ WF_vars(AcquireWorker) /\ WF_vars(NothingToExecute)
  /\ WF_vars(EndAcquire)
  /\ WF_vars(Flush) /\ WF_vars(StartWriting) /\ WF_vars(WriteResults)
  /\ WF_vars(SetEvaluationOutcomes) /\ WF_vars(EndGroup)
  /\ SF_vars(Sweep) /\ SF_vars(EnqueueLost)
  /\ \A op \in Operation : SF_vars(Enqueue(op))
  /\ WF_vars(FreeStuckWorkers) /\ WF_vars(CheckWorkersConnection)
  /\ \A w \in Worker :
       /\ WF_vars(WorkerAnswers(w)) /\ SF_vars(Callback(w))
       /\ WF_vars(Connect(w)) /\ WF_vars(OnWorkerConnected(w))

FairSpec == Spec /\ Fairness

-----------------------------------------------------------------------------
(* The comment on post_finish_lock: an operation is in the queue, or with  *)
(* the executor, or in the pool, or in the cache being filled, or in the   *)
(* one being flushed, never in two of them; otherwise it is done twice.    *)
OnePlace ==
  \A op \in Operation :
    Cardinality({p \in {"queue", "executor", "pool", "d", "fd"} :
      CASE p = "queue" -> op \in queue
        [] p = "executor" -> op \in executing /\ executor = "waiting"
        [] p = "pool" -> Pool!InPool(op)
        [] p = "d" -> \E r \in d : r.op = op
        [] p = "fd" -> \E r \in fd : r.op = op}) <= 1

(* A worker the pool holds as busy owes an answer: there is a callback to  *)
(* come that frees it, whatever was released, disabled, disconnected or    *)
(* reassigned meanwhile; nobody has to wait for WORKER_TIMEOUT.            *)
BusyOwesAnswer == \A w \in Worker : ~Stuck(w)

(* The pool's two dictionaries agree while EvaluationService drives it.    *)
PoolInSync == Pool!ReverseInSync

(* EvaluationService uses the pool as WorkerPool specifies: it never       *)
(* assigns an operation the pool has, so what is proved of the pool holds  *)
(* here.                                                                   *)
PoolSpec == Pool!Spec

(* The marks of ignore_operation do their work: a result that reaches the  *)
(* cache was computed from data nobody invalidated since the job was sent. *)
FreshOnArrival ==
  [][\A r \in d' \ d : r.epoch = epoch[r.op.obj][r.op.type]]_vars

(* A submission has its outcome only with an evaluation on every testcase, *)
(* made with real executables: ScoringService scores what is evaluated.  A *)
(* user test has its own only once it compiled.  Not so an object that was *)
(* invalidated (a result that waits in the cache is written afterwards,    *)
(* without any compilation even) or one new_submission was late for: an    *)
(* operation it had read was done by the time it was enqueued, and is done *)
(* again (a submission is compiled again while it is being evaluated).     *)
Disturbed == late \cup invalidated

EvaluatedIsComplete ==
  \A o \in Object \ (deleted \cup Disturbed) :
    db[o].evaluated =>
      /\ db[o].compilation = "ok"
      /\ o \in Submission => db[o].evaluations = Testcase

(* No more tries than allowed: a compilation is tried by one worker at a   *)
(* time; of the evaluations, which share a counter, those of the other     *)
(* testcases may be under way when the last but one try fails.             *)
TriesAreBounded ==
  \A o \in Object \ Disturbed :
    /\ db[o].compilationTries <= MAX_COMPILATION_TRIES
    /\ db[o].evaluationTries < MAX_EVALUATION_TRIES + Cardinality(InputsOf(o))

(* The sweeper's promise ("submissions that have not been compiled or      *)
(* evaluated for no good reasons"): in the end every submission and user   *)
(* test is compiled and evaluated, or does not compile, or has used its    *)
(* tries.                                                                  *)
Settled(o) == o \in deleted \/ ~(ToCompile(db[o]) \/ ToEvaluate(db[o]))
EventuallySettled == \A o \in Object : <>[]Settled(o)

(* get_status of SubmissionResult, its two scoring states taken as one and *)
(* EVALUATING split for the submissions imported without executables, and  *)
(* of UserTestResult.                                                      *)
Status(row) ==
  CASE row.compilation = "none" -> "COMPILING"
    [] row.compilation = "tombstone" /\ ~row.evaluated -> "IMPORTED"
    [] row.compilation = "fail" -> "COMPILATION_FAILED"
    [] row.compilation = "ok" /\ ~row.evaluated -> "EVALUATING"
    [] CompilationSucceeded(row) /\ row.evaluated -> "EVALUATED"

(* What a contestant sees of a submission or a user test only moves        *)
(* forward, as long as nobody invalidates it and no new_submission is late *)
(* for it: EvaluationService implements SubmissionStatus.                  *)
Seen == INSTANCE SubmissionStatus
  WITH Submission <- Object, Imported <- Tombstones,
       seen <- [o \in Object |-> Status(db[o])], disturbed <- Disturbed
StatusSpec == Seen!Spec
=============================================================================
