# A verification of CMS, the Contest Management System

TLA+ modules that model how CMS judges submissions, configurations that
model-check them with TLC, and proofs that TLAPS checks.  The reference is the
code in this repository; every definition that models code names the lines it
stands for in `PROJECT.json`.

## The system

CMS is a set of processes ("services") around one PostgreSQL database.  Each
service is single-threaded and runs greenlets (gevent): a greenlet runs until it
reads the database, calls another service, sleeps or waits for a lock, and only
there may another one run.  Services call each other by RPC over TCP.

| Part | State it keeps | Operations | Correct when |
|---|---|---|---|
| EvaluationService (`cms/service/EvaluationService.py`, `esoperations.py`) | the queue, the batch being sent, the pool, the cache of results, the rows of `SubmissionResult` and `UserTestResult` | `new_submission`, `new_user_test`, the executor, `action_finished`, `write_results`, the sweeper, two periodic checks on workers, `invalidate_submission`, `disable_worker`, `enable_worker` | an operation is in one place; outdated results are dropped; every submission is judged in the end |
| WorkerPool (`workerpool.py`) | status, operations, start time and ignore marks by worker, the worker by operation, an event | connect, acquire, release, ignore, timeouts, disable, enable, check connections | the dictionaries agree; the executor is always woken |
| FlushingDict (`flushingdict.py`) | results received, results being flushed | add, flush | nothing is lost or refused between the two |
| TriggeredService, Executor, PriorityQueue (`cms/io`) | a heap with a reverse map; the operation in progress; when to sweep | enqueue, dequeue, pop, set_priority, sweep | the earliest operation is executed first, each once; nothing needed is forgotten |
| RPC (`cms/io/rpc.py`) | pending requests of a client, the lock of its writers, threads of a server | call, answer, disconnect, reconnect | every call is answered or failed once |
| Worker (`Worker.py`), task types, steps, Sandbox (`cms/grading`) | one lock; the jobs of a group and their sandboxes; boxes and directories | `execute_job_group` | one job group at a time; a verdict is about the contestant's program, a failure about the infrastructure; sandboxes are cleaned up |
| FileCacher (`cms/db/filecacher.py`, `fsobject.py`), cmsCleanFiles | rows and large objects, a shared cache directory, a file lock | put, get, precache, delete | files in use are there, whole, and nothing leaks |
| ScoringService | a queue | `new_evaluation`, the executor, `invalidate_submission`, sweeper | every result judged is scored, and no other |
| ProxyService | one queue per ranking, what was sent | `submission_scored`, `submission_tokened`, `dataset_updated`, the executor, sweeper | the rankings refuse nothing and catch up |
| RankingWebServer (`cmsranking`) | stores of entities and their files, one `Score` per user and task with its history | create, update, delete, merge, load | the history is that of the changes, in whatever order they came |
| the page of the ranking (`static/DataStore.js`), fed by EventSource (`cmscommon/eventsource.py`) | the last events sent, for clients that come back; the scores and ranks shown, how far the page has read | load, connect, receive, fetch a user | the page shows what the server has, however often the stream is lost |
| ContestWebServer (`cms/server/contest`) | submissions, user tests, tokens, the start of a contestant's frame | submit, test, play a token, start | limits hold; tokens and phases are as shown and documented |
| AdminWebServer, LogService, ResourceService, importers | | | not modelled, see below |

A submission goes this way: ContestWebServer inserts it and calls
`new_submission`; EvaluationService queues its compilation; the executor sends
it, with others, as a job group to a worker; the callback `action_finished`
frees the worker and puts the results in the cache; the flush of the cache
writes them and queues the evaluations; these go the same way, one operation per
testcase; when the last one is written the outcome is set and ScoringService is
told.  The sweeper looks for submissions that are stuck and queues what they lack.
ScoringService computes the score, commits it and tells ProxyService, which reads
it and sends it, as a "subchange" of the submission, to the rankings; these keep
the sorted subchanges and compute the history of the score of each user.  Each
change is an event, which the open pages of the ranking receive and show.

What is hard here: the operation is handed from one structure to the next by
different greenlets, under two locks that do not cover the same sections; each
structure answers "do you hold it?" to refuse duplicates; administrators
invalidate, disable and delete at any moment; workers die, time out and answer
late; and the process itself may die between two commits.  Further on, each
service reads the database, yields, and acts on what it read; notifications are
lost with the connection; and subchanges reach a ranking in any order.  Web
requests of one contestant overlap between check and commit; files are put,
fetched and deleted by processes that share nothing but the file system and the
database; and a worker has to tell what the contestant did wrong from what went
wrong around them.  The list of these
hazards, each at its line, is in `PROJECT.json`.

## Modules

| Module | Models | Proofs |
|---|---|---|
| `WorkerPoolState`, `WorkerPool` | `workerpool.py`, all of it: the state with what is always true of it, and the methods | `EvaluationServiceProofs` |
| `EvaluationService` | `EvaluationService.py` with `esoperations.py`, `flushingdict.py`, the executor of `triggeredservice.py`, what a worker answers; it extends `WorkerPoolState` and contains an instance of `WorkerPool` | `EvaluationServiceProofs` |
| `SubmissionStatus` | what `get_status` shows of a submission nobody invalidates, or of a user test: the abstract specification `EvaluationService` implements | |
| `ScoringService` | `ScoringService.py`, `scoringoperations.py` | |
| `ProxyBatch` | a batch of `ProxyService.py` with its requests, and the check of consistency of `Store.py` | `RankingScoreProofs` |
| `ProxyService` | `ProxyService.py` for one ranking, with its batches | `RankingScoreProofs` |
| `Scoreboard` | both, with the database they share and the programs that call them | `RankingScoreProofs` |
| `RankingStores` | the stores of submissions and subchanges of `Store.py` | `RankingScoreProofs` |
| `RankingScore` | `Scoring.py` for one user and task, on these stores | `RankingScoreProofs` |
| `EventSource` | the cache of `eventsource.py`: operators | |
| `LiveRanking` | a page of the ranking, the server's events and the stream between them | `LiveRankingProofs` |
| `PriorityQueue` | `priorityqueue.py`: operators on a heap with its reverse map | `TriggeredServiceProofs` |
| `TriggeredService` | `triggeredservice.py`: executors, each with a `PriorityQueue`, and the sweeper | `TriggeredServiceProofs` |
| `OperationQueue` | what a queue and its executor promise: the abstract specification each executor of `TriggeredService` implements | |
| `RPC` | client and server of `rpc.py` | `RPCProofs` |
| `Tokening`, `PhaseManagement` | `tokening.py`, `phase_management.py`: operators | |
| `ContestWebServer` | the requests of one contestant: limits (`check.py`, `workflow.py`), tokens, start | `ContestWebServerProofs` |
| `GradingSteps`, `TaskTypes` | `grading/steps` and `grading/tasktypes`: what becomes of a job, as operators on the logs of isolate | |
| `Worker` | `Worker.py` and the sandboxes of a job (`Sandbox.py`) | `WorkerProofs` |
| `FileCacher` | `filecacher.py` with `DBBackend`, and the row its caller commits | `CleanFilesProofs` |
| `CleanFiles` | `cmscontrib/CleanFiles.py` at work on a `FileCacher` in use | `CleanFilesProofs` |
| `MC...` | finite instances for TLC | |

### WorkerPool

One variable for each dictionary of the class: `status` is `_worker`,
`operations` is `_operations`, `reverse` is `_operations_reverse`, `toIgnore` is
`_operations_to_ignore`, `startTime` tells whether `_start_time` is set,
`available` is the event.  `connected` is the RPC client's flag and `waking` the
`on_connect` handlers spawned and not run yet.  The methods of the pool do not
yield, so each is one action.  `check_timeouts` and `check_connections` release
several workers in one step; which workers are late is an input of the step
(time is not modelled).  `schedule_disabling`, set by nobody but `disable_worker`
for the time of one call, is the argument `disabling` of `ReleaseWorkers`.

### EvaluationService

A step is what a greenlet does between two points where it may yield.

* `NewSubmission` and `NewUserTest` read the database without the lock; its enqueue is the
  separate action `Enqueue`, since the lock may be held meanwhile.
* `PopBatch`, `AcquireWorker`, `SendJobGroup` are the executor's loop: between
  the last two, `acquire_worker` reads the database with
  `_current_execution_lock` held.  `AcquireWorkerRaises` is the exception
  `Executor.run` logs; the executor then keeps its list, which is the pool's as
  well (`alias`).
* `calls` holds the RPC calls to workers, each with its answer when it has one;
  `ActionFinished` is the callback.
* `Flush`, `StartWriting`, `WriteResults`, `SetEvaluationOutcomes`,
  `EndOperations` are the flush of the cache: the copy, the lock, the first and
  the second commit, and the calls of `compilation_ended` and
  `evaluation_ended`.  `EndOperationsRaises` is the last step when an object is
  gone.  The order in which the results of one flush are written is arbitrary.
  A user test has its outcome with the result of its one evaluation, and a failed
  evaluation of it is enqueued again here; one of a submission waits for the sweeper.
* `Sweep`, `CheckWorkersTimeout`, `CheckWorkersConnection` are the timers,
  `InvalidateSubmission`, `DisableWorker`, `EnableWorker` the RPC methods.
  What the pool gives back is enqueued at once when `post_finish_lock` is free
  (it is reentrant and does not yield then), or waits in `lost`.
* `Connect`, `OnWorkerConnected`, `Disconnect`, `WorkerFinishes`, `WorkerFails`,
  `DeleteObject` and `Crash` are the environment.

`epoch`, `invalidated` and `late` are history variables: `epoch` counts the calls of
`invalidate_submission` on a submission, a job carries the value it was sent
under, and `FreshOnArrival` compares.  `Enqueue` puts an object in `late` when it
enqueues an operation that was done since `NewSubmission` or `NewUserTest` read it
(`AlreadyDone`: the database does not ask for it any more, and no queue, worker or
cache has it).  `Disturbed` are the objects in `late` or `invalidated`; one that was
announced in time is not among them, whatever the sweeper did meanwhile.

`InvalidateSubmission` is one step although it reads the database several times:
it holds `post_finish_lock` throughout, and the steps of the executor that could
come in between find the same lists before or after.  Priorities are left out:
the queue gives up any of its entries.

### ScoringService, ProxyService and Scoreboard

`ScoringService` and `ProxyService` share the variables `score`, `active` and
`scoredCalls`; `Scoreboard` instantiates both and adds EvaluationService
(`Judge`, `Rejudge`), AdminWebServer (`Rescore`, `Activate`) and ContestWebServer
(`PlayToken`) as far as they touch these.  `EventuallySettled` of
`EvaluationService` is what makes `Judge` fair here.

A score is named by the judgement it was computed from: `right` numbers the
judgements of a result, and `Compute` remembers the number it read.  The steps
`Pop`, `Compute`, `Commit`, `Notify` are `execute` between two of its accesses to
the database; the commit writes the score and nothing else, whatever happened to
the row meanwhile.  `scoredCalls`, `tokenedCalls` and `updatedCall` are RPC calls
on their way; `lostCall` is the disturbance that loses one.

In `ProxyService`, `handlers` holds what a handler or the sweeper has read and
not queued yet (it reads the user of the submission in between).  `PopBatch`
takes all there is and `Put` sends one kind of data: the basic data (contests,
tasks, teams and users as one), submissions, subchanges.  `PutRefused` is the
answer 400, `PutFails` a request without answer, which the ranking may have
received.  What is in the batch then is forgotten.  `NothingRefused` is stated in
`ProxyBatch`, of the next request of a batch and of `failed`, which only `PutFails` sets.

### RankingScore

`submissions` and `subchanges` are the two stores in memory; `submissionFiles` and
`subchangeFiles` are the whole files on the disk, and `truncated` names the files that
a death cut off: a write empties the file first.  A request holds the lock and writes its
file before it ends; `changes`, `score` and `mode` are the fields of `Score`.  A key tells the submission and the time of its
subchange, as ProxyService builds it.  `AppendChange` is `append_change` with the
three score modes, `Replay` is `reset_history`.  The server dies between two requests (`Restart`), half way
through the deletion of a submission (`RestartInDelete`) or while it writes a file
(`RestartInWriteOfSubmission`, `RestartInWriteOfSubchange`); it starts again from the
disk (`LoadFromDisk`), where the files of a store are read in any order until the first that was
cut off, and `Load` is one turn of `init_store`, which goes no further than a subchange without
its submission.  `damaged` is a history variable: a death ever cut a file off.  The files of users
and tasks are taken to be whole, and the time of a submission does not change: ProxyService
sends the timestamp of the row, which nobody changes, though `update_submission`
would follow another.  `ByDefinition` and
`HistoryByDefinition` say what a score is without any of these fields: the last
score of each submission, the tokens and the submission times.  `replayed` is a
history variable: the mode of the task is taken after the history was reset, so
the history is exact only from the next reset on.  Of several submissions with the latest time
`append_change` keeps the one whose score came first, and so does
`IsLastSubmission`.

### EventSource and LiveRanking

The key of an event is the time it was sent at.  The model takes these times to be
strictly increasing, so that a set of events is a queue, and counts them by
`clock`.  `Send` is the callback of `DataWatcher`: it puts the event in the cache and
in the queue of the page, when the page is connected.  What was sent and has not
been received, in the queue of the subscriber or on the way, is `queue`.

The page reads the users (`InitUsers`), then the scores (`InitScores`), each in a
request of its own, and then listens.  `lastId` is the id the page keeps and puts
in the URL, `header` the one the browser keeps and sends when it connects again by
itself; `GetSubscriber` is what the server makes of them.  `UserEvent` asks for a user who is created or updated, as all are when ProxyService
sends them again; the answer (`Fetched`, `FetchFails`) carries a version that the server
had since the request, and answers come in any order.  An update of a user whose
creation is still to be answered makes `update_user` throw (`UpdateOvertakes`), and the
page is not followed further.  `ScoreEvent` sets a score and moves the ranks, as
`update_rank` does.  `StreamEnds` loses the stream at any moment,
`ServerRestarts` the cache; `CreateEventSource` and `Reload` are clicks of the user of
the page.  One score per user stands for the global one, on which the ranks are
computed.  `missed`, `reordered` and `outdated` are history variables: the users whose score came
while the page did not know them, those of whom an older answer came last, and
that the server asked for a reload.  Users are not deleted here.

### PriorityQueue, TriggeredService and OperationQueue

A queue is a record of the list (`heap`), the lookup (`reverse`) and the event,
and each method of `PriorityQueue` an operator that returns the new one; `UpHeap`
and `DownHeap` go round after round, `UpRound` and `DownRound` being the bodies of the
loops.  The index of an entry,
a counter in the code, is one more than the largest still queued: only the order
of two queued entries matters.

In `TriggeredService` nobody yields between the look at a queue and its change,
so `Take` pops a whole batch, `Executed` ends it (`execute` may have raised, and
what it did may be done all the same), `Dequeue` stops at the first executor
without the operation.  `needed` is the world outside: which operations are still
to be done, as `_missing_operations` finds.  `OperationQueue` knows neither heap
nor index arithmetic: pending entries, of which the earliest is taken.

### RPC

Two processes and the connections between them, which are numbered as they are
made.  A greenlet gives way in `_read`, in a write that does not fit the buffers
(`sizes.large`), while it waits for the lock of the writers, and while a method
runs.  `Finalize` fails what is pending, at whatever step found the connection
broken; `WriteBreaks` may finalize a connection other than its own.  A response
over `MAX_MESSAGE_SIZE` (`sizes.oversize`) is dropped by the server.  `Break`,
`ServerDies` and `ServerStarts` are the environment.

### Tokening, PhaseManagement and ContestWebServer

Times are integers.  `FiniteTokens` and `ActualPhase` are the functions of the
code; `Level` and `Left` in `ContestWebServer` are the rule of the documentation
(`docs/Configuring a contest.rst`), a bucket filled and emptied instant by instant, that they are
compared with.  A request is stamped and admitted by the phase when it arrives
(`Arrive`), checked in one transaction (`CheckRow`, `CheckToken`), and committed
later (`CommitRow`, `CommitToken`, `CommitStart`), with any other request of the
same contestant in between.  `overlapped` is a history variable: some properties
hold only of contestants whose requests never overlap.

### GradingSteps, TaskTypes and Worker

A log of isolate is what the result depends on: the statuses it wrote, whether
the wall clock or the memory ran out, the time.  `GradingSteps` is what the steps
make of logs, `TaskTypes` what `evaluate` and `compile` of the five task types make of the
steps, with the order in which they look at them.  `Worker` goes through a job:
sandboxes are created, filled, run, checked and deleted, and at every step
something may raise.  `closing` counts the sandboxes `delete_sandbox` was called on,
`dirs` are the directories on disk, `boxes` whose files each box of isolate
holds.  An OSError of `cleanup` does not end the job: `delete_sandbox` logs it
(`util.py:98`) and `CleanUp` goes on with the directory left, its box emptied or not;
`left` is a history variable, the directories this happened to.  Every other
exception ends the group (`Fail`), CalledProcessError of `isolate --cleanup` among
them.  `errors` counts the failures of isolate but those under the commands that
set up a program of Communication, whose result the code drops
(`Communication.py:358`).  The fifo directories of TwoSteps and Communication and the archive of
sandboxes are left out.

### FileCacher and CleanFiles

`fsobjects` are the rows, `large` the large objects, `cache` the shared
directory, `rows` what the application refers to.  A put goes through
`create_file`, the commit of the large object, the commit of the row or the drop
of the large object, the rename into the cache, and the commit of its caller; a
get through the cache, the download chunk by chunk and the rename.  `CleanFiles`
adds the steps of `clean_files`; `raced` and `spoiled` are history variables, the
files put again while being deleted as orphans, and what an interrupted run
leaves.  With `-t` the executables are read first and their rows written, and so
locked, by the query of `enumerate_files` (`Pending`); one deleted in between ends
the run or is passed over.  `rows` tells the rows of the application apart by kind and
digest: an executable made again with the digest of one that was read counts as that one.

### What the runs check

| Run | Instance | Properties |
|---|---|---|
| `pool` | two workers, three operations, every order of calls | `ReverseInSync`, `IgnoreMarksBelongToBatch`, `NoLostWakeup` |
| `es_judging` | one submission, imported without executables or not, of two testcases, or one user test; two workers; `new_submission` or `new_user_test` at any moment; an invalidation, a crash, a failing worker, a deletion or a database error | `OnePlace`, `PoolInSync`, `FreshOnArrival`, `EvaluatedIsComplete`, `TriesAreBounded`, `StatusSpec` |
| `es_live` | one submission of one testcase or one user test, two workers; a disconnection, a timeout, a disabled worker, an invalidation or a failing worker | `EventuallySettled`, `BusyOwesAnswer`, `PoolSpec` |
| `scoreboard` | one submission, two datasets, one of them judged automatically; a proxy crash and a token, a crash of ScoringService and a lost call, a failed request and another active dataset, a rescoring, or another judgement | `NothingRefused`, `CatchesUpWhenCalm` |
| `ranking_score` | three submissions, two of them at the same time; three scores and two tokens, two of the five at the same time; three modes; deaths at any moment, also in the write of one submission and of one token | `HistoryIsExact`, `NoOrphans` |
| `live` | three users, two scores, four events, a cache of two; answers in any order, a stream lost at any moment, a server that restarts, a page that is reloaded | `PageIsCurrent`, `RanksAreExact` |
| `queue` | one executor with a deep queue, or two with batches of two; notifications, lost ones, failures, withdrawals, changes of priority, sweeps asked for, a restart | `QueueVerified`, `QueueSpec`, `EverythingDone` |
| `rpc` | two calls, three connections; links that break, a server that dies, a client that disconnects, a request that blocks, an answer that is too large | `PendingIsUnderway`, `ResultsAreFinal`, `EveryCallEnds`, `Reconnects` |
| `contest` | two requests at a time in eight settings: an own frame with delay, extra time and analysis mode; an unrestricted contestant; limits on submissions and on tests; four pairs of token rules | `LimitsHold`, `TokensAreEarned`, `TokensAvailableIsRight`, `PhaseBoundaries`, `PhaseOnlyAdvances` |
| `worker` | groups of one or two jobs of every task type, two requests, six kinds of log per command, one fault | `JobContract`, `FaultsAreNoVerdicts`, `BoxesAreOwn`, `DirectoriesFollowSuccess`, `EveryGroupEnds` |
| `store` | two digests, two processes, two requests, one run of cmsCleanFiles, one death, four initial stores | `ReadsAreWhole`, `ReferencesResolve`, `RowsMatchObjects`, `EverythingEnds` |
| `worker_swallowed` | the groups of `worker` | `SuccessIsInfrastructure`, violated |

`TypeOK` of each module says what its variables hold.  It is proved for `WorkerPool`,
`EvaluationService`, `Worker`, `FileCacher` with `CleanFiles`, `RPC`, `LiveRanking`, `TriggeredService` and `ContestWebServer`; elsewhere it
was true in the instance of its run when it was added to the configuration.  The configurations leave it out, and spend the time on the
rest.

Bounds.  The constants `Faults` and `Scenarios` are sets of budgets or settings; a behaviour picks one of
them at the start and each fault of the budget may then happen so often, at any
moment.  One submission is enough for the properties of its own pipeline, since
submissions meet only in the queue, in a batch and in a flush, and the two
testcases of one submission already do.  `Contents` lets the database hold a
submission or a user test: TLC does not get to the end of an instance with both, so that
the two in one batch are not checked.  With two tries, both kinds of counters are exhausted in the
instance.  A batch of up to `MAX_OPERATIONS_PER_BATCH` never reaches that bound
with two testcases; it is cut by the number of workers, which it is.  Symmetry of
workers, testcases and requests is used in safety runs only.

In `scoreboard` one submission is enough for the order of the kinds of data and
for the notifications, which concern one submission each; two datasets are
needed for the active one to change.  `MaxRight` bounds how often another score
becomes right.  In `ranking_score` each key may carry several scores, so that
subchanges are replaced, come late and are deleted in every combination; two
subtasks and three submissions tell the three modes apart.  `Truncating` are the entities
whose write a death may catch.

In `live` four events overflow a cache of two, so that a page that comes back finds
what it missed still there, in part, or not at all; three users are the least in
which `update_rank` moves one user and leaves another where it is, and two updates
of a user (`MaxVersion`) can be answered in the wrong order.  Both properties are
also proved, for any number of each.

In `queue` six operations make a heap of three levels, the least in which an
entry taken from the middle has to move up; the deep queue has one executor, and
two executors with batches have a shallow one.  Heaps of every size are proved about.  In `rpc` three connections let a
writer outlive its own and finalize the next.  In `contest`, `Horizon` bounds the
times; the frames, delays and periods are chosen so that delay and extra time end
in the analysis mode and periods of generation fall on plays.  Two requests are
enough for a check to be made stale.  In `worker`, `RangeSize` is two where the
code has ten, so that box ids are reused, and a job has up to three sandboxes: some
fit the shard, the most exactly, and some do not.  In
`store` two chunks tell half a file from a whole one.

Fairness (`Fairness` in `EvaluationService`).  Greenlets that are ready run:
weak fairness of every step of the service itself; `post_finish_lock` has FIFO
waiters, so the enqueues, the sweep and the callbacks, which need it free, get
strong fairness.  Timers fire for ever, the RPC client reconnects for ever, and
a worker finishes since the sandbox bounds the time of a job.  A stuck worker is
timed out in the end.  No fault, no user and no administrator is fair: in
particular nobody has to enable a disabled worker.

Fairness in `Scoreboard`: every step of the two services that needs no
disturbance, the sweepers included, and the judging of every result.  A call
that is made reaches the other service unless the disturbance is spent on it.

Fairness in `RPC`: greenlets that can run do, methods return, a broken link is
noticed, a service that died is started again; the lock of the writers is FIFO.
In `TriggeredService`: each executor goes on and the sweeper comes round.  In
`Worker`, a group goes on until it ends, since isolate bounds every command; in
`CleanFiles`, a process that is not dead goes on.  Where weak fairness is about
one part of the state only (the operation of one process, the `pc` of the
worker), it is written out as `[]<>(idle) \/ []<><<Step>>_part`.

`CatchesUpWhenCalm` holds in the behaviours without a replaced score, another
active dataset or a failed request.  With a replaced score it does not hold: a
handler that read the old score may queue it after the one that read the new
score, and the sweeper sends no score twice.

`StatusSpec` says that `EvaluationService` implements `SubmissionStatus` under
the mapping of `Status`: what contestants see of a submission moves forward only,
through announcements, crashes, failing workers and database errors, unless the submission is
`Disturbed`: invalidated, or with an operation that was done between the moment `new_submission`
read it and the moment it enqueued it, and is then done again.  `EvaluatedIsComplete`
and `TriesAreBounded` leave out the same objects and no others: such a submission is
compiled again while it is evaluated, and tried more often than the limit.

`OnePlace` is not true when workers time out: a late answer can release the
batch its worker got afterwards (the TODO at `workerpool.py:87` says as much),
nor when a worker is disabled and enabled again while it works, so
`es_live` checks what remains: no worker is left busy without a callback to
come, and the pool does what `WorkerPool` says.

`LimitsHold` allows one submission more for each further request under way, and its
part on intervals, like `TokensAreEarned`, is about contestants whose
requests never overlap: checks and commits are not one transaction, and TLC finds
the limits exceeded otherwise.  The properties of tokens also leave out `StartedAgain`: an unrestricted contestant
may start a second time after playing tokens, and the assertions of
`_tokens_available` then fail on tokens from before the start.

`JobContract`, `FaultsAreNoVerdicts` and `DirectoriesFollowSuccess` leave out the
case of `worker_swallowed`.

### What the code does not do as it says

One disagreement has a run.  `worker_swallowed`: when the sandbox of a
BatchAndOutput evaluation fails, `evaluate` finds neither outcome nor output and
answers, as if no file had been submitted, success with 0 points;
`TaskType.evaluate` promises a failure, which would be tried again.

TLC also found these, in instances that are not kept as runs:

* When the ranking dies while it writes the file of a submission (`Store.py:166`), the file
  is left cut off, and the next start stops loading submissions there, but loads the
  subchanges.  `ScoringStore` is sure that with a subchange there is a submission
  (`Scoring.py:243`), and `init_store` raises: the server does not start until somebody
  removes files (`NoOrphans` without `damaged`).
* `invalidate_submission` "ignores" what is enqueued and assigned, not what is in
  the result cache; the flush writes it afterwards (one submission, an
  invalidation, `FreshOnArrival` stated of `WriteResults`).
* After a crash between the two commits of `write_results` the submission has all
  its evaluations and no outcome, and the sweeper, which looks for missing
  evaluations, never finds it (`EventuallySettled` with a crash).
* A submission deleted while its result is being flushed makes the last loop of
  `write_results` raise; the greenlet of the flush ends and no result of anybody
  is written until the service is restarted (`EventuallySettled`, two
  submissions, a deletion).
* What a failed request to a ranking carried is sent by nobody: the executor
  forgets the batch, the sweeper believes it sent (`CatchesUpWhenCalm` without
  its exception).
* A result invalidated while its score is computed gets the old score, and once
  judged again it counts as scored.
* When isolate fails under the commands that set up a program of Communication, the
  job may succeed all the same, with the verdict on a program that was not set up
  (`FaultsAreNoVerdicts` with these commands counted in `Errors`).
* A Communication job with more processes than the shard has boxes left runs two
  sandboxes in one box of isolate, and the files of the first are destroyed when the
  second is created (the second part of `BoxesAreOwn` without `FitsShard`).
* Operations that archive their sandbox escape the next invalidation
  (`ArchiveRequests` with `TRUE`, `FreshOnArrival`).
* After `acquire_worker` raised, an invalidation changes the list of the pool
  behind its back (`PoolInSync` with a database error) and, as long as nothing
  else is queued, the sweeper's enqueue is refused.
* The queries for user tests to judge compare their tries with the limits of
  submissions (`esoperations.py:71`, `:76`), `user_test_to_compile` and
  `user_test_to_evaluate` with their own.  All are 3, so that nothing comes of it;
  the model has one constant for each pair.  This was read, not found by TLC.
* A worker disabled and enabled again while it works is sent a job group that it
  declines, and an operation may then be in two places (`OnePlace`).
* A call whose answer is too large, or cannot be encoded, has neither a value nor
  an error as long as the connection lives (`EveryCallEnds` without its
  exception), although `execute_rpc` says it has one or the other.
* With `token_max_number` of one, two overlapping requests play two tokens, and
  the number available is then below zero.
* `enumerate_files` reaches files from the contests, so cmsCleanFiles deletes those
  of a task of no contest (`ReferencesResolve` with a kind of row that is not in
  `Enumerated`).
* `reinit` is sent without data, so no browser dispatches it
  (`eventsource.py:148`), and the page listens for `reload` (`DataStore.js:825`): an
  outdated page goes on saying that it receives live updates (`OutdatedIsTold`).
  Were it heard, every page that connects while the cache is empty would be told to
  start again.
* A ranking page may hear of the score of a user it does not know yet, which
  `set_score` leaves to the server to prevent (`DataStore.js:605`,
  `ScoresAreOfKnown`): while it is loading, it then never becomes live, and later
  the score is lost to the page.
* Two answers about one user that arrive in the wrong order leave the older data on
  the page (`PageIsCurrent` without `reordered`), or a user without score and rank
  (`UpdateOvertakes`).
* A compilation that runs out of memory is a failure of the system, and tried again.

## Proofs

`EvaluationServiceProofs` begins with `WorkerPool`: for every set of
workers, and the operations of every set of submissions, user tests and testcases, `Pool!Spec`
has the invariants of the `pool` run in every reachable state, whatever its caller does.
They are not inductive one by one: that the two dictionaries agree after a
release depends on a busy worker being the only one that holds its operations,
which depends on the agreement.  The inductive invariant `PoolInv` is their
conjunction with the type invariant and `IdleHoldNothing` (a worker that is not
busy holds no operation and no mark).  `PoolInvariant` proves it action by
action; the other theorems are corollaries.

The rest of `EvaluationServiceProofs` proves all the safety properties of the `es_judging` and
`es_live` runs, `StatusSpec` and `PoolSpec` included, for every set of workers,
submissions, user tests and testcases, every bound on tries, and in instances TLC does not
finish, such as submissions together with user tests.  Its invariants stand on each other:

* `Typed` is `TypeOK` with what the handlers rely on: a call carries the operations of
  its batch, a result is that of an operation, an evaluation in the cache of a user
  test has no testcase.
* `SyncInv` adds `PoolInv` and `WaitingApart`: no worker has what waits in the queue or
  in the executor's list, so that `acquire_worker` is never given what the pool holds.
  It gives `PoolInSync`, and `PoolStep` shows that every step of the service is a step of `WorkerPool` or leaves it
  alone: that is `PoolSpec`, so that what is proved of the pool holds in the service.
* `NeverRaises` says what keeps `execute` from raising; `BusyOwesAnswer` is inductive
  with it.
* `PlaceInv` says that the places of an operation (queue, executor, pool, the two halves of
  the cache, the flush, the calls on their way and what they found lost) are
  disjoint, and that the batch of a call is the batch of its worker.  `OnePlace` is a
  part of it.
* `JobsAreFresh` says that a job that is not ignored was sent under the present
  epoch.  It gives `FreshOnArrival`: no answer that is put in the cache was out of date
  when it arrived.
* `JudgedInv` relates the rows to the operations under way: an evaluation is only under way
  after the compilation was written, what is under way is not in the database yet,
  and no more results are on their way than evaluations are missing.
  `EvaluatedIsComplete` and `StatusSpec` follow.  An announced object keeps it: what
  `Enqueue` adds is what the row still asks for, or the object is `late`
  (`GrowthStep`).
* `TriesLeft` says that what is under way for a row with tries is allowed another one.  It gives `TriesAreBounded`.

The theorems have hypotheses on the budgets of faults, each because the property
is false without it; "What the code does not do as it says" has what TLC finds then.

| Hypothesis | Says | Without it |
|---|---|---|
| `NoAliasing` | no behaviour has both an invalidation and a database error (or a deletion) that makes `execute` raise | the executor keeps a list that is also the pool's, and the invalidation empties it behind the pool's back |
| `ExecuteSucceeds` | `execute` does not raise | a worker that was acquired and sent nothing is busy until its timeout |
| `NobodyLeaves` | no timeout, no disconnection, no disabled worker | a batch is released while its call is under way, queued again, and is in two places |
| `NothingArchived` | no request archives the sandbox | an operation with the mark is not found by an invalidation, which looks for one without |

`es_judging` is an instance of `NoAliasing`, `NobodyLeaves` and `NothingArchived`, and
`es_live` of `NoAliasing` and `ExecuteSucceeds`: the runs and the theorems speak of the same
behaviours, and a crash, invalidations and failing workers are among them.  There is no hypothesis on
the type invariant.

`WorkerProofs` proves the properties of the `worker` run for every groups of jobs
of every task type, every set of logs and any number of faults and requests.  The inductive invariant
`WorkerInv` has the types; `Programs`, that a job whose programs are about to run has
some; `Coming`, that the jobs still to come were given nothing; `BoxesInv`, that the sandboxes of a job were given consecutive
numbers and which files their boxes hold;
`UsedInv`, that the directories of the job are those of its sandboxes and on the disk until they are
deleted, one after the other, but for those in `left`; and `AnswerInv`, what
`JobContract`, `FaultsAreNoVerdicts` and `DirectoriesFollowSuccess` say, kept from the answer
of a job to that of the next.  Consecutive numbers less than `RangeSize` apart are different
boxes, modulo `RangeSize` as well (`SandboxesDiffer`).  No job is assumed to fit the
boxes of its shard: `BoxesAreOwn` says that each sandbox has its own files in its box of
those that do (`FitsShard`), and of all that the files of a sandbox that is not deleted are in no
other box than its own (`InPlace`), on which the rest relies.  The invariant was checked by TLC
in the instance of the run before it was proved.

`CleanFilesProofs` proves `ReadsAreWhole`, `ReferencesResolve` and
`RowsMatchObjects` for every set of digests and processes, any length of files and any number of
requests, deaths and runs of cmsCleanFiles.  The inductive invariant `StorageInv` says that
a large object belongs to one row or to one put, or leaked (`Owned`), that what is
in the cache is whole, and that a put about to refer to a file finds it stored, unless the run of
cmsCleanFiles has it on its list (`References`); `RacedAreKnown` ties that list to
`raced`, the exception in `ReferencesResolve`.  The properties are not inductive without each other: a
reference resolves since the put behind it found the file stored, and the file is whole
since its large object has one owner.

`RankingScoreProofs` proves `NothingRefused`, in an instance `Board!` of `Scoreboard`, for every number of submissions and
datasets and of disturbances.  The property speaks of the next request; what makes it hold is
said of all that is on its way.  While no request has failed, the basic data
are stored, in the batch or in the queue (`BasicIsUnderway`); what needs them does
not come before them (`BasicComesFirst`), and no score or token comes before its submission
(`SubmissionsComeFirst`).  The invariant `OrderInv` is kept since `NextData` sends the kinds in the order
the ranking needs them (`NextDataFields`) and since merging two operations of
one kind loses no key (`MergedFields`); a crash of the proxy empties queue and
batch and queues the basic data first.

The same module proves `NoOrphans` for every set of submissions and keys, as long as no
death has cut a file off.  Until then the files are those of the stores
(`UndamagedInv`), so that a start reads what was there; a subchange is refused without its
submission and a submission leaves with all its subchanges, or stays when the server dies half way.

Its largest part proves `HistoryIsExact`, for every set of submissions and
subchanges, whatever files were cut off, any number of subtasks, in every score mode and with submissions
and changes at the same time.  The inductive invariant `HistoryInv` says that the list of changes holds
the subchanges that are loaded, in the order of `Before` (`Listing`), and that the
Score is right when `replayed` (`Right`): not the history only, but each field
that `append_change` reads is the one by definition.  The status of
a submission is what its latest score and its tokens say (`Given`), the bag of
released scores tallies the submissions with a token (`ReleasedIs`), the last submission
is the one by definition (`LastIs`), and the score is what the history
ends with.  None of this can be left out, since the score in mode `max_tokened_last` is computed from
the bag and from the last submission alone.
`AppendChangeIsRight` shows that one more change, later than all before it, keeps a Score right
(`GivenNext`, `ReleasedNext`, `LastNext`, `ScoreNowIs`, `HistoryNext`).
From there `ReplayIsRight` follows, by induction on the list of changes, and with it
every action that resets the history; `CreateChangeIsRight` treats the two branches
of `create_subchange`, where `Position` is shown to be the right place
(`ListingInserted`).  A new submission resets nothing; `NewSubmissionIsRight` is
what the code relies on when it says that a submission without score never
changes the history, in mode `max_subtask` because it counts 0 in every subtask.
`FilesInv` says what the files hold, from where a start takes the stores, and only
the subchanges that `init_store` got to are in the Score.
Assumptions: scores are natural numbers, keys are numbers, a token is never taken
back.

`TriggeredServiceProofs` proves `QueueVerified` and `QueueSpec` for every number of
executors and operations, batches and heaps of every size.  The invariant
`ServiceInv` says of each queue (`QueueOK`) that its lookup gives for each item queued
the position of its entry and nothing else (`LookupExact`), that no two
entries have the same index, that no entry comes before its parent (`Ordered`), and that the event
is set while there is an entry.  The first part of the module is about the
operators alone.  While an entry rises the heap is in order but at that entry, and its
children do not come before its parent: that is what a round of `_up_heap` keeps, and when it
stops the order is there; `_down_heap` is treated in the same way.  The rounds are
counted, one position for each, so that the loop ends in its stopped state.  What
`Push`, `Pop`, `Remove` and `SetPriority` do to the entries follows: each changes one entry,
whatever it moves.  That `Top` is before every other entry comes from the order, up
the parents of any position.  With distinct indices the earliest entry is unique, so that each step of an executor is
one of `OperationQueue`: `QueueSpec`.  `QueueVerified` is what the method `_verify` of the code tests.
The code needs both halves of `_updown_heap`: `Remove` puts the last entry in
the place of another, from where it may have to go either way.
Assumption: what is to be done when the service starts is a finite set.

`ContestWebServerProofs` proves `LimitsHold`, `PhaseBoundaries` and `PhaseOnlyAdvances` for
every contest the database allows, every limits, frames, delays and extra times, and any number of requests at
once.  Its first part is about `ActualPhase` alone: `Phases` says that it cuts time into
the phases around one frame, whatever the kind of the contest, which gives `PhasesInTime` (a phase only gives way
to a later one), `StartingAdvances` and `BoundariesAreRight`.  The inductive invariant
`ContestInv` then has `NumbersInv`, which counts with each limit the requests that passed the
check and are still to be committed; `ChecksStand`, that what was checked alone is still right when
it is committed; and `BegunStay`, that who has sent something has begun and cannot
start any more.  The last one is needed for the intervals: another start would move the end of the frame, and
with it the last minutes that excused a submission sent too early.  The assumptions
are the constraints of the database and that what is there at instant 0 keeps the limits.

The second part proves `TokensAreEarned` and `TokensAvailableIsRight` for all rules that the
database permits.  `Growth` is the closed form of the bucket while no token is played (the periods that end in
a time, by `NextPeriod`, and a cap that may be applied late, by `AtMostFacts`), and `GrowthIsKnown` what
follows from it: the bucket gets no emptier by itself, and fuller exactly from the next period on, as the code says.
`SimulationIsRight` goes through the history with it, one token after the other;
`FiniteIsTruthful` and `MergeIsTruthful` then say that what `_tokens_available` and `tokens_available`
tell of one scope, and of two, is true (`Truthful`), provided that the bucket was never below zero.
That it was not is what the invariant `TokenInv` keeps, on top of `ContestInv`: `Earned` says that the tokens
committed are earned, in every scope, up to now; `TokenChecksStand` that a token that passed the check may still be
played; `TokensBefore` that no token is later than a request under way; and `TokensStay` that who
has played one cannot start any more.  `EarnedByPlaying` is the step in which a token is played.  The induction over histories
and over time is on a set of natural numbers (`InductionUpTo`), which the provers can
instantiate; `InOrderFacts` relates the sorted history to the set of tokens, by induction over its size.

`RPCProofs` proves `PendingIsUnderway` and `ResultsAreFinal` for every set of calls
and any number of connections: a call that is pending has its request, a thread of
the server, its answer or the end of its connection to come, and a result that is
set is never changed.  The inductive invariant `RPCInv` adds the types,
`ClientIsConsistent` (the client's connection is the last one made or none; nothing
is pending while there is none; a writer that holds the lock holds it for the
client's connection, unless its own is broken), `OpenHaveNoResult` (a call under
way has no result yet) and `NoOrphanMethods` (no thread of the server outlives its
connection).  That every call ends is liveness, and TLC's.

`LiveRankingProofs` proves `RanksAreExact` for every set of users, every scores and
every size of the cache.  `update_rank` compares ranks where it means scores:
`RanksFollowScores` says that exact ranks allow that, `RankMoves` by how much one
score moves the rank of another, and `UpdateRankIsExact` puts them together.  A user created
later starts with no points, below all others (`NewUserIsLast`), which is true only
of a user the page has not yet: `create_user` of a known one would reset the score and
leave the other ranks as they were.  So the inductive invariant `LiveInv` also says that each user
is created once and that the events still to come are later than all received
(`UsersAreNew`, `KeysInOrder`, `LoadsFirst`), whatever was lost.

`PageIsCurrent` is proved from it, in the same module.  `NothingLost` says what a page that is
`Covered` (it is connected and was not told to start again, or the cache still has an
event as old as the last it had) lacks of the server: for each user, what it does not
show is in an event to come or in an answer to come.  It holds at every
step because the cache drops its events in order (`PutDropsOldest`, by
`FirstIsLeast`), so that one old event left means that nothing later is gone, and because a
page that comes back under a lower id is only told more.  `LatestTells` says that the last score
event of a user, in the cache as in the queue, tells the score the server has.

## Not modelled

In EvaluationService: priorities, several datasets per task, the time and size thresholds of
the flush, the content of results.  In the ranking: files that cannot be written
or read, submissions that change their user, and contests, tasks, teams and
users as entities of their own; in its page also deleted users, and what draws it.  In the storage: `FSBackend`, `NullBackend`, the
purge of a cache and `check_backend_integrity`.  In the worker: command lines,
limits given to isolate, the comparison of outputs.  In ContestWebServer: which
files are accepted, login, questions, printing.  And the parts `PROJECT.json`
lists as `not_modelled`, with the reason.

## Plan

1. What stays with TLC: liveness (`EventuallySettled`, `CatchesUpWhenCalm`, `EverythingDone`, `EveryCallEnds`,
   `Reconnects`, `EveryGroupEnds`, `EverythingEnds`), beyond the proof system.  Every safety property
   of a passing run is proved.
2. A property of scores computed from evaluations that an invalidation wipes at
   the same time, the one hazard no property covers.
3. AdminWebServer's datasets; deleted users on the ranking page.
