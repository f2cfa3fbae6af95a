------------------------------- MODULE Worker ------------------------------
(* A Worker: groups of jobs arrive by RPC (service/Worker.py), each job    *)
(* goes through the sandboxes of its task type (grading/tasktypes), and    *)
(* each sandbox occupies one of the boxes of isolate that the shard may    *)
(* use (grading/Sandbox.py).  Other requests arrive while a group is being *)
(* executed, any call to isolate, to the file cacher or to the system may  *)
(* raise, and the process may die and start again.                         *)
EXTENDS TaskTypes

CONSTANTS
  Call,                  \* the requests execute_job_group of a run
  NoCall,
  Groups,                \* the groups of jobs there may be
  Logs,                  \* what a command may leave in the log of isolate
  Shard,
  RangeSize,             \* box ids per shard; 10 in the code
  MaxFaults              \* exceptions and deaths in a run

ASSUME WorkerAssumption ==
  /\ NoCall \notin Call /\ Shard \in Nat /\ MaxFaults \in Nat
  /\ RangeSize \in 1 .. 1000
  /\ Groups \subseteq Seq(JobType) \ {<<>>}
  /\ Logs \subseteq [status : SUBSET {"XX", "TO", "SG", "RE"}, wall : BOOLEAN,
                   oom : BOOLEAN, time : Nat]

VARIABLES
  calls,                 \* "new", "running", "jobs", "declined", "failed" or "lost"
  work_lock,             \* the call whose group is being executed
  jobs,                  \* the jobs of the group, as they are being filled
  at,                    \* the job being executed
  pc,                    \* ... and where it is
  live,                  \* its Sandbox objects, in the order of job.sandboxes
  stats,                 \* of its programs, until its output is checked
  closing,               \* sandboxes delete_sandbox was called on
  next_id,               \* IsolateSandbox.next_id
  boxes,                 \* whose files are in each box of isolate, if any
  dirs,                  \* the sandbox directories on disk
  made,                  \* how many directories were ever made
  left,                  \* those whose cleanup did not go through (a history variable)
  faults

job_vars == <<live, stats, closing>>
disk == <<next_id, boxes, dirs, made, left>>
vars == <<calls, work_lock, jobs, at, pc, job_vars, disk, faults>>

Tombstone == [tombstone |-> TRUE]
Clean == 0               \* no directory has this number

Box(n) == ((Shard + 1) * RangeSize + (n % RangeSize)) % 1000
BoxIds == {Box(n) : n \in 0 .. RangeSize - 1}

(* A job as it arrives; used are the directories made for it, and errors   *)
(* tells whether isolate, a checker or a manager failed under it.          *)
Blank(job) == [job |-> job, success |-> None, result |-> None, text |-> None, plus |-> <<>>,
               executables |-> FALSE, used |-> {}, errors |-> FALSE]

Init ==
  /\ calls = [c \in Call |-> "new"] /\ work_lock = NoCall
  /\ jobs = <<>> /\ at = 0 /\ pc = "idle"
  /\ live = <<>> /\ stats = None /\ closing = 0
  /\ next_id = 0 /\ boxes = [b \in BoxIds |-> Clean] /\ dirs = {} /\ made = 0
  /\ left = {}
  /\ faults = 0

Job == jobs[at].job

-----------------------------------------------------------------------------
(* execute_job_group.                                                      *)

(* The lock is taken without waiting, or the request is declined.          *)
Execute(c, group) ==
  /\ calls[c] = "new" /\ work_lock = NoCall
  /\ calls' = [calls EXCEPT ![c] = "running"]
  /\ work_lock' = c
  /\ jobs' = [i \in 1 .. Len(group) |-> Blank(group[i])]
  /\ at' = 1 /\ pc' = "begin"
  /\ UNCHANGED <<job_vars, disk, faults>>

Decline(c) ==
  /\ calls[c] = "new" /\ work_lock # NoCall
  /\ calls' = [calls EXCEPT ![c] = "declined"]
  /\ UNCHANGED <<work_lock, jobs, at, pc, job_vars, disk, faults>>

ForgetJob == live' = <<>> /\ stats' = None /\ closing' = 0

(* "finally": the lock is released whatever is answered.  The mutant       *)
(* releases it with the jobs alone.                                        *)
LeaveHolding(answer) ==
  /\ calls' = [calls EXCEPT ![work_lock] = answer]
  /\ work_lock' = IF answer = "jobs" THEN NoCall ELSE work_lock
  /\ pc' = "idle" /\ at' = 0 /\ jobs' = <<>>

Leave(answer) ==
  /\ calls' = [calls EXCEPT ![work_lock] = answer]
  /\ work_lock' = NoCall
  /\ pc' = "idle" /\ at' = 0 /\ jobs' = <<>>

(* Any exception but TombstoneError: JobException for the whole group.     *)
(* Nobody cleans up the sandboxes.                                         *)
Abort == Leave("failed") /\ ForgetJob /\ UNCHANGED disk

NextJob ==
  /\ pc = "end"
  /\ IF at < Len(jobs)
     THEN at' = at + 1 /\ pc' = "begin" /\ UNCHANGED <<calls, work_lock, jobs>>
     ELSE Leave("jobs")
  /\ ForgetJob
  /\ UNCHANGED <<disk, faults>>

-----------------------------------------------------------------------------
(* execute_job, step by step.                                              *)

Go(step) == pc' = step /\ UNCHANGED <<calls, work_lock, at>>

(* The job gets its results; a compilation also keeps its executable.      *)
FillJob(result, errors) ==
  jobs' = [jobs EXCEPT ![at].success = result.success, ![at].result = result.verdict,
                       ![at].text = result.text, ![at].plus = result.stats,
                       ![at].errors = errors,
                       ![at].executables = Job.kind = "compile" /\ ~NoProgram(Job)
                                             /\ result.verdict = TRUE]

(* What needs no sandbox: an output that is there to be checked, one that  *)
(* is not, and a program that lacks something (set_configuration_error).   *)
Begin ==
  /\ pc = "begin"
  /\ \/ /\ NoProgram(Job) /\ ChecksFile(Job)
        /\ stats' = <<>> /\ UNCHANGED jobs /\ Go("check")
     \/ /\ NoProgram(Job) /\ ~ChecksFile(Job)
        /\ FillJob(NoProgramResult(Job), FALSE) /\ UNCHANGED stats /\ Go("end")
     \/ /\ ~NoProgram(Job) /\ ~Job.configured
        /\ FillJob([Failure EXCEPT !.stats = jobs[at].plus], FALSE)
        /\ UNCHANGED stats /\ Go("end")
     \/ ~NoProgram(Job) /\ Job.configured /\ UNCHANGED <<jobs, stats>> /\ Go("create")
  /\ UNCHANGED <<live, closing, disk, faults>>

(* The constructor of IsolateSandbox: an id, a directory, and the box,     *)
(* emptied of what someone may have left in it.  The mutants never move to *)
(* the next id.                                                            *)
NewSandboxSameId ==
  LET b == Box(next_id) IN
  /\ next_id' = next_id
  /\ made' = made + 1 /\ dirs' = dirs \cup {made'}
  /\ boxes' = [boxes EXCEPT ![b] = made']
  /\ live' = Append(live, [box |-> b, dir |-> made'])
  /\ jobs' = [jobs EXCEPT ![at].used = jobs[at].used \cup {made'}]

NewSandbox ==
  LET b == Box(next_id) IN
  /\ next_id' = next_id + 1
  /\ made' = made + 1 /\ dirs' = dirs \cup {made'}
  /\ boxes' = [boxes EXCEPT ![b] = made']
  /\ live' = Append(live, [box |-> b, dir |-> made'])
  /\ jobs' = [jobs EXCEPT ![at].used = jobs[at].used \cup {made'}]

CreateSandbox ==
  /\ pc = "create"
  /\ NewSandbox
  /\ Go(IF Len(live') < Boxes(Job) THEN "create" ELSE "copy")
  /\ UNCHANGED <<stats, closing, left, faults>>

(* The files are copied in from the storage.                               *)
CopyFiles ==
  /\ pc = "copy"
  /\ Go("run")
  /\ UNCHANGED <<jobs, job_vars, disk, faults>>

(* TombstoneError: the executable was removed from the storage, and the    *)
(* submission has to be compiled again.  The sandboxes are left.           *)
FindTombstone ==
  /\ pc = "copy" /\ Job.kind = "evaluate"
  /\ jobs' = [jobs EXCEPT ![at].success = FALSE, ![at].plus = Tombstone]
  /\ Go("end")
  /\ UNCHANGED <<job_vars, disk, faults>>

(* Whether isolate failed under a command whose result is looked at, or    *)
(* the manager of Communication did not end well.  The commands that set   *)
(* up a program of Communication are not counted: the result of their      *)
(* trusted_step is dropped (Communication.py:358), and whatever isolate    *)
(* did under them the job may succeed.                                     *)
Errors(logs) ==
  LET Broken(log) == ExitStatus(log) = "sandbox error" IN
  \/ Job.kind = "compile" /\ Broken(Last(Executed(logs[1])))
  \/ /\ Job.kind = "evaluate" /\ Job.type \in {"Batch", "BatchAndOutput"}
     /\ \E i \in 1 .. Len(logs[1]) : Broken(logs[1][i])
  \/ /\ Job.kind = "evaluate" /\ Job.type \in {"TwoSteps", "Communication"}
     /\ \/ \E i \in 1 .. Len(logs) : Broken(Last(logs[i]))
        \/ Job.type = "Communication" /\ ExitStatus(logs[1][1]) # "ok"

(* The programs run, one in each box at the same time or the commands of a *)
(* single box in turn, and their results are collected.  output and        *)
(* manager are what the program and the manager of Communication wrote.    *)
Run ==
  /\ pc = "run"
  /\ \E ran \in [1 .. Len(live) -> UNION {[1 .. n -> Logs] : n \in 1 .. Job.commands}],
        output \in BOOLEAN, manager \in {None, "0.0", "1.0"} :
       LET outcome == Outcome(Job, ran, output, manager) IN
       /\ \A i \in 1 .. Len(live) : Len(ran[i]) = Commands(Job, i)
       /\ \/ outcome.then = "raise" /\ Abort
          \/ /\ outcome.then \in {"fill", "leave"}
             /\ FillJob(outcome.result, Errors(ran))
             /\ Go(IF outcome.then = "fill" THEN "delete" ELSE "end")
             /\ UNCHANGED <<job_vars, disk>>
          \/ /\ outcome.then = "check"
             /\ stats' = outcome.stats /\ Go("check")
             /\ UNCHANGED <<jobs, live, closing, disk>>
  /\ UNCHANGED faults

(* eval_output: white diff, or a checker that is missing, or a sandbox for *)
(* the checker.  There are no statistics of an OutputOnly job that failed. *)
Checked(result, errors) ==
  FillJob([result EXCEPT !.stats = IF Job.type = "OutputOnly" /\ ~result.success
                                   THEN None ELSE stats], errors)

Compare ==
  /\ pc = "check"
  /\ \/ Job.checker = "missing" /\ Checked(Failure, FALSE)
     \/ /\ Job.checker = "none"
        /\ \E outcome \in {"0.0", "1.0"} : Checked(Result(outcome, "diff", None), FALSE)
  /\ Go("delete")
  /\ UNCHANGED <<job_vars, disk, faults>>

CreateChecker ==
  /\ pc = "check" /\ Job.checker = "present"
  /\ NewSandbox
  /\ Go("checker")
  /\ UNCHANGED <<stats, closing, left, faults>>

(* The cleanup of a sandbox: isolate empties its box, and the directory is *)
(* removed if that was asked for.  An OSError (isolate that cannot be      *)
(* started, rmtree) is logged by delete_sandbox, and the job goes on with  *)
(* what there is: the directory, or the files in the box as well.          *)
CleanUp(sandbox, delete) ==
  LET emptied == [boxes EXCEPT ![sandbox.box] = Clean] IN
  \/ /\ boxes' = emptied
     /\ dirs' = IF delete THEN dirs \ {sandbox.dir} ELSE dirs
     /\ UNCHANGED <<left, faults>>
  \/ /\ faults < MaxFaults /\ faults' = faults + 1
     /\ \/ UNCHANGED boxes
        \/ delete /\ boxes' = emptied
     /\ left' = left \cup {sandbox.dir}
     /\ UNCHANGED dirs

(* checker_step, and delete_sandbox for its sandbox alone.                 *)
RunChecker ==
  /\ pc = "checker"
  /\ \E log \in Logs, outcome \in {None, "0.0", "1.0"} :
       LET step == CheckerStep(log, outcome) IN
       /\ Checked(step, ExitStatus(log) # "ok")
       /\ CleanUp(Last(live), step.success /\ ~Job.keep_sandbox)
  /\ live' = Front(live)
  /\ Go("delete")
  /\ UNCHANGED <<stats, closing, next_id, made>>

(* delete_sandbox: the directory goes with a success only.  The mutant     *)
(* looks at the configuration alone.                                       *)
RemovesAlways(job) == ~job.job.keep_sandbox
Removes(job) == job.success /\ ~job.job.keep_sandbox

DeleteSandbox ==
  /\ pc = "delete"
  /\ IF closing < Len(live)
     THEN /\ CleanUp(live[closing + 1], Removes(jobs[at]))
          /\ closing' = closing + 1 /\ UNCHANGED pc
     ELSE pc' = "end" /\ UNCHANGED <<closing, boxes, dirs, left, faults>>
  /\ UNCHANGED <<calls, work_lock, jobs, at, live, stats, next_id, made>>

(* Something raises: the system, isolate ("Failed to initialize sandbox",  *)
(* an unknown exit code), the file cacher, the archiving of a sandbox, and *)
(* in a cleanup what is no OSError (CalledProcessError, when isolate runs  *)
(* and cannot empty the box).                                              *)
Fail ==
  /\ pc \in {"create", "copy", "run", "check", "checker", "delete"}
  /\ faults < MaxFaults /\ faults' = faults + 1
  /\ Abort

(* The process dies and a new one takes over; the boxes are as they were.  *)
Crash ==
  /\ faults < MaxFaults /\ faults' = faults + 1
  /\ calls' = [c \in Call |-> IF calls[c] = "running" THEN "lost" ELSE calls[c]]
  /\ work_lock' = NoCall /\ pc' = "idle" /\ at' = 0 /\ jobs' = <<>>
  /\ next_id' = 0
  /\ ForgetJob
  /\ UNCHANGED <<boxes, dirs, made, left>>

Step ==
  \/ Begin \/ CreateSandbox \/ CopyFiles \/ FindTombstone \/ Run
  \/ Compare \/ CreateChecker \/ RunChecker \/ DeleteSandbox \/ NextJob

Next ==
  \/ \E c \in Call : Decline(c) \/ \E group \in Groups : Execute(c, group)
  \/ Step \/ Fail \/ Crash

(* A Worker that is executing a group goes on: every step is enabled when  *)
(* its place is reached, so its fairness is spelled out.                   *)
Spec == Init /\ [][Next]_vars /\ ([]<>(pc = "idle") \/ []<><<Step>>_vars)

-----------------------------------------------------------------------------
(* Types, and the lock is held exactly while a group is executed, by the   *)
(* one request that is being served.                                       *)
TypeOK ==
  /\ work_lock \in Call \cup {NoCall}
  /\ \A c \in Call : /\ calls[c] \in {"new", "running", "jobs", "declined", "failed", "lost"}
                     /\ calls[c] = "running" <=> work_lock = c
  /\ (pc = "idle") = (work_lock = NoCall)
  /\ at \in 0 .. Len(jobs) /\ closing \in 0 .. Len(live)
  /\ dirs \subseteq 1 .. made /\ left \subseteq 1 .. made
  /\ \A b \in BoxIds : boxes[b] \in 0 .. made

Answered == {i \in {at} : pc = "end"}

(* BatchAndOutput takes a failure of the sandbox for a file that was not   *)
(* submitted; what is said of the others is said of it otherwise.          *)
Swallowed(job) == job.job.type = "BatchAndOutput" /\ job.errors

(* What EvaluationService relies on (Job.to_submission): a job that        *)
(* succeeded has its verdict, text and statistics, and, compiled, its      *)
(* executable exactly with a good verdict; one that did not has neither.   *)
JobContract ==
  \A i \in Answered :
    /\ jobs[i].success \in BOOLEAN
    /\ jobs[i].success => /\ jobs[i].result # None /\ jobs[i].text # None
                          /\ jobs[i].plus # None /\ jobs[i].plus # Tombstone
    /\ ~jobs[i].success => jobs[i].result = None /\ ~jobs[i].executables
    /\ jobs[i].job.kind = "compile" /\ ~NoProgram(jobs[i].job) =>
         (jobs[i].executables <=> jobs[i].result = TRUE)

(* When isolate fails under a program, or a checker or manager does not    *)
(* end well, nobody gets a verdict for it (delete_sandbox, and the retries *)
(* of EvaluationService, depend on success being about "our                *)
(* infrastructure").                                                       *)
FaultsAreNoVerdicts ==
  \A i \in Answered : jobs[i].success /\ ~Swallowed(jobs[i]) => ~jobs[i].errors

(* Whether the boxes of the shard are enough for a job.  Nobody looks:     *)
(* Communication takes as many processes as its parameters say.            *)
FitsShard(job) == Boxes(job) + (IF job.checker = "present" THEN 1 ELSE 0) <= RangeSize

(* Two Sandbox objects of a job share a box of isolate only when RangeSize *)
(* others are created from the one to the next; and when the job fits the  *)
(* shard each of them has its own files in its box.  All this whatever     *)
(* earlier jobs, failures and deaths left there.                           *)
BoxesAreOwn ==
  \A i \in closing + 1 .. Len(live) :
    /\ \A j \in i + 1 .. Len(live) : j < i + RangeSize => live[i].box # live[j].box
    /\ FitsShard(Job) => boxes[live[i].box] = live[i].dir

(* A job that succeeds leaves no directory behind and its boxes clean, but *)
(* for those whose cleanup met an OSError; one that does not succeed keeps *)
(* them all, the checker's too, for the admins.                            *)
DirectoriesFollowSuccess ==
  \A i \in Answered :
    IF jobs[i].success /\ ~jobs[i].job.keep_sandbox /\ ~Swallowed(jobs[i])
    THEN jobs[i].used \cap (dirs \cup {boxes[b] : b \in BoxIds}) \subseteq left
    ELSE jobs[i].used \subseteq dirs

(* Every request is answered, or lost with the process, and the Worker can *)
(* take another one.                                                       *)
EveryGroupEnds ==
  /\ \A c \in Call : (calls[c] = "running") ~> (calls[c] # "running")
  /\ (work_lock # NoCall) ~> (work_lock = NoCall)

(* tasktypes/abc.py on success: "to False when the evaluation fails        *)
(* because of environmental problems".                                     *)
SuccessIsInfrastructure == \A i \in Answered : jobs[i].errors => ~jobs[i].success
=============================================================================
