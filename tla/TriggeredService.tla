-------------------------- MODULE TriggeredService -------------------------
(* cms/io/triggeredservice.py: a service that is asked for operations,     *)
(* queues each of them for every one of its executors, and sweeps now and  *)
(* then for those nobody asked for.  What an operation does is left to the *)
(* services; here it is needed by an executor until its execution succeeds.*)
EXTENDS Integers, Sequences, FiniteSets

CONSTANTS
  MaxExecutors,          \* at most so many executors are added
  Operation,             \* integers, in the order in which a sweep finds them
  Priority, Timestamp,   \* sets of integers
  BatchLimit,            \* max_operations_per_batch, or 1 without batch executions
  Scenarios              \* what the runs start from: how many executors are added,
                         \* the priority and timestamp each operation is asked
                         \* with, the operations needed at first, and how often
                         \* each of FaultKinds may happen

FaultKinds == {"notified", "lost", "failure", "dequeue", "priority", "sweep", "ask", "restart"}

ASSUME TriggeredServiceAssumption ==
  /\ MaxExecutors \in Nat /\ BatchLimit \in Nat
  /\ Operation \subseteq Int /\ Priority \subseteq Int /\ Timestamp \subseteq Int
  /\ \A s \in Scenarios :
       /\ s.executors \in 1 .. MaxExecutors
       /\ DOMAIN s.request \subseteq Operation
       /\ \A op \in DOMAIN s.request : s.request[op] \in Priority \X Timestamp
       /\ s.needed \subseteq DOMAIN s.request /\ IsFiniteSet(s.needed)
       /\ s.faults \in [FaultKinds -> Nat]

Q == INSTANCE PriorityQueue

VARIABLES
  queues,                \* Executor._operation_queue, of each executor
  to_execute,            \* what run() has popped and is executing
  waiting,               \* the executors whose pop waits for the event
  needed,                \* the operations each executor still has to do
  request,               \* priority and timestamp of the operations, fixed
  sweeper,               \* where _sweeper_loop is: "sweeping" or "waiting"
  sweeper_event,
  faults                 \* what is left of the budget of notifications,
                         \* faults and interruptions

queueVars == <<queues, to_execute, waiting>>
sweeperVars == <<sweeper, sweeper_event>>
vars == <<queues, to_execute, waiting, needed, request, sweeper, sweeper_event, faults>>

Executor == DOMAIN queues
Spend(kind) == faults[kind] > 0 /\ faults' = [faults EXCEPT ![kind] = @ - 1]

Init ==
  \E s \in Scenarios :
    /\ queues = [e \in 1 .. s.executors |-> Q!EmptyQueue]
    /\ to_execute = [e \in 1 .. s.executors |-> <<>>]
    /\ waiting = {}
    /\ request = s.request
    /\ needed = [e \in 1 .. s.executors |-> s.needed]
    /\ sweeper = "sweeping" /\ sweeper_event = FALSE
    /\ faults = s.faults

-----------------------------------------------------------------------------
(* Executor.enqueue, and TriggeredService.enqueue on every executor.       *)
Queued(q, op) == Q!Push(q, op, request[op][1], request[op][2])

QueuedFirst(s) ==
  LET op == CHOOSE first \in s.ops : \A other \in s.ops : first <= other
  IN [queue |-> Queued(s.queue, op), ops |-> s.ops \ {op}]

QueuedAll(q, ops) ==
  LET after[n \in 0 .. Cardinality(ops)] ==
        IF n = 0 THEN [queue |-> q, ops |-> ops] ELSE QueuedFirst(after[n - 1])
  IN after[Cardinality(ops)].queue

EnqueueAll(ops) == queues' = [e \in Executor |-> QueuedAll(queues[e], ops)]

(* An operation becomes necessary, and the call that asks for it is served *)
(* or lost.                                                                *)
Notified(op) ==
  /\ \A e \in Executor : op \notin needed[e]
  /\ needed' = [e \in Executor |-> needed[e] \cup {op}]
  /\ \/ Spend("notified") /\ EnqueueAll({op})
     \/ Spend("lost") /\ UNCHANGED queues
  /\ UNCHANGED <<to_execute, waiting, request, sweeperVars>>

-----------------------------------------------------------------------------
(* run(): pop(wait=True) on an empty queue blocks until the event is set,  *)
(* and looks again.                                                        *)
Wait(e) ==
  /\ e \in Executor
  /\ to_execute[e] = <<>>
  /\ queues[e].heap = <<>>
  /\ e \notin waiting \/ queues[e].event
  /\ waiting' = waiting \cup {e}
  /\ UNCHANGED <<queues, to_execute, needed, request, sweeperVars, faults>>

(* The entries popped in one go, with the queue they leave.                *)
PopInto(s) == [queue |-> Q!Pop(s.queue), taken |-> Append(s.taken, Q!Top(s.queue))]

Popped(q, size) ==
  LET after[n \in 0 .. size] ==
        IF n = 0 THEN [queue |-> q, taken |-> <<>>] ELSE PopInto(after[n - 1])
  IN after[size]

BatchSize(q) ==
  IF BatchLimit = 0 \/ Len(q.heap) < BatchLimit THEN Len(q.heap) ELSE BatchLimit

(* What pop(wait=True) waits for.                                          *)
CanTake(e) ==
  /\ e \in Executor
  /\ to_execute[e] = <<>>
  /\ queues[e].heap # <<>>
  /\ e \notin waiting \/ queues[e].event

(* run(): the first pop, and those that fill the batch, without a pause.   *)
Take(e) ==
  /\ CanTake(e)
  /\ \E popped \in {Popped(queues[e], BatchSize(queues[e]))} :
       /\ queues' = [queues EXCEPT ![e] = popped.queue]
       /\ to_execute' = [to_execute EXCEPT ![e] = popped.taken]
  /\ waiting' = waiting \ {e}
  /\ UNCHANGED <<needed, request, sweeperVars, faults>>

(* execute() returns, or raises and the loop goes on.                      *)
Done(e) == {to_execute[e][i].item : i \in DOMAIN to_execute[e]}

Executed(e) ==
  /\ e \in Executor
  /\ to_execute[e] # <<>>
  /\ to_execute' = [to_execute EXCEPT ![e] = <<>>]
  /\ \/ needed' = [needed EXCEPT ![e] = @ \ Done(e)] /\ UNCHANGED faults
     \/ Spend("failure") /\ UNCHANGED needed
  /\ UNCHANGED <<queues, waiting, request, sweeperVars>>

-----------------------------------------------------------------------------
(* TriggeredService.dequeue, of an operation that is not needed any more:  *)
(* the executors in turn, until one of them does not have it (KeyError).   *)
Dequeue(op) ==
  /\ Spend("dequeue")
  /\ \E e \in Executor : Q!Contains(queues[e], op)
  /\ queues' = [e \in Executor |->
                  IF \A before \in 1 .. e : Q!Contains(queues[before], op)
                  THEN Q!Remove(queues[e], op) ELSE queues[e]]
  /\ needed' = [e \in Executor |-> needed[e] \ {op}]
  /\ UNCHANGED <<to_execute, waiting, request, sweeperVars>>

(* PriorityQueue.set_priority, which the queue offers its executor.        *)
SetPriority(e, op, priority) ==
  /\ Spend("priority")
  /\ Q!Contains(queues[e], op)
  /\ queues' = [queues EXCEPT ![e] = Q!SetPriority(@, op, priority)]
  /\ UNCHANGED <<to_execute, waiting, needed, request, sweeperVars>>

-----------------------------------------------------------------------------
(* _sweeper_loop: a sweep starts, because one was asked for or the timeout *)
(* passed.  The first starts with the service.                             *)
SweepStart ==
  /\ sweeper = "waiting"
  /\ sweeper' = "sweeping"
  /\ sweeper_event' = FALSE
  /\ UNCHANGED <<queueVars, needed, request, faults>>

(* _sweep finds what is needed and enqueues it.  The mutant misses what     *)
(* some executors have done.                                               *)
SweepEndOfUntouched ==
  /\ sweeper = "sweeping"
  /\ sweeper' = "waiting"
  /\ \/ /\ EnqueueAll({op \in DOMAIN request : \A e \in Executor : op \in needed[e]})
        /\ UNCHANGED faults
     \/ Spend("sweep") /\ UNCHANGED queues
  /\ UNCHANGED <<to_execute, waiting, needed, request, sweeper_event>>

SweepEnd ==
  /\ sweeper = "sweeping"
  /\ sweeper' = "waiting"
  /\ \/ EnqueueAll(UNION {needed[e] : e \in Executor}) /\ UNCHANGED faults
     \/ Spend("sweep") /\ UNCHANGED queues
  /\ UNCHANGED <<to_execute, waiting, needed, request, sweeper_event>>

(* search_operations_not_done                                              *)
SearchOperationsNotDone ==
  /\ Spend("ask")
  /\ sweeper_event' = TRUE
  /\ UNCHANGED <<queueVars, needed, request, sweeper>>

(* The service dies, and starts again.                                     *)
Restart ==
  /\ Spend("restart")
  /\ queues' = [e \in Executor |-> Q!EmptyQueue]
  /\ to_execute' = [e \in Executor |-> <<>>]
  /\ waiting' = {}
  /\ sweeper' = "sweeping" /\ sweeper_event' = FALSE
  /\ UNCHANGED <<needed, request>>

-----------------------------------------------------------------------------
Next ==
  \/ \E op \in DOMAIN request : Notified(op) \/ Dequeue(op)
  \/ \E e \in Executor :
       \/ Wait(e) \/ Take(e) \/ Executed(e)
       \/ \E op \in DOMAIN request, p \in Priority : SetPriority(e, op, p)
  \/ SweepStart \/ SweepEnd \/ SearchOperationsNotDone \/ Restart

Spec == Init /\ [][Next]_vars

\* Greenlets that can run do, and the sweeper's timeout passes.  The first and
\* the last line are WF_vars(Take(e)) and WF_vars(SweepEnd), with the condition
\* that enables the action in place of ENABLED, which costs TLC too much here.
FairSpec ==
  /\ Spec
  /\ \A e \in 1 .. MaxExecutors :
       /\ []<>~CanTake(e) \/ []<><<Take(e)>>_vars
       /\ WF_vars(Wait(e)) /\ WF_vars(Executed(e))
  /\ WF_vars(SweepStart)
  /\ []<>(sweeper # "sweeping") \/ []<><<SweepEnd>>_vars

-----------------------------------------------------------------------------
(* Properties.                                                             *)
QueueEntry == Q!Entry(0, 0, 0, 0)

\* The variables have their types; a batch has at most the entries allowed.
TypeOK ==
  /\ Executor \subseteq 1 .. MaxExecutors /\ DOMAIN to_execute = Executor
  /\ \A e \in Executor :
       /\ \A entry \in Q!Entries(queues[e]) :
            /\ DOMAIN entry = DOMAIN QueueEntry
            /\ entry.item \in Operation /\ entry.priority \in Priority
            /\ entry.timestamp \in Timestamp /\ entry.index \in Nat
       /\ queues[e].event \in BOOLEAN
       /\ BatchLimit # 0 => Len(to_execute[e]) <= BatchLimit
  /\ waiting \subseteq Executor
  /\ needed \in [Executor -> SUBSET Operation]
  /\ sweeper \in {"sweeping", "waiting"} /\ sweeper_event \in BOOLEAN

\* PriorityQueue._verify: after any sequence of pushes, pops, removals and
\* changes of priority the lookup holds the position of every queued item and
\* nothing else, and the event is set exactly while there is an item.
QueueVerified ==
  \A e \in Executor :
    LET q == queues[e] IN
    /\ DOMAIN q.reverse = {entry.item : entry \in Q!Entries(q)}
    /\ \A i \in DOMAIN q.heap : q.reverse[q.heap[i].item] = i - 1
    /\ q.event <=> q.heap # <<>>

\* Every queue implements the abstract one: whatever was removed or changed in
\* between, Executor.run is given the entries in order, none twice, none lost.
Abstract(e) ==
  INSTANCE OperationQueue WITH
    pending <- Q!Entries(queues[e]),
    taken <- to_execute[e]

QueueSpec ==
  /\ \A e \in Executor : Abstract(e)!Init
  /\ [][\A e \in Executor : [Abstract(e)!Next]_(Abstract(e)!vars)]_vars

\* The point of the pattern: whatever notifications are lost, executions fail,
\* sweeps fail and restarts happen, all that is needed gets done by every
\* executor.
EverythingDone == <>[](\A e \in Executor : needed[e] = {})
=============================================================================
