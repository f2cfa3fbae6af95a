-------------------------------- MODULE RPC --------------------------------
(* cms/io/rpc.py: a RemoteServiceClient that reconnects by itself, and the *)
(* RemoteServiceServer that serves each of its connections.  Connections   *)
(* are numbered as they are made; a message is the call it belongs to.     *)
(*                                                                         *)
(* A greenlet gives way while it reads, while a write does not fit the     *)
(* buffers of the socket, while it waits for the lock of the writers, and  *)
(* while a method runs: the steps below are what happens in between.       *)
EXTENDS Integers, FiniteSets

CONSTANTS
  Call,                 \* the calls to execute_rpc, one request each
  MaxConnections,       \* bound: connections ever made
  Scenarios             \* the alternatives for the calls with a request too large
                        \* for the buffers (large), those with a response larger
                        \* than MAX_MESSAGE_SIZE (oversize), and how often the
                        \* link breaks, the server dies, the client disconnects

Connection == 1 .. MaxConnections
FaultKinds == {"break", "crash", "disconnect"}

ASSUME RPCAssumption ==
  /\ MaxConnections \in Nat
  /\ \A s \in Scenarios :
       /\ s.large \subseteq Call /\ s.oversize \subseteq Call
       /\ s.faults \in [FaultKinds -> Nat]

VARIABLES
  connection,           \* the client's connection; 0 when it is not connected
  made,                 \* connections made so far
  loop,                 \* _run: "connecting", "reading" or "stopped"
  call,                 \* [Call -> "idle" | "queued" | "writing" | "returned"]
  writing,              \* the connection of the writer that holds the lock, or 0
  pending,              \* pending_outgoing_requests
  result,               \* [Call -> "none" | "answer" | "error"], the AsyncResult
  called,               \* the calls whose callback has run
  incoming,             \* responses read, their greenlets not run yet
  broken,               \* the connections whose link is broken
  requests, responses,  \* [Connection -> SUBSET Call], on their way
  served,               \* the connections a RemoteServiceServer is serving
  running,              \* [Connection -> SUBSET Call], methods being executed
  executed,             \* the calls whose method ran to its end
  serverUp,
  sizes,                \* the sizes of the messages, fixed
  faults                \* what is left of the budget of faults

connVars == <<connection, made, loop>>
callVars == <<call, writing, pending, result, called>>
linkVars == <<broken, requests, responses>>
serverVars == <<served, running, executed, serverUp>>
vars == <<connection, made, loop, call, writing, pending, result, called, incoming,
          broken, requests, responses, served, running, executed, serverUp, sizes, faults>>

Spend(kind) == faults[kind] > 0 /\ faults' = [faults EXCEPT ![kind] = @ - 1]

Init ==
  /\ connection = 0 /\ made = 0 /\ loop = "connecting"
  /\ call = [c \in Call |-> "idle"]
  /\ writing = 0
  /\ pending = {} /\ incoming = {} /\ called = {}
  /\ result = [c \in Call |-> "none"]
  /\ broken = {}
  /\ requests = [k \in Connection |-> {}] /\ responses = [k \in Connection |-> {}]
  /\ served = {} /\ running = [k \in Connection |-> {}] /\ executed = {}
  /\ serverUp = TRUE
  /\ \E s \in Scenarios : /\ sizes = [large |-> s.large, oversize |-> s.oversize]
                          /\ faults = s.faults

-----------------------------------------------------------------------------
(* The client's connection.                                                *)

(* _connect, on a server that listens; otherwise _run sleeps and retries.  *)
Connect ==
  /\ loop = "connecting"
  /\ serverUp
  /\ made < MaxConnections
  /\ made' = made + 1
  /\ connection' = made'
  /\ served' = served \cup {made'}
  /\ loop' = "reading"
  /\ UNCHANGED <<callVars, incoming, linkVars, running, executed, serverUp, sizes, faults>>

(* RemoteServiceClient.finalize, with `failed' the calls that get an error *)
(* of their own.  The mutants forget the pending calls, or keep them.      *)
FinalizeForgetting(failed) ==
  /\ connection' = 0
  /\ result' = [c \in Call |-> IF c \in failed THEN "error" ELSE result[c]]
  /\ pending' = {}

FinalizeKeeping(failed) ==
  /\ connection' = 0
  /\ result' = [c \in Call |-> IF c \in failed THEN "error" ELSE result[c]]
  /\ pending' = pending

Finalize(failed) ==
  /\ connection' = 0
  /\ result' = [c \in Call |->
                  IF c \in failed \cup pending THEN "error" ELSE result[c]]
  /\ pending' = {}

(* run: _read returns a response, and is called again; it refuses when the *)
(* connection is gone meanwhile.                                           *)
Read(c) ==
  /\ loop = "reading"
  /\ c \in responses[made]
  /\ responses' = [responses EXCEPT ![made] = @ \ {c}]
  /\ incoming' = incoming \cup {c}
  /\ loop' = IF connection = 0 THEN "connecting" ELSE loop
  /\ UNCHANGED <<connection, made, callVars, broken, requests, serverVars, sizes, faults>>

(* run: _read finds the link broken.  The mutant does not leave run.       *)
ReadFailsReadingOn ==
  /\ loop = "reading"
  /\ made \in broken
  /\ Finalize({})
  /\ UNCHANGED <<made, loop, call, writing, called, incoming, linkVars, serverVars, sizes, faults>>

ReadFails ==
  /\ loop = "reading"
  /\ made \in broken
  /\ Finalize({})
  /\ loop' = "connecting"
  /\ UNCHANGED <<made, call, writing, called, incoming, linkVars, serverVars, sizes, faults>>

(* disconnect, when connected: the loop is killed for good.                *)
Disconnect ==
  /\ Spend("disconnect")
  /\ connection # 0
  /\ broken' = broken \cup {connection}
  /\ Finalize({})
  /\ loop' = "stopped"
  /\ UNCHANGED <<made, call, writing, called, incoming, requests, responses, serverVars, sizes>>

-----------------------------------------------------------------------------
(* execute_rpc.                                                            *)

(* The end of a call that fails without a connection to finalize.          *)
FailsAtOnce(c) ==
  /\ call' = [call EXCEPT ![c] = "returned"]
  /\ result' = [result EXCEPT ![c] = "error"]
  /\ UNCHANGED <<connVars, writing, pending, called, incoming, linkVars, serverVars, sizes, faults>>

(* The request is in the socket, and the call is stored.                   *)
Sent(c) ==
  /\ requests' = [requests EXCEPT ![connection] =
                    IF connection \in broken THEN @ ELSE @ \cup {c}]
  /\ pending' = pending \cup {c}
  /\ call' = [call EXCEPT ![c] = "returned"]
  /\ UNCHANGED <<connVars, result, called, incoming, broken, responses, serverVars, sizes, faults>>

(* Writing raises OSError: whatever connection the client has is finalized,*)
(* its reader is not told.                                                 *)
WriteFails(c) ==
  /\ Finalize({c})
  /\ call' = [call EXCEPT ![c] = "returned"]
  /\ UNCHANGED <<made, loop, called, incoming, linkVars, serverVars, sizes, faults>>

(* _write with the lock, on the current connection.  A small request is    *)
(* written at once; a broken link may or may not be noticed.               *)
Write(c) ==
  \/ c \notin sizes.large /\ Sent(c) /\ UNCHANGED writing
  \/ c \notin sizes.large /\ connection \in broken /\ WriteFails(c) /\ UNCHANGED writing
  \/ /\ c \in sizes.large
     /\ writing' = connection
     /\ call' = [call EXCEPT ![c] = "writing"]
     /\ UNCHANGED <<connVars, pending, result, called, incoming, linkVars, serverVars, sizes,
                    faults>>

(* execute_rpc up to where it first gives way.                             *)
ExecuteRpc(c) ==
  /\ call[c] = "idle"
  /\ \/ connection = 0 /\ FailsAtOnce(c)
     \/ connection # 0 /\ writing = 0 /\ Write(c)
     \/ /\ connection # 0 /\ writing # 0
        /\ call' = [call EXCEPT ![c] = "queued"]
        /\ UNCHANGED <<connVars, writing, pending, result, called, incoming, linkVars,
                       serverVars, sizes, faults>>

(* A call that waited for the lock gets it.                                *)
LockAcquired(c) ==
  /\ call[c] = "queued"
  /\ writing = 0
  /\ \/ connection = 0 /\ FailsAtOnce(c)
     \/ connection # 0 /\ Write(c)

(* The rest of a large request is in the socket, whose link is not broken: *)
(* nobody else finalizes such a connection while this writer has the lock. *)
WriteEnds(c) ==
  /\ call[c] = "writing"
  /\ writing \notin broken
  /\ Sent(c)
  /\ writing' = 0

(* It turns out that the link of the large request is broken.  The client  *)
(* may have another connection by now, which is finalized nevertheless.    *)
WriteBreaks(c) ==
  /\ call[c] = "writing"
  /\ writing \in broken
  /\ WriteFails(c)
  /\ writing' = 0

(* process_incoming_response; nothing for a call that is not pending.  The *)
(* mutant does not look.                                                   *)
ProcessIncomingResponseTwice(c) ==
  /\ c \in incoming
  /\ incoming' = incoming \ {c}
  /\ pending' = pending \ {c}
  /\ result' = [result EXCEPT ![c] = "answer"]
  /\ UNCHANGED <<connVars, call, writing, called, linkVars, serverVars, sizes, faults>>

ProcessIncomingResponse(c) ==
  /\ c \in incoming
  /\ incoming' = incoming \ {c}
  /\ pending' = pending \ {c}
  /\ result' = [result EXCEPT ![c] = IF c \in pending THEN "answer" ELSE @]
  /\ UNCHANGED <<connVars, call, writing, called, linkVars, serverVars, sizes, faults>>

(* run_callback, in a greenlet spawned when the result is set.             *)
RunCallback(c) ==
  /\ result[c] # "none"
  /\ c \notin called
  /\ called' = called \cup {c}
  /\ UNCHANGED <<connVars, call, writing, pending, result, incoming, linkVars, serverVars, sizes,
                 faults>>

-----------------------------------------------------------------------------
(* The server.                                                             *)

(* run and process_incoming_request: the method starts.                    *)
Serve(k, c) ==
  /\ k \in served
  /\ c \in requests[k]
  /\ requests' = [requests EXCEPT ![k] = @ \ {c}]
  /\ running' = [running EXCEPT ![k] = @ \cup {c}]
  /\ UNCHANGED <<connVars, callVars, incoming, broken, responses, served, executed, serverUp,
                 sizes, faults>>

(* RemoteServiceServer.finalize: the requests of the connection are killed.*)
ServerFinalize(k) ==
  /\ served' = served \ {k}
  /\ running' = [running EXCEPT ![k] = {}]

(* The end of process_incoming_request: the method returns or raises, and  *)
(* the response is written.  One that is too large is dropped; a broken    *)
(* link loses it, or is noticed.                                           *)
Respond(k, c) ==
  /\ c \in running[k]
  /\ executed' = executed \cup {c}
  /\ \/ /\ responses' = [responses EXCEPT ![k] =
                           IF c \in sizes.oversize \/ k \in broken THEN @ ELSE @ \cup {c}]
        /\ running' = [running EXCEPT ![k] = @ \ {c}]
        /\ UNCHANGED served
     \/ /\ k \in broken /\ c \notin sizes.oversize
        /\ ServerFinalize(k)
        /\ UNCHANGED responses
  /\ UNCHANGED <<connVars, callVars, incoming, broken, requests, serverUp, sizes, faults>>

(* run: the server's reader finds the link broken.                         *)
ServerReadFails(k) ==
  /\ k \in served /\ k \in broken
  /\ ServerFinalize(k)
  /\ UNCHANGED <<connVars, callVars, incoming, linkVars, executed, serverUp, sizes, faults>>

-----------------------------------------------------------------------------
(* What goes wrong around them.                                            *)
Break(k) ==
  /\ Spend("break")
  /\ k \in 1 .. made \ broken
  /\ broken' = broken \cup {k}
  /\ \E lost \in {{}, responses[k]} : responses' = [responses EXCEPT ![k] = @ \ lost]
  /\ requests' = [requests EXCEPT ![k] = {}]
  /\ UNCHANGED <<connVars, callVars, incoming, serverVars, sizes>>

ServerDies ==
  /\ Spend("crash")
  /\ serverUp
  /\ serverUp' = FALSE
  /\ served' = {}
  /\ running' = [k \in Connection |-> {}]
  /\ requests' = [k \in Connection |-> {}]
  /\ broken' = 1 .. made
  /\ UNCHANGED <<connVars, callVars, incoming, responses, executed, sizes>>

ServerStarts ==
  /\ ~serverUp
  /\ serverUp' = TRUE
  /\ UNCHANGED <<connVars, callVars, incoming, linkVars, served, running, executed, sizes, faults>>

-----------------------------------------------------------------------------
ClientStep ==
  \/ Connect \/ ReadFails
  \/ \E c \in Call :
       \/ Read(c) \/ LockAcquired(c) \/ WriteEnds(c) \/ WriteBreaks(c)
       \/ ProcessIncomingResponse(c) \/ RunCallback(c)

ServerStep ==
  \/ \E k \in Connection, c \in Call : Serve(k, c) \/ Respond(k, c)
  \/ \E k \in Connection : ServerReadFails(k)

Next ==
  \/ ClientStep \/ ServerStep
  \/ \E c \in Call : ExecuteRpc(c)
  \/ Disconnect
  \/ \E k \in Connection : Break(k)
  \/ ServerDies \/ ServerStarts

Spec == Init /\ [][Next]_vars

\* Greenlets that can run do, methods return, a broken link is noticed, a
\* service that died is started again.  Nobody has to call or to fail.
FairSpec ==
  /\ Spec
  /\ WF_vars(Connect) /\ WF_vars(ReadFails) /\ WF_vars(ServerStarts)
  /\ \A c \in Call :
       /\ WF_vars(Read(c)) /\ SF_vars(LockAcquired(c))
       /\ WF_vars(WriteEnds(c)) /\ WF_vars(WriteBreaks(c))
       /\ WF_vars(ProcessIncomingResponse(c)) /\ WF_vars(RunCallback(c))
  /\ \A k \in Connection :
       /\ WF_vars(ServerReadFails(k))
       /\ \A c \in Call : WF_vars(Serve(k, c)) /\ WF_vars(Respond(k, c))

-----------------------------------------------------------------------------
(* Properties.                                                             *)

\* The variables have their types, and the pending calls have been sent.
TypeOK ==
  /\ connection \in 0 .. made /\ made \in 0 .. MaxConnections
  /\ loop \in {"connecting", "reading", "stopped"}
  /\ call \in [Call -> {"idle", "queued", "writing", "returned"}]
  /\ writing \in 0 .. made
  /\ pending \subseteq {c \in Call : call[c] = "returned"}
  /\ result \in [Call -> {"none", "answer", "error"}]
  /\ called \subseteq Call /\ incoming \subseteq Call /\ executed \subseteq Call
  /\ broken \subseteq 1 .. made /\ served \subseteq 1 .. made
  /\ requests \in [Connection -> SUBSET Call] /\ responses \in [Connection -> SUBSET Call]
  /\ running \in [Connection -> SUBSET Call]
  /\ serverUp \in BOOLEAN

\* finalize against late responses: a caller that was told of an error is not
\* given an answer afterwards, and none is told twice.
ResultsAreFinal ==
  [][\A c \in Call : result[c] # "none" => result'[c] = result[c]]_vars

\* Where the answer to call c may still come from.
Underway(c) ==
  \/ c \in incoming
  \/ \E k \in Connection :
       /\ k = made
       /\ c \in requests[k] \cup running[k] \cup responses[k] \/ k \in broken

\* finalize and execute_rpc: a call is only left pending while its answer may
\* still come through the client's own connection, or the end of it will
\* come.  Calls whose response the server drops are the exception.
PendingIsUnderway == \A c \in pending : Underway(c) \/ c \in sizes.oversize

\* Methods run for the callers of a living connection: once its server has
\* finalized it, none of its requests is being executed.
NoOrphanMethods == \A k \in Connection : running[k] # {} => k \in served

\* Every call ends, and its callback runs: with the answer, or with an error
\* once the connection is lost, unless its response is too large.
EveryCallEnds ==
  \A c \in Call :
    (call[c] # "idle" /\ c \notin sizes.oversize) ~> (c \in called)

\* auto_retry: unless it was told to disconnect, the client is connected for
\* good once links stop breaking and servers stop dying.  Requests that block
\* the writer are the exception: one that outlives its connection finalizes
\* the next one, whose reader then waits for a server that has nothing to say.
Reconnects == sizes.large = {} => <>[](connection # 0 \/ loop = "stopped")
=============================================================================
