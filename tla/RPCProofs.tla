----------------------------- MODULE RPCProofs -----------------------------
(***************************************************************************)
(* The safety of RPC, for every set of calls, number of connections, sizes *)
(* of messages and budget of faults.                                       *)
(***************************************************************************)
EXTENDS RPC, TLAPS

(* Where the client is: connected to the last connection made or to none,  *)
(* with nothing pending when to none; and a writer holds the lock for one  *)
(* call, on a connection that is the client's own unless it is broken.     *)
ClientIsConsistent ==
  /\ connection \in {0, made}
  /\ connection = 0 => pending = {}
  /\ loop = "reading" => made # 0
  /\ loop # "reading" => connection = 0
  /\ writing # 0 => writing \in broken \/ connection = writing
  /\ \A c \in Call : call[c] = "writing" => writing # 0
  /\ \A c, d \in Call : call[c] = "writing" /\ call[d] = "writing" => c = d

(* No call has a result before execute_rpc is done with it, nor while it   *)
(* is pending.                                                             *)
OpenHaveNoResult ==
  \A c \in Call : call[c] # "returned" \/ c \in pending => result[c] = "none"

RPCInv ==
  /\ TypeOK
  /\ ClientIsConsistent
  /\ OpenHaveNoResult
  /\ NoOrphanMethods
  /\ PendingIsUnderway

(* Nothing is connected, nor called, at first.                             *)
LEMMA InitRPCInv == Init => RPCInv
  BY RPCAssumption
  DEF Init, RPCInv, TypeOK, ClientIsConsistent, OpenHaveNoResult, NoOrphanMethods,
      PendingIsUnderway, Connection

(* The client's side of a step that ends a connection: finalize, with at   *)
(* most one call that fails by itself and returns, never touches a result. *)
LEMMA FinalizeKeepsResults ==
  ASSUME RPCInv,
         NEW failed \in SUBSET Call,
         \A c \in failed : call[c] # "returned",
         Finalize(failed)
  PROVE  /\ result' \in [Call -> {"none", "answer", "error"}]
         /\ \A c \in Call : result[c] # "none" => result'[c] = result[c]
         /\ \A c \in Call : c \notin failed \cup pending => result'[c] = result[c]
  BY DEF RPCInv, TypeOK, OpenHaveNoResult, Finalize

(* The invariant and the finality of results, over the steps of execute_rpc*)
(* that write, or that fail to.                                            *)
LEMMA WriteKeepsRPCInv ==
  ASSUME RPCInv, NEW c \in Call,
         call[c] \in {"idle", "queued"}, writing = 0, connection # 0,
         Write(c)
  PROVE  RPCInv' /\ \A d \in Call : result[d] # "none" => result'[d] = result[d]
  <1> USE DEF RPCInv
  <1>0. connection = made /\ made \in Connection
    BY DEF ClientIsConsistent, TypeOK, Connection
  <1>1. CASE Sent(c) /\ UNCHANGED writing
    <2> USE <1>1 DEF Sent, connVars, serverVars
    <2>1. TypeOK'
      BY <1>0 DEF TypeOK, Connection
    <2>2. ClientIsConsistent'
      BY DEF ClientIsConsistent, TypeOK
    <2>3. OpenHaveNoResult'
      BY DEF OpenHaveNoResult, TypeOK
    <2>4. NoOrphanMethods'
      BY DEF NoOrphanMethods
    <2>5. PendingIsUnderway'
      BY <1>0 DEF PendingIsUnderway, Underway, TypeOK
    <2>6. QED BY <2>1, <2>2, <2>3, <2>4, <2>5
  <1>2. CASE WriteFails(c) /\ UNCHANGED writing
    <2> USE <1>2 DEF WriteFails, linkVars, serverVars
    <2>1. Finalize({c}) /\ {c} \in SUBSET Call /\ \A d \in {c} : call[d] # "returned"
      OBVIOUS
    <2>2. /\ result' \in [Call -> {"none", "answer", "error"}]
          /\ \A d \in Call : result[d] # "none" => result'[d] = result[d]
          /\ \A d \in Call : d \notin {c} \cup pending => result'[d] = result[d]
      BY <2>1, FinalizeKeepsResults
    <2>3. TypeOK'
      BY <2>2 DEF TypeOK, Finalize
    <2>4. ClientIsConsistent'
      BY DEF ClientIsConsistent, TypeOK, Finalize
    <2>5. OpenHaveNoResult'
      BY <2>2 DEF OpenHaveNoResult, TypeOK, Finalize
    <2>6. NoOrphanMethods'
      BY DEF NoOrphanMethods
    <2>7. PendingIsUnderway'
      BY DEF PendingIsUnderway, Finalize
    <2>8. QED BY <2>2, <2>3, <2>4, <2>5, <2>6, <2>7
  <1>3. CASE /\ writing' = connection
             /\ call' = [call EXCEPT ![c] = "writing"]
             /\ UNCHANGED <<connVars, pending, result, called, incoming, linkVars, serverVars,
                            sizes, faults>>
    <2> USE <1>3 DEF connVars, linkVars, serverVars
    <2>1. TypeOK'
      BY <1>0 DEF TypeOK
    <2>2. ClientIsConsistent'
      BY <1>0 DEF ClientIsConsistent, TypeOK
    <2>3. OpenHaveNoResult' /\ NoOrphanMethods' /\ PendingIsUnderway'
      BY DEF OpenHaveNoResult, NoOrphanMethods, PendingIsUnderway, Underway, TypeOK
    <2>4. QED BY <2>1, <2>2, <2>3
  <1>4. QED BY <1>1, <1>2, <1>3 DEF Write

(* The same of a call that fails before anything is written.              *)
LEMMA FailsAtOnceKeepsRPCInv ==
  ASSUME RPCInv, NEW c \in Call, call[c] # "returned", call[c] # "writing", FailsAtOnce(c)
  PROVE  RPCInv' /\ \A d \in Call : result[d] # "none" => result'[d] = result[d]
  <1> USE DEF RPCInv, FailsAtOnce, connVars, linkVars, serverVars
  <1>1. TypeOK'
    BY DEF TypeOK
  <1>2. ClientIsConsistent'
    BY DEF ClientIsConsistent, TypeOK
  <1>3. OpenHaveNoResult' /\ \A d \in Call : result[d] # "none" => result'[d] = result[d]
    BY DEF OpenHaveNoResult, TypeOK
  <1>4. NoOrphanMethods' /\ PendingIsUnderway'
    BY DEF NoOrphanMethods, PendingIsUnderway, Underway
  <1>5. QED BY <1>1, <1>2, <1>3, <1>4

(* Every step keeps the invariant, and every result.                       *)
LEMMA NextKeepsRPCInv ==
  ASSUME RPCInv, Next
  PROVE  RPCInv' /\ \A d \in Call : result[d] # "none" => result'[d] = result[d]
  <1> USE DEF RPCInv
  <1>1. CASE Connect
    <2> USE <1>1 DEF Connect, callVars, linkVars
    <2>1. TypeOK'
      BY RPCAssumption DEF TypeOK, Connection
    <2>2. ClientIsConsistent' /\ pending = {}
      BY DEF ClientIsConsistent, TypeOK
    <2>3. OpenHaveNoResult' /\ NoOrphanMethods' /\ PendingIsUnderway'
      BY <2>2 DEF OpenHaveNoResult, NoOrphanMethods, PendingIsUnderway
    <2>4. QED BY <2>1, <2>2, <2>3
  <1>2. CASE ReadFails
    <2> USE <1>2 DEF ReadFails, linkVars, serverVars
    <2>1. /\ result' \in [Call -> {"none", "answer", "error"}]
          /\ \A d \in Call : result[d] # "none" => result'[d] = result[d]
          /\ \A d \in Call : d \notin pending => result'[d] = result[d]
      BY FinalizeKeepsResults
    <2>2. TypeOK' /\ ClientIsConsistent' /\ OpenHaveNoResult'
      BY <2>1 DEF TypeOK, ClientIsConsistent, OpenHaveNoResult, Finalize
    <2>3. NoOrphanMethods' /\ PendingIsUnderway'
      BY DEF NoOrphanMethods, PendingIsUnderway, Finalize
    <2>4. QED BY <2>1, <2>2, <2>3
  <1>3. ASSUME NEW c \in Call, Read(c) PROVE RPCInv' /\ result' = result
    <2> USE <1>3 DEF Read, callVars, serverVars
    <2>0. made \in Connection
      BY DEF ClientIsConsistent, TypeOK, Connection
    <2>1. TypeOK' /\ ClientIsConsistent'
      BY DEF TypeOK, ClientIsConsistent
    <2>2. OpenHaveNoResult' /\ NoOrphanMethods' /\ result' = result
      BY DEF OpenHaveNoResult, NoOrphanMethods
    <2>3. PendingIsUnderway'
      BY <2>0 DEF PendingIsUnderway, Underway, TypeOK
    <2>4. QED BY <2>1, <2>2, <2>3
  <1>4. ASSUME NEW c \in Call, LockAcquired(c) \/ ExecuteRpc(c)
        PROVE  RPCInv' /\ \A d \in Call : result[d] # "none" => result'[d] = result[d]
    <2>1. CASE FailsAtOnce(c) /\ call[c] \in {"idle", "queued"}
      BY <2>1, FailsAtOnceKeepsRPCInv
    <2>2. CASE Write(c) /\ call[c] \in {"idle", "queued"} /\ writing = 0 /\ connection # 0
      BY <2>2, WriteKeepsRPCInv
    <2>3. CASE /\ call[c] = "idle" /\ writing # 0
               /\ call' = [call EXCEPT ![c] = "queued"]
               /\ UNCHANGED <<connVars, writing, pending, result, called, incoming, linkVars,
                              serverVars, sizes, faults>>
      <3> USE <2>3 DEF connVars, linkVars, serverVars
      <3>1. TypeOK' /\ ClientIsConsistent' /\ OpenHaveNoResult'
        BY DEF TypeOK, ClientIsConsistent, OpenHaveNoResult
      <3>2. NoOrphanMethods' /\ PendingIsUnderway'
        BY DEF NoOrphanMethods, PendingIsUnderway, Underway
      <3>3. QED BY <3>1, <3>2
    <2>4. QED BY <1>4, <2>1, <2>2, <2>3 DEF LockAcquired, ExecuteRpc
  <1>5. ASSUME NEW c \in Call, WriteEnds(c) PROVE RPCInv' /\ result' = result
    <2> USE <1>5 DEF WriteEnds, Sent, connVars, serverVars
    <2>1. writing # 0 /\ connection = writing /\ connection = made /\ made \in Connection
      BY DEF ClientIsConsistent, TypeOK, Connection
    <2>2. TypeOK'
      BY <2>1 DEF TypeOK, Connection
    <2>3. ClientIsConsistent' /\ OpenHaveNoResult'
      BY <2>1 DEF ClientIsConsistent, OpenHaveNoResult, TypeOK
    <2>4. NoOrphanMethods' /\ PendingIsUnderway'
      BY <2>1 DEF NoOrphanMethods, PendingIsUnderway, Underway, TypeOK
    <2>5. QED BY <2>2, <2>3, <2>4
  <1>6. ASSUME NEW c \in Call, WriteBreaks(c)
        PROVE  RPCInv' /\ \A d \in Call : result[d] # "none" => result'[d] = result[d]
    <2> USE <1>6 DEF WriteBreaks, WriteFails, linkVars, serverVars
    <2>0. Finalize({c}) /\ {c} \in SUBSET Call /\ \A d \in {c} : call[d] # "returned"
      OBVIOUS
    <2>1. /\ result' \in [Call -> {"none", "answer", "error"}]
          /\ \A d \in Call : result[d] # "none" => result'[d] = result[d]
          /\ \A d \in Call : d \notin {c} \cup pending => result'[d] = result[d]
      BY <2>0, FinalizeKeepsResults
    <2>2. TypeOK' /\ OpenHaveNoResult'
      BY <2>1 DEF TypeOK, OpenHaveNoResult, Finalize
    <2>3. ClientIsConsistent'
      BY DEF ClientIsConsistent, TypeOK, Finalize
    <2>4. NoOrphanMethods' /\ PendingIsUnderway'
      BY DEF NoOrphanMethods, PendingIsUnderway, Finalize
    <2>5. QED BY <2>1, <2>2, <2>3, <2>4
  <1>7. ASSUME NEW c \in Call, ProcessIncomingResponse(c)
        PROVE  RPCInv' /\ \A d \in Call : result[d] # "none" => result'[d] = result[d]
    <2> USE <1>7 DEF ProcessIncomingResponse, connVars, linkVars, serverVars
    <2>1. TypeOK' /\ ClientIsConsistent'
      BY DEF TypeOK, ClientIsConsistent
    <2>2. OpenHaveNoResult' /\ \A d \in Call : result[d] # "none" => result'[d] = result[d]
      BY DEF OpenHaveNoResult, TypeOK
    <2>3. NoOrphanMethods' /\ PendingIsUnderway'
      BY DEF NoOrphanMethods, PendingIsUnderway, Underway
    <2>4. QED BY <2>1, <2>2, <2>3
  <1>8. ASSUME NEW c \in Call, RunCallback(c) PROVE RPCInv' /\ result' = result
    BY <1>8
    DEF RunCallback, connVars, linkVars, serverVars, TypeOK, ClientIsConsistent,
        OpenHaveNoResult, NoOrphanMethods, PendingIsUnderway, Underway
  <1>9. ASSUME NEW k \in Connection, NEW c \in Call, Serve(k, c)
        PROVE  RPCInv' /\ result' = result
    <2> USE <1>9 DEF Serve, connVars, callVars
    <2>1. TypeOK' /\ ClientIsConsistent' /\ OpenHaveNoResult'
      BY DEF TypeOK, ClientIsConsistent, OpenHaveNoResult
    <2>2. NoOrphanMethods' /\ PendingIsUnderway'
      BY DEF NoOrphanMethods, PendingIsUnderway, Underway, TypeOK
    <2>3. QED BY <2>1, <2>2
  <1>10. ASSUME NEW k \in Connection, NEW c \in Call, Respond(k, c)
         PROVE  RPCInv' /\ result' = result
    <2> USE <1>10 DEF Respond, ServerFinalize, connVars, callVars
    <2>0. /\ served' \subseteq served /\ executed' \subseteq Call
          /\ responses' \in [Connection -> SUBSET Call]
          /\ running' \in [Connection -> SUBSET Call]
      BY DEF TypeOK
    <2>1. TypeOK'
      BY <2>0 DEF TypeOK
    <2>2. ClientIsConsistent' /\ OpenHaveNoResult' /\ NoOrphanMethods'
      BY DEF TypeOK, ClientIsConsistent, OpenHaveNoResult, NoOrphanMethods
    <2>3. PendingIsUnderway'
      BY DEF PendingIsUnderway, Underway, TypeOK
    <2>4. QED BY <2>1, <2>2, <2>3
  <1>11. ASSUME NEW k \in Connection, ServerReadFails(k) PROVE RPCInv' /\ result' = result
    <2> USE <1>11 DEF ServerReadFails, ServerFinalize, connVars, callVars, linkVars
    <2>1. TypeOK' /\ ClientIsConsistent' /\ OpenHaveNoResult' /\ NoOrphanMethods'
      BY DEF TypeOK, ClientIsConsistent, OpenHaveNoResult, NoOrphanMethods
    <2>2. PendingIsUnderway'
      BY DEF PendingIsUnderway, Underway, TypeOK
    <2>3. QED BY <2>1, <2>2
  <1>12. CASE Disconnect
    <2> USE <1>12 DEF Disconnect, Spend, serverVars
    <2>1. /\ result' \in [Call -> {"none", "answer", "error"}]
          /\ \A d \in Call : result[d] # "none" => result'[d] = result[d]
          /\ \A d \in Call : d \notin pending => result'[d] = result[d]
      BY FinalizeKeepsResults
    <2>2. TypeOK' /\ OpenHaveNoResult'
      BY <2>1 DEF TypeOK, ClientIsConsistent, OpenHaveNoResult, Finalize
    <2>3. ClientIsConsistent'
      BY DEF ClientIsConsistent, Finalize
    <2>4. NoOrphanMethods' /\ PendingIsUnderway'
      BY DEF NoOrphanMethods, PendingIsUnderway, Finalize
    <2>5. QED BY <2>1, <2>2, <2>3, <2>4
  <1>13. ASSUME NEW k \in Connection, Break(k) PROVE RPCInv' /\ result' = result
    <2> USE <1>13 DEF Break, Spend, connVars, callVars, serverVars
    <2>1. TypeOK'
      BY DEF TypeOK
    <2>2. ClientIsConsistent' /\ OpenHaveNoResult' /\ NoOrphanMethods'
      BY DEF ClientIsConsistent, OpenHaveNoResult, NoOrphanMethods
    <2>3. PendingIsUnderway'
      BY DEF PendingIsUnderway, Underway, TypeOK
    <2>4. QED BY <2>1, <2>2, <2>3
  <1>14. CASE ServerDies
    <2> USE <1>14 DEF ServerDies, Spend, connVars, callVars
    <2>1. TypeOK' /\ result' = result
      BY DEF TypeOK
    <2>2. ClientIsConsistent' /\ OpenHaveNoResult' /\ NoOrphanMethods'
      BY DEF ClientIsConsistent, OpenHaveNoResult, NoOrphanMethods, TypeOK
    <2>3. PendingIsUnderway'
      BY DEF PendingIsUnderway, Underway, ClientIsConsistent, TypeOK, Connection
    <2>4. QED BY <2>1, <2>2, <2>3
  <1>15. CASE ServerStarts
    BY <1>15
    DEF ServerStarts, connVars, callVars, linkVars, TypeOK, ClientIsConsistent,
        OpenHaveNoResult, NoOrphanMethods, PendingIsUnderway, Underway
  <1>16. QED
    BY <1>1, <1>2, <1>3, <1>4, <1>5, <1>6, <1>7, <1>8, <1>9, <1>10, <1>11, <1>12, <1>13,
       <1>14, <1>15
    DEF Next, ClientStep, ServerStep

(* The invariant holds in every reachable state.                           *)
THEOREM RPCInvariant == Spec => []RPCInv
  <1>1. RPCInv /\ [Next]_vars => RPCInv'
    <2>1. CASE Next
      BY <2>1, NextKeepsRPCInv
    <2>2. CASE UNCHANGED vars
      BY <2>2
      DEF vars, RPCInv, TypeOK, ClientIsConsistent, OpenHaveNoResult, NoOrphanMethods,
          PendingIsUnderway, Underway
    <2>3. QED BY <2>1, <2>2
  <1>2. QED BY InitRPCInv, <1>1, PTL DEF Spec

(* The variables of the client, the links and the server keep their types. *)
THEOREM RPCTypeOK == Spec => []TypeOK
  BY RPCInvariant, PTL DEF RPCInv

(* finalize, execute_rpc and the server together: a pending call has a     *)
(* request, a method, a response or the end of its connection to come.     *)
THEOREM RPCPendingIsUnderway == Spec => []PendingIsUnderway
  BY RPCInvariant, PTL DEF RPCInv

(* RemoteServiceServer.finalize: no method runs for an ended connection.   *)
THEOREM RPCNoOrphanMethods == Spec => []NoOrphanMethods
  BY RPCInvariant, PTL DEF RPCInv

(* process_incoming_response and finalize: a result once set is never      *)
(* changed, however late an answer comes.                                  *)
THEOREM RPCResultsAreFinal == Spec => ResultsAreFinal
  <1>1. RPCInv /\ [Next]_vars =>
          [\A c \in Call : result[c] # "none" => result'[c] = result[c]]_vars
    BY NextKeepsRPCInv
  <1>2. QED BY RPCInvariant, <1>1, PTL DEF Spec, ResultsAreFinal
=============================================================================
