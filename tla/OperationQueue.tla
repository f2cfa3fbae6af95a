--------------------------- MODULE OperationQueue --------------------------
(* What a queue of operations promises the executor it belongs to: it      *)
(* holds an operation at most once, and the executor is given the entries  *)
(* in order of priority, then of time, then of arrival.  Nothing about     *)
(* heaps, lookups or events.                                               *)
EXTENDS Integers, Sequences

CONSTANTS Operation, Priority, Timestamp,
          BatchLimit                   \* entries taken in one go; 0: no limit

VARIABLES pending,                     \* the set of entries that are queued
          taken                        \* the entries the executor works on

vars == <<pending, taken>>

Entry == [item : Operation, priority : Priority, timestamp : Timestamp, index : Nat]

Init == pending = {} /\ taken = <<>>

Earlier(a, b) ==
  \/ a.priority < b.priority
  \/ a.priority = b.priority /\ a.timestamp < b.timestamp
  \/ a.priority = b.priority /\ a.timestamp = b.timestamp /\ a.index < b.index

\* Operations that are not queued arrive, in some order.
Arrive ==
  /\ pending \subseteq pending'
  /\ pending' \subseteq Entry
  /\ \A a, b \in pending' : a.item = b.item \/ a.index = b.index => a = b
  /\ \A old \in pending, new \in pending' \ pending : old.index < new.index
  /\ taken' = taken

\* The executor is given the first entries, in order, and all of them when
\* there is room.
Take ==
  /\ taken = <<>>
  /\ taken' # <<>>
  /\ \A i, j \in DOMAIN taken' : i < j => Earlier(taken'[i], taken'[j])
  /\ {taken'[i] : i \in DOMAIN taken'} \subseteq pending
  /\ pending' = pending \ {taken'[i] : i \in DOMAIN taken'}
  /\ \A e \in pending', i \in DOMAIN taken' : Earlier(taken'[i], e)
  /\ pending' = {} \/ Len(taken') = BatchLimit
  /\ BatchLimit = 0 \/ Len(taken') <= BatchLimit

Finish == taken # <<>> /\ taken' = <<>> /\ pending' = pending

Withdraw ==
  /\ \E e \in pending : pending' = pending \ {e}
  /\ taken' = taken

\* An entry keeps its place among the equals of its new priority.
Reprioritize ==
  /\ \E e \in pending, p \in Priority :
       pending' = (pending \ {e}) \cup {[e EXCEPT !.priority = p]}
  /\ taken' = taken

Restart == pending' = {} /\ taken' = <<>>

Next == Arrive \/ Take \/ Finish \/ Withdraw \/ Reprioritize \/ Restart

Spec == Init /\ [][Next]_vars
=============================================================================
