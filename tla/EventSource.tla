----------------------------- MODULE EventSource -----------------------------
(***************************************************************************)
(* The Publisher of cmscommon/eventsource.py: the events sent last are kept*)
(* in a cache, to be given again to a client that comes back.  The key of  *)
(* an event is the time it was sent at, so a set of them is a queue whose  *)
(* head has the least key.                                                 *)
(***************************************************************************)
EXTENDS Integers, FiniteSets

CONSTANT CacheSize

ASSUME EventSourceAssumption == CacheSize \in Nat \ {0}

First(events) == CHOOSE e \in events : \A f \in events : e.key <= f.key

(* Publisher.put: a deque that is full drops its first element.            *)
Put(cache, event) ==
  (IF Cardinality(cache) < CacheSize THEN cache ELSE cache \ {First(cache)}) \cup {event}

(* Publisher.get_subscriber: what the queue of a client starts with that   *)
(* has had the event with the key last, or that it has to start again.  The*)
(* mutant does not look whether the cache still has all that followed.     *)
After(cache, last) == {e \in cache : e.key > last}

GetSubscriberAtRisk(cache, last) == [reinit |-> FALSE, events |-> After(cache, last)]

GetSubscriber(cache, last) ==
  IF cache # {} /\ last >= First(cache).key
  THEN [reinit |-> FALSE, events |-> After(cache, last)]
  ELSE [reinit |-> TRUE, events |-> {}]
==============================================================================
