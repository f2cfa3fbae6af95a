--------------------------- MODULE PriorityQueue ---------------------------
(* cms/io/priorityqueue.py: a binary min-heap of entries with the position *)
(* of every item in a reverse lookup.  A queue is a record; an operation   *)
(* returns the queue it leaves.  No greenlet switch happens inside one.    *)
(* Positions count from 0 as in the code: position i is heap[i + 1].       *)
EXTENDS Integers, Sequences

\* What __init__ makes: the list, the reverse lookup, and the event that is set
\* while there is something to pop.
EmptyQueue == [heap |-> <<>>, reverse |-> <<>>, event |-> FALSE]

Entry(item, priority, timestamp, index) ==
  [item |-> item, priority |-> priority, timestamp |-> timestamp, index |-> index]

\* QueueEntry.__lt__: tuples compare from the left.
Before(a, b) ==
  \/ a.priority < b.priority
  \/ a.priority = b.priority /\ a.timestamp < b.timestamp
  \/ a.priority = b.priority /\ a.timestamp = b.timestamp /\ a.index < b.index

Contains(q, item) == item \in DOMAIN q.reverse
Top(q) == q.heap[1]
Entries(q) == {q.heap[i] : i \in DOMAIN q.heap}
Indices(q) == {entry.index : entry \in Entries(q)}

\* The pair the code's helpers work on, and the smaller of two children.
Swap(h, i, j) ==
  LET heap == [h.heap EXCEPT ![i + 1] = h.heap[j + 1], ![j + 1] = h.heap[i + 1]]
  IN [heap |-> heap,
      reverse |-> [it \in DOMAIN h.reverse |->
                     IF it = heap[j + 1].item THEN j
                     ELSE IF it = heap[i + 1].item THEN i ELSE h.reverse[it]]]

\* The loop of _up_heap: one round, on the pair and the position of the entry
\* that rises, and as many rounds as there are positions to rise.
UpRound(s) ==
  LET parent == (s.idx - 1) \div 2 IN
  IF s.idx > 0 /\ Before(s.h.heap[s.idx + 1], s.h.heap[parent + 1])
  THEN [h |-> Swap(s.h, parent, s.idx), idx |-> parent]
  ELSE s

UpHeap(h, idx) ==
  LET after[n \in 0 .. idx] ==
        IF n = 0 THEN [h |-> h, idx |-> idx] ELSE UpRound(after[n - 1])
  IN after[idx]

SmallerChild(h, idx) ==
  LET left == 2 * idx + 1
      right == 2 * idx + 2
  IN IF right < Len(h.heap) /\ Before(h.heap[right + 1], h.heap[left + 1])
     THEN right ELSE left

\* The loop of _down_heap.
DownRound(s) ==
  LET child == SmallerChild(s.h, s.idx) IN
  IF 2 * s.idx + 1 < Len(s.h.heap) /\ Before(s.h.heap[child + 1], s.h.heap[s.idx + 1])
  THEN [h |-> Swap(s.h, child, s.idx), idx |-> child]
  ELSE s

DownHeap(h, idx) ==
  LET after[n \in 0 .. Len(h.heap)] ==
        IF n = 0 THEN [h |-> h, idx |-> idx] ELSE DownRound(after[n - 1])
  IN after[Len(h.heap)].h

\* The mutant only lowers the entry.
UpDownHeapOnlyDown(h, idx) == DownHeap(h, idx)
UpDownHeap(h, idx) == LET up == UpHeap(h, idx) IN DownHeap(up.h, up.idx)

\* The list and the lookup without their last entry, whose item is `item'.
DropLast(h, item) ==
  [heap |-> SubSeq(h.heap, 1, Len(h.heap) - 1),
   reverse |-> [it \in DOMAIN h.reverse \ {item} |-> h.reverse[it]]]

\* The queue after its list and lookup changed to h.
Rebuilt(q, h, event) == [q EXCEPT !.heap = h.heap, !.reverse = h.reverse, !.event = event]

\* _next_index: an index only tells which of two queued entries came first, so
\* the model counts on from the last one queued instead of for ever.
NextIndex(q) ==
  IF q.heap = <<>> THEN 0
  ELSE 1 + (CHOOSE last \in Indices(q) : \A index \in Indices(q) : index <= last)

\* push: nothing when the item is queued already.
Push(q, item, priority, timestamp) ==
  IF Contains(q, item) THEN q
  ELSE LET last == Len(q.heap)
           h == [heap |-> Append(q.heap, Entry(item, priority, timestamp, NextIndex(q))),
                 reverse |-> [it \in DOMAIN q.reverse \cup {item} |->
                                IF it = item THEN last ELSE q.reverse[it]]]
       IN Rebuilt(q, UpHeap(h, last).h, TRUE)

\* pop, on a queue that is not empty: the entry is Top(q).
Pop(q) ==
  LET last == Len(q.heap) - 1
      h == DropLast(Swap(q, 0, last), Top(q).item)
  IN IF last > 0 THEN Rebuilt(q, DownHeap(h, 0), q.event)
     ELSE Rebuilt(q, h, FALSE)

\* remove, of an item that is queued; KeyError otherwise.  The mutant leaves
\* the event set on an empty queue.
RemoveWithoutClear(q, item) ==
  LET pos == q.reverse[item]
      last == Len(q.heap) - 1
      h == DropLast(Swap(q, pos, last), item)
  IN Rebuilt(q, IF pos # last THEN UpDownHeap(h, pos) ELSE h, q.event)

Remove(q, item) ==
  LET pos == q.reverse[item]
      last == Len(q.heap) - 1
      h == DropLast(Swap(q, pos, last), item)
  IN Rebuilt(q, IF pos # last THEN UpDownHeap(h, pos) ELSE h,
             q.event /\ h.heap # <<>>)

\* set_priority, of an item that is queued.
SetPriority(q, item, priority) ==
  LET pos == q.reverse[item]
      h == [heap |-> [q.heap EXCEPT ![pos + 1].priority = priority], reverse |-> q.reverse]
  IN Rebuilt(q, UpDownHeap(h, pos), q.event)
=============================================================================
