----------------------- MODULE TriggeredServiceProofs -----------------------
(***************************************************************************)
(* PriorityQueue is a heap with an exact lookup, and every executor of     *)
(* TriggeredService implements OperationQueue: for every set of            *)
(* operations, every length of the queues and every limit on the batches.  *)
(***************************************************************************)
EXTENDS TriggeredService, FiniteSetTheorems, WellFoundedInduction, TLAPS

-----------------------------------------------------------------------------
(* Induction.                                                              *)

(* Induction up to a bound, with a set for the property.                   *)
LEMMA InductionUpTo ==
  ASSUME NEW N \in Nat, NEW S, 0 \in S,
         \A n \in 1 .. N : n - 1 \in S => n \in S
  PROVE  \A n \in 0 .. N : n \in S
  <1> SUFFICES ASSUME NEW m \in 0 .. N, m \notin S PROVE FALSE
    OBVIOUS
  <1> DEFINE others == {n \in 0 .. N : n \notin S}
             less == OpToRel(<, Nat)
  <1>1. others \subseteq Nat /\ m \in others
    OBVIOUS
  <1>2. IsWellFoundedOn(less, Nat)
    BY NatLessThanWellFounded
  <1>3. \A i, j \in Nat : <<i, j>> \in less <=> i < j
    BY DEF OpToRel
  <1> HIDE DEF less
  <1>4. PICK k \in others : \A j \in others : ~ (<<j, k>> \in less)
    BY <1>1, <1>2, WFMin
  <1>5. k # 0 /\ k \in 1 .. N /\ k - 1 \in 0 .. N
    BY <1>4
  <1>6. k - 1 \notin others
    <2>1. <<k - 1, k>> \in less
      BY <1>3, <1>5
    <2> QED BY <1>4, <2>1
  <1> QED BY <1>4, <1>5, <1>6

-----------------------------------------------------------------------------
(* The order of the entries.                                               *)

EntryType == [item : Operation, priority : Priority, timestamp : Timestamp, index : Nat]

LEMMA BeforeIsOrder ==
  ASSUME NEW a \in EntryType, NEW b \in EntryType, NEW c \in EntryType
  PROVE  /\ ~Q!Before(a, a)
         /\ Q!Before(a, b) => ~Q!Before(b, a)
         /\ Q!Before(a, b) /\ Q!Before(b, c) => Q!Before(a, c)
         /\ ~Q!Before(a, b) /\ ~Q!Before(b, c) => ~Q!Before(a, c)
         /\ a.index # b.index => Q!Before(a, b) \/ Q!Before(b, a)
  <1>1. /\ a.priority \in Int /\ b.priority \in Int /\ c.priority \in Int
        /\ a.timestamp \in Int /\ b.timestamp \in Int /\ c.timestamp \in Int
        /\ a.index \in Int /\ b.index \in Int /\ c.index \in Int
    <2>1. Priority \subseteq Int /\ Timestamp \subseteq Int
      BY Zenon, TriggeredServiceAssumption
    <2>2. /\ a.priority \in Priority /\ b.priority \in Priority /\ c.priority \in Priority
          /\ a.timestamp \in Timestamp /\ b.timestamp \in Timestamp /\ c.timestamp \in Timestamp
          /\ a.index \in Nat /\ b.index \in Nat /\ c.index \in Nat
      BY DEF EntryType
    <2>3. a.index \in Int /\ b.index \in Int /\ c.index \in Int
      BY <2>2
    <2> QED BY Zenon, <2>1, <2>2, <2>3
  <1> QED BY <1>1 DEF Q!Before

(* Positions count from 0; the children of p are 2p + 1 and 2p + 2.        *)
Position(h) == 0 .. Len(h.heap) - 1
At(h, i) == h.heap[i + 1]
IsChild(i, p) == i = 2 * p + 1 \/ i = 2 * p + 2

InOrder(h, p, i) == ~Q!Before(At(h, i), At(h, p))

LEMMA ParentFacts ==
  ASSUME NEW i \in Nat, i > 0
  PROVE  LET p == (i - 1) \div 2 IN p \in Nat /\ p < i /\ IsChild(i, p)
  <1> DEFINE p == (i - 1) \div 2
  <1>1. p \in Int /\ 2 * p <= i - 1 /\ i - 1 < 2 * p + 2
    OBVIOUS
  <1> HIDE DEF p
  <1>2. p \in Nat /\ p < i /\ IsChild(i, p)
    BY <1>1 DEF IsChild
  <1> QED BY <1>2 DEF p

LEMMA OneParent ==
  ASSUME NEW i \in Nat, NEW p \in Nat, NEW q \in Nat, IsChild(i, p), IsChild(i, q)
  PROVE  p = q /\ p < i
  BY DEF IsChild

-----------------------------------------------------------------------------
(* The list and the lookup.                                                *)

(* The lookup has the position of every item and nothing else, so that no  *)
(* item is listed twice; nor is an index.                                  *)
LookupExact(h) ==
  /\ h.heap \in Seq(EntryType)
  /\ DOMAIN h.reverse = {h.heap[i].item : i \in DOMAIN h.heap}
  /\ \A i \in DOMAIN h.heap : h.reverse[h.heap[i].item] = i - 1

IndicesDiffer(h) ==
  \A i, j \in DOMAIN h.heap : h.heap[i].index = h.heap[j].index => i = j

(* The same entries, perhaps at other positions.                           *)
SameEntries(h, g) ==
  /\ Len(g.heap) = Len(h.heap)
  /\ Q!Entries(g) = Q!Entries(h)
  /\ DOMAIN g.reverse = DOMAIN h.reverse

LEMMA SwapKeepsLookup ==
  ASSUME NEW h, LookupExact(h), IndicesDiffer(h), NEW i \in Position(h), NEW j \in Position(h)
  PROVE  LET g == Q!Swap(h, i, j) IN
         /\ LookupExact(g) /\ IndicesDiffer(g) /\ SameEntries(h, g)
         /\ At(g, i) = At(h, j) /\ At(g, j) = At(h, i)
         /\ \A k \in Position(h) : k # i /\ k # j => At(g, k) = At(h, k)
  <1> DEFINE g == Q!Swap(h, i, j)
             n == Len(h.heap)
  <1>1. /\ n \in Nat /\ DOMAIN h.heap = 1 .. n /\ i + 1 \in 1 .. n /\ j + 1 \in 1 .. n
        /\ h.heap \in [1 .. n -> EntryType]
    BY DEF LookupExact, Position
  <1>2. g.heap = [h.heap EXCEPT ![i + 1] = h.heap[j + 1], ![j + 1] = h.heap[i + 1]]
    BY DEF Q!Swap
  <1>3. /\ g.heap \in [1 .. n -> EntryType] /\ g.heap \in Seq(EntryType)
        /\ Len(g.heap) = n /\ DOMAIN g.heap = 1 .. n
    BY SMTT(60), <1>1, <1>2
  <1>4. /\ g.heap[i + 1] = h.heap[j + 1] /\ g.heap[j + 1] = h.heap[i + 1]
        /\ \A k \in 1 .. n : k # i + 1 /\ k # j + 1 => g.heap[k] = h.heap[k]
    BY <1>1, <1>2
  <1>5. g.reverse = [it \in DOMAIN h.reverse |->
                      IF it = g.heap[j + 1].item THEN j
                      ELSE IF it = g.heap[i + 1].item THEN i ELSE h.reverse[it]]
    BY <1>2 DEF Q!Swap
  <1> HIDE DEF g, n
  <1>6. \A k \in 1 .. n : \E l \in 1 .. n : g.heap[k] = h.heap[l]
    BY <1>1, <1>4
  <1>7. \A k \in 1 .. n : \E l \in 1 .. n : h.heap[k] = g.heap[l]
    BY <1>1, <1>4
  <1>8. Q!Entries(g) = Q!Entries(h)
    <2>1. Q!Entries(g) = {g.heap[k] : k \in 1 .. n} /\ Q!Entries(h) = {h.heap[k] : k \in 1 .. n}
      BY <1>1, <1>3 DEF Q!Entries
    <2> QED BY <1>6, <1>7, <2>1
  <1>9. DOMAIN g.reverse = DOMAIN h.reverse
    BY <1>5
  <1>10. DOMAIN g.reverse = {g.heap[k].item : k \in DOMAIN g.heap}
    <2>1. DOMAIN h.reverse = {h.heap[k].item : k \in 1 .. n}
      BY <1>1 DEF LookupExact
    <2>2. {g.heap[k].item : k \in 1 .. n} = {h.heap[k].item : k \in 1 .. n}
      BY <1>6, <1>7
    <2> QED BY <1>3, <1>9, <2>1, <2>2
  <1>11. \A k, l \in 1 .. n : h.heap[k].item = h.heap[l].item => k = l
    <2>1. \A k \in 1 .. n : h.reverse[h.heap[k].item] = k - 1
      BY <1>1 DEF LookupExact
    <2> SUFFICES ASSUME NEW k \in 1 .. n, NEW l \in 1 .. n, h.heap[k].item = h.heap[l].item
                 PROVE  k = l
      OBVIOUS
    <2>2. k - 1 = l - 1
      BY <2>1
    <2> QED BY <1>1, <2>2
  <1>12. ASSUME NEW k \in DOMAIN g.heap
         PROVE  g.reverse[g.heap[k].item] = k - 1
    <2>1. g.heap[k].item \in DOMAIN h.reverse
      BY <1>9, <1>10
    <2>2. CASE k = j + 1
      BY <1>1, <1>5, <2>1, <2>2 DEF Position
    <2>3. CASE k # j + 1 /\ k = i + 1
      <3>1. g.heap[k].item # g.heap[j + 1].item
        BY <1>1, <1>4, <1>11, <2>3
      <3> QED BY <1>1, <1>5, <2>1, <2>3, <3>1 DEF Position
    <2>4. CASE k # j + 1 /\ k # i + 1
      <3>1. g.heap[k] = h.heap[k] /\ k \in 1 .. n
        BY <1>3, <1>4, <2>4
      <3>2. g.heap[k].item # g.heap[j + 1].item /\ g.heap[k].item # g.heap[i + 1].item
        BY <1>1, <1>4, <1>11, <2>4, <3>1
      <3>3. h.reverse[h.heap[k].item] = k - 1
        BY <1>1, <3>1 DEF LookupExact
      <3> QED BY <1>5, <2>1, <3>1, <3>2, <3>3
    <2> QED BY <2>2, <2>3, <2>4
  <1>13. IndicesDiffer(g)
    <2>1. \A k, l \in 1 .. n : h.heap[k].index = h.heap[l].index => k = l
      BY <1>1 DEF IndicesDiffer
    <2> QED BY SMTT(60), <1>1, <1>3, <1>4, <2>1 DEF IndicesDiffer
  <1>14. \A k \in Position(h) : k + 1 \in 1 .. n /\ (k # i /\ k # j => At(g, k) = At(h, k))
    BY SMTT(60), <1>1, <1>4 DEF Position, At, n
  <1>15. LookupExact(g)
    BY <1>3, <1>10, <1>12 DEF LookupExact
  <1>16. SameEntries(h, g)
    BY <1>3, <1>8, <1>9 DEF SameEntries, n
  <1> QED BY <1>4, <1>13, <1>14, <1>15, <1>16 DEF At, g

-----------------------------------------------------------------------------
(* The heap.                                                               *)

Ordered(h) ==
  \A p, i \in Position(h) : IsChild(i, p) => InOrder(h, p, i)

(* Ordered but for the entry at x, which may be wrong both ways.           *)
OrderedBut(h, x) ==
  /\ \A p, i \in Position(h) : IsChild(i, p) /\ i # x /\ p # x => InOrder(h, p, i)
  /\ \A p, i \in Position(h) : IsChild(x, p) /\ IsChild(i, x) => InOrder(h, p, i)

NotTooLow(h, x) == \A p \in Position(h) : IsChild(x, p) => InOrder(h, p, x)
NotTooHigh(h, x) == \A i \in Position(h) : IsChild(i, x) => InOrder(h, x, i)

LEMMA OrderedIsAll ==
  ASSUME NEW h, NEW x, OrderedBut(h, x), NotTooLow(h, x), NotTooHigh(h, x)
  PROVE  Ordered(h)
  BY DEF Ordered, OrderedBut, NotTooLow, NotTooHigh

LEMMA OrderedIsOrderedBut ==
  ASSUME NEW h, h.heap \in Seq(EntryType), Ordered(h), NEW x \in Position(h)
  PROVE  OrderedBut(h, x) /\ NotTooLow(h, x) /\ NotTooHigh(h, x)
  <1>1. \A i \in Position(h) : At(h, i) \in EntryType
    BY DEF Position, At
  <1>2. \A p, i \in Position(h) : IsChild(x, p) /\ IsChild(i, x) => InOrder(h, p, i)
    BY <1>1, BeforeIsOrder DEF Ordered, InOrder
  <1> QED BY <1>2 DEF Ordered, OrderedBut, NotTooLow, NotTooHigh

Sound(h) == LookupExact(h) /\ IndicesDiffer(h)

LEMMA EntriesAt ==
  ASSUME NEW h, LookupExact(h)
  PROVE  /\ Len(h.heap) \in Nat
         /\ \A i \in Position(h) : i \in Nat /\ At(h, i) \in EntryType
  BY DEF LookupExact, Position, At

(* What a round of _up_heap does.  The entry rises past its parent, or     *)
(* has reached its place.                                                  *)
LEMMA UpRoundRises ==
  ASSUME NEW s, Sound(s.h), s.idx \in Position(s.h), OrderedBut(s.h, s.idx)
  PROVE  LET t == Q!UpRound(s) IN
         /\ Sound(t.h) /\ SameEntries(s.h, t.h)
         /\ t.idx \in Position(t.h) /\ OrderedBut(t.h, t.idx)
         /\ NotTooHigh(s.h, s.idx) => NotTooHigh(t.h, t.idx)
         /\ t.idx < s.idx \/ NotTooLow(t.h, t.idx)
  <1> DEFINE h == s.h
             x == s.idx
             p == (x - 1) \div 2
             g == Q!Swap(h, p, x)
             t == Q!UpRound(s)
             rises == x > 0 /\ Q!Before(At(h, x), At(h, p))
  <1>1. t = IF rises THEN [h |-> g, idx |-> p] ELSE s
    BY DEF Q!UpRound, At
  <1>2. /\ x \in Nat /\ x \in Position(h) /\ Len(h.heap) \in Nat
        /\ \A i \in Position(h) : i \in Nat /\ At(h, i) \in EntryType
    BY EntriesAt DEF Sound
  <1>3. x > 0 => p \in Nat /\ p < x /\ IsChild(x, p)
    BY <1>2, ParentFacts
  <1> HIDE DEF g, t, p, rises
  <1>4. CASE rises
    <2>1. /\ x > 0 /\ Q!Before(At(h, x), At(h, p))
          /\ p \in Nat /\ p < x /\ IsChild(x, p) /\ p \in Position(h)
          /\ t.h = g /\ t.idx = p
      BY <1>1, <1>2, <1>3, <1>4 DEF Position, rises
    <2>2. /\ Sound(g) /\ SameEntries(h, g)
          /\ At(g, p) = At(h, x) /\ At(g, x) = At(h, p)
          /\ \A k \in Position(h) : k # p /\ k # x => At(g, k) = At(h, k)
      BY <1>2, <2>1, SwapKeepsLookup DEF Sound, g
    <2>3. Position(g) = Position(h)
      BY <2>2 DEF SameEntries, Position
    <2>4. \A i, q \in Position(h) : IsChild(i, q) /\ i # x /\ q # x => InOrder(h, q, i)
      BY DEF OrderedBut
    <2>5. \A i, q \in Position(h) : IsChild(x, q) /\ IsChild(i, x) => InOrder(h, q, i)
      BY DEF OrderedBut
    <2>6. \A i, q, r \in Position(h) : IsChild(i, q) => q < i /\ (IsChild(i, r) => q = r)
      BY <1>2, OneParent
    <2>7. ASSUME NEW q \in Position(h), NEW i \in Position(h), IsChild(i, q), i # p, q # p
          PROVE  InOrder(g, q, i)
      <3>1. i # x
        BY <2>1, <2>6, <2>7
      <3>2. CASE q = x
        BY <2>1, <2>2, <2>5, <2>7, <3>1, <3>2 DEF InOrder
      <3>3. CASE q # x
        BY <2>2, <2>4, <2>7, <3>1, <3>3 DEF InOrder
      <3> QED BY <3>2, <3>3
    <2>8. ASSUME NEW i \in Position(h), IsChild(i, p), i # x
          PROVE  ~Q!Before(At(h, i), At(h, p)) /\ At(g, i) = At(h, i)
      <3>1. p < i
        BY <2>1, <2>6, <2>8
      <3> QED BY <1>2, <2>1, <2>2, <2>4, <2>8, <3>1 DEF InOrder
    <2>9. ASSUME NEW q \in Position(h), NEW i \in Position(h), IsChild(p, q), IsChild(i, p)
          PROVE  InOrder(g, q, i)
      <3>1. q < p
        BY <2>1, <2>6, <2>9
      <3>2. ~Q!Before(At(h, p), At(h, q)) /\ At(g, q) = At(h, q)
        BY <1>2, <2>1, <2>2, <2>4, <2>9, <3>1 DEF InOrder
      <3>3. CASE i = x
        BY <2>2, <3>2, <3>3 DEF InOrder
      <3>4. CASE i # x
        BY <1>2, <2>1, <2>8, <2>9, <3>2, <3>4, BeforeIsOrder DEF InOrder
      <3> QED BY <3>3, <3>4
    <2>10. OrderedBut(g, p)
      BY <2>3, <2>7, <2>9 DEF OrderedBut
    <2>11. ASSUME NEW i \in Position(h), IsChild(i, p)
           PROVE  InOrder(g, p, i)
      <3>1. ~Q!Before(At(h, p), At(h, x))
        BY <1>2, <2>1, BeforeIsOrder
      <3>2. CASE i = x
        BY <2>2, <3>1, <3>2 DEF InOrder
      <3>3. CASE i # x
        BY <1>2, <2>1, <2>2, <2>8, <2>11, <3>1, <3>3, BeforeIsOrder DEF InOrder
      <3> QED BY <3>2, <3>3
    <2>12. NotTooHigh(g, p)
      BY <2>3, <2>11 DEF NotTooHigh
    <2> QED BY <2>1, <2>2, <2>3, <2>10, <2>12 DEF t
  <1>5. CASE ~rises
    <2>1. t = s
      BY <1>1, <1>5
    <2>2. SameEntries(h, h)
      BY DEF SameEntries
    <2>3. NotTooLow(h, x)
      <3> SUFFICES ASSUME NEW q \in Position(h), IsChild(x, q) PROVE InOrder(h, q, x)
        BY DEF NotTooLow
      <3>1. x > 0
        BY <1>2 DEF IsChild
      <3>2. q = p
        BY <1>2, <1>3, <3>1, OneParent
      <3> QED BY <1>5, <3>1, <3>2 DEF rises, InOrder
    <2> QED BY <1>2, <2>1, <2>2, <2>3 DEF t
  <1> QED BY <1>4, <1>5

LEMMA UpRoundRests ==
  ASSUME NEW s, Sound(s.h), s.idx \in Position(s.h), NotTooLow(s.h, s.idx)
  PROVE  Q!UpRound(s) = s
  <1> DEFINE h == s.h
             x == s.idx
             p == (x - 1) \div 2
             rises == x > 0 /\ Q!Before(At(h, x), At(h, p))
  <1>1. Q!UpRound(s) = IF rises THEN [h |-> Q!Swap(h, p, x), idx |-> p] ELSE s
    BY DEF Q!UpRound, At
  <1>2. x \in Nat /\ x \in Position(h) /\ Len(h.heap) \in Nat
    BY EntriesAt DEF Sound
  <1>3. x > 0 => p \in Nat /\ p < x /\ IsChild(x, p)
    BY <1>2, ParentFacts
  <1> HIDE DEF p
  <1>4. ~rises
    BY <1>2, <1>3 DEF NotTooLow, InOrder, Position
  <1> QED BY <1>1, <1>4

LEMMA DownRoundRests ==
  ASSUME NEW s, Sound(s.h), s.idx \in Position(s.h), NotTooHigh(s.h, s.idx)
  PROVE  Q!DownRound(s) = s
  <1> DEFINE h == s.h
             x == s.idx
             c == Q!SmallerChild(h, x)
             sinks == 2 * x + 1 < Len(h.heap) /\ Q!Before(At(h, c), At(h, x))
  <1>1. Q!DownRound(s) = IF sinks THEN [h |-> Q!Swap(h, c, x), idx |-> c] ELSE s
    BY DEF Q!DownRound, At
  <1>2. x \in Nat /\ x \in Position(h) /\ Len(h.heap) \in Nat
    BY EntriesAt DEF Sound
  <1>3. c = 2 * x + 1 \/ (c = 2 * x + 2 /\ 2 * x + 2 < Len(h.heap))
    BY DEF Q!SmallerChild
  <1> HIDE DEF c
  <1>4. 2 * x + 1 < Len(h.heap) => c \in Position(h) /\ IsChild(c, x)
    BY <1>2, <1>3 DEF Position, IsChild
  <1>5. ~sinks
    BY <1>4 DEF NotTooHigh, InOrder
  <1> QED BY <1>1, <1>5

(* What a round of _down_heap does, on an entry that is not too low.  It   *)
(* sinks below the smaller child, or has reached its place.                *)
LEMMA DownRoundSinks ==
  ASSUME NEW s, Sound(s.h), s.idx \in Position(s.h), OrderedBut(s.h, s.idx),
         NotTooLow(s.h, s.idx)
  PROVE  LET t == Q!DownRound(s) IN
         /\ Sound(t.h) /\ SameEntries(s.h, t.h)
         /\ t.idx \in Position(t.h) /\ OrderedBut(t.h, t.idx)
         /\ NotTooLow(t.h, t.idx)
         /\ t.idx > s.idx \/ NotTooHigh(t.h, t.idx)
  <1> DEFINE h == s.h
             x == s.idx
             c == Q!SmallerChild(h, x)
             g == Q!Swap(h, c, x)
             t == Q!DownRound(s)
             sinks == 2 * x + 1 < Len(h.heap) /\ Q!Before(At(h, c), At(h, x))
  <1>1. t = IF sinks THEN [h |-> g, idx |-> c] ELSE s
    BY DEF Q!DownRound, At
  <1>2. /\ x \in Nat /\ x \in Position(h) /\ Len(h.heap) \in Nat
        /\ \A i \in Position(h) : i \in Nat /\ At(h, i) \in EntryType
    BY EntriesAt DEF Sound
  <1>3. ASSUME 2 * x + 1 < Len(h.heap)
        PROVE  /\ c \in Position(h) /\ IsChild(c, x)
               /\ \A i \in Position(h) : IsChild(i, x) => ~Q!Before(At(h, i), At(h, c))
    <2> DEFINE left == 2 * x + 1
               right == 2 * x + 2
               takesRight == right < Len(h.heap) /\ Q!Before(At(h, right), At(h, left))
    <2>1. c = IF takesRight THEN right ELSE left
      BY DEF Q!SmallerChild, At
    <2>2. left \in Position(h) /\ (right < Len(h.heap) => right \in Position(h))
      BY SMTT(60), <1>2, <1>3 DEF Position
    <2>3. \A i \in Position(h) : i < Len(h.heap)
      BY <1>2 DEF Position
    <2> HIDE DEF c
    <2>4. c \in Position(h) /\ IsChild(c, x)
      BY <2>1, <2>2 DEF IsChild
    <2>5. ASSUME NEW i \in Position(h), IsChild(i, x)
          PROVE  ~Q!Before(At(h, i), At(h, c))
      <3>1. i = left \/ i = right
        BY <2>5 DEF IsChild
      <3>2. ~Q!Before(At(h, left), At(h, left)) /\ ~Q!Before(At(h, i), At(h, i))
        BY <1>2, <2>2, BeforeIsOrder
      <3>3. takesRight => ~Q!Before(At(h, left), At(h, right))
        BY <1>2, <2>2, BeforeIsOrder
      <3> HIDE DEF left, right
      <3> QED BY <2>1, <2>3, <3>1, <3>2, <3>3
    <2> QED BY <2>4, <2>5
  <1> HIDE DEF g, t, c, sinks
  <1>4. CASE sinks
    <2>1. /\ Q!Before(At(h, c), At(h, x)) /\ c \in Position(h) /\ IsChild(c, x)
          /\ \A i \in Position(h) : IsChild(i, x) => ~Q!Before(At(h, i), At(h, c))
          /\ t.h = g /\ t.idx = c
      BY <1>1, <1>3, <1>4 DEF sinks
    <2>2. /\ Sound(g) /\ SameEntries(h, g)
          /\ At(g, c) = At(h, x) /\ At(g, x) = At(h, c)
          /\ \A k \in Position(h) : k # c /\ k # x => At(g, k) = At(h, k)
      BY <1>2, <2>1, SwapKeepsLookup DEF Sound, g
    <2>3. Position(g) = Position(h)
      BY <2>2 DEF SameEntries, Position
    <2>4. \A i, q \in Position(h) : IsChild(i, q) /\ i # x /\ q # x => InOrder(h, q, i)
      BY DEF OrderedBut
    <2>5. \A i, q \in Position(h) : IsChild(x, q) /\ IsChild(i, x) => InOrder(h, q, i)
      BY DEF OrderedBut
    <2>6. \A i, q, r \in Position(h) : IsChild(i, q) => q < i /\ (IsChild(i, r) => q = r)
      BY <1>2, OneParent
    <2>7. x < c
      BY <2>1, <2>6
    <2>8. ASSUME NEW q \in Position(h), NEW i \in Position(h), IsChild(i, q), i # c, q # c
          PROVE  InOrder(g, q, i)
      <3>1. CASE i = x
        <4>1. q # x
          BY <1>2, <2>6, <2>8, <3>1
        <4> QED BY <2>1, <2>2, <2>5, <2>8, <3>1, <4>1 DEF InOrder
      <3>2. CASE q = x
        <4>1. i # x
          BY <1>2, <2>6, <2>8, <3>2
        <4> QED BY <2>1, <2>2, <2>8, <3>2, <4>1 DEF InOrder
      <3>3. CASE i # x /\ q # x
        BY <2>2, <2>4, <2>8, <3>3 DEF InOrder
      <3> QED BY <3>1, <3>2, <3>3
    <2>9. ASSUME NEW q \in Position(h), NEW i \in Position(h), IsChild(c, q), IsChild(i, c)
          PROVE  InOrder(g, q, i)
      <3>1. q = x /\ c < i
        BY <2>1, <2>6, <2>9
      <3>2. i # x /\ i # c
        BY <1>2, <2>1, <2>7, <2>9, <3>1
      <3>3. ~Q!Before(At(h, i), At(h, c))
        BY <1>2, <2>1, <2>4, <2>7, <2>9, <3>2 DEF InOrder
      <3> QED BY <2>2, <3>1, <3>2, <3>3 DEF InOrder
    <2>10. OrderedBut(g, c)
      BY <2>3, <2>8, <2>9 DEF OrderedBut
    <2>11. NotTooLow(g, c)
      <3> SUFFICES ASSUME NEW q \in Position(h), IsChild(c, q) PROVE InOrder(g, q, c)
        BY <2>3 DEF NotTooLow
      <3>1. q = x
        BY <2>1, <2>6
      <3>2. ~Q!Before(At(h, x), At(h, c))
        BY <1>2, <2>1, BeforeIsOrder
      <3> QED BY <2>2, <3>1, <3>2 DEF InOrder
    <2> QED BY <2>1, <2>2, <2>3, <2>7, <2>10, <2>11 DEF t
  <1>5. CASE ~sinks
    <2>1. t = s
      BY <1>1, <1>5
    <2>2. SameEntries(h, h)
      BY DEF SameEntries
    <2>3. NotTooHigh(h, x)
      <3> SUFFICES ASSUME NEW i \in Position(h), IsChild(i, x) PROVE InOrder(h, x, i)
        BY DEF NotTooHigh
      <3>1. 2 * x + 1 < Len(h.heap)
        BY <1>2 DEF IsChild, Position
      <3>2. /\ c \in Position(h) /\ ~Q!Before(At(h, c), At(h, x))
            /\ ~Q!Before(At(h, i), At(h, c))
        BY <1>3, <1>5, <3>1 DEF sinks
      <3> QED BY <1>2, <3>2, BeforeIsOrder DEF InOrder
    <2> QED BY <1>2, <2>1, <2>2, <2>3 DEF t
  <1> QED BY <1>4, <1>5

(* The rounds of the two loops.                                            *)
UpRounds(h, x, N, after) ==
  after = [n \in 0 .. N |-> IF n = 0 THEN [h |-> h, idx |-> x] ELSE Q!UpRound(after[n - 1])]

DownRounds(h, x, N, after) ==
  after = [n \in 0 .. N |-> IF n = 0 THEN [h |-> h, idx |-> x] ELSE Q!DownRound(after[n - 1])]

LEMMA UpRoundsExist ==
  ASSUME NEW h, NEW x, NEW N \in Nat
  PROVE  \E after : UpRounds(h, x, N, after)
  <1> DEFINE S == {n \in 0 .. N : \E after : UpRounds(h, x, n, after)}
             s0 == [h |-> h, idx |-> x]
             Round(s) == Q!UpRound(s)
  <1>1. 0 \in S
    <2>1. UpRounds(h, x, 0, [n \in 0 .. 0 |-> s0])
      BY DEF UpRounds
    <2> QED BY <2>1
  <1>2. ASSUME NEW n \in 1 .. N, n - 1 \in S PROVE n \in S
    <2>1. PICK f : UpRounds(h, x, n - 1, f)
      BY <1>2
    <2> DEFINE last == Round(f[n - 1])
               f2 == [k \in 0 .. n |-> IF k = n THEN last ELSE f[k]]
    <2>2. f = [k \in 0 .. n - 1 |-> IF k = 0 THEN s0 ELSE Round(f[k - 1])]
      BY Zenon, <2>1 DEF UpRounds
    <2>3. last = Round(f[n - 1])
      BY Zenon
    <2> HIDE DEF Round, last, s0
    <2>4. f2 = [k \in 0 .. n |-> IF k = 0 THEN s0 ELSE Round(f2[k - 1])]
      <3> SUFFICES ASSUME NEW k \in 0 .. n
                   PROVE  f2[k] = IF k = 0 THEN s0 ELSE Round(f2[k - 1])
        OBVIOUS
      <3>1. CASE k = n
        BY <3>1, <2>3
      <3>2. CASE k # n
        BY <3>2, <2>2
      <3> QED BY <3>1, <3>2
    <2> HIDE DEF f2
    <2>5. UpRounds(h, x, n, f2)
      BY Zenon, <2>4 DEF UpRounds, Round, s0
    <2> QED BY <2>5
  <1> HIDE DEF S
  <1>3. N \in S
    BY <1>1, <1>2, InductionUpTo
  <1> QED BY <1>3 DEF S

LEMMA DownRoundsExist ==
  ASSUME NEW h, NEW x, NEW N \in Nat
  PROVE  \E after : DownRounds(h, x, N, after)
  <1> DEFINE S == {n \in 0 .. N : \E after : DownRounds(h, x, n, after)}
             s0 == [h |-> h, idx |-> x]
             Round(s) == Q!DownRound(s)
  <1>1. 0 \in S
    <2>1. DownRounds(h, x, 0, [n \in 0 .. 0 |-> s0])
      BY DEF DownRounds
    <2> QED BY <2>1
  <1>2. ASSUME NEW n \in 1 .. N, n - 1 \in S PROVE n \in S
    <2>1. PICK f : DownRounds(h, x, n - 1, f)
      BY <1>2
    <2> DEFINE last == Round(f[n - 1])
               f2 == [k \in 0 .. n |-> IF k = n THEN last ELSE f[k]]
    <2>2. f = [k \in 0 .. n - 1 |-> IF k = 0 THEN s0 ELSE Round(f[k - 1])]
      BY Zenon, <2>1 DEF DownRounds
    <2>3. last = Round(f[n - 1])
      BY Zenon
    <2> HIDE DEF Round, last, s0
    <2>4. f2 = [k \in 0 .. n |-> IF k = 0 THEN s0 ELSE Round(f2[k - 1])]
      <3> SUFFICES ASSUME NEW k \in 0 .. n
                   PROVE  f2[k] = IF k = 0 THEN s0 ELSE Round(f2[k - 1])
        OBVIOUS
      <3>1. CASE k = n
        BY <3>1, <2>3
      <3>2. CASE k # n
        BY <3>2, <2>2
      <3> QED BY <3>1, <3>2
    <2> HIDE DEF f2
    <2>5. DownRounds(h, x, n, f2)
      BY Zenon, <2>4 DEF DownRounds, Round, s0
    <2> QED BY <2>5
  <1> HIDE DEF S
  <1>3. N \in S
    BY <1>1, <1>2, InductionUpTo
  <1> QED BY <1>3 DEF S

LEMMA SameEntriesCompose ==
  ASSUME NEW a, NEW b, NEW c, SameEntries(a, b), SameEntries(b, c)
  PROVE  SameEntries(a, c) /\ Position(c) = Position(a)
  BY DEF SameEntries, Position

(* _up_heap lifts an entry to its place: nothing above it is later.        *)
LEMMA UpHeapLifts ==
  ASSUME NEW h, NEW x, Sound(h), x \in Position(h), OrderedBut(h, x)
  PROVE  LET up == Q!UpHeap(h, x) IN
         /\ Sound(up.h) /\ SameEntries(h, up.h)
         /\ up.idx \in Position(up.h) /\ OrderedBut(up.h, up.idx)
         /\ NotTooLow(up.h, up.idx)
         /\ NotTooHigh(h, x) => NotTooHigh(up.h, up.idx)
  <1> DEFINE after == CHOOSE f : UpRounds(h, x, x, f)
             Fine(s) == /\ Sound(s.h) /\ SameEntries(h, s.h)
                        /\ s.idx \in Position(s.h) /\ OrderedBut(s.h, s.idx)
                        /\ NotTooHigh(h, x) => NotTooHigh(s.h, s.idx)
             S == {n \in 0 .. x : /\ Fine(after[n])
                                  /\ after[n].idx <= x - n \/ NotTooLow(after[n].h, after[n].idx)}
  <1>1. x \in Nat /\ Len(h.heap) \in Nat
    BY EntriesAt DEF Sound
  <1>2. UpRounds(h, x, x, after)
    BY <1>1, UpRoundsExist
  <1>3. Q!UpHeap(h, x) = after[x]
    BY Zenon DEF Q!UpHeap, UpRounds
  <1> HIDE DEF after
  <1>4. \A n \in 0 .. x :
          after[n] = IF n = 0 THEN [h |-> h, idx |-> x] ELSE Q!UpRound(after[n - 1])
    <2>1. after = [n \in 0 .. x |->
                     IF n = 0 THEN [h |-> h, idx |-> x] ELSE Q!UpRound(after[n - 1])]
      BY Zenon, <1>2 DEF UpRounds
    <2> QED BY Zenon, <2>1
  <1>5. 0 \in S
    <2>1. after[0] = [h |-> h, idx |-> x]
      BY <1>1, <1>4
    <2>2. SameEntries(h, h)
      BY DEF SameEntries
    <2> QED BY <1>1, <2>1, <2>2
  <1>6. ASSUME NEW n \in 1 .. x, n - 1 \in S PROVE n \in S
    <2> DEFINE s == after[n - 1]
               t == after[n]
    <2>1. t = Q!UpRound(s)
      BY <1>1, <1>4
    <2>2. Fine(s) /\ (s.idx <= x - (n - 1) \/ NotTooLow(s.h, s.idx))
      BY <1>6
    <2> HIDE DEF s, t
    <2>3. /\ Sound(t.h) /\ SameEntries(s.h, t.h)
          /\ t.idx \in Position(t.h) /\ OrderedBut(t.h, t.idx)
          /\ NotTooHigh(s.h, s.idx) => NotTooHigh(t.h, t.idx)
          /\ t.idx < s.idx \/ NotTooLow(t.h, t.idx)
      BY <2>1, <2>2, UpRoundRises
    <2>4. Fine(t)
      BY <2>2, <2>3, SameEntriesCompose
    <2>5. t.idx \in Int /\ s.idx \in Int
      BY <2>2, <2>3 DEF Position
    <2>6. NotTooLow(s.h, s.idx) => t.idx <= x - n \/ NotTooLow(t.h, t.idx)
      <3> SUFFICES ASSUME NotTooLow(s.h, s.idx) PROVE NotTooLow(t.h, t.idx)
        OBVIOUS
      <3> QED BY <2>1, <2>2, UpRoundRests
    <2>7. t.idx <= x - n \/ NotTooLow(t.h, t.idx)
      BY <1>1, <2>2, <2>3, <2>5, <2>6
    <2> QED BY <2>4, <2>7 DEF t
  <1> HIDE DEF S
  <1>7. x \in S
    <2>1. \A n \in 0 .. x : n \in S
      BY <1>1, <1>5, <1>6, InductionUpTo
    <2> QED BY <1>1, <2>1
  <1> DEFINE up == after[x]
  <1>8. Fine(up) /\ (up.idx <= x - x \/ NotTooLow(up.h, up.idx))
    BY <1>7 DEF S
  <1> HIDE DEF up
  <1>9. NotTooLow(up.h, up.idx)
    <2>1. up.idx \in Nat
      BY <1>8, EntriesAt DEF Sound
    <2>2. CASE up.idx <= x - x
      <3>1. up.idx = 0
        BY <1>1, <2>1, <2>2
      <3>2. \A p \in Position(up.h) : p \in Nat
        BY <1>8, EntriesAt DEF Sound
      <3> QED BY <3>1, <3>2 DEF NotTooLow, IsChild
    <2> QED BY <1>8, <2>2
  <1> QED BY <1>3, <1>8, <1>9 DEF up

(* _down_heap lowers an entry that is not too low to its place.            *)
LEMMA DownHeapLowers ==
  ASSUME NEW h, NEW x, Sound(h), x \in Position(h), OrderedBut(h, x), NotTooLow(h, x)
  PROVE  LET down == Q!DownHeap(h, x) IN
         Sound(down) /\ SameEntries(h, down) /\ Ordered(down)
  <1> DEFINE N == Len(h.heap)
             after == CHOOSE f : DownRounds(h, x, N, f)
             Fine(s) == /\ Sound(s.h) /\ SameEntries(h, s.h)
                        /\ s.idx \in Position(s.h) /\ OrderedBut(s.h, s.idx)
                        /\ NotTooLow(s.h, s.idx)
             S == {n \in 0 .. N : /\ Fine(after[n])
                                  /\ after[n].idx >= x + n \/ NotTooHigh(after[n].h, after[n].idx)}
  <1>1. x \in Nat /\ N \in Nat
    BY EntriesAt DEF Sound
  <1>2. DownRounds(h, x, N, after)
    BY <1>1, DownRoundsExist
  <1>3. Q!DownHeap(h, x) = after[N].h
    BY Zenon DEF Q!DownHeap, DownRounds
  <1> HIDE DEF after
  <1>4. \A n \in 0 .. N :
          after[n] = IF n = 0 THEN [h |-> h, idx |-> x] ELSE Q!DownRound(after[n - 1])
    <2>1. after = [n \in 0 .. N |->
                     IF n = 0 THEN [h |-> h, idx |-> x] ELSE Q!DownRound(after[n - 1])]
      BY Zenon, <1>2 DEF DownRounds
    <2> QED BY Zenon, <2>1
  <1>5. 0 \in S
    <2>1. after[0] = [h |-> h, idx |-> x]
      BY <1>1, <1>4
    <2>2. SameEntries(h, h)
      BY DEF SameEntries
    <2> QED BY <1>1, <2>1, <2>2
  <1>6. ASSUME NEW n \in 1 .. N, n - 1 \in S PROVE n \in S
    <2> DEFINE s == after[n - 1]
               t == after[n]
    <2>1. t = Q!DownRound(s)
      BY <1>1, <1>4
    <2>2. Fine(s) /\ (s.idx >= x + (n - 1) \/ NotTooHigh(s.h, s.idx))
      BY <1>6
    <2> HIDE DEF s, t
    <2>3. /\ Sound(t.h) /\ SameEntries(s.h, t.h)
          /\ t.idx \in Position(t.h) /\ OrderedBut(t.h, t.idx)
          /\ NotTooLow(t.h, t.idx)
          /\ t.idx > s.idx \/ NotTooHigh(t.h, t.idx)
      BY <2>1, <2>2, DownRoundSinks
    <2>4. Fine(t)
      BY <2>2, <2>3, SameEntriesCompose
    <2>5. t.idx \in Int /\ s.idx \in Int
      BY <2>2, <2>3 DEF Position
    <2>6. NotTooHigh(s.h, s.idx) => t.idx >= x + n \/ NotTooHigh(t.h, t.idx)
      <3> SUFFICES ASSUME NotTooHigh(s.h, s.idx) PROVE NotTooHigh(t.h, t.idx)
        OBVIOUS
      <3> QED BY <2>1, <2>2, DownRoundRests
    <2>7. t.idx >= x + n \/ NotTooHigh(t.h, t.idx)
      BY <1>1, <2>2, <2>3, <2>5, <2>6
    <2> QED BY <2>4, <2>7 DEF t
  <1> HIDE DEF S
  <1>7. N \in S
    <2>1. \A n \in 0 .. N : n \in S
      BY <1>1, <1>5, <1>6, InductionUpTo
    <2> QED BY <1>1, <2>1
  <1> DEFINE down == after[N]
  <1>8. Fine(down) /\ (down.idx >= x + N \/ NotTooHigh(down.h, down.idx))
    BY <1>7 DEF S
  <1> HIDE DEF down
  <1>9. NotTooHigh(down.h, down.idx)
    <2>1. down.idx \in Int /\ down.idx < N
      BY <1>1, <1>8 DEF Position, SameEntries
    <2> QED BY <1>1, <1>8, <2>1
  <1>10. Ordered(down.h)
    BY <1>8, <1>9, OrderedIsAll
  <1> QED BY <1>3, <1>8, <1>10 DEF down

LEMMA UpDownHeapPlaces ==
  ASSUME NEW h, NEW x, Sound(h), x \in Position(h), OrderedBut(h, x)
  PROVE  LET g == Q!UpDownHeap(h, x) IN
         Sound(g) /\ SameEntries(h, g) /\ Ordered(g)
  <1> DEFINE up == Q!UpHeap(h, x)
             g == Q!DownHeap(up.h, up.idx)
  <1>1. Q!UpDownHeap(h, x) = g
    BY DEF Q!UpDownHeap
  <1>2. /\ Sound(up.h) /\ SameEntries(h, up.h)
        /\ up.idx \in Position(up.h) /\ OrderedBut(up.h, up.idx)
        /\ NotTooLow(up.h, up.idx)
    BY UpHeapLifts
  <1> HIDE DEF up
  <1>3. Sound(g) /\ SameEntries(up.h, g) /\ Ordered(g)
    BY <1>2, DownHeapLowers
  <1> HIDE DEF g
  <1> QED BY <1>1, <1>2, <1>3, SameEntriesCompose

(* The first entry of a heap is the earliest.                              *)
LEMMA TopIsFirst ==
  ASSUME NEW h, Sound(h), Ordered(h), h.heap # <<>>
  PROVE  /\ Q!Top(h) \in Q!Entries(h)
         /\ \A e \in Q!Entries(h) : ~Q!Before(e, Q!Top(h))
         /\ \A e \in Q!Entries(h) : e # Q!Top(h) => Q!Before(Q!Top(h), e)
  <1> DEFINE N == Len(h.heap) - 1
             S == {n \in 0 .. N : \A i \in 0 .. n : ~Q!Before(At(h, i), At(h, 0))}
  <1>1. /\ N \in Nat /\ Position(h) = 0 .. N
        /\ \A i \in Position(h) : i \in Nat /\ At(h, i) \in EntryType
    BY EntriesAt DEF Sound, LookupExact, Position
  <1>2. 0 \in S
    BY <1>1, BeforeIsOrder
  <1>3. ASSUME NEW n \in 1 .. N, n - 1 \in S PROVE n \in S
    <2> DEFINE p == (n - 1) \div 2
    <2>1. n \in Nat /\ n > 0 /\ n \in Position(h)
      BY <1>1
    <2>2. p \in Nat /\ p < n /\ IsChild(n, p)
      BY <2>1, ParentFacts
    <2> HIDE DEF p
    <2>3. p \in Position(h) /\ p \in 0 .. n - 1
      BY <1>1, <2>1, <2>2
    <2>4. ~Q!Before(At(h, n), At(h, p))
      BY <2>1, <2>2, <2>3 DEF Ordered, InOrder
    <2>5. ~Q!Before(At(h, p), At(h, 0))
      BY <1>3, <2>3
    <2>6. ~Q!Before(At(h, n), At(h, 0))
      <3>1. At(h, n) \in EntryType /\ At(h, p) \in EntryType /\ At(h, 0) \in EntryType
        BY <1>1, <2>1, <2>3
      <3> QED BY <2>4, <2>5, <3>1, BeforeIsOrder
    <2>7. \A i \in 0 .. n : i = n \/ i \in 0 .. n - 1
      BY <2>1
    <2> QED BY <1>3, <2>6, <2>7
  <1>4. \A e \in Q!Entries(h) : \E i \in 0 .. N : e = At(h, i)
    <2> SUFFICES ASSUME NEW k \in DOMAIN h.heap PROVE \E i \in 0 .. N : h.heap[k] = At(h, i)
      BY DEF Q!Entries
    <2>1. DOMAIN h.heap = 1 .. N + 1
      BY DEF Sound, LookupExact
    <2>2. k - 1 \in 0 .. N /\ (k - 1) + 1 = k
      BY <1>1, <2>1
    <2> QED BY <2>2 DEF At
  <1> HIDE DEF S
  <1>5. N \in S
    <2>1. \A n \in 0 .. N : n \in S
      BY <1>1, <1>2, <1>3, InductionUpTo
    <2> QED BY <1>1, <2>1
  <1>6. \A i \in 0 .. N : ~Q!Before(At(h, i), At(h, 0))
    BY <1>5 DEF S
  <1>7. Q!Top(h) = At(h, 0) /\ Q!Top(h) \in Q!Entries(h)
    BY <1>1 DEF Q!Top, At, Q!Entries, Sound, LookupExact
  <1>8. ASSUME NEW i \in 0 .. N, At(h, i) # At(h, 0)
        PROVE  Q!Before(At(h, 0), At(h, i))
    <2>1. i + 1 \in DOMAIN h.heap /\ 0 + 1 \in DOMAIN h.heap /\ i + 1 # 0 + 1
      BY <1>1, <1>8 DEF Sound, LookupExact
    <2>2. At(h, i).index # At(h, 0).index
      BY <2>1 DEF Sound, IndicesDiffer, At
    <2>3. At(h, i) \in EntryType /\ At(h, 0) \in EntryType
      BY <1>1
    <2> QED BY <1>6, <2>2, <2>3, BeforeIsOrder
  <1> HIDE DEF N
  <1> QED BY <1>4, <1>6, <1>7, <1>8

-----------------------------------------------------------------------------
(* The operations of the queue.                                            *)

(* The list and the lookup without the last entry.                         *)
LEMMA DropLastKeeps ==
  ASSUME NEW g, Sound(g), NEW last, last = Len(g.heap) - 1, last \in Position(g)
  PROVE  LET h == Q!DropLast(g, At(g, last).item) IN
         /\ Sound(h) /\ Len(h.heap) = last
         /\ \A k \in Position(h) : k \in Position(g) /\ At(h, k) = At(g, k)
         /\ Q!Entries(h) = Q!Entries(g) \ {At(g, last)}
         /\ At(g, last) \in Q!Entries(g)
         /\ DOMAIN h.reverse = DOMAIN g.reverse \ {At(g, last).item}
  <1> DEFINE h == Q!DropLast(g, At(g, last).item)
             n == Len(g.heap)
  <1>1. /\ n \in Nat /\ n >= 1 /\ last \in Nat /\ n = last + 1
        /\ g.heap \in [1 .. n -> EntryType] /\ DOMAIN g.heap = 1 .. n
    BY DEF Sound, LookupExact, Position
  <1>2. /\ h.heap = SubSeq(g.heap, 1, last)
        /\ h.reverse = [it \in DOMAIN g.reverse \ {At(g, last).item} |-> g.reverse[it]]
    BY DEF Q!DropLast
  <1>3. /\ h.heap \in Seq(EntryType) /\ Len(h.heap) = last /\ DOMAIN h.heap = 1 .. last
        /\ \A k \in 1 .. last : h.heap[k] = g.heap[k]
    <2>1. g.heap \in Seq(EntryType)
      BY DEF Sound, LookupExact
    <2> QED BY SMTT(60), <1>1, <1>2, <2>1
  <1> HIDE DEF h
  <1>4. \A k \in 1 .. last : k \in 1 .. n /\ k # n
    BY <1>1
  <1>5. \A k \in 1 .. n : k = n \/ k \in 1 .. last
    BY <1>1
  <1>6. At(g, last) = g.heap[n] /\ n \in 1 .. n
    BY <1>1 DEF At
  <1> HIDE DEF n
  <1>7. \A k, l \in 1 .. n : g.heap[k].item = g.heap[l].item => k = l
    <2>1. \A k \in 1 .. n : g.reverse[g.heap[k].item] = k - 1
      BY <1>1 DEF Sound, LookupExact
    <2> SUFFICES ASSUME NEW k \in 1 .. n, NEW l \in 1 .. n, g.heap[k].item = g.heap[l].item
                 PROVE  k = l
      OBVIOUS
    <2>2. k - 1 = l - 1
      BY <2>1
    <2> QED BY <1>1, <2>2
  <1>8. Q!Entries(g) = {g.heap[k] : k \in 1 .. n} /\ Q!Entries(h) = {h.heap[k] : k \in 1 .. last}
    BY <1>1, <1>3 DEF Q!Entries
  <1>9. Q!Entries(h) = Q!Entries(g) \ {At(g, last)} /\ At(g, last) \in Q!Entries(g)
    <2>1. At(g, last) \in Q!Entries(g)
      BY <1>6, <1>8
    <2>2. ASSUME NEW k \in 1 .. last
          PROVE  h.heap[k] \in Q!Entries(g) /\ h.heap[k] # g.heap[n]
      <3>1. h.heap[k] = g.heap[k] /\ k \in 1 .. n /\ k # n
        BY <1>3, <1>4
      <3> QED BY <1>6, <1>7, <1>8, <3>1
    <2>3. ASSUME NEW k \in 1 .. n, g.heap[k] # g.heap[n]
          PROVE  g.heap[k] \in Q!Entries(h)
      <3>1. k \in 1 .. last /\ h.heap[k] = g.heap[k]
        BY <1>3, <1>5, <2>3
      <3> QED BY <1>8, <3>1
    <2>4. Q!Entries(h) \subseteq Q!Entries(g) \ {g.heap[n]}
      BY <1>8, <2>2
    <2>5. Q!Entries(g) \ {g.heap[n]} \subseteq Q!Entries(h)
      BY <1>8, <2>3
    <2> QED BY Zenon, <1>6, <2>1, <2>4, <2>5
  <1>10. DOMAIN g.reverse = {g.heap[k].item : k \in 1 .. n}
    BY <1>1 DEF Sound, LookupExact
  <1>11. DOMAIN h.reverse = {h.heap[k].item : k \in 1 .. last}
    <2>1. DOMAIN h.reverse = {g.heap[k].item : k \in 1 .. n} \ {g.heap[n].item}
      BY <1>2, <1>6, <1>10
    <2>2. ASSUME NEW k \in 1 .. last
          PROVE  h.heap[k].item \in DOMAIN h.reverse
      <3>1. h.heap[k] = g.heap[k] /\ k \in 1 .. n /\ k # n
        BY <1>3, <1>4
      <3>2. g.heap[k].item # g.heap[n].item
        BY <1>6, <1>7, <3>1
      <3> QED BY <2>1, <3>1, <3>2
    <2>3. ASSUME NEW k \in 1 .. n, g.heap[k].item # g.heap[n].item
          PROVE  g.heap[k].item \in {h.heap[l].item : l \in 1 .. last}
      <3>1. k \in 1 .. last /\ h.heap[k] = g.heap[k]
        BY <1>3, <1>5, <2>3
      <3> QED BY <3>1
    <2>4. DOMAIN h.reverse \subseteq {h.heap[k].item : k \in 1 .. last}
      BY <2>1, <2>3
    <2>5. {h.heap[k].item : k \in 1 .. last} \subseteq DOMAIN h.reverse
      BY <2>2
    <2> QED BY Zenon, <2>4, <2>5
  <1>12. ASSUME NEW k \in 1 .. last
         PROVE  h.reverse[h.heap[k].item] = k - 1
    <2>1. h.heap[k].item \in DOMAIN h.reverse
      BY <1>11
    <2>2. g.reverse[g.heap[k].item] = k - 1
      BY <1>1, <1>4 DEF Sound, LookupExact
    <2> QED BY <1>2, <1>3, <2>1, <2>2
  <1>13. LookupExact(h)
    BY <1>3, <1>11, <1>12 DEF LookupExact
  <1>14. IndicesDiffer(h)
    BY <1>1, <1>3, <1>4 DEF Sound, IndicesDiffer
  <1>15. \A k \in Position(h) : k \in Position(g) /\ At(h, k) = At(g, k)
    BY <1>1, <1>3 DEF Position, At, n
  <1> QED BY <1>2, <1>3, <1>9, <1>13, <1>14, <1>15 DEF h, Sound

(* An item of the lookup is that of the entry at its position.             *)
LEMMA LookedUp ==
  ASSUME NEW h, Sound(h), NEW item \in DOMAIN h.reverse
  PROVE  h.reverse[item] \in Position(h) /\ At(h, h.reverse[item]).item = item
  <1>1. PICK k \in DOMAIN h.heap : h.heap[k].item = item
    BY DEF Sound, LookupExact
  <1>2. h.reverse[item] = k - 1
    BY <1>1 DEF Sound, LookupExact
  <1>3. k \in 1 .. Len(h.heap) /\ Len(h.heap) \in Nat
    BY DEF Sound, LookupExact
  <1>4. k - 1 \in Position(h) /\ (k - 1) + 1 = k
    BY <1>3 DEF Position
  <1> QED BY <1>1, <1>2, <1>4 DEF At

(* The entry at a position changes place with the last, and is dropped.    *)
LEMMA RemovedAt ==
  ASSUME NEW q, Sound(q), Ordered(q), NEW pos \in Position(q), NEW last,
         last = Len(q.heap) - 1
  PROVE  LET h == Q!DropLast(Q!Swap(q, pos, last), At(q, pos).item) IN
         /\ Sound(h) /\ Len(h.heap) = last
         /\ Q!Entries(h) = Q!Entries(q) \ {At(q, pos)}
         /\ At(q, pos) \in Q!Entries(q)
         /\ DOMAIN h.reverse = DOMAIN q.reverse \ {At(q, pos).item}
         /\ pos # last => pos \in Position(h) /\ OrderedBut(h, pos)
         /\ pos = last => Ordered(h)
  <1> DEFINE g == Q!Swap(q, pos, last)
             h == Q!DropLast(g, At(q, pos).item)
  <1>1. /\ Len(q.heap) \in Nat /\ last \in Position(q)
        /\ \A i \in Position(q) : i \in Nat /\ At(q, i) \in EntryType
    BY EntriesAt DEF Sound, Position
  <1>2. /\ Sound(g) /\ SameEntries(q, g)
        /\ At(g, last) = At(q, pos)
        /\ \A k \in Position(q) : k # pos /\ k # last => At(g, k) = At(q, k)
    BY <1>1, SwapKeepsLookup DEF Sound
  <1> HIDE DEF g
  <1>3. last = Len(g.heap) - 1 /\ Position(g) = Position(q)
    BY <1>2 DEF SameEntries, Position
  <1>4. /\ Sound(h) /\ Len(h.heap) = last
        /\ \A k \in Position(h) : k \in Position(g) /\ At(h, k) = At(g, k)
        /\ Q!Entries(h) = Q!Entries(g) \ {At(g, last)}
        /\ At(g, last) \in Q!Entries(g)
        /\ DOMAIN h.reverse = DOMAIN g.reverse \ {At(g, last).item}
    BY <1>1, <1>2, <1>3, DropLastKeeps
  <1> HIDE DEF h
  <1>5. /\ Q!Entries(h) = Q!Entries(q) \ {At(q, pos)} /\ At(q, pos) \in Q!Entries(q)
        /\ DOMAIN h.reverse = DOMAIN q.reverse \ {At(q, pos).item}
    BY <1>2, <1>4 DEF SameEntries
  <1>6. \A k \in Position(h) : k \in Nat /\ k # last /\ k \in Position(q)
    BY <1>1, <1>3, <1>4 DEF Position
  <1>7. \A k \in Position(h) : k # pos => At(h, k) = At(q, k)
    BY <1>2, <1>3, <1>4, <1>6
  <1>8. pos = last => Ordered(h)
    BY <1>6, <1>7 DEF Ordered, InOrder
  <1>9. ASSUME pos # last
        PROVE  pos \in Position(h) /\ OrderedBut(h, pos)
    <2>1. pos \in Position(h)
      BY <1>1, <1>4, <1>9 DEF Position
    <2>2. OrderedBut(q, pos)
      BY <1>1, OrderedIsOrderedBut DEF Sound, LookupExact
    <2>3. \A p, i \in Position(h) : IsChild(i, p) => p < i
      BY <1>6, OneParent
    <2>4. ASSUME NEW p \in Position(h), NEW i \in Position(h), IsChild(i, p), i # pos, p # pos
          PROVE  InOrder(h, p, i)
      BY <1>6, <1>7, <2>2, <2>4 DEF OrderedBut, InOrder
    <2>5. ASSUME NEW p \in Position(h), NEW i \in Position(h), IsChild(pos, p), IsChild(i, pos)
          PROVE  InOrder(h, p, i)
      <3>1. p # pos /\ i # pos
        BY <1>6, <2>1, <2>3, <2>5
      <3> QED BY <1>6, <1>7, <2>2, <2>5, <3>1 DEF OrderedBut, InOrder
    <2> QED BY <2>1, <2>4, <2>5 DEF OrderedBut
  <1> QED BY <1>4, <1>5, <1>8, <1>9 DEF h, g

(* A finite list of numbers has a greatest.                                *)
LEMMA GreatestOf ==
  ASSUME NEW N \in Nat, NEW f \in [0 .. N -> Int]
  PROVE  \E k \in 0 .. N : \A i \in 0 .. N : f[i] <= f[k]
  <1> DEFINE Greatest(n, k) == \A i \in 0 .. n : f[i] <= f[k]
             S == {n \in 0 .. N : \E k \in 0 .. n : Greatest(n, k)}
  <1>1. 0 \in S
    OBVIOUS
  <1>2. ASSUME NEW n \in 1 .. N, n - 1 \in S PROVE n \in S
    <2>1. PICK k \in 0 .. n - 1 : Greatest(n - 1, k)
      BY <1>2
    <2>2. \A i \in 0 .. n : i \in 0 .. N /\ (i = n \/ i \in 0 .. n - 1)
      OBVIOUS
    <2>3. k \in 0 .. n /\ k \in 0 .. N /\ n \in 0 .. n /\ n \in 0 .. N
      OBVIOUS
    <2>4. f[n] \in Int /\ f[k] \in Int /\ \A i \in 0 .. n : f[i] \in Int
      BY <2>2, <2>3
    <2>5. CASE f[n] <= f[k]
      <3>1. Greatest(n, k)
        BY <2>1, <2>2, <2>5
      <3> QED BY Zenon, <2>3, <3>1
    <2>6. CASE f[k] <= f[n]
      <3>1. ASSUME NEW i \in 0 .. n PROVE f[i] <= f[n]
        <4>1. i = n \/ f[i] <= f[k]
          BY <2>1, <2>2
        <4> QED BY <2>4, <2>6, <4>1
      <3>2. Greatest(n, n)
        BY <3>1
      <3> QED BY Zenon, <2>3, <3>2
    <2> HIDE DEF S
    <2> QED BY <2>4, <2>5, <2>6
  <1> HIDE DEF S
  <1>3. N \in S
    <2>1. \A n \in 0 .. N : n \in S
      BY <1>1, <1>2, InductionUpTo
    <2> QED BY <2>1
  <1> QED BY <1>3 DEF S

(* NextIndex is beyond every index that is listed.                         *)
LEMMA NextIndexIsNew ==
  ASSUME NEW q, Sound(q)
  PROVE  Q!NextIndex(q) \in Nat /\ \A e \in Q!Entries(q) : e.index < Q!NextIndex(q)
  <1> DEFINE N == Len(q.heap) - 1
             Last(last) == last \in Q!Indices(q) /\ \A index \in Q!Indices(q) : index <= last
  <1>1. /\ Len(q.heap) \in Nat
        /\ \A i \in Position(q) : i \in Nat /\ At(q, i) \in EntryType
    BY EntriesAt DEF Sound
  <1>2. CASE q.heap = <<>>
    BY <1>2 DEF Q!NextIndex, Q!Entries
  <1>3. CASE q.heap # <<>>
    <2>1. N \in Nat /\ Position(q) = 0 .. N
      BY <1>1, <1>3 DEF Position, Sound, LookupExact
    <2>2. \A i \in 0 .. N : At(q, i).index \in Nat
      BY <1>1, <2>1 DEF EntryType
    <2>6. PICK k \in 0 .. N : \A i \in 0 .. N : At(q, i).index <= At(q, k).index
      <3> DEFINE f == [i \in 0 .. N |-> At(q, i).index]
      <3>1. f \in [0 .. N -> Int]
        BY <2>2
      <3>2. \E k \in 0 .. N : \A i \in 0 .. N : f[i] <= f[k]
        <4> HIDE DEF f
        <4> QED BY <2>1, <3>1, GreatestOf
      <3> QED BY <3>2
    <2>7. /\ \A e \in Q!Entries(q) : \E i \in 0 .. N : e = At(q, i)
          /\ \A i \in 0 .. N : At(q, i) \in Q!Entries(q)
      <3>1. DOMAIN q.heap = 1 .. N + 1
        BY DEF Sound, LookupExact
      <3>2. \A i \in 1 .. N + 1 : i - 1 \in 0 .. N /\ (i - 1) + 1 = i
        BY <2>1
      <3>3. \A i \in 0 .. N : i + 1 \in 1 .. N + 1
        BY <2>1
      <3> QED BY <3>1, <3>2, <3>3 DEF Q!Entries, At
    <2>8. Last(At(q, k).index)
      <3>1. At(q, k).index \in Q!Indices(q)
        BY <2>7 DEF Q!Indices
      <3>2. \A index \in Q!Indices(q) : \E i \in 0 .. N : index = At(q, i).index
        BY <2>7 DEF Q!Indices
      <3> QED BY <2>6, <3>1, <3>2
    <2> DEFINE last == CHOOSE l \in Q!Indices(q) : \A index \in Q!Indices(q) : index <= l
    <2>9. Last(last)
      BY <2>8
    <2>10. Q!NextIndex(q) = 1 + last
      BY <1>3 DEF Q!NextIndex
    <2> HIDE DEF last
    <2>11. last \in Nat
      BY <2>2, <2>7, <2>9 DEF Q!Indices
    <2>12. \A e \in Q!Entries(q) : e.index \in Nat /\ e.index <= last
      BY <2>2, <2>7, <2>9 DEF Q!Indices
    <2> QED BY <2>10, <2>11, <2>12
  <1> QED BY <1>2, <1>3

(* What every operation keeps of a queue.                                  *)
QueueOK(q) ==
  /\ q = [heap |-> q.heap, reverse |-> q.reverse, event |-> q.event]
  /\ Sound(q) /\ Ordered(q)
  /\ q.event \in BOOLEAN
  /\ q.event <=> q.heap # <<>>

LEMMA RebuiltFrom ==
  ASSUME NEW q, QueueOK(q), NEW h, Sound(h), Ordered(h),
         NEW event \in BOOLEAN, event <=> h.heap # <<>>
  PROVE  LET r == Q!Rebuilt(q, h, event) IN
         QueueOK(r) /\ r.heap = h.heap /\ Q!Entries(r) = Q!Entries(h)
  <1> DEFINE r == Q!Rebuilt(q, h, event)
  <1>1. r = [heap |-> h.heap, reverse |-> h.reverse, event |-> event]
    <2> DEFINE a == q.heap
               b == q.reverse
               c == q.event
    <2>1. q = [heap |-> a, reverse |-> b, event |-> c]
      BY DEF QueueOK
    <2> HIDE DEF a, b, c
    <2>2. r = [q EXCEPT !.heap = h.heap, !.reverse = h.reverse, !.event = event]
      BY Zenon DEF Q!Rebuilt
    <2> HIDE DEF r
    <2> QED BY <2>1, <2>2
  <1>2. r.heap = h.heap /\ r.reverse = h.reverse /\ r.event = event
        /\ r = [heap |-> r.heap, reverse |-> r.reverse, event |-> r.event]
    BY <1>1
  <1> HIDE DEF r
  <1>3. Position(r) = Position(h) /\ \A i : At(r, i) = At(h, i)
    BY <1>2 DEF Position, At
  <1>4. Sound(r)
    BY <1>2 DEF Sound, LookupExact, IndicesDiffer
  <1>5. Ordered(r)
    BY <1>3 DEF Ordered, InOrder
  <1>6. Q!Entries(r) = Q!Entries(h)
    BY <1>2 DEF Q!Entries
  <1>7. r.event \in BOOLEAN /\ (r.event <=> r.heap # <<>>)
    BY <1>2
  <1>8. QueueOK(r)
    BY Zenon, <1>2, <1>4, <1>5, <1>7 DEF QueueOK
  <1> QED BY <1>2, <1>6, <1>8 DEF r

LEMMA EmptyOrNot ==
  ASSUME NEW h, LookupExact(h)
  PROVE  /\ h.heap = <<>> <=> Len(h.heap) = 0
         /\ h.heap = <<>> <=> Q!Entries(h) = {}
         /\ h.heap # <<>> <=> 0 \in Position(h)
  <1>1. h.heap \in Seq(EntryType) /\ Len(h.heap) \in Nat /\ DOMAIN h.heap = 1 .. Len(h.heap)
    BY DEF LookupExact
  <1>2. h.heap = <<>> <=> Len(h.heap) = 0
    BY <1>1
  <1>3. Len(h.heap) = 0 => Q!Entries(h) = {}
    BY <1>1 DEF Q!Entries
  <1>4. Len(h.heap) # 0 => h.heap[1] \in Q!Entries(h)
    BY <1>1 DEF Q!Entries
  <1>5. Len(h.heap) # 0 <=> 0 \in Position(h)
    BY <1>1 DEF Position
  <1> QED BY <1>2, <1>3, <1>4, <1>5

LEMMA SameEntriesEmpty ==
  ASSUME NEW h, NEW g, LookupExact(h), LookupExact(g), SameEntries(h, g)
  PROVE  g.heap = <<>> <=> h.heap = <<>>
  BY EmptyOrNot DEF SameEntries

LEMMA PopTakesTop ==
  ASSUME NEW q, QueueOK(q), q.heap # <<>>
  PROVE  /\ QueueOK(Q!Pop(q))
         /\ Q!Entries(Q!Pop(q)) = Q!Entries(q) \ {Q!Top(q)}
         /\ Len(Q!Pop(q).heap) = Len(q.heap) - 1
  <1> DEFINE last == Len(q.heap) - 1
             h == Q!DropLast(Q!Swap(q, 0, last), Q!Top(q).item)
             d == Q!DownHeap(h, 0)
             top == Q!Top(q)
  <1>1. Q!Pop(q) = IF last > 0 THEN Q!Rebuilt(q, d, q.event) ELSE Q!Rebuilt(q, h, FALSE)
    BY DEF Q!Pop
  <1>2. 0 \in Position(q) /\ Len(q.heap) \in Nat /\ last \in Nat
    BY EmptyOrNot DEF QueueOK, Sound, LookupExact, Position
  <1>7. last = Len(q.heap) - 1
    OBVIOUS
  <1>3. top = At(q, 0)
    BY DEF Q!Top, At
  <1>4. /\ Sound(h) /\ Len(h.heap) = last
        /\ Q!Entries(h) = Q!Entries(q) \ {top}
        /\ 0 # last => 0 \in Position(h) /\ OrderedBut(h, 0)
        /\ 0 = last => Ordered(h)
    <2>1. Sound(q) /\ Ordered(q)
      BY DEF QueueOK
    <2>2. h = Q!DropLast(Q!Swap(q, 0, last), At(q, 0).item)
      BY <1>3
    <2> HIDE DEF h, top, last, d
    <2>3. /\ Sound(h) /\ Len(h.heap) = last
          /\ Q!Entries(h) = Q!Entries(q) \ {At(q, 0)}
          /\ 0 # last => 0 \in Position(h) /\ OrderedBut(h, 0)
          /\ 0 = last => Ordered(h)
      <3> DEFINE pos == 0
      <3>1. pos \in Position(q) /\ h = Q!DropLast(Q!Swap(q, pos, last), At(q, pos).item)
        BY <1>2, <2>2
      <3> HIDE DEF pos
      <3>2. /\ Sound(h) /\ Len(h.heap) = last
            /\ Q!Entries(h) = Q!Entries(q) \ {At(q, pos)}
            /\ pos # last => pos \in Position(h) /\ OrderedBut(h, pos)
            /\ pos = last => Ordered(h)
        BY <1>7, <2>1, <3>1, RemovedAt
      <3> QED BY <3>2 DEF pos
    <2> QED BY Zenon, <1>3, <2>3
  <1> HIDE DEF h, last
  <1>5. CASE last > 0
    <2>1. \A p \in Position(h) : p \in Nat
      BY <1>4, EntriesAt DEF Sound
    <2>2. NotTooLow(h, 0)
      BY <2>1 DEF NotTooLow, IsChild
    <2>3. Sound(d) /\ SameEntries(h, d) /\ Ordered(d)
      BY <1>4, <1>5, <2>2, DownHeapLowers
    <2> HIDE DEF d
    <2>4. q.event /\ q.event \in BOOLEAN
      BY DEF QueueOK
    <2>5. d.heap # <<>> /\ Len(d.heap) = last /\ Q!Entries(d) = Q!Entries(h)
      BY <1>2, <1>4, <1>5, <2>3 DEF SameEntries
    <2>6. Q!Pop(q) = Q!Rebuilt(q, d, q.event)
      BY <1>1, <1>5
    <2>7. QueueOK(Q!Pop(q)) /\ Q!Pop(q).heap = d.heap /\ Q!Entries(Q!Pop(q)) = Q!Entries(d)
      <3> DEFINE event == q.event
      <3>1. event \in BOOLEAN /\ (event <=> d.heap # <<>>)
        BY <2>4, <2>5
      <3>2. Q!Pop(q) = Q!Rebuilt(q, d, event)
        BY <2>6
      <3> HIDE DEF event
      <3> QED BY <2>3, <3>1, <3>2, RebuiltFrom
    <2> QED BY Zenon, <1>4, <1>7, <2>5, <2>7
  <1>6. CASE last = 0
    <2>0. ~(last > 0)
      BY <1>6
    <2>1. Q!Pop(q) = Q!Rebuilt(q, h, FALSE)
      BY Zenon, <1>1, <2>0
    <2>2. h.heap = <<>> /\ Ordered(h)
      BY <1>4, <1>6, EmptyOrNot DEF Sound
    <2>3. QueueOK(Q!Pop(q)) /\ Q!Pop(q).heap = h.heap /\ Q!Entries(Q!Pop(q)) = Q!Entries(h)
      <3> DEFINE event == FALSE
      <3>1. event \in BOOLEAN /\ (event <=> h.heap # <<>>)
        BY <2>2
      <3>2. Q!Pop(q) = Q!Rebuilt(q, h, event)
        BY Zenon, <2>1
      <3> HIDE DEF event
      <3> QED BY <1>4, <2>2, <3>1, <3>2, RebuiltFrom
    <2> QED BY Zenon, <1>4, <1>7, <2>3
  <1> QED BY <1>2, <1>5, <1>6

LEMMA RemoveTakesOut ==
  ASSUME NEW q, QueueOK(q), NEW item, Q!Contains(q, item)
  PROVE  /\ QueueOK(Q!Remove(q, item))
         /\ \E e \in Q!Entries(q) : Q!Entries(Q!Remove(q, item)) = Q!Entries(q) \ {e}
  <1> DEFINE pos == q.reverse[item]
             last == Len(q.heap) - 1
             h == Q!DropLast(Q!Swap(q, pos, last), item)
             g == IF pos # last THEN Q!UpDownHeap(h, pos) ELSE h
  <1>1. Q!Remove(q, item) = Q!Rebuilt(q, g, q.event /\ h.heap # <<>>)
    BY DEF Q!Remove
  <1>2. pos \in Position(q) /\ At(q, pos).item = item
    BY LookedUp DEF Q!Contains, QueueOK
  <1>3. /\ Sound(h) /\ Len(h.heap) = last
        /\ Q!Entries(h) = Q!Entries(q) \ {At(q, pos)}
        /\ At(q, pos) \in Q!Entries(q)
        /\ pos # last => pos \in Position(h) /\ OrderedBut(h, pos)
        /\ pos = last => Ordered(h)
    <2>1. Sound(q) /\ Ordered(q)
      BY DEF QueueOK
    <2> HIDE DEF pos
    <2> QED BY <1>2, <2>1, RemovedAt
  <1> HIDE DEF h, last, pos
  <1>4. Sound(g) /\ SameEntries(h, g) /\ Ordered(g)
    <2>1. CASE pos # last
      BY <1>3, <2>1, UpDownHeapPlaces
    <2>2. CASE pos = last
      BY <1>3, <2>2 DEF SameEntries
    <2> QED BY <2>1, <2>2
  <1> HIDE DEF g
  <1>5. g.heap = <<>> <=> h.heap = <<>>
    BY <1>3, <1>4, SameEntriesEmpty DEF Sound
  <1>6. q.event /\ q.event \in BOOLEAN
    <2>1. q.heap # <<>>
      BY <1>3 DEF Q!Entries, QueueOK, Sound, LookupExact
    <2> QED BY <2>1 DEF QueueOK
  <1> DEFINE event == q.event /\ h.heap # <<>>
  <1>7. event \in BOOLEAN /\ (event <=> g.heap # <<>>)
    BY <1>5, <1>6
  <1> HIDE DEF event
  <1>8. QueueOK(Q!Rebuilt(q, g, event)) /\ Q!Entries(Q!Rebuilt(q, g, event)) = Q!Entries(g)
    BY <1>4, <1>7, RebuiltFrom
  <1>9. Q!Entries(g) = Q!Entries(h)
    BY <1>4 DEF SameEntries
  <1> QED BY <1>1, <1>3, <1>8, <1>9 DEF event

(* The list and the lookup with an entry at the end.                       *)
LEMMA AppendKeeps ==
  ASSUME NEW q, Sound(q), Ordered(q), NEW new \in EntryType,
         new.item \notin DOMAIN q.reverse,
         \A e \in Q!Entries(q) : e.index < new.index,
         NEW last, last = Len(q.heap), NEW h,
         h.heap = Append(q.heap, new),
         DOMAIN h.reverse = DOMAIN q.reverse \cup {new.item},
         h.reverse[new.item] = last,
         \A it \in DOMAIN q.reverse : h.reverse[it] = q.reverse[it]
  PROVE  /\ Sound(h) /\ Len(h.heap) = last + 1
         /\ Q!Entries(h) = Q!Entries(q) \cup {new}
         /\ last \in Position(h) /\ OrderedBut(h, last) /\ NotTooHigh(h, last)
  <1>1. /\ q.heap \in Seq(EntryType) /\ last \in Nat
        /\ DOMAIN q.heap = 1 .. last
        /\ \A k \in 1 .. last : q.heap[k] \in EntryType
    BY DEF Sound, LookupExact
  <1>2. /\ h.heap = Append(q.heap, new)
        /\ DOMAIN h.reverse = DOMAIN q.reverse \cup {new.item}
        /\ h.reverse[new.item] = last
        /\ \A it \in DOMAIN q.reverse : h.reverse[it] = q.reverse[it]
    OBVIOUS
  <1>3. /\ h.heap \in Seq(EntryType) /\ Len(h.heap) = last + 1
        /\ DOMAIN h.heap = 1 .. last + 1
        /\ h.heap[last + 1] = new
        /\ \A k \in 1 .. last : h.heap[k] = q.heap[k]
    BY <1>1, <1>2
  <1>4. \A k \in 1 .. last + 1 : k = last + 1 \/ k \in 1 .. last
    BY <1>1
  <1>5. \A k \in 1 .. last : k \in 1 .. last + 1 /\ k # last + 1
    BY <1>1
  <1>6. last + 1 \in 1 .. last + 1 /\ (last + 1) - 1 = last
    BY <1>1
  <1>7. Q!Entries(h) = Q!Entries(q) \cup {new}
    <2>1. /\ Q!Entries(h) = {h.heap[k] : k \in 1 .. last + 1}
          /\ Q!Entries(q) = {q.heap[k] : k \in 1 .. last}
      BY <1>1, <1>3 DEF Q!Entries
    <2>2. ASSUME NEW k \in 1 .. last + 1 PROVE h.heap[k] \in Q!Entries(q) \cup {new}
      BY <1>3, <1>4, <2>1
    <2>3. ASSUME NEW k \in 1 .. last PROVE q.heap[k] \in Q!Entries(h)
      <3>1. k \in 1 .. last + 1 /\ h.heap[k] = q.heap[k]
        BY <1>3, <1>5
      <3> QED BY <2>1, <3>1
    <2>4. new \in Q!Entries(h)
      BY <1>3, <1>6, <2>1
    <2>5. Q!Entries(h) \subseteq Q!Entries(q) \cup {new}
      BY <2>1, <2>2
    <2>6. Q!Entries(q) \cup {new} \subseteq Q!Entries(h)
      BY <2>1, <2>3, <2>4
    <2> QED BY Zenon, <2>5, <2>6
  <1>8. DOMAIN h.reverse = {h.heap[k].item : k \in DOMAIN h.heap}
    <2>1. DOMAIN q.reverse = {q.heap[k].item : k \in 1 .. last}
      BY <1>1 DEF Sound, LookupExact
    <2>2. ASSUME NEW k \in 1 .. last + 1 PROVE h.heap[k].item \in DOMAIN h.reverse
      BY <1>2, <1>3, <1>4, <2>1
    <2>3. \A it \in DOMAIN q.reverse : \E k \in 1 .. last + 1 : it = h.heap[k].item
      BY <1>3, <1>5, <2>1
    <2>4. \A it \in DOMAIN h.reverse : \E k \in 1 .. last + 1 : it = h.heap[k].item
      BY <1>2, <1>3, <1>6, <2>3
    <2>5. {h.heap[k].item : k \in 1 .. last + 1} \subseteq DOMAIN h.reverse
      BY <2>2
    <2>6. DOMAIN h.reverse \subseteq {h.heap[k].item : k \in 1 .. last + 1}
      BY <2>4
    <2> QED BY <1>3, <2>5, <2>6
  <1>9. ASSUME NEW k \in DOMAIN h.heap
        PROVE  h.reverse[h.heap[k].item] = k - 1
    <2>1. CASE k = last + 1
      BY <1>2, <1>3, <1>6, <2>1
    <2>2. CASE k \in 1 .. last
      <3>1. q.heap[k].item \in DOMAIN q.reverse /\ q.reverse[q.heap[k].item] = k - 1
        BY <1>1, <2>2 DEF Sound, LookupExact
      <3> QED BY <1>2, <1>3, <2>2, <3>1
    <2> QED BY <1>3, <1>4, <2>1, <2>2
  <1>10. IndicesDiffer(h)
    <2>1. \A k \in 1 .. last : h.heap[k] \in Q!Entries(q)
      BY <1>1, <1>3 DEF Q!Entries
    <2>2. \A k \in 1 .. last : h.heap[k].index # new.index
      <3> SUFFICES ASSUME NEW k \in 1 .. last PROVE h.heap[k].index # new.index
        OBVIOUS
      <3>1. h.heap[k].index < new.index /\ h.heap[k].index \in Nat /\ new.index \in Nat
        BY <1>1, <1>3, <2>1 DEF EntryType
      <3> QED BY <3>1
    <2>3. \A k, l \in 1 .. last : h.heap[k].index = h.heap[l].index => k = l
      BY <1>1, <1>3 DEF Sound, IndicesDiffer
    <2> QED BY <1>3, <1>4, <2>2, <2>3 DEF IndicesDiffer
  <1>11. Sound(h)
    BY <1>3, <1>8, <1>9, <1>10 DEF Sound, LookupExact
  <1>12. /\ Position(h) = 0 .. last /\ Position(q) = 0 .. last - 1
         /\ \A i \in 0 .. last - 1 : At(h, i) = At(q, i)
    <2>1. \A i \in 0 .. last - 1 : i + 1 \in 1 .. last
      BY <1>1
    <2>2. Position(h) = 0 .. last
      BY <1>1, <1>3 DEF Position
    <2> QED BY <1>3, <2>1, <2>2 DEF Position, At
  <1>13. last \in Position(h) /\ \A i \in Position(h) : i \in Nat /\ (i # last => i \in 0 .. last - 1)
    <2>1. last \in 0 .. last /\ \A i \in 0 .. last : i \in Nat /\ (i # last => i \in 0 .. last - 1)
      BY <1>1
    <2> QED BY <1>12, <2>1
  <1>14. \A i \in Position(h) : ~IsChild(i, last)
    BY <1>1, <1>12 DEF IsChild
  <1>15. OrderedBut(h, last)
    <2>1. ASSUME NEW p \in Position(h), NEW i \in Position(h), IsChild(i, p), i # last, p # last
          PROVE  InOrder(h, p, i)
      <3>1. i \in Position(q) /\ p \in Position(q)
        BY <1>12, <1>13, <2>1
      <3>2. InOrder(q, p, i)
        BY <2>1, <3>1 DEF Ordered
      <3> QED BY <1>12, <3>1, <3>2 DEF InOrder
    <2> QED BY <1>14, <2>1 DEF OrderedBut
  <1> QED BY <1>3, <1>7, <1>11, <1>13, <1>14, <1>15 DEF NotTooHigh

LEMMA PushAdds ==
  ASSUME NEW q, QueueOK(q), NEW item \in Operation, NEW priority \in Priority,
         NEW timestamp \in Timestamp, ~Q!Contains(q, item)
  PROVE  LET new == Q!Entry(item, priority, timestamp, Q!NextIndex(q))
             r == Q!Push(q, item, priority, timestamp)
         IN /\ QueueOK(r) /\ new \in EntryType /\ new.item = item
            /\ Q!Entries(r) = Q!Entries(q) \cup {new}
            /\ \A e \in Q!Entries(q) : e.index < new.index /\ e.item # item
  <1> DEFINE new == Q!Entry(item, priority, timestamp, Q!NextIndex(q))
             r == Q!Push(q, item, priority, timestamp)
             last == Len(q.heap)
             h == [heap |-> Append(q.heap, new),
                   reverse |-> [it \in DOMAIN q.reverse \cup {item} |->
                                  IF it = item THEN last ELSE q.reverse[it]]]
             g == Q!UpHeap(h, last).h
  <1>1. Sound(q) /\ Ordered(q)
    BY DEF QueueOK
  <1>2. r = Q!Rebuilt(q, g, TRUE)
    BY DEF Q!Push
  <1>3. Q!NextIndex(q) \in Nat /\ \A e \in Q!Entries(q) : e.index < Q!NextIndex(q)
    BY <1>1, NextIndexIsNew
  <1>4. new \in EntryType /\ new.item = item /\ new.index = Q!NextIndex(q)
    BY <1>3 DEF Q!Entry, EntryType
  <1>5. last = Len(q.heap)
    OBVIOUS
  <1>6. /\ h.heap = Append(q.heap, new)
        /\ DOMAIN h.reverse = DOMAIN q.reverse \cup {new.item}
        /\ h.reverse[new.item] = last
        /\ \A it \in DOMAIN q.reverse : h.reverse[it] = q.reverse[it]
    <2>1. item \notin DOMAIN q.reverse
      BY DEF Q!Contains
    <2> HIDE DEF new, last
    <2> QED BY <1>4, <2>1
  <1>7. \A e \in Q!Entries(q) : e.index < new.index /\ e.item # item
    <2>1. \A e \in Q!Entries(q) : e.item \in DOMAIN q.reverse
      BY <1>1 DEF Sound, LookupExact, Q!Entries
    <2> QED BY <1>3, <1>4, <2>1 DEF Q!Contains
  <1> HIDE DEF new, h, last, r
  <1>8. /\ Sound(h) /\ Len(h.heap) = last + 1
        /\ Q!Entries(h) = Q!Entries(q) \cup {new}
        /\ last \in Position(h) /\ OrderedBut(h, last) /\ NotTooHigh(h, last)
    <2>1. new.item \notin DOMAIN q.reverse
      BY <1>4 DEF Q!Contains
    <2> QED BY <1>1, <1>4, <1>5, <1>6, <1>7, <2>1, AppendKeeps
  <1>9. Sound(g) /\ SameEntries(h, g) /\ Ordered(g)
    <2> DEFINE up == Q!UpHeap(h, last)
    <2>1. /\ Sound(up.h) /\ SameEntries(h, up.h)
          /\ OrderedBut(up.h, up.idx)
          /\ NotTooLow(up.h, up.idx) /\ NotTooHigh(up.h, up.idx)
      BY <1>8, UpHeapLifts
    <2> HIDE DEF up
    <2>2. Ordered(up.h)
      BY <2>1, OrderedIsAll
    <2> QED BY <2>1, <2>2 DEF up
  <1> HIDE DEF g
  <1>10. QueueOK(r) /\ Q!Entries(r) = Q!Entries(g)
    <2> DEFINE event == TRUE
    <2>1. g.heap # <<>>
      <3>1. h.heap # <<>>
        BY <1>8, EmptyOrNot DEF Sound
      <3> QED BY <1>8, <1>9, <3>1, SameEntriesEmpty DEF Sound
    <2>2. event \in BOOLEAN /\ (event <=> g.heap # <<>>)
      BY <2>1
    <2>3. r = Q!Rebuilt(q, g, event)
      BY Zenon, <1>2
    <2> HIDE DEF event
    <2> QED BY <1>9, <2>2, <2>3, RebuiltFrom
  <1>11. Q!Entries(r) = Q!Entries(q) \cup {new}
    BY <1>8, <1>9, <1>10 DEF SameEntries
  <1> QED BY Zenon, <1>4, <1>7, <1>10, <1>11 DEF new, r

(* An entry with another priority, at its position.                        *)
LEMMA ChangedAt ==
  ASSUME NEW q, Sound(q), Ordered(q), NEW pos \in Position(q), NEW priority \in Priority,
         NEW new, new = [At(q, pos) EXCEPT !.priority = priority],
         NEW h, h = [heap |-> [q.heap EXCEPT ![pos + 1] = new], reverse |-> q.reverse]
  PROVE  /\ Sound(h) /\ Position(h) = Position(q) /\ OrderedBut(h, pos)
         /\ At(q, pos) \in Q!Entries(q)
         /\ Q!Entries(h) = (Q!Entries(q) \ {At(q, pos)}) \cup {new}
  <1> DEFINE n == Len(q.heap)
             x == pos + 1
  <1>1. /\ q.heap \in [1 .. n -> EntryType] /\ n \in Nat /\ DOMAIN q.heap = 1 .. n
        /\ x \in 1 .. n /\ At(q, pos) = q.heap[x]
    BY DEF Sound, LookupExact, Position, At
  <1> HIDE DEF n
  <1>2. /\ new \in EntryType /\ new.item = q.heap[x].item /\ new.index = q.heap[x].index
    <2>1. q.heap[x] \in EntryType
      BY <1>1
    <2> QED BY <1>1, <2>1 DEF EntryType
  <1>3. h.heap = [q.heap EXCEPT ![x] = new] /\ h.reverse = q.reverse
    OBVIOUS
  <1> HIDE DEF x
  <1>4. /\ h.heap \in [1 .. n -> EntryType] /\ h.heap \in Seq(EntryType)
        /\ DOMAIN h.heap = 1 .. n /\ Len(h.heap) = n
        /\ h.heap[x] = new /\ \A k \in 1 .. n : k # x => h.heap[k] = q.heap[k]
    <2>1. /\ h.heap \in [1 .. n -> EntryType] /\ DOMAIN h.heap = 1 .. n
          /\ h.heap[x] = new /\ \A k \in 1 .. n : k # x => h.heap[k] = q.heap[k]
      BY <1>1, <1>2, <1>3
    <2>2. h.heap \in Seq(EntryType)
      BY <1>1, <2>1
    <2> QED BY <1>1, <2>1, <2>2
  <1>5. \A k \in 1 .. n : h.heap[k].item = q.heap[k].item /\ h.heap[k].index = q.heap[k].index
    BY <1>2, <1>4
  <1>6. LookupExact(h)
    <2>1. DOMAIN q.reverse = {q.heap[k].item : k \in 1 .. n}
          /\ \A k \in 1 .. n : q.reverse[q.heap[k].item] = k - 1
      BY <1>1 DEF Sound, LookupExact
    <2>2. {q.heap[k].item : k \in 1 .. n} = {h.heap[k].item : k \in 1 .. n}
      BY <1>5
    <2>3. \A k \in 1 .. n : h.reverse[h.heap[k].item] = k - 1
      BY <1>3, <1>5, <2>1
    <2>4. DOMAIN h.reverse = {h.heap[k].item : k \in DOMAIN h.heap}
      BY <1>3, <1>4, <2>1, <2>2
    <2> QED BY <1>4, <2>3, <2>4 DEF LookupExact
  <1>7. IndicesDiffer(h)
    <2>1. \A k, l \in 1 .. n : q.heap[k].index = q.heap[l].index => k = l
      BY <1>1 DEF Sound, IndicesDiffer
    <2> QED BY SMTT(60), <1>4, <1>5, <2>1 DEF IndicesDiffer
  <1>8. Position(h) = Position(q)
    BY <1>4 DEF Position, n
  <1>9. \A k \in Position(q) : k \in Nat /\ (k # pos => At(h, k) = At(q, k))
    <2>1. \A k \in Position(q) : k \in Nat /\ k + 1 \in 1 .. n /\ (k # pos => k + 1 # x)
      BY <1>1 DEF Position, n, x
    <2> QED BY <1>4, <2>1 DEF At
  <1>10. OrderedBut(h, pos)
    <2>1. OrderedBut(q, pos)
      BY OrderedIsOrderedBut DEF Sound, LookupExact
    <2>2. ASSUME NEW p \in Position(q), NEW i \in Position(q), IsChild(i, p), i # pos, p # pos
          PROVE  InOrder(h, p, i)
      BY <1>9, <2>1, <2>2 DEF OrderedBut, InOrder
    <2>3. ASSUME NEW p \in Position(q), NEW i \in Position(q), IsChild(pos, p), IsChild(i, pos)
          PROVE  InOrder(h, p, i)
      <3>1. p < pos /\ pos < i /\ p \in Nat /\ pos \in Nat /\ i \in Nat
        BY <1>9, <2>3, OneParent
      <3>2. p # pos /\ i # pos
        BY <3>1
      <3> QED BY <1>9, <2>1, <2>3, <3>2 DEF OrderedBut, InOrder
    <2> QED BY <1>8, <2>2, <2>3 DEF OrderedBut
  <1>11. /\ At(q, pos) \in Q!Entries(q)
         /\ Q!Entries(h) = (Q!Entries(q) \ {At(q, pos)}) \cup {new}
    <2>1. /\ Q!Entries(q) = {q.heap[k] : k \in 1 .. n}
          /\ Q!Entries(h) = {h.heap[k] : k \in 1 .. n}
      BY <1>1, <1>4 DEF Q!Entries
    <2>2. \A k \in 1 .. n : k # x => q.heap[k] # q.heap[x]
      BY <1>1 DEF Sound, IndicesDiffer
    <2>3. ASSUME NEW k \in 1 .. n PROVE h.heap[k] \in (Q!Entries(q) \ {q.heap[x]}) \cup {new}
      BY <1>4, <2>1, <2>2
    <2>4. ASSUME NEW k \in 1 .. n, q.heap[k] # q.heap[x] PROVE q.heap[k] \in Q!Entries(h)
      <3>1. q.heap[k] = h.heap[k]
        BY <1>4, <2>4
      <3> QED BY <2>1, <3>1
    <2>5. new \in Q!Entries(h)
      BY ZenonT(60), <1>1, <1>4, <2>1
    <2>6. Q!Entries(h) \subseteq (Q!Entries(q) \ {q.heap[x]}) \cup {new}
      BY <2>1, <2>3
    <2>7. (Q!Entries(q) \ {q.heap[x]}) \cup {new} \subseteq Q!Entries(h)
      BY <2>1, <2>4, <2>5
    <2>8. q.heap[x] \in Q!Entries(q)
      BY <1>1, <2>1
    <2> QED BY <1>1, <2>6, <2>7, <2>8
  <1> QED BY <1>6, <1>7, <1>8, <1>10, <1>11 DEF Sound

LEMMA SetPriorityChanges ==
  ASSUME NEW q, QueueOK(q), NEW item, Q!Contains(q, item), NEW priority \in Priority
  PROVE  /\ QueueOK(Q!SetPriority(q, item, priority))
         /\ \E e \in Q!Entries(q) :
              Q!Entries(Q!SetPriority(q, item, priority))
                = (Q!Entries(q) \ {e}) \cup {[e EXCEPT !.priority = priority]}
  <1> DEFINE pos == q.reverse[item]
             new == [At(q, pos) EXCEPT !.priority = priority]
             h == [heap |-> [q.heap EXCEPT ![pos + 1].priority = priority],
                   reverse |-> q.reverse]
             g == Q!UpDownHeap(h, pos)
             r == Q!Rebuilt(q, g, q.event)
  <1>1. Q!SetPriority(q, item, priority) = r
    BY DEF Q!SetPriority
  <1>2. pos \in Position(q)
    BY LookedUp DEF Q!Contains, QueueOK
  <1>3. h = [heap |-> [q.heap EXCEPT ![pos + 1] = new], reverse |-> q.reverse]
    BY DEF At
  <1>4. Sound(q) /\ Ordered(q)
    BY DEF QueueOK
  <1>5. new = [At(q, pos) EXCEPT !.priority = priority]
    OBVIOUS
  <1> HIDE DEF h, new, pos, r
  <1>6. /\ Sound(h) /\ Position(h) = Position(q) /\ OrderedBut(h, pos)
        /\ At(q, pos) \in Q!Entries(q)
        /\ Q!Entries(h) = (Q!Entries(q) \ {At(q, pos)}) \cup {new}
    BY <1>2, <1>3, <1>4, <1>5, ChangedAt
  <1>7. Sound(g) /\ SameEntries(h, g) /\ Ordered(g)
    BY <1>2, <1>6, UpDownHeapPlaces
  <1> HIDE DEF g
  <1>8. q.event \in BOOLEAN /\ (q.event <=> g.heap # <<>>)
    <2>1. Q!Entries(q) # {} /\ Q!Entries(g) # {}
      BY <1>6, <1>7 DEF SameEntries
    <2> QED BY <1>4, <1>7, <2>1, EmptyOrNot DEF QueueOK, Sound
  <1>9. QueueOK(r) /\ Q!Entries(r) = Q!Entries(g)
    <2> DEFINE event == q.event
    <2>1. event \in BOOLEAN /\ (event <=> g.heap # <<>>)
      BY <1>8
    <2>2. r = Q!Rebuilt(q, g, event)
      BY DEF r
    <2> HIDE DEF event
    <2> QED BY <1>7, <2>1, <2>2, RebuiltFrom
  <1>10. Q!Entries(r) = (Q!Entries(q) \ {At(q, pos)}) \cup {[At(q, pos) EXCEPT !.priority = priority]}
    BY <1>5, <1>6, <1>7, <1>9 DEF SameEntries
  <1> QED BY <1>1, <1>6, <1>9, <1>10

-----------------------------------------------------------------------------
(* Enqueueing a set of operations.                                         *)

(* A finite set of numbers that is not empty has a least.                  *)
LEMMA LeastOf ==
  ASSUME NEW T \in SUBSET Int, IsFiniteSet(T), T # {}
  PROVE  \E first \in T : \A other \in T : first <= other
  <1> DEFINE n == Cardinality(T)
  <1>1. n \in Nat /\ n # 0
    BY FS_CardinalityType, FS_EmptySet
  <1>2. PICK b : b \in Bijection(1 .. n, T)
    BY FS_CardinalityType DEF ExistsBijection
  <1> HIDE DEF n
  <1>3. b \in [1 .. n -> T] /\ \A t \in T : \E k \in 1 .. n : b[k] = t
    BY <1>2 DEF Bijection, Injection, Surjection
  <1> DEFINE N == n - 1
             f == [i \in 0 .. N |-> 0 - b[i + 1]]
  <1>4. N \in Nat /\ \A k \in 1 .. n : k - 1 \in 0 .. N /\ (k - 1) + 1 = k
    BY <1>1
  <1>5. \A i \in 0 .. N : i + 1 \in 1 .. n
    BY <1>1
  <1>6. f \in [0 .. N -> Int] /\ \A i \in 0 .. N : f[i] = 0 - b[i + 1]
    <2>1. \A i \in 0 .. N : b[i + 1] \in Int
      BY <1>3, <1>5
    <2> HIDE DEF N
    <2> QED BY <2>1
  <1> HIDE DEF f, N
  <1>7. PICK k \in 0 .. N : \A i \in 0 .. N : f[i] <= f[k]
    BY <1>4, <1>6, GreatestOf
  <1>8. b[k + 1] \in T
    BY <1>3, <1>5
  <1>9. ASSUME NEW t \in T PROVE b[k + 1] <= t
    <2>1. PICK j \in 1 .. n : b[j] = t
      BY <1>3
    <2>2. j - 1 \in 0 .. N /\ f[j - 1] = 0 - t
      BY <1>4, <1>6, <2>1
    <2>3. f[j - 1] <= f[k] /\ f[k] = 0 - b[k + 1]
      BY <1>6, <1>7, <2>2
    <2>4. t \in Int /\ b[k + 1] \in Int
      BY <1>8
    <2> QED BY <2>2, <2>3, <2>4
  <1> QED BY <1>8, <1>9

(* What operations can be asked for with.                                  *)
Asked(ops) ==
  /\ ops \subseteq Operation /\ IsFiniteSet(ops)
  /\ \A op \in ops : request[op][1] \in Priority /\ request[op][2] \in Timestamp

(* The entries of r are those of q, and others that came after them.       *)
Arrived(q, r) ==
  /\ Q!Entries(q) \subseteq Q!Entries(r)
  /\ \A old \in Q!Entries(q), new \in Q!Entries(r) \ Q!Entries(q) : old.index < new.index

LEMMA QueuedArrives ==
  ASSUME NEW q, NEW s, QueueOK(s), Arrived(q, s), NEW op \in Operation,
         request[op][1] \in Priority, request[op][2] \in Timestamp
  PROVE  QueueOK(Queued(s, op)) /\ Arrived(q, Queued(s, op))
  <1> DEFINE p == request[op][1]
             t == request[op][2]
             r == Q!Push(s, op, p, t)
             new == Q!Entry(op, p, t, Q!NextIndex(s))
  <1>1. Queued(s, op) = r
    BY DEF Queued
  <1>2. p \in Priority /\ t \in Timestamp
    OBVIOUS
  <1> HIDE DEF p, t
  <1>3. CASE Q!Contains(s, op)
    <2>1. r = s
      BY <1>3 DEF Q!Push
    <2> QED BY <1>1, <2>1
  <1>4. CASE ~Q!Contains(s, op)
    <2>1. /\ QueueOK(r) /\ Q!Entries(r) = Q!Entries(s) \cup {new}
          /\ \A e \in Q!Entries(s) : e.index < new.index
      BY <1>2, <1>4, PushAdds
    <2> HIDE DEF r, new
    <2> QED BY <1>1, <2>1 DEF Arrived
  <1> QED BY <1>3, <1>4

QueuedRounds(q, ops, N, after) ==
  after = [n \in 0 .. N |-> IF n = 0 THEN [queue |-> q, ops |-> ops] ELSE QueuedFirst(after[n - 1])]

LEMMA QueuedRoundsExist ==
  ASSUME NEW q, NEW ops, NEW N \in Nat
  PROVE  \E after : QueuedRounds(q, ops, N, after)
  <1> DEFINE S == {n \in 0 .. N : \E after : QueuedRounds(q, ops, n, after)}
             s0 == [queue |-> q, ops |-> ops]
             Round(s) == QueuedFirst(s)
  <1>1. 0 \in S
    <2>1. QueuedRounds(q, ops, 0, [n \in 0 .. 0 |-> s0])
      BY DEF QueuedRounds
    <2> QED BY <2>1
  <1>2. ASSUME NEW n \in 1 .. N, n - 1 \in S PROVE n \in S
    <2>1. PICK f : QueuedRounds(q, ops, n - 1, f)
      BY <1>2
    <2> DEFINE last == Round(f[n - 1])
               f2 == [k \in 0 .. n |-> IF k = n THEN last ELSE f[k]]
    <2>2. f = [k \in 0 .. n - 1 |-> IF k = 0 THEN s0 ELSE Round(f[k - 1])]
      BY Zenon, <2>1 DEF QueuedRounds
    <2>3. last = Round(f[n - 1])
      BY Zenon
    <2> HIDE DEF Round, last, s0
    <2>4. f2 = [k \in 0 .. n |-> IF k = 0 THEN s0 ELSE Round(f2[k - 1])]
      <3> SUFFICES ASSUME NEW k \in 0 .. n
                   PROVE  f2[k] = IF k = 0 THEN s0 ELSE Round(f2[k - 1])
        OBVIOUS
      <3>1. CASE k = n
        BY <3>1, <2>3
      <3>2. CASE k # n
        BY <3>2, <2>2
      <3> QED BY <3>1, <3>2
    <2> HIDE DEF f2
    <2>5. QueuedRounds(q, ops, n, f2)
      BY Zenon, <2>4 DEF QueuedRounds, Round, s0
    <2> QED BY <2>5
  <1> HIDE DEF S
  <1>3. N \in S
    BY <1>1, <1>2, InductionUpTo
  <1> QED BY <1>3 DEF S

LEMMA QueuedAllArrives ==
  ASSUME NEW q, QueueOK(q), NEW ops, Asked(ops)
  PROVE  QueueOK(QueuedAll(q, ops)) /\ Arrived(q, QueuedAll(q, ops))
  <1> DEFINE N == Cardinality(ops)
             after == CHOOSE f : QueuedRounds(q, ops, N, f)
             Fine(s) == QueueOK(s.queue) /\ Arrived(q, s.queue) /\ s.ops \subseteq ops
             S == {n \in 0 .. N : Fine(after[n]) /\ Cardinality(after[n].ops) = N - n}
  <1>1. N \in Nat
    BY FS_CardinalityType DEF Asked
  <1>2. QueuedRounds(q, ops, N, after)
    BY <1>1, QueuedRoundsExist
  <1>3. QueuedAll(q, ops) = after[N].queue
    BY Zenon DEF QueuedAll, QueuedRounds
  <1> HIDE DEF after
  <1>4. \A n \in 0 .. N :
          after[n] = IF n = 0 THEN [queue |-> q, ops |-> ops] ELSE QueuedFirst(after[n - 1])
    <2>1. after = [n \in 0 .. N |->
                     IF n = 0 THEN [queue |-> q, ops |-> ops] ELSE QueuedFirst(after[n - 1])]
      BY Zenon, <1>2 DEF QueuedRounds
    <2> QED BY Zenon, <2>1
  <1>5. 0 \in S
    <2>1. after[0] = [queue |-> q, ops |-> ops]
      BY <1>1, <1>4
    <2> QED BY <1>1, <2>1 DEF Arrived
  <1>6. ASSUME NEW n \in 1 .. N, n - 1 \in S PROVE n \in S
    <2> DEFINE s == after[n - 1]
               t == after[n]
               op == CHOOSE first \in s.ops : \A other \in s.ops : first <= other
    <2>1. t = QueuedFirst(s)
      BY <1>1, <1>4
    <2>2. Fine(s) /\ Cardinality(s.ops) = N - (n - 1)
      BY <1>6
    <2>3. t.queue = Queued(s.queue, op) /\ t.ops = s.ops \ {op}
      BY <2>1 DEF QueuedFirst
    <2> HIDE DEF s, t
    <2>4. IsFiniteSet(s.ops) /\ s.ops \in SUBSET Int /\ s.ops # {}
      <3>1. IsFiniteSet(s.ops)
        BY <2>2, FS_Subset DEF Asked
      <3>2. Operation \subseteq Int
        BY Zenon, TriggeredServiceAssumption
      <3>3. s.ops # {}
        <4>1. Cardinality(s.ops) # 0
          BY <1>1, <2>2
        <4> QED BY <4>1, FS_EmptySet
      <3> QED BY <2>2, <3>1, <3>2, <3>3 DEF Asked
    <2>5. op \in s.ops
      BY <2>4, LeastOf
    <2> HIDE DEF op
    <2>6. op \in Operation /\ request[op][1] \in Priority /\ request[op][2] \in Timestamp
      BY <2>2, <2>5 DEF Asked
    <2>7. QueueOK(t.queue) /\ Arrived(q, t.queue)
      BY <2>2, <2>3, <2>6, QueuedArrives
    <2>8. Cardinality(t.ops) = N - n
      <3>1. Cardinality(s.ops \ {op}) = Cardinality(s.ops) - 1
        BY <2>4, <2>5, FS_RemoveElement
      <3> QED BY <1>1, <2>2, <2>3, <3>1
    <2>9. Fine(t)
      BY <2>2, <2>3, <2>7
    <2> QED BY <2>8, <2>9 DEF t
  <1> HIDE DEF S
  <1>7. N \in S
    <2>1. \A n \in 0 .. N : n \in S
      BY <1>1, <1>5, <1>6, InductionUpTo
    <2> QED BY <1>1, <2>1
  <1> QED BY <1>3, <1>7 DEF S

-----------------------------------------------------------------------------
(* Popping a batch.                                                        *)

(* What has been taken of q, in order, and what is left of it.             *)
TakenInOrder(q, r, taken) ==
  /\ taken \in Seq(EntryType)
  /\ \A i, j \in DOMAIN taken : i < j => Q!Before(taken[i], taken[j])
  /\ {taken[i] : i \in DOMAIN taken} \subseteq Q!Entries(q)
  /\ Q!Entries(r) = Q!Entries(q) \ {taken[i] : i \in DOMAIN taken}
  /\ \A e \in Q!Entries(r), i \in DOMAIN taken : Q!Before(taken[i], e)

LEMMA PopIntoTakes ==
  ASSUME NEW q, NEW r, NEW taken, QueueOK(r), TakenInOrder(q, r, taken), r.heap # <<>>,
         NEW p, p = Q!Pop(r), NEW more, more = Append(taken, Q!Top(r))
  PROVE  /\ QueueOK(p) /\ TakenInOrder(q, p, more)
         /\ Len(p.heap) = Len(r.heap) - 1 /\ Len(more) = Len(taken) + 1
  <1> DEFINE top == Q!Top(r)
             n == Len(taken)
  <1>1. QueueOK(p) /\ Q!Entries(p) = Q!Entries(r) \ {top} /\ Len(p.heap) = Len(r.heap) - 1
    BY PopTakesTop
  <1>2. /\ top \in Q!Entries(r)
        /\ \A e \in Q!Entries(r) : e # top => Q!Before(top, e)
    BY TopIsFirst DEF QueueOK
  <1>3. top \in EntryType
    BY <1>2 DEF QueueOK, Sound, LookupExact, Q!Entries
  <1>4. n \in Nat /\ taken \in Seq(EntryType) /\ DOMAIN taken = 1 .. n
    BY DEF TakenInOrder
  <1>5. more = Append(taken, top)
    OBVIOUS
  <1> HIDE DEF top, n
  <1>6. /\ more \in Seq(EntryType) /\ Len(more) = n + 1 /\ DOMAIN more = 1 .. n + 1
        /\ more[n + 1] = top /\ \A i \in 1 .. n : more[i] = taken[i]
    BY <1>3, <1>4, <1>5 DEF n
  <1>7. \A i \in 1 .. n + 1 : i \in Nat /\ (i = n + 1 \/ i \in 1 .. n)
    BY <1>4
  <1>8. n + 1 \in 1 .. n + 1 /\ \A i \in 1 .. n : i \in 1 .. n + 1 /\ i < n + 1
    BY <1>4
  <1>9. ASSUME NEW i \in 1 .. n + 1, NEW j \in 1 .. n + 1, i < j
        PROVE  Q!Before(more[i], more[j])
    <2>1. i \in 1 .. n
      BY <1>4, <1>9
    <2>2. CASE j = n + 1
      BY <1>2, <1>4, <1>6, <2>1, <2>2 DEF TakenInOrder
    <2>3. CASE j \in 1 .. n
      BY <1>4, <1>6, <1>9, <2>1, <2>3 DEF TakenInOrder
    <2> QED BY <1>7, <2>2, <2>3
  <1> DEFINE old == {taken[i] : i \in DOMAIN taken}
             new == {more[i] : i \in DOMAIN more}
  <1>10. new = old \cup {top}
    <2>1. ASSUME NEW i \in 1 .. n + 1 PROVE more[i] \in old \cup {top}
      BY <1>4, <1>6, <1>7
    <2>2. ASSUME NEW i \in 1 .. n PROVE taken[i] \in new
      <3>1. taken[i] = more[i] /\ i \in DOMAIN more
        BY <1>6, <1>8
      <3> QED BY <3>1
    <2>3. top \in new
      BY <1>6, <1>8
    <2>4. new \subseteq old \cup {top}
      BY <1>6, <2>1
    <2>5. old \cup {top} \subseteq new
      BY <1>4, <2>2, <2>3
    <2> QED BY Zenon, <2>4, <2>5
  <1>11. old \subseteq Q!Entries(q) /\ Q!Entries(r) = Q!Entries(q) \ old
    BY DEF TakenInOrder
  <1>12. ASSUME NEW e \in Q!Entries(p), NEW i \in 1 .. n + 1
         PROVE  Q!Before(more[i], e)
    <2>1. e \in Q!Entries(r) /\ e # top
      BY <1>1
    <2>2. CASE i = n + 1
      BY <1>2, <1>6, <2>1, <2>2
    <2>3. CASE i \in 1 .. n
      BY <1>4, <1>6, <2>1, <2>3 DEF TakenInOrder
    <2> QED BY <1>7, <2>2, <2>3
  <1>13. new \subseteq Q!Entries(q) /\ Q!Entries(p) = Q!Entries(q) \ new
    <2> HIDE DEF old, new
    <2> QED BY <1>1, <1>2, <1>10, <1>11
  <1>14. TakenInOrder(q, p, more)
    BY <1>6, <1>9, <1>12, <1>13 DEF TakenInOrder
  <1> QED BY <1>1, <1>6, <1>14 DEF n

PoppedRounds(q, N, after) ==
  after = [n \in 0 .. N |-> IF n = 0 THEN [queue |-> q, taken |-> <<>>] ELSE PopInto(after[n - 1])]

LEMMA PoppedRoundsExist ==
  ASSUME NEW q, NEW N \in Nat
  PROVE  \E after : PoppedRounds(q, N, after)
  <1> DEFINE S == {n \in 0 .. N : \E after : PoppedRounds(q, n, after)}
             s0 == [queue |-> q, taken |-> <<>>]
             Round(s) == PopInto(s)
  <1>1. 0 \in S
    <2>1. PoppedRounds(q, 0, [n \in 0 .. 0 |-> s0])
      BY DEF PoppedRounds
    <2> QED BY <2>1
  <1>2. ASSUME NEW n \in 1 .. N, n - 1 \in S PROVE n \in S
    <2>1. PICK f : PoppedRounds(q, n - 1, f)
      BY <1>2
    <2> DEFINE last == Round(f[n - 1])
               f2 == [k \in 0 .. n |-> IF k = n THEN last ELSE f[k]]
    <2>2. f = [k \in 0 .. n - 1 |-> IF k = 0 THEN s0 ELSE Round(f[k - 1])]
      BY Zenon, <2>1 DEF PoppedRounds
    <2>3. last = Round(f[n - 1])
      BY Zenon
    <2> HIDE DEF Round, last, s0
    <2>4. f2 = [k \in 0 .. n |-> IF k = 0 THEN s0 ELSE Round(f2[k - 1])]
      <3> SUFFICES ASSUME NEW k \in 0 .. n
                   PROVE  f2[k] = IF k = 0 THEN s0 ELSE Round(f2[k - 1])
        OBVIOUS
      <3>1. CASE k = n
        BY <3>1, <2>3
      <3>2. CASE k # n
        BY <3>2, <2>2
      <3> QED BY <3>1, <3>2
    <2> HIDE DEF f2
    <2>5. PoppedRounds(q, n, f2)
      BY Zenon, <2>4 DEF PoppedRounds, Round, s0
    <2> QED BY <2>5
  <1> HIDE DEF S
  <1>3. N \in S
    BY <1>1, <1>2, InductionUpTo
  <1> QED BY <1>3 DEF S

LEMMA PoppedTakes ==
  ASSUME NEW q, QueueOK(q), NEW size \in 0 .. Len(q.heap)
  PROVE  LET popped == Popped(q, size) IN
         /\ QueueOK(popped.queue) /\ TakenInOrder(q, popped.queue, popped.taken)
         /\ Len(popped.queue.heap) = Len(q.heap) - size /\ Len(popped.taken) = size
  <1> DEFINE after == CHOOSE f : PoppedRounds(q, size, f)
             Fine(s) == QueueOK(s.queue) /\ TakenInOrder(q, s.queue, s.taken)
             S == {n \in 0 .. size : /\ Fine(after[n]) /\ Len(after[n].taken) = n
                                     /\ Len(after[n].queue.heap) = Len(q.heap) - n}
  <1>1. size \in Nat /\ Len(q.heap) \in Nat /\ size <= Len(q.heap)
    BY DEF QueueOK, Sound, LookupExact
  <1>2. PoppedRounds(q, size, after)
    BY <1>1, PoppedRoundsExist
  <1>3. Popped(q, size) = after[size]
    BY Zenon DEF Popped, PoppedRounds
  <1> HIDE DEF after
  <1>4. \A n \in 0 .. size :
          after[n] = IF n = 0 THEN [queue |-> q, taken |-> <<>>] ELSE PopInto(after[n - 1])
    <2>1. after = [n \in 0 .. size |->
                     IF n = 0 THEN [queue |-> q, taken |-> <<>>] ELSE PopInto(after[n - 1])]
      BY Zenon, <1>2 DEF PoppedRounds
    <2> QED BY Zenon, <2>1
  <1>5. 0 \in S
    <2>1. after[0] = [queue |-> q, taken |-> <<>>]
      BY <1>1, <1>4
    <2>2. TakenInOrder(q, q, <<>>)
      BY DEF TakenInOrder
    <2> QED BY <1>1, <2>1, <2>2
  <1>6. ASSUME NEW n \in 1 .. size, n - 1 \in S PROVE n \in S
    <2> DEFINE s == after[n - 1]
               t == after[n]
    <2>1. t = PopInto(s)
      BY <1>1, <1>4
    <2>2. /\ QueueOK(s.queue) /\ TakenInOrder(q, s.queue, s.taken)
          /\ Len(s.taken) = n - 1 /\ Len(s.queue.heap) = Len(q.heap) - (n - 1)
      BY <1>6
    <2>3. t.queue = Q!Pop(s.queue) /\ t.taken = Append(s.taken, Q!Top(s.queue))
      BY <2>1 DEF PopInto
    <2> HIDE DEF s, t
    <2>4. s.queue.heap # <<>>
      <3>1. Len(s.queue.heap) # 0
        BY <1>1, <2>2
      <3> QED BY <2>2, <3>1, EmptyOrNot DEF QueueOK, Sound
    <2>5. /\ QueueOK(t.queue) /\ TakenInOrder(q, t.queue, t.taken)
          /\ Len(t.queue.heap) = Len(s.queue.heap) - 1 /\ Len(t.taken) = Len(s.taken) + 1
      <3>1. PICK r, taken, p, more :
                r = s.queue /\ taken = s.taken /\ p = t.queue /\ more = t.taken
        OBVIOUS
      <3>2. QueueOK(r) /\ TakenInOrder(q, r, taken) /\ r.heap # <<>>
        BY <2>2, <2>4, <3>1
      <3>3. p = Q!Pop(r) /\ more = Append(taken, Q!Top(r))
        BY <2>3, <3>1
      <3>4. /\ QueueOK(p) /\ TakenInOrder(q, p, more)
            /\ Len(p.heap) = Len(r.heap) - 1 /\ Len(more) = Len(taken) + 1
        <4>1. QueueOK(p)
          BY <3>2, <3>3, PopIntoTakes
        <4>2. TakenInOrder(q, p, more)
          BY <3>2, <3>3, PopIntoTakes
        <4>3. Len(p.heap) = Len(r.heap) - 1
          BY <3>2, <3>3, PopIntoTakes
        <4>4. Len(more) = Len(taken) + 1
          BY <3>2, <3>3, PopIntoTakes
        <4> QED BY <4>1, <4>2, <4>3, <4>4
      <3> QED BY <3>1, <3>4
    <2>6. Len(t.taken) = n /\ Len(t.queue.heap) = Len(q.heap) - n
      BY <1>1, <2>2, <2>5
    <2> QED BY <2>5, <2>6 DEF t
  <1> HIDE DEF S
  <1>7. size \in S
    <2>1. \A n \in 0 .. size : n \in S
      BY <1>1, <1>5, <1>6, InductionUpTo
    <2> QED BY <1>1, <2>1
  <1> QED BY <1>3, <1>7 DEF S

-----------------------------------------------------------------------------
(* The steps of the service, as steps of the abstract queues.              *)

LEMMA EntriesDiffer ==
  ASSUME NEW h, Sound(h)
  PROVE  /\ Q!Entries(h) \subseteq EntryType
         /\ \A a, b \in Q!Entries(h) : a.item = b.item \/ a.index = b.index => a = b
  <1>1. /\ Q!Entries(h) = {h.heap[k] : k \in DOMAIN h.heap}
        /\ \A k \in DOMAIN h.heap : k \in Int /\ h.heap[k] \in EntryType
    BY DEF Sound, LookupExact, Q!Entries
  <1>2. ASSUME NEW k \in DOMAIN h.heap, NEW l \in DOMAIN h.heap,
               h.heap[k].item = h.heap[l].item \/ h.heap[k].index = h.heap[l].index
        PROVE  h.heap[k] = h.heap[l]
    <2>1. CASE h.heap[k].index = h.heap[l].index
      BY <2>1 DEF Sound, IndicesDiffer
    <2>2. CASE h.heap[k].item = h.heap[l].item
      <3>1. k - 1 = l - 1
        BY <2>2 DEF Sound, LookupExact
      <3>2. k = l
        BY <1>1, <3>1
      <3> QED BY <3>2
    <2> QED BY <1>2, <2>1, <2>2
  <1> QED BY <1>1, <1>2

LEMMA ArriveStep ==
  ASSUME NEW e, QueueOK(queues'[e]), Arrived(queues[e], queues'[e]),
         to_execute'[e] = to_execute[e]
  PROVE  Abstract(e)!Next
  <1>1. /\ Q!Entries(queues'[e]) \subseteq EntryType
        /\ \A a, b \in Q!Entries(queues'[e]) : a.item = b.item \/ a.index = b.index => a = b
    BY EntriesDiffer DEF QueueOK
  <1>2. Abstract(e)!Arrive
    BY <1>1 DEF Abstract!Arrive, Abstract!Entry, Arrived, EntryType
  <1> QED BY <1>2 DEF Abstract!Next

LEMMA StutterStep ==
  ASSUME NEW e, queues'[e] = queues[e], to_execute'[e] = to_execute[e]
  PROVE  [Abstract(e)!Next]_(Abstract(e)!vars)
  BY DEF Abstract!vars

LEMMA WithdrawStep ==
  ASSUME NEW e, NEW item, QueueOK(queues[e]), Q!Contains(queues[e], item),
         queues'[e] = Q!Remove(queues[e], item), to_execute'[e] = to_execute[e]
  PROVE  QueueOK(queues'[e]) /\ Abstract(e)!Next
  <1>1. /\ QueueOK(Q!Remove(queues[e], item))
        /\ \E entry \in Q!Entries(queues[e]) :
             Q!Entries(Q!Remove(queues[e], item)) = Q!Entries(queues[e]) \ {entry}
    BY RemoveTakesOut
  <1>2. Abstract(e)!Withdraw
    BY <1>1 DEF Abstract!Withdraw
  <1> QED BY <1>1, <1>2 DEF Abstract!Next

LEMMA ReprioritizeStep ==
  ASSUME NEW e, NEW item, NEW priority \in Priority, QueueOK(queues[e]),
         Q!Contains(queues[e], item),
         queues'[e] = Q!SetPriority(queues[e], item, priority),
         to_execute'[e] = to_execute[e]
  PROVE  QueueOK(queues'[e]) /\ Abstract(e)!Next
  <1>1. /\ QueueOK(Q!SetPriority(queues[e], item, priority))
        /\ \E entry \in Q!Entries(queues[e]) :
             Q!Entries(Q!SetPriority(queues[e], item, priority))
               = (Q!Entries(queues[e]) \ {entry}) \cup {[entry EXCEPT !.priority = priority]}
    BY SetPriorityChanges
  <1>2. Abstract(e)!Reprioritize
    BY <1>1 DEF Abstract!Reprioritize
  <1> QED BY <1>1, <1>2 DEF Abstract!Next

LEMMA FinishStep ==
  ASSUME NEW e, to_execute[e] # <<>>, to_execute'[e] = <<>>, queues'[e] = queues[e]
  PROVE  Abstract(e)!Next
  <1>1. Abstract(e)!Finish
    BY DEF Abstract!Finish
  <1> QED BY <1>1 DEF Abstract!Next

LEMMA EmptyQueueOK == QueueOK(Q!EmptyQueue) /\ Q!Entries(Q!EmptyQueue) = {}
  <1> DEFINE q == Q!EmptyQueue
  <1>1. q = [heap |-> <<>>, reverse |-> <<>>, event |-> FALSE]
    BY DEF Q!EmptyQueue
  <1> HIDE DEF q
  <1>2. q.heap = <<>> /\ q.reverse = <<>> /\ q.event = FALSE
    BY <1>1
  <1>3. DOMAIN q.heap = {} /\ DOMAIN q.reverse = {} /\ Len(q.heap) = 0
    BY <1>2
  <1>4. Sound(q)
    BY <1>2, <1>3 DEF Sound, LookupExact, IndicesDiffer
  <1>5. Ordered(q)
    BY <1>3 DEF Ordered, Position
  <1>6. Q!Entries(q) = {}
    BY <1>3 DEF Q!Entries
  <1>7. q = [heap |-> q.heap, reverse |-> q.reverse, event |-> q.event]
    BY <1>1
  <1>8. QueueOK(q)
    BY <1>2, <1>4, <1>5, <1>7 DEF QueueOK
  <1> QED BY <1>6, <1>8 DEF q

LEMMA RestartStep ==
  ASSUME NEW e, queues'[e] = Q!EmptyQueue, to_execute'[e] = <<>>
  PROVE  QueueOK(queues'[e]) /\ Abstract(e)!Next
  <1>1. Abstract(e)!Restart
    BY EmptyQueueOK DEF Abstract!Restart
  <1> QED BY <1>1, EmptyQueueOK DEF Abstract!Next

LEMMA BatchSizeFits ==
  ASSUME NEW q, QueueOK(q), q.heap # <<>>
  PROVE  /\ BatchSize(q) \in 1 .. Len(q.heap)
         /\ BatchLimit # 0 => BatchSize(q) <= BatchLimit
         /\ BatchSize(q) = Len(q.heap) \/ BatchSize(q) = BatchLimit
  <1>1. BatchLimit \in Nat
    BY Zenon, TriggeredServiceAssumption
  <1>2. Len(q.heap) \in Nat /\ Len(q.heap) # 0
    BY EmptyOrNot DEF QueueOK, Sound, LookupExact
  <1> QED BY <1>1, <1>2 DEF BatchSize

LEMMA TakeStep ==
  ASSUME NEW e, QueueOK(queues[e]), queues[e].heap # <<>>, to_execute[e] = <<>>,
         queues'[e] = Popped(queues[e], BatchSize(queues[e])).queue,
         to_execute'[e] = Popped(queues[e], BatchSize(queues[e])).taken
  PROVE  /\ QueueOK(queues'[e]) /\ Abstract(e)!Next
         /\ BatchLimit # 0 => Len(to_execute'[e]) <= BatchLimit
  <1> DEFINE q == queues[e]
             size == BatchSize(q)
             r == queues'[e]
             taken == to_execute'[e]
  <1>1. /\ size \in 1 .. Len(q.heap)
        /\ BatchLimit # 0 => size <= BatchLimit
        /\ size = Len(q.heap) \/ size = BatchLimit
    BY BatchSizeFits
  <1>2. Len(q.heap) \in Nat /\ size \in 0 .. Len(q.heap)
    BY <1>1 DEF QueueOK, Sound, LookupExact
  <1>3. /\ QueueOK(r) /\ TakenInOrder(q, r, taken)
        /\ Len(r.heap) = Len(q.heap) - size /\ Len(taken) = size
    <2> HIDE DEF size
    <2> QED BY <1>2, PoppedTakes DEF size
  <1>4. Q!Entries(r) = {} \/ Len(taken) = BatchLimit
    <2>1. Len(r.heap) = 0 \/ Len(taken) = BatchLimit
      BY <1>1, <1>2, <1>3
    <2> QED BY <1>3, <2>1, EmptyOrNot DEF QueueOK, Sound
  <1>5. taken # <<>>
    BY <1>1, <1>3
  <1> DEFINE items == {taken[i] : i \in DOMAIN taken}
  <1>6. /\ \A i, j \in DOMAIN taken : i < j => Q!Before(taken[i], taken[j])
        /\ items \subseteq Q!Entries(q)
        /\ Q!Entries(r) = Q!Entries(q) \ items
        /\ \A x \in Q!Entries(r), i \in DOMAIN taken : Q!Before(taken[i], x)
    BY <1>3 DEF TakenInOrder
  <1>7. Abstract(e)!Take
    <2>1. \A a, b : Abstract(e)!Earlier(a, b) <=> Q!Before(a, b)
      BY DEF Abstract!Earlier, Q!Before
    <2>2. BatchLimit = 0 \/ Len(taken) <= BatchLimit
      BY <1>1, <1>3
    <2> HIDE DEF size
    <2> QED BY <1>4, <1>5, <1>6, <2>1, <2>2 DEF Abstract!Take
  <1> QED BY <1>1, <1>3, <1>7 DEF Abstract!Next

-----------------------------------------------------------------------------
(* The service.                                                            *)

NeededOnce == UNION {needed[e] : e \in Executor}

(* What the executors need was asked for with a priority and a timestamp.  *)
NeedsInv ==
  /\ DOMAIN request \subseteq Operation
  /\ \A op \in DOMAIN request : request[op][1] \in Priority /\ request[op][2] \in Timestamp
  /\ needed \in [Executor -> SUBSET DOMAIN request]
  /\ IsFiniteSet(NeededOnce)

QueuesInv ==
  /\ Executor \subseteq 1 .. MaxExecutors /\ DOMAIN to_execute = Executor
  /\ \A e \in Executor : QueueOK(queues[e])
  /\ \A e \in Executor : BatchLimit # 0 => Len(to_execute[e]) <= BatchLimit
  /\ waiting \subseteq Executor
  /\ sweeper \in {"sweeping", "waiting"} /\ sweeper_event \in BOOLEAN

ServiceInv == NeedsInv /\ QueuesInv

(* Every queue is changed as the abstract one allows, or not at all.       *)
QueueSteps == \A e \in Executor : [Abstract(e)!Next]_(Abstract(e)!vars)

LEMMA ServiceInit == Init => ServiceInv /\ \A e \in Executor : Abstract(e)!Init
  <1> SUFFICES ASSUME Init PROVE ServiceInv /\ \A e \in Executor : Abstract(e)!Init
    OBVIOUS
  <1>1. PICK s \in Scenarios :
          /\ queues = [e \in 1 .. s.executors |-> Q!EmptyQueue]
          /\ to_execute = [e \in 1 .. s.executors |-> <<>>]
          /\ waiting = {}
          /\ request = s.request
          /\ needed = [e \in 1 .. s.executors |-> s.needed]
          /\ sweeper = "sweeping" /\ sweeper_event = FALSE
          /\ faults = s.faults
    BY DEF Init
  <1>2. /\ s.executors \in 1 .. MaxExecutors
        /\ DOMAIN s.request \subseteq Operation
        /\ \A op \in DOMAIN s.request : s.request[op] \in Priority \X Timestamp
        /\ s.needed \subseteq DOMAIN s.request /\ IsFiniteSet(s.needed)
        /\ MaxExecutors \in Nat /\ BatchLimit \in Nat
    BY Zenon, TriggeredServiceAssumption
  <1>3. Executor = 1 .. s.executors /\ Executor \subseteq 1 .. MaxExecutors
    BY <1>1, <1>2 DEF Executor
  <1>4. NeedsInv
    <2>1. needed \in [Executor -> SUBSET DOMAIN request]
      BY <1>1, <1>2, <1>3
    <2>2. NeededOnce \subseteq s.needed
      BY <1>1, <1>3 DEF NeededOnce
    <2>3. IsFiniteSet(NeededOnce)
      BY <1>2, <2>2, FS_Subset
    <2>4. \A op \in DOMAIN request : request[op][1] \in Priority /\ request[op][2] \in Timestamp
      BY <1>1, <1>2
    <2> QED BY <1>1, <1>2, <2>1, <2>3, <2>4 DEF NeedsInv
  <1>5. QueuesInv
    <2>1. \A e \in Executor : queues[e] = Q!EmptyQueue /\ to_execute[e] = <<>>
      BY <1>1, <1>3
    <2>2. \A e \in Executor : QueueOK(queues[e])
      BY Zenon, <2>1, EmptyQueueOK
    <2>3. \A e \in Executor : BatchLimit # 0 => Len(to_execute[e]) <= BatchLimit
      BY <1>2, <2>1
    <2> QED BY <1>1, <1>3, <2>2, <2>3 DEF QueuesInv
  <1>6. ASSUME NEW e \in Executor PROVE Abstract(e)!Init
    <2>1. queues[e] = Q!EmptyQueue /\ to_execute[e] = <<>>
      BY <1>1, <1>3
    <2> QED BY Zenon, <2>1, EmptyQueueOK DEF Abstract!Init
  <1> QED BY <1>4, <1>5, <1>6 DEF ServiceInv

(* The queues of every step are in order, and changed as allowed.          *)
QueuesMove ==
  /\ Executor' = Executor
  /\ \A e \in Executor : QueueOK(queues'[e]) /\ [Abstract(e)!Next]_(Abstract(e)!vars)

LEMMA QueuesUnchanged ==
  ASSUME QueuesInv, UNCHANGED <<queues, to_execute>>
  PROVE  QueuesMove
  <1>1. Executor' = Executor
    BY DEF Executor
  <1>2. ASSUME NEW e \in Executor
        PROVE  QueueOK(queues'[e]) /\ [Abstract(e)!Next]_(Abstract(e)!vars)
    <2>1. queues'[e] = queues[e] /\ to_execute'[e] = to_execute[e]
      OBVIOUS
    <2> QED BY <2>1, StutterStep DEF QueuesInv
  <1> QED BY <1>1, <1>2 DEF QueuesMove

LEMMA EnqueueAllMoves ==
  ASSUME QueuesInv, NEW ops, Asked(ops), EnqueueAll(ops), to_execute' = to_execute
  PROVE  QueuesMove
  <1>1. queues' = [e \in Executor |-> QueuedAll(queues[e], ops)]
    BY DEF EnqueueAll
  <1>2. Executor' = Executor
    BY <1>1 DEF Executor
  <1>3. ASSUME NEW e \in Executor
        PROVE  QueueOK(queues'[e]) /\ Abstract(e)!Next
    <2>1. queues'[e] = QueuedAll(queues[e], ops) /\ to_execute'[e] = to_execute[e]
      BY <1>1
    <2>2. QueueOK(queues'[e]) /\ Arrived(queues[e], queues'[e])
      BY <2>1, QueuedAllArrives DEF QueuesInv
    <2> QED BY <2>1, <2>2, ArriveStep
  <1> QED BY <1>2, <1>3 DEF QueuesMove

LEMMA NeededIsAsked ==
  ASSUME NeedsInv
  PROVE  /\ Asked(NeededOnce)
         /\ \A op \in DOMAIN request : Asked({op})
  <1>1. NeededOnce \subseteq DOMAIN request
    BY DEF NeedsInv, NeededOnce
  <1> QED BY <1>1, FS_Singleton DEF Asked, NeedsInv

(* What is needed stays finite when one operation is added, or some are    *)
(* done.                                                                   *)
LEMMA NeedsKept ==
  ASSUME NeedsInv, Executor' = Executor, request' = request, NEW op \in DOMAIN request,
         needed' \in [Executor -> SUBSET DOMAIN request],
         \A e \in Executor : needed'[e] \subseteq needed[e] \cup {op}
  PROVE  NeedsInv'
  <1>1. NeededOnce' \subseteq NeededOnce \cup {op}
    BY DEF NeededOnce
  <1>2. IsFiniteSet(NeededOnce \cup {op})
    BY FS_AddElement DEF NeedsInv
  <1>3. IsFiniteSet(NeededOnce')
    BY <1>1, <1>2, FS_Subset
  <1> QED BY <1>3 DEF NeedsInv

LEMMA NeedsUnchanged ==
  ASSUME NeedsInv, Executor' = Executor, UNCHANGED <<request, needed>>
  PROVE  NeedsInv'
  BY DEF NeedsInv, NeededOnce

LEMMA NeedsDone ==
  ASSUME NeedsInv, Executor' = Executor, request' = request,
         needed' \in [Executor -> SUBSET DOMAIN request],
         \A e \in Executor : needed'[e] \subseteq needed[e]
  PROVE  NeedsInv'
  <1>1. NeededOnce' \subseteq NeededOnce
    BY DEF NeededOnce
  <1>2. IsFiniteSet(NeededOnce')
    BY <1>1, FS_Subset DEF NeedsInv
  <1> QED BY <1>2 DEF NeedsInv

LEMMA QueuesMoved ==
  ASSUME QueuesInv, QueuesMove, DOMAIN to_execute' = Executor,
         \A e \in Executor : BatchLimit # 0 => Len(to_execute'[e]) <= BatchLimit,
         waiting' \subseteq Executor,
         sweeper' \in {"sweeping", "waiting"}, sweeper_event' \in BOOLEAN
  PROVE  QueuesInv' /\ QueueSteps
  BY DEF QueuesInv, QueuesMove, QueueSteps

LEMMA ServiceNext == ServiceInv /\ [Next]_vars => ServiceInv' /\ QueueSteps
  <1> SUFFICES ASSUME ServiceInv, [Next]_vars PROVE ServiceInv' /\ QueueSteps
    OBVIOUS
  <1> USE DEF ServiceInv
  <1>1. /\ NeedsInv /\ QueuesInv
        /\ DOMAIN to_execute = Executor /\ Executor = DOMAIN queues
        /\ needed \in [Executor -> SUBSET DOMAIN request]
        /\ waiting \subseteq Executor
        /\ sweeper \in {"sweeping", "waiting"} /\ sweeper_event \in BOOLEAN
        /\ \A e \in Executor : QueueOK(queues[e])
        /\ \A e \in Executor : BatchLimit # 0 => Len(to_execute[e]) <= BatchLimit
    BY DEF NeedsInv, QueuesInv, Executor
  <1>2. BatchLimit \in Nat
    BY Zenon, TriggeredServiceAssumption
  <1>3. UNCHANGED to_execute => DOMAIN to_execute' = Executor
                                /\ \A e \in Executor : BatchLimit # 0 => Len(to_execute'[e]) <= BatchLimit
    BY <1>1
  <1>4. ASSUME NEW op \in DOMAIN request, Notified(op)
        PROVE  ServiceInv' /\ QueueSteps
    <2>1. /\ needed' = [e \in Executor |-> needed[e] \cup {op}]
          /\ UNCHANGED <<to_execute, waiting, request, sweeper, sweeper_event>>
          /\ EnqueueAll({op}) \/ UNCHANGED queues
      BY <1>4 DEF Notified, sweeperVars
    <2>2. QueuesMove
      BY <1>1, <2>1, NeededIsAsked, EnqueueAllMoves, QueuesUnchanged
    <2>3. Executor' = Executor
      BY <2>2 DEF QueuesMove
    <2>4. needed' \in [Executor -> SUBSET DOMAIN request]
      BY <1>1, <2>1
    <2>5. NeedsInv'
      BY <1>1, <2>1, <2>3, <2>4, NeedsKept
    <2> QED BY <1>1, <1>3, <2>1, <2>2, <2>5, QueuesMoved
  <1>5. ASSUME NEW op \in DOMAIN request, Dequeue(op)
        PROVE  ServiceInv' /\ QueueSteps
    <2>1. /\ queues' = [e \in Executor |->
                          IF \A before \in 1 .. e : Q!Contains(queues[before], op)
                          THEN Q!Remove(queues[e], op) ELSE queues[e]]
          /\ needed' = [e \in Executor |-> needed[e] \ {op}]
          /\ UNCHANGED <<to_execute, waiting, request, sweeper, sweeper_event>>
      BY <1>5 DEF Dequeue, sweeperVars
    <2>2. Executor' = Executor
      BY <2>1 DEF Executor
    <2>3. ASSUME NEW e \in Executor
          PROVE  QueueOK(queues'[e]) /\ [Abstract(e)!Next]_(Abstract(e)!vars)
      <3>1. to_execute'[e] = to_execute[e]
        BY <2>1
      <3>2. CASE \A before \in 1 .. e : Q!Contains(queues[before], op)
        <4>1. queues'[e] = Q!Remove(queues[e], op)
          BY <2>1, <3>2
        <4>2. e \in 1 .. e
          <5>1. MaxExecutors \in Nat
            BY Zenon, TriggeredServiceAssumption
          <5>2. e \in 1 .. MaxExecutors
            BY DEF QueuesInv
          <5> QED BY <5>1, <5>2
        <4>3. Q!Contains(queues[e], op)
          BY <3>2, <4>2
        <4> QED BY <1>1, <3>1, <4>1, <4>3, WithdrawStep
      <3>3. CASE ~(\A before \in 1 .. e : Q!Contains(queues[before], op))
        <4>1. queues'[e] = queues[e]
          BY <2>1, <3>3
        <4> QED BY <1>1, <3>1, <4>1, StutterStep
      <3> QED BY <3>2, <3>3
    <2>4. QueuesMove
      BY <2>2, <2>3 DEF QueuesMove
    <2>5. needed' \in [Executor -> SUBSET DOMAIN request]
      BY <1>1, <2>1
    <2>6. NeedsInv'
      BY <1>1, <2>1, <2>2, <2>5, NeedsDone
    <2> QED BY <1>1, <1>3, <2>1, <2>4, <2>6, QueuesMoved
  <1>6. ASSUME NEW e \in Executor, Wait(e)
        PROVE  ServiceInv' /\ QueueSteps
    <2>1. /\ waiting' = waiting \cup {e}
          /\ UNCHANGED <<queues, to_execute, needed, request, sweeper, sweeper_event>>
      BY <1>6 DEF Wait, sweeperVars
    <2>2. QueuesMove
      BY <1>1, <2>1, QueuesUnchanged
    <2>3. NeedsInv'
      BY <1>1, <2>1, <2>2, NeedsUnchanged DEF QueuesMove
    <2> QED BY <1>1, <1>3, <2>1, <2>2, <2>3, QueuesMoved
  <1>7. ASSUME NEW e \in Executor, Take(e)
        PROVE  ServiceInv' /\ QueueSteps
    <2> DEFINE popped == Popped(queues[e], BatchSize(queues[e]))
    <2>1. /\ queues' = [queues EXCEPT ![e] = popped.queue]
          /\ to_execute' = [to_execute EXCEPT ![e] = popped.taken]
          /\ to_execute[e] = <<>> /\ queues[e].heap # <<>>
          /\ waiting' = waiting \ {e}
          /\ UNCHANGED <<needed, request, sweeper, sweeper_event>>
      BY <1>7 DEF Take, CanTake, sweeperVars
    <2>2. queues'[e] = popped.queue /\ to_execute'[e] = popped.taken
      BY <1>1, <2>1
    <2>3. /\ QueueOK(queues'[e]) /\ Abstract(e)!Next
          /\ BatchLimit # 0 => Len(to_execute'[e]) <= BatchLimit
      BY <1>1, <2>1, <2>2, TakeStep
    <2> HIDE DEF popped
    <2>4. Executor' = Executor /\ DOMAIN to_execute' = Executor
      BY <1>1, <2>1 DEF Executor
    <2>5. ASSUME NEW x \in Executor, x # e
          PROVE  /\ queues'[x] = queues[x] /\ to_execute'[x] = to_execute[x]
                 /\ QueueOK(queues'[x]) /\ [Abstract(x)!Next]_(Abstract(x)!vars)
      <3>1. queues'[x] = queues[x] /\ to_execute'[x] = to_execute[x]
        BY <1>1, <2>1, <2>5
      <3> QED BY <1>1, <3>1, StutterStep
    <2>6. QueuesMove
      BY <2>3, <2>4, <2>5 DEF QueuesMove
    <2>7. \A x \in Executor : BatchLimit # 0 => Len(to_execute'[x]) <= BatchLimit
      BY <1>1, <2>3, <2>5
    <2>8. NeedsInv'
      BY <1>1, <2>1, <2>4, NeedsUnchanged
    <2> QED BY <1>1, <2>1, <2>4, <2>6, <2>7, <2>8, QueuesMoved
  <1>8. ASSUME NEW e \in Executor, Executed(e)
        PROVE  ServiceInv' /\ QueueSteps
    <2>1. /\ to_execute[e] # <<>>
          /\ to_execute' = [to_execute EXCEPT ![e] = <<>>]
          /\ needed' = [needed EXCEPT ![e] = @ \ Done(e)] \/ UNCHANGED needed
          /\ UNCHANGED <<queues, waiting, request, sweeper, sweeper_event>>
      BY <1>8 DEF Executed, sweeperVars
    <2>2. Executor' = Executor /\ DOMAIN to_execute' = Executor
      BY <1>1, <2>1 DEF Executor
    <2>3. ASSUME NEW x \in Executor
          PROVE  /\ QueueOK(queues'[x]) /\ [Abstract(x)!Next]_(Abstract(x)!vars)
                 /\ BatchLimit # 0 => Len(to_execute'[x]) <= BatchLimit
      <3>1. queues'[x] = queues[x] /\ QueueOK(queues'[x])
        BY <1>1, <2>1
      <3>2. CASE x = e
        <4>1. to_execute'[x] = <<>> /\ to_execute[x] # <<>>
          BY <1>1, <2>1, <3>2
        <4>2. Len(<<>>) <= BatchLimit
          BY <1>2
        <4> QED BY <3>1, <4>1, <4>2, FinishStep
      <3>3. CASE x # e
        <4>1. to_execute'[x] = to_execute[x]
          BY <1>1, <2>1, <3>3
        <4> QED BY <1>1, <3>1, <4>1, StutterStep
      <3> QED BY <3>2, <3>3
    <2>4. QueuesMove
      BY <2>2, <2>3 DEF QueuesMove
    <2>5. /\ needed' \in [Executor -> SUBSET DOMAIN request]
          /\ \A x \in Executor : needed'[x] \subseteq needed[x]
      BY <1>1, <2>1
    <2>6. NeedsInv'
      BY <1>1, <2>1, <2>2, <2>5, NeedsDone
    <2> QED BY <1>1, <2>1, <2>2, <2>3, <2>4, <2>6, QueuesMoved
  <1>9. ASSUME NEW e \in Executor, NEW op \in DOMAIN request, NEW p \in Priority,
               SetPriority(e, op, p)
        PROVE  ServiceInv' /\ QueueSteps
    <2>1. /\ Q!Contains(queues[e], op)
          /\ queues' = [queues EXCEPT ![e] = Q!SetPriority(queues[e], op, p)]
          /\ UNCHANGED <<to_execute, waiting, needed, request, sweeper, sweeper_event>>
      BY <1>9 DEF SetPriority, sweeperVars
    <2>2. Executor' = Executor
      BY <1>1, <2>1 DEF Executor
    <2>3. ASSUME NEW x \in Executor
          PROVE  QueueOK(queues'[x]) /\ [Abstract(x)!Next]_(Abstract(x)!vars)
      <3>1. to_execute'[x] = to_execute[x]
        BY <2>1
      <3>2. CASE x = e
        <4>1. queues'[x] = Q!SetPriority(queues[x], op, p) /\ Q!Contains(queues[x], op)
          BY <1>1, <2>1, <3>2
        <4> QED BY <1>1, <3>1, <4>1, ReprioritizeStep
      <3>3. CASE x # e
        <4>1. queues'[x] = queues[x]
          BY <1>1, <2>1, <3>3
        <4> QED BY <1>1, <3>1, <4>1, StutterStep
      <3> QED BY <3>2, <3>3
    <2>4. QueuesMove
      BY <2>2, <2>3 DEF QueuesMove
    <2>5. NeedsInv'
      BY <1>1, <2>1, <2>2, NeedsUnchanged
    <2> QED BY <1>1, <1>3, <2>1, <2>4, <2>5, QueuesMoved
  <1>10. ASSUME SweepStart \/ SearchOperationsNotDone PROVE ServiceInv' /\ QueueSteps
    <2>1. /\ UNCHANGED <<queues, to_execute, waiting, needed, request>>
          /\ sweeper' \in {"sweeping", "waiting"} /\ sweeper_event' \in BOOLEAN
      BY <1>1, <1>10 DEF SweepStart, SearchOperationsNotDone, queueVars
    <2>2. QueuesMove
      BY <1>1, <2>1, QueuesUnchanged
    <2>3. NeedsInv'
      BY <1>1, <2>1, <2>2, NeedsUnchanged DEF QueuesMove
    <2> QED BY <1>1, <1>3, <2>1, <2>2, <2>3, QueuesMoved
  <1>11. ASSUME SweepEnd PROVE ServiceInv' /\ QueueSteps
    <2>1. /\ EnqueueAll(NeededOnce) \/ UNCHANGED queues
          /\ sweeper' = "waiting"
          /\ UNCHANGED <<to_execute, waiting, needed, request, sweeper_event>>
      BY <1>11 DEF SweepEnd, NeededOnce
    <2>2. QueuesMove
      BY <1>1, <2>1, NeededIsAsked, EnqueueAllMoves, QueuesUnchanged
    <2>3. NeedsInv'
      BY <1>1, <2>1, <2>2, NeedsUnchanged DEF QueuesMove
    <2> QED BY <1>1, <1>3, <2>1, <2>2, <2>3, QueuesMoved
  <1>12. ASSUME Restart PROVE ServiceInv' /\ QueueSteps
    <2>1. /\ queues' = [e \in Executor |-> Q!EmptyQueue]
          /\ to_execute' = [e \in Executor |-> <<>>]
          /\ waiting' = {} /\ sweeper' = "sweeping" /\ sweeper_event' = FALSE
          /\ UNCHANGED <<needed, request>>
      BY <1>12 DEF Restart
    <2>2. Executor' = Executor /\ DOMAIN to_execute' = Executor
      BY <2>1 DEF Executor
    <2>3. ASSUME NEW e \in Executor
          PROVE  /\ QueueOK(queues'[e]) /\ Abstract(e)!Next
                 /\ BatchLimit # 0 => Len(to_execute'[e]) <= BatchLimit
      <3>1. queues'[e] = Q!EmptyQueue /\ to_execute'[e] = <<>>
        BY <2>1
      <3>2. Len(<<>>) <= BatchLimit
        BY <1>2
      <3> QED BY <3>1, <3>2, RestartStep
    <2>4. QueuesMove
      BY <2>2, <2>3 DEF QueuesMove
    <2>5. NeedsInv'
      BY <1>1, <2>1, <2>2, NeedsUnchanged
    <2> QED BY <1>1, <2>1, <2>2, <2>3, <2>4, <2>5, QueuesMoved
  <1>13. ASSUME UNCHANGED vars PROVE ServiceInv' /\ QueueSteps
    <2>1. UNCHANGED <<queues, to_execute, waiting, needed, request, sweeper, sweeper_event>>
      BY <1>13 DEF vars
    <2>2. QueuesMove
      BY <1>1, <2>1, QueuesUnchanged
    <2>3. NeedsInv'
      BY <1>1, <2>1, <2>2, NeedsUnchanged DEF QueuesMove
    <2> QED BY <1>1, <1>3, <2>1, <2>2, <2>3, QueuesMoved
  <1> QED BY <1>4, <1>5, <1>6, <1>7, <1>8, <1>9, <1>10, <1>11, <1>12, <1>13 DEF Next

LEMMA ServiceInvariant == Spec => []ServiceInv
  <1>1. Init => ServiceInv
    BY ServiceInit
  <1>2. ServiceInv /\ [Next]_vars => ServiceInv'
    BY ServiceNext
  <1> QED BY <1>1, <1>2, PTL DEF Spec

(* Type correctness: a queue holds entries of the operations, a batch has  *)
(* at most the entries allowed.                                            *)
THEOREM ServiceTypeCorrect == Spec => []TypeOK
  <1>1. ServiceInv => TypeOK
    <2> SUFFICES ASSUME ServiceInv PROVE TypeOK
      OBVIOUS
    <2>1. ASSUME NEW e \in Executor, NEW entry \in Q!Entries(queues[e])
          PROVE  /\ DOMAIN entry = DOMAIN QueueEntry
                 /\ entry.item \in Operation /\ entry.priority \in Priority
                 /\ entry.timestamp \in Timestamp /\ entry.index \in Nat
      <3>1. entry \in EntryType
        BY EntriesDiffer DEF ServiceInv, QueuesInv, QueueOK
      <3>2. DOMAIN QueueEntry = {"item", "priority", "timestamp", "index"}
        BY DEF QueueEntry, Q!Entry
      <3> QED BY <3>1, <3>2 DEF EntryType
    <2>2. \A e \in Executor : queues[e].event \in BOOLEAN
      BY DEF ServiceInv, QueuesInv, QueueOK
    <2>3. needed \in [Executor -> SUBSET Operation]
      BY DEF ServiceInv, NeedsInv
    <2> QED BY <2>1, <2>2, <2>3 DEF ServiceInv, QueuesInv, TypeOK
  <1> QED BY <1>1, ServiceInvariant, PTL

(* PriorityQueue._verify: whatever was pushed, popped, removed or given    *)
(* another priority, the lookup is exact, and the event is set exactly     *)
(* while something is queued.                                              *)
THEOREM QueuesVerified == Spec => []QueueVerified
  <1>1. ServiceInv => QueueVerified
    <2> SUFFICES ASSUME ServiceInv, NEW e \in Executor
                 PROVE  LET q == queues[e] IN
                        /\ DOMAIN q.reverse = {entry.item : entry \in Q!Entries(q)}
                        /\ \A i \in DOMAIN q.heap : q.reverse[q.heap[i].item] = i - 1
                        /\ q.event <=> q.heap # <<>>
      BY DEF QueueVerified
    <2> DEFINE q == queues[e]
    <2>1. QueueOK(q)
      BY DEF ServiceInv, QueuesInv
    <2> HIDE DEF q
    <2>2. {entry.item : entry \in Q!Entries(q)} = {q.heap[i].item : i \in DOMAIN q.heap}
      BY DEF Q!Entries
    <2>3. /\ DOMAIN q.reverse = {entry.item : entry \in Q!Entries(q)}
          /\ \A i \in DOMAIN q.heap : q.reverse[q.heap[i].item] = i - 1
          /\ q.event <=> q.heap # <<>>
      BY <2>1, <2>2 DEF QueueOK, Sound, LookupExact
    <2> QED BY <2>3 DEF q
  <1> QED BY <1>1, ServiceInvariant, PTL

(* Every executor's queue implements the abstract one: entries come out by *)
(* priority, then time, then arrival, none twice and none lost.            *)
THEOREM QueuesImplement == Spec => QueueSpec
  <1>1. Init => \A e \in Executor : Abstract(e)!Init
    BY ServiceInit
  <1>2. ServiceInv /\ [Next]_vars => [\A e \in Executor : [Abstract(e)!Next]_(Abstract(e)!vars)]_vars
    BY ServiceNext DEF QueueSteps
  <1> QED BY <1>1, <1>2, ServiceInvariant, PTL DEF Spec, QueueSpec
=============================================================================
