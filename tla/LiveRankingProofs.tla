-------------------------- MODULE LiveRankingProofs --------------------------
(***************************************************************************)
(* The ranks of the page are right, and the page shows what the server     *)
(* has: for every set of users, every scores, every size of the cache and  *)
(* every number of events, whatever is lost.                               *)
(***************************************************************************)
EXTENDS LiveRanking, FiniteSetTheorems, WellFoundedInduction, TLAPS

(* A user is above another in the ranks exactly when the score says so.    *)
LEMMA RanksFollowScores ==
  ASSUME NEW D, IsFiniteSet(D), NEW sc \in [D -> Nat], NEW u \in D, NEW v \in D
  PROVE  /\ RankOf(sc, u) \in Nat \ {0}
         /\ RankOf(sc, u) >= RankOf(sc, v) <=> sc[u] <= sc[v]
  <1>1. /\ DOMAIN sc = D /\ sc[u] \in Nat /\ sc[v] \in Nat
        /\ Above(sc, u) \subseteq D /\ Above(sc, v) \subseteq D
    BY DEF Above
  <1>2. /\ IsFiniteSet(Above(sc, u)) /\ Cardinality(Above(sc, u)) \in Nat
        /\ IsFiniteSet(Above(sc, v)) /\ Cardinality(Above(sc, v)) \in Nat
    BY <1>1, FS_Subset, FS_CardinalityType
  <1>3. CASE sc[u] <= sc[v]
    <2>1. Above(sc, v) \subseteq Above(sc, u)
      BY <1>1, <1>3 DEF Above
    <2>2. Cardinality(Above(sc, v)) <= Cardinality(Above(sc, u))
      BY <1>2, <2>1, FS_Subset
    <2>3. QED BY <1>2, <1>3, <2>2 DEF RankOf
  <1>4. CASE sc[v] < sc[u]
    <2>1. /\ Above(sc, u) \subseteq Above(sc, v)
          /\ u \in Above(sc, v) /\ u \notin Above(sc, u)
      BY <1>1, <1>4 DEF Above
    <2>2. Cardinality(Above(sc, u)) < Cardinality(Above(sc, v))
      BY <1>2, <2>1, FS_Subset
    <2>3. QED BY <1>1, <1>2, <1>4, <2>2 DEF RankOf
  <1>5. QED BY <1>1, <1>3, <1>4

(* How far another user moves when the score of u becomes x.               *)
LEMMA RankMoves ==
  ASSUME NEW D, IsFiniteSet(D), NEW sc \in [D -> Nat], NEW u \in D, NEW x \in Nat,
         NEW v \in D, v # u
  PROVE  RankOf([sc EXCEPT ![u] = x], v) =
           IF sc[u] <= sc[v] /\ sc[v] < x THEN RankOf(sc, v) + 1
           ELSE IF x <= sc[v] /\ sc[v] < sc[u] THEN RankOf(sc, v) - 1
           ELSE RankOf(sc, v)
  <1> DEFINE new == [sc EXCEPT ![u] = x]
  <1>1. /\ DOMAIN sc = D /\ DOMAIN new = D /\ new[u] = x
        /\ \A w \in D : sc[w] \in Nat /\ (w # u => new[w] = sc[w])
    OBVIOUS
  <1> HIDE DEF new
  <1>2. Above(sc, v) \subseteq D /\ Above(new, v) \subseteq D
    BY <1>1 DEF Above
  <1>3. IsFiniteSet(Above(sc, v)) /\ Cardinality(Above(sc, v)) \in Nat
    BY <1>2, FS_Subset, FS_CardinalityType
  <1>4. CASE sc[u] <= sc[v] /\ sc[v] < x
    <2>1. Above(new, v) = Above(sc, v) \cup {u} /\ u \notin Above(sc, v)
      BY <1>1, <1>4 DEF Above
    <2>2. Cardinality(Above(new, v)) = Cardinality(Above(sc, v)) + 1
      BY <1>3, <2>1, FS_AddElement
    <2>3. QED BY <1>3, <1>4, <2>2 DEF RankOf, new
  <1>5. CASE x <= sc[v] /\ sc[v] < sc[u]
    <2>1. Above(new, v) = Above(sc, v) \ {u} /\ u \in Above(sc, v)
      BY <1>1, <1>5 DEF Above
    <2>2. Cardinality(Above(new, v)) = Cardinality(Above(sc, v)) - 1
      BY <1>3, <2>1, FS_RemoveElement
    <2>3. QED BY <1>1, <1>3, <1>5, <2>2 DEF RankOf, new
  <1>6. CASE /\ ~(sc[u] <= sc[v] /\ sc[v] < x)
             /\ ~(x <= sc[v] /\ sc[v] < sc[u])
    <2>1. Above(new, v) = Above(sc, v)
      BY <1>1, <1>6 DEF Above
    <2>2. QED BY <1>6, <2>1 DEF RankOf, new
  <1>7. QED BY <1>4, <1>5, <1>6

(* update_rank: ranks that are right stay right.                           *)
LEMMA UpdateRankIsExact ==
  ASSUME IsFiniteSet(DOMAIN shown), shown \in [DOMAIN shown -> Nat],
         \A v \in DOMAIN shown : rank[v] = RankOf(shown, v),
         NEW u \in DOMAIN shown, NEW x \in Nat
  PROVE  \A v \in DOMAIN shown : UpdateRank(u, x)[v] = RankOf([shown EXCEPT ![u] = x], v)
  <1> SUFFICES ASSUME NEW v \in DOMAIN shown
               PROVE  UpdateRank(u, x)[v] = RankOf([shown EXCEPT ![u] = x], v)
    OBVIOUS
  <1>1. CASE v = u
    BY <1>1 DEF UpdateRank
  <1>2. CASE v # u
    <2>1. /\ rank[u] \in Nat /\ rank[v] \in Nat
          /\ shown[u] \in Nat /\ shown[v] \in Nat
          /\ rank[u] >= rank[v] <=> shown[u] <= shown[v]
      BY RanksFollowScores
    <2>2. RankOf([shown EXCEPT ![u] = x], v) =
            IF shown[u] <= shown[v] /\ shown[v] < x THEN rank[v] + 1
            ELSE IF x <= shown[v] /\ shown[v] < shown[u] THEN rank[v] - 1
            ELSE rank[v]
      BY <1>2, RankMoves
    <2>3. UpdateRank(u, x)[v] =
            IF rank[u] >= rank[v] /\ shown[v] < x THEN rank[v] + 1
            ELSE IF x <= shown[v] /\ rank[v] > rank[u] THEN rank[v] - 1
            ELSE rank[v]
      BY <1>2 DEF UpdateRank
    <2>4. QED BY <2>1, <2>2, <2>3
  <1>3. QED BY <1>1, <1>2

(* A user that comes with no points is below no other.                     *)
LEMMA NewUserIsLast ==
  ASSUME NEW D, NEW sc \in [D -> Nat], NEW u, u \notin D, NEW v \in D
  PROVE  RankOf([w \in D \cup {u} |-> IF w = u THEN 0 ELSE sc[w]], v) = RankOf(sc, v)
  <1> DEFINE new == [w \in D \cup {u} |-> IF w = u THEN 0 ELSE sc[w]]
  <1>1. /\ DOMAIN sc = D /\ DOMAIN new = D \cup {u} /\ new[u] = 0
        /\ \A w \in D : new[w] = sc[w] /\ sc[w] \in Nat
    OBVIOUS
  <1> HIDE DEF new
  <1>2. Above(new, v) = Above(sc, v)
    BY <1>1 DEF Above
  <1>3. QED BY <1>2 DEF RankOf, new

-----------------------------------------------------------------------------
Known == cache \cup queue.events
Creates(e) == e.kind = "create"

(* No two events have the same key, and what is on its way to the page is  *)
(* later than all it has had.                                              *)
KeysInOrder ==
  /\ lastId <= clock /\ header <= clock /\ userInit <= clock /\ scoreInit <= clock
  /\ header # 0 => lastId <= header
  /\ \A e \in Known : e.key <= clock
  /\ \A e, f \in Known : e.key = f.key => e = f
  /\ \A e \in queue.events : lastId < e.key /\ header < e.key

(* Nothing happens to a page before it is live.                            *)
LoadsFirst ==
  /\ phase # "live" => es = "none" /\ queue = NoEvents
  /\ phase \notin {"live", "garbled"} => fetching = {} /\ header = 0
  /\ phase = "users" => DOMAIN shown = {}
  /\ phase = "live" => userInit <= lastId

(* A user is created once, and the page has not heard of it before.        *)
Awaited == {f.user : f \in {g \in fetching : Creates(g)}}

UsersAreNew ==
  /\ DOMAIN shown \cup {f.user : f \in fetching} \subseteq users
  /\ Awaited \cap DOMAIN shown = {}
  /\ \A f, g \in fetching : Creates(f) /\ Creates(g) /\ f.user = g.user => f = g
  /\ \A e \in Known : e.user \in users
  /\ \A e, f \in Known : Creates(e) /\ Creates(f) /\ e.user = f.user => e = f
  /\ \A e \in Known :
       Creates(e) /\ e.key > (IF phase \in {"live", "garbled"} THEN lastId ELSE userInit) =>
         e.user \notin DOMAIN shown \cup Awaited

LiveInv ==
  TypeOK /\ KeysInOrder /\ LoadsFirst /\ UsersAreNew /\ RanksAreExact

(* Nothing is known, nor shown, at first.                                  *)
LEMMA InitLiveInv == Init => LiveInv
  <1> SUFFICES ASSUME Init PROVE LiveInv
    OBVIOUS
  <1> USE DEF Init, NoEvents
  <1>1. /\ DOMAIN shown = {} /\ shown \in [DOMAIN shown -> Score]
        /\ rank \in [DOMAIN shown -> Nat]
    OBVIOUS
  <1>2. 0 \in 0..MaxTime /\ 0 \in Score
    BY LiveRankingAssumption DEF Score
  <1>3. TypeOK
    BY <1>1, <1>2 DEF TypeOK
  <1>4. KeysInOrder /\ LoadsFirst /\ UsersAreNew /\ RanksAreExact
    BY <1>1 DEF KeysInOrder, LoadsFirst, UsersAreNew, RanksAreExact, Known
  <1>5. QED BY <1>3, <1>4 DEF LiveInv

(* The parts of the invariant that do not depend on the server's scores    *)
(* only ask of what the server sends that its key be new.                  *)
LEMMA SendKeepsEvents ==
  ASSUME TypeOK, KeysInOrder, UsersAreNew, LoadsFirst, clock < MaxTime,
         NEW e \in Event, e.key = clock + 1, Send(e)
  PROVE  /\ cache' \subseteq Event /\ queue' \in [reinit : BOOLEAN, events : SUBSET Event]
         /\ clock' = clock + 1
         /\ Known' \subseteq Known \cup {e}
         /\ queue'.events \subseteq queue.events \cup {e}
         /\ phase # "live" => queue' = queue
  <1>1. Put(cache, e) \subseteq cache \cup {e}
    BY DEF Put
  <1>2. queue = [reinit |-> queue.reinit, events |-> queue.events]
        /\ queue.events \subseteq Event /\ queue.reinit \in BOOLEAN
    BY DEF TypeOK
  <1>3. QED BY <1>1, <1>2 DEF Send, TypeOK, Known, LoadsFirst

(* Every step keeps the invariant.                                         *)
LEMMA NextKeepsLiveInv == LiveInv /\ Next => LiveInv'
  <1> SUFFICES ASSUME LiveInv, Next PROVE LiveInv'
    OBVIOUS
  <1> USE DEF LiveInv
  <1>0. /\ DOMAIN shown \in SUBSET User /\ IsFiniteSet(DOMAIN shown) /\ Score \subseteq Nat
        /\ IsFiniteSet(users)
        /\ \A e \in Event : e.key \in 1..MaxTime /\ e.user \in User
        /\ 0 \in Score /\ NoEvents \in [reinit : BOOLEAN, events : SUBSET Event]
    BY LiveRankingAssumption, FS_Subset DEF TypeOK, Score, Event, NoEvents
  <1>a. /\ clock \in Nat /\ lastId \in Nat /\ header \in Nat /\ userInit \in Nat
        /\ scoreInit \in Nat /\ \A e \in Known : e.key \in Nat
    BY <1>0, LiveRankingAssumption DEF TypeOK, Known
  <1>b. fetching' = fetching => Awaited' = Awaited
    BY DEF Awaited
  <1>1. ASSUME NEW u \in User, CreateUser(u) PROVE LiveInv'
    <2> DEFINE e == [key |-> clock + 1, kind |-> "create", user |-> u]
    <2>1. e \in Event /\ e.key = clock + 1 /\ clock < MaxTime
      BY <1>1, LiveRankingAssumption DEF CreateUser, TypeOK, Event
    <2>2. Send(e)
      BY <1>1 DEF CreateUser
    <2>3. e.user = u /\ Creates(e)
      BY DEF Creates
    <2> HIDE DEF e
    <2> USE <1>1 DEF CreateUser, initVars, pageVars, shownVars
    <2>4. /\ cache' \subseteq Event /\ queue' \in [reinit : BOOLEAN, events : SUBSET Event]
          /\ clock' = clock + 1
          /\ Known' \subseteq Known \cup {e}
          /\ queue'.events \subseteq queue.events \cup {e}
          /\ phase # "live" => queue' = queue
      BY <2>1, <2>2, SendKeepsEvents
    <2>a. clock' \in 0..MaxTime
      BY <1>a, <2>1, <2>4, LiveRankingAssumption
    <2>5. TypeOK'
      BY <2>4, <2>a DEF TypeOK
    <2>6. KeysInOrder'
      <3>1. \A f \in Known' : f = e \/ (f \in Known /\ f.key <= clock)
        BY <2>4 DEF KeysInOrder
      <3>2. /\ \A f \in Known' : f.key <= clock'
            /\ \A f, g \in Known' : f.key = g.key => f = g
        BY <1>a, <2>1, <2>4, <3>1 DEF KeysInOrder
      <3>3. \A f \in queue'.events : lastId' < f.key /\ header' < f.key
        BY <1>a, <2>1, <2>4 DEF KeysInOrder
      <3>4. QED BY <1>a, <2>4, <3>2, <3>3 DEF KeysInOrder
    <2>7. LoadsFirst'
      BY <2>4 DEF LoadsFirst
    <2>b. DOMAIN shown \cup Awaited \subseteq users
      BY DEF UsersAreNew, Awaited
    <2>8. UsersAreNew'
      BY <1>b, <2>1, <2>3, <2>4, <2>b DEF UsersAreNew
    <2>9. RanksAreExact'
      BY DEF RanksAreExact
    <2>10. QED BY <2>5, <2>6, <2>7, <2>8, <2>9
  <1>2. ASSUME NEW u \in User, NEW x \in Score, SetScore(u, x) PROVE LiveInv'
    <2> DEFINE e == [key |-> clock + 1, kind |-> "score", user |-> u, score |-> x]
    <2>1. e \in Event /\ e.key = clock + 1 /\ clock < MaxTime
      BY <1>2, LiveRankingAssumption DEF SetScore, TypeOK, Event
    <2>2. Send(e)
      BY <1>2 DEF SetScore
    <2>3. e.user = u /\ ~Creates(e)
      BY DEF Creates
    <2> HIDE DEF e
    <2> USE <1>2 DEF SetScore, initVars, pageVars, shownVars
    <2>4. /\ cache' \subseteq Event /\ queue' \in [reinit : BOOLEAN, events : SUBSET Event]
          /\ clock' = clock + 1
          /\ Known' \subseteq Known \cup {e}
          /\ queue'.events \subseteq queue.events \cup {e}
          /\ phase # "live" => queue' = queue
      BY <2>1, <2>2, SendKeepsEvents
    <2>a. clock' \in 0..MaxTime
      BY <1>a, <2>1, <2>4, LiveRankingAssumption
    <2>5. TypeOK'
      BY <2>4, <2>a DEF TypeOK
    <2>6. KeysInOrder'
      <3>1. \A f \in Known' : f = e \/ (f \in Known /\ f.key <= clock)
        BY <2>4 DEF KeysInOrder
      <3>2. /\ \A f \in Known' : f.key <= clock'
            /\ \A f, g \in Known' : f.key = g.key => f = g
        BY <1>a, <2>1, <2>4, <3>1 DEF KeysInOrder
      <3>3. \A f \in queue'.events : lastId' < f.key /\ header' < f.key
        BY <1>a, <2>1, <2>4 DEF KeysInOrder
      <3>4. QED BY <1>a, <2>4, <3>2, <3>3 DEF KeysInOrder
    <2>7. LoadsFirst'
      BY <2>4 DEF LoadsFirst
    <2>8. UsersAreNew'
      BY <1>b, <2>1, <2>3, <2>4 DEF UsersAreNew
    <2>9. RanksAreExact'
      BY DEF RanksAreExact
    <2>10. QED BY <2>5, <2>6, <2>7, <2>8, <2>9
  <1>2a. ASSUME NEW u \in User, UpdateUser(u) PROVE LiveInv'
    <2> DEFINE e == [key |-> clock + 1, kind |-> "update", user |-> u]
    <2>1. e \in Event /\ e.key = clock + 1 /\ clock < MaxTime
      BY <1>2a, LiveRankingAssumption DEF UpdateUser, TypeOK, Event
    <2>2. Send(e)
      BY <1>2a DEF UpdateUser
    <2>3. e.user = u /\ ~Creates(e)
      BY DEF Creates
    <2> HIDE DEF e
    <2> USE <1>2a DEF UpdateUser, initVars, pageVars, shownVars
    <2>4. /\ cache' \subseteq Event /\ queue' \in [reinit : BOOLEAN, events : SUBSET Event]
          /\ clock' = clock + 1
          /\ Known' \subseteq Known \cup {e}
          /\ queue'.events \subseteq queue.events \cup {e}
          /\ phase # "live" => queue' = queue
      BY <2>1, <2>2, SendKeepsEvents
    <2>a. clock' \in 0..MaxTime
      BY <1>a, <2>1, <2>4, LiveRankingAssumption
    <2>5. TypeOK'
      BY <2>4, <2>a DEF TypeOK
    <2>6. KeysInOrder'
      <3>1. \A f \in Known' : f = e \/ (f \in Known /\ f.key <= clock)
        BY <2>4 DEF KeysInOrder
      <3>2. /\ \A f \in Known' : f.key <= clock'
            /\ \A f, g \in Known' : f.key = g.key => f = g
        BY <1>a, <2>1, <2>4, <3>1 DEF KeysInOrder
      <3>3. \A f \in queue'.events : lastId' < f.key /\ header' < f.key
        BY <1>a, <2>1, <2>4 DEF KeysInOrder
      <3>4. QED BY <1>a, <2>4, <3>2, <3>3 DEF KeysInOrder
    <2>7. LoadsFirst'
      BY <2>4 DEF LoadsFirst
    <2>8. UsersAreNew'
      BY <1>b, <2>1, <2>3, <2>4 DEF UsersAreNew
    <2>9. RanksAreExact'
      BY DEF RanksAreExact
    <2>10. QED BY <2>5, <2>6, <2>7, <2>8, <2>9
  <1>3. CASE ServerRestarts
    <2> USE <1>3 DEF ServerRestarts, initVars, pageVars, shownVars
    <2>1. TypeOK'
      BY DEF TypeOK, NoEvents
    <2>2. KeysInOrder' /\ LoadsFirst' /\ UsersAreNew'
      BY <1>b DEF KeysInOrder, LoadsFirst, UsersAreNew, Known, NoEvents
    <2>3. RanksAreExact'
      BY DEF RanksAreExact
    <2>4. QED BY <2>1, <2>2, <2>3
  <1>4. CASE Reload
    <2> USE <1>4 DEF Reload, Blank, serverVars
    <2>1. TypeOK'
      <3>1. 0 \in 0..MaxTime
        BY LiveRankingAssumption
      <3>2. /\ DOMAIN shown' = {} /\ shown' \in [DOMAIN shown' -> Score]
            /\ rank' \in [DOMAIN shown' -> Nat]
        OBVIOUS
      <3>3. QED BY <1>0, <3>1, <3>2 DEF TypeOK
    <2>2. KeysInOrder' /\ LoadsFirst'
      BY DEF KeysInOrder, LoadsFirst, Known, NoEvents, TypeOK
    <2>3. UsersAreNew' /\ RanksAreExact'
      BY DEF UsersAreNew, RanksAreExact, Known, NoEvents, Awaited
    <2>4. QED BY <2>1, <2>2, <2>3
  <1>5. CASE InitUsers
    <2> USE <1>5 DEF InitUsers, serverVars, streamVars
    <2>1. TypeOK'
      BY LiveRankingAssumption DEF TypeOK, Score
    <2>2. KeysInOrder' /\ LoadsFirst'
      BY DEF KeysInOrder, LoadsFirst, Known, NoEvents, TypeOK
    <2>3. UsersAreNew'
      BY <1>0, <1>b DEF UsersAreNew, LoadsFirst, KeysInOrder, Known, NoEvents, TypeOK, Awaited
    <2>4. RanksAreExact'
      BY DEF RanksAreExact
    <2>5. QED BY <2>1, <2>2, <2>3, <2>4
  <1>6. CASE InitScores
    <2> USE <1>6 DEF InitScores, serverVars
    <2>1. CASE phase' = "stuck"
      BY <1>b, <2>1 DEF streamVars, pageVars, shownVars, TypeOK, KeysInOrder, LoadsFirst, UsersAreNew,
                  RanksAreExact, Known
    <2>2. CASE phase' = "live"
      <3> USE <2>2
      <3>1. /\ scoreInit' = clock
            /\ shown' = [u \in DOMAIN shown |-> score[u]]
            /\ rank' = [u \in DOMAIN shown |-> RankOf(shown', u)]
            /\ lastId' = userInit
            /\ es' = "connecting"
            /\ UNCHANGED <<queue, header, userInit, fetching, missed, outdated>>
        OBVIOUS
      <3>2. shown' \in [DOMAIN shown -> Nat] /\ shown' \in [DOMAIN shown -> Score]
        BY <1>0, <3>1 DEF TypeOK
      <3>3. \A u \in DOMAIN shown : RankOf(shown', u) \in Nat
        BY <1>0, <3>2, RanksFollowScores
      <3>4. TypeOK'
        BY <3>1, <3>2, <3>3 DEF TypeOK
      <3>5. KeysInOrder' /\ LoadsFirst'
        BY <3>1 DEF KeysInOrder, LoadsFirst, Known, NoEvents, TypeOK
      <3>6. UsersAreNew'
        BY <1>b, <3>1 DEF UsersAreNew, Known
      <3>7. RanksAreExact'
        BY <3>1 DEF RanksAreExact
      <3>8. QED BY <3>4, <3>5, <3>6, <3>7
    <2>3. QED BY <2>1, <2>2
  <1>7. CASE Connect
    <2> USE <1>7 DEF Connect, serverVars, initVars, pageVars, shownVars
    <2>1. /\ queue' \in [reinit : BOOLEAN, events : SUBSET Event]
          /\ queue'.events \subseteq After(cache, IF header # 0 THEN header ELSE lastId)
      BY DEF GetSubscriber, TypeOK, After
    <2>2. \A e \in queue'.events : e \in cache /\ lastId < e.key /\ header < e.key
      BY <1>0, <2>1 DEF After, TypeOK, KeysInOrder
    <2>3. phase = "live" /\ Known' \subseteq Known
      BY <2>2 DEF LoadsFirst, Known
    <2>4. TypeOK'
      BY <2>1 DEF TypeOK
    <2>5. KeysInOrder' /\ LoadsFirst'
      BY <2>2, <2>3 DEF KeysInOrder, LoadsFirst
    <2>6. UsersAreNew' /\ RanksAreExact'
      BY <1>b, <2>3 DEF UsersAreNew, RanksAreExact
    <2>7. QED BY <2>4, <2>5, <2>6
  <1>8. CASE StreamEnds \/ CreateEventSource
    <2> USE <1>8 DEF StreamEnds, CreateEventSource, serverVars, initVars, pageVars, shownVars
    <2>1. phase = "live" /\ Known' \subseteq Known /\ queue'.events \subseteq queue.events
      BY DEF LoadsFirst, Known, NoEvents
    <2>2. TypeOK'
      BY <1>0, LiveRankingAssumption DEF TypeOK
    <2>a. header' \in {0, header} /\ UNCHANGED <<clock, lastId, userInit, scoreInit, phase, shown>>
      OBVIOUS
    <2>b. /\ \A e \in Known' : e.key \in Nat /\ e.key <= clock
          /\ \A e, f \in Known' : e.key = f.key => e = f
          /\ \A e \in queue'.events : lastId < e.key /\ header < e.key
      BY <1>a, <2>1 DEF KeysInOrder
    <2>c. queue'.events \subseteq Known'
      BY DEF Known
    <2>d. \A e \in queue'.events : e.key \in Nat /\ header' < e.key
      BY <1>a, <2>a, <2>b, <2>c
    <2>3. KeysInOrder'
      BY <1>a, <2>a, <2>b, <2>d DEF KeysInOrder
    <2>e. LoadsFirst'
      BY <2>1 DEF LoadsFirst
    <2>4. UsersAreNew' /\ RanksAreExact'
      BY <1>b, <2>1 DEF UsersAreNew, RanksAreExact
    <2>5. QED BY <2>2, <2>3, <2>4, <2>e
  <1>9. CASE ReceiveReinit
    <2> USE <1>9 DEF ReceiveReinit, serverVars, initVars, shownVars
    <2>1. queue'.events = queue.events /\ Known' = Known /\ phase = "live"
      BY DEF LoadsFirst, Known, TypeOK
    <2>2. TypeOK'
      BY DEF TypeOK
    <2>3. KeysInOrder' /\ LoadsFirst' /\ UsersAreNew' /\ RanksAreExact'
      BY <1>b, <2>1 DEF KeysInOrder, LoadsFirst, UsersAreNew, RanksAreExact
    <2>4. QED BY <2>2, <2>3
  <1>10. ASSUME NEW e \in queue.events, Receive(e) PROVE LiveInv'
    <2> USE <1>10 DEF Receive, serverVars, initVars
    <2>1. /\ phase = "live" /\ e \in Known /\ e \in Event
          /\ queue'.events = queue.events \ {e} /\ Known' \subseteq Known
          /\ queue' \in [reinit : BOOLEAN, events : SUBSET Event]
          /\ lastId < e.key /\ header < e.key /\ e.key <= clock
          /\ lastId' \in {lastId, e.key} /\ header' = e.key
      BY DEF LoadsFirst, Known, TypeOK, KeysInOrder, UserEvent, ScoreEvent
    <2>2. \A f \in queue'.events : e.key < f.key
      BY <1>a, <2>1 DEF KeysInOrder, Known
    <2>3. KeysInOrder' /\ LoadsFirst'
      BY <1>a, <2>1, <2>2 DEF KeysInOrder, LoadsFirst
    <2>4. CASE e.kind \in {"create", "update"}
      <3> DEFINE new == [key |-> e.key, kind |-> e.kind, user |-> e.user,
                         since |-> version[e.user]]
      <3> USE <2>4 DEF UserEvent
      <3>1. /\ lastId' = e.key
            /\ fetching' = fetching \cup {new}
            /\ UNCHANGED <<shown, rank, missed>>
        BY <1>a, <2>1 DEF LoadsFirst
      <3>2. e.user \in users /\ (Creates(e) => e.user \notin DOMAIN shown \cup Awaited)
        BY <1>a, <2>1 DEF UsersAreNew
      <3>3. new \in Fetch /\ new.user = e.user /\ (Creates(new) <=> Creates(e))
        BY <1>0, <2>1 DEF Fetch, TypeOK, Creates
      <3> HIDE DEF new
      <3>4. TypeOK'
        BY <1>0, <2>1, <3>1, <3>3 DEF TypeOK
      <3>5. Awaited' = IF Creates(e) THEN Awaited \cup {e.user} ELSE Awaited
        BY <3>1, <3>3 DEF Awaited
      <3>6. UsersAreNew'
        <4>1. /\ DOMAIN shown' \cup {f.user : f \in fetching'} \subseteq users'
              /\ Awaited' \cap DOMAIN shown' = {}
          BY <3>1, <3>2, <3>3, <3>5 DEF UsersAreNew
        <4>2. \A f, g \in fetching' : Creates(f) /\ Creates(g) /\ f.user = g.user => f = g
          BY <3>1, <3>2, <3>3 DEF UsersAreNew, Awaited
        <4>3. \A f \in Known' :
                Creates(f) /\ f.key > e.key => f.user \notin DOMAIN shown' \cup Awaited'
          BY <1>a, <2>1, <3>1, <3>5 DEF UsersAreNew
        <4>4. QED BY <2>1, <3>1, <4>1, <4>2, <4>3 DEF UsersAreNew
      <3>7. RanksAreExact'
        BY <3>1 DEF RanksAreExact
      <3>8. QED BY <2>3, <3>4, <3>6, <3>7
    <2>5. CASE e.kind = "score"
      <3>1. e.score \in Score
        BY <2>1, <2>5 DEF Event
      <3>2. DOMAIN shown' = DOMAIN shown /\ fetching' = fetching /\ Awaited' = Awaited
        BY <2>5 DEF ScoreEvent, UpdateRank, Awaited
      <3>3. UsersAreNew'
        BY <1>a, <2>1, <3>2 DEF UsersAreNew
      <3>4. CASE UNCHANGED <<shown, rank>>
        <4>1. TypeOK'
          BY <1>0, <2>1, <2>5, <3>4 DEF TypeOK, ScoreEvent
        <4>2. RanksAreExact'
          BY <3>4 DEF RanksAreExact
        <4>3. QED BY <2>3, <3>3, <4>1, <4>2
      <3>5. CASE /\ e.user \in DOMAIN shown
                 /\ rank' = UpdateRank(e.user, e.score)
                 /\ shown' = [shown EXCEPT ![e.user] = e.score]
                 /\ missed' = missed \ {e.user}
        <4>1. /\ shown \in [DOMAIN shown -> Nat]
              /\ shown' \in [DOMAIN shown -> Nat] /\ shown' \in [DOMAIN shown -> Score]
              /\ e.score \in Nat
          BY <1>0, <3>1, <3>5 DEF TypeOK
        <4>2. \A v \in DOMAIN shown : rank'[v] = RankOf(shown', v)
          <5>1. \A v \in DOMAIN shown : rank[v] = RankOf(shown, v)
            BY <2>1 DEF RanksAreExact
          <5>2. \A v \in DOMAIN shown : UpdateRank(e.user, e.score)[v]
                                       = RankOf([shown EXCEPT ![e.user] = e.score], v)
            BY ZenonT(60), <1>0, <3>5, <4>1, <5>1, UpdateRankIsExact
          <5>3. QED BY <3>5, <5>2
        <4>3. \A v \in DOMAIN shown : RankOf(shown', v) \in Nat
          BY <1>0, <3>2, <4>1, RanksFollowScores
        <4>4. rank' \in [DOMAIN shown -> Nat]
          <5>1. rank' = [v \in DOMAIN shown |-> rank'[v]]
            BY <3>5 DEF UpdateRank
          <5>2. QED BY <4>2, <4>3, <5>1
        <4>5. TypeOK'
          BY <1>0, <2>1, <2>5, <3>2, <3>5, <4>1, <4>4 DEF TypeOK
        <4>6. RanksAreExact'
          BY <3>2, <4>2 DEF RanksAreExact
        <4>7. QED BY <2>3, <3>3, <4>5, <4>6
      <3>6. QED BY <2>5, <3>4, <3>5 DEF ScoreEvent
    <2>6. QED BY <2>4, <2>5
  <1>11. ASSUME NEW f \in fetching, Fetched(f) PROVE LiveInv'
    <2> USE <1>11 DEF Fetched, serverVars, streamVars, initVars, shownVars
    <2>1. f \in Fetch /\ f.user \in users /\ f.user \in User /\ phase = "live"
      BY DEF UsersAreNew, TypeOK, Fetch
    <2>2. CASE \E x \in f.since..version[f.user] : Created(f, x)
      <3>1. PICK x \in f.since..version[f.user] : Created(f, x)
        BY <2>2
      <3> USE <3>1 DEF Created
      <3>2. x \in Nat
        BY <2>1 DEF Fetch, TypeOK
      <3> DEFINE u == f.user
      <3>3. Creates(f) /\ u \in Awaited /\ u \notin DOMAIN shown /\ u \in User
        BY <2>1 DEF Creates, Awaited, UsersAreNew
      <3> HIDE DEF u
      <3>4. /\ DOMAIN shown' = DOMAIN shown \cup {u}
            /\ shown' = [v \in DOMAIN shown \cup {u} |-> IF v = u THEN 0 ELSE shown[v]]
            /\ rank' = [v \in DOMAIN shown' |-> IF v = u THEN RankOf(shown', u) ELSE rank[v]]
            /\ data' = [v \in DOMAIN shown' |-> IF v = u THEN x ELSE data[v]]
        BY DEF u
      <3>5. /\ shown \in [DOMAIN shown -> Nat] /\ shown' \in [DOMAIN shown' -> Score]
            /\ shown' \in [DOMAIN shown' -> Nat]
        BY <1>0, <3>4, LiveRankingAssumption DEF TypeOK, Score
      <3>6. IsFiniteSet(DOMAIN shown')
        <4>1. IsFiniteSet(DOMAIN shown \cup {u})
          BY <1>0, FS_AddElement
        <4>2. QED BY <3>4, <4>1
      <3>7. RankOf(shown', u) \in Nat
        BY <3>4, <3>5, <3>6, RanksFollowScores
      <3>8. TypeOK'
        BY <2>1, <3>2, <3>3, <3>4, <3>5, <3>7 DEF TypeOK
      <3>9. KeysInOrder' /\ LoadsFirst'
        BY <2>1 DEF KeysInOrder, LoadsFirst, Known
      <3>10. Awaited' = Awaited \ {u}
        BY <3>3 DEF Awaited, UsersAreNew, u
      <3>11. UsersAreNew'
        BY <2>1, <3>3, <3>4, <3>10 DEF UsersAreNew, Known, u
      <3>12. \A v \in DOMAIN shown : RankOf(shown', v) = RankOf(shown, v)
        BY <3>3, <3>4, <3>5, NewUserIsLast
      <3>13. RanksAreExact'
        <4>1. \A v \in DOMAIN shown : rank'[v] = RankOf(shown', v)
          BY <2>1, <3>3, <3>4, <3>12 DEF RanksAreExact
        <4>2. rank'[u] = RankOf(shown', u)
          BY <3>4
        <4>3. QED BY <3>4, <4>1, <4>2 DEF RanksAreExact
      <3>14. QED BY <3>8, <3>9, <3>11, <3>13
    <2>3. CASE \/ \E x \in f.since..version[f.user] : Updated(f, x)
               \/ UpdateOvertakes(f)
      <3>1. /\ UNCHANGED <<users, score, version, clock, cache, shown, rank, header, lastId,
                            userInit, scoreInit, missed, outdated>>
            /\ phase' \in {phase, "garbled"}
            /\ phase' = "live" => es' = es /\ queue' = queue
            /\ phase' = "garbled" => es' = "none" /\ queue' = NoEvents
            /\ fetching' = fetching \ {f}
        BY <2>3 DEF Updated, UpdateOvertakes
      <3>2. data' \in [DOMAIN shown -> Nat] /\ reordered' \subseteq User
        BY <2>1, <2>3 DEF Updated, UpdateOvertakes, TypeOK, Fetch
      <3>3. Known' \subseteq Known /\ queue'.events \subseteq queue.events
        BY <2>1, <3>1 DEF Known, NoEvents
      <3>4. TypeOK'
        BY <1>0, <2>1, <3>1, <3>2 DEF TypeOK
      <3>5. KeysInOrder' /\ LoadsFirst'
        BY <2>1, <3>1, <3>3 DEF KeysInOrder, LoadsFirst
      <3>6. Awaited' \subseteq Awaited
        BY <3>1 DEF Awaited
      <3>7. UsersAreNew'
        BY <2>1, <3>1, <3>3, <3>6 DEF UsersAreNew
      <3>8. RanksAreExact'
        BY <2>1, <3>1 DEF RanksAreExact
      <3>9. QED BY <3>4, <3>5, <3>7, <3>8
    <2>4. QED BY <2>2, <2>3
  <1>12. ASSUME NEW f \in fetching, FetchFails(f) PROVE LiveInv'
    <2> USE <1>12 DEF FetchFails, serverVars, initVars, shownVars
    <2>1. phase = "live" /\ Known' \subseteq Known /\ queue'.events = {}
      BY DEF LoadsFirst, Known, NoEvents
    <2>2. TypeOK'
      BY DEF TypeOK, NoEvents
    <2>3. Awaited' \subseteq Awaited
      BY DEF Awaited
    <2>4. KeysInOrder' /\ LoadsFirst' /\ UsersAreNew' /\ RanksAreExact'
      BY <2>1, <2>3 DEF KeysInOrder, LoadsFirst, UsersAreNew, RanksAreExact
    <2>5. QED BY <2>2, <2>4
  <1>13. QED
    BY <1>1, <1>2, <1>2a, <1>3, <1>4, <1>5, <1>6, <1>7, <1>8, <1>9, <1>10, <1>11, <1>12 DEF Next

(* The keys grow along every queue, a user is created once, and the ranks  *)
(* are right, in every reachable state.                                    *)
THEOREM LiveInvariant == Spec => []LiveInv
  <1>1. LiveInv /\ UNCHANGED vars => LiveInv'
    BY DEF LiveInv, TypeOK, KeysInOrder, LoadsFirst, UsersAreNew, RanksAreExact, Known,
           vars, serverVars, streamVars, initVars, pageVars, shownVars, Awaited
  <1>2. QED BY InitLiveInv, NextKeepsLiveInv, <1>1, PTL DEF Spec

(* Whatever scores come, in whatever order and after whatever was lost, the*)
(* ranks that update_rank maintains are those of the scores shown.         *)
THEOREM LiveRanksAreExact == Spec => []RanksAreExact
  <1>1. LiveInv => RanksAreExact
    BY DEF LiveInv
  <1>2. QED BY LiveInvariant, <1>1, PTL

-----------------------------------------------------------------------------
(* From here on, what the page shows.                                      *)


(* The last event the page tells the server of, when it connects; and, when*)
(* it loads, the one its users are as recent as.                           *)
Had == IF phase = "scores" THEN userInit ELSE IF header # 0 THEN header ELSE lastId

CacheCovers == \E e \in cache : e.key <= Had

(* The page will receive, or has received, all that followed.              *)
Covered ==
  /\ ~outdated /\ es # "failed"
  /\ IF es = "open" THEN ~queue.reinit ELSE CacheCovers

ToCome == IF es = "open" THEN queue.events ELSE After(cache, Had)

IsScore(e, u) == e.kind = "score" /\ e.user = u

(* The latest score event of a user tells the score of that user.          *)
LatestTells(events, sc) ==
  \A e \in events :
    e.kind = "score" /\ (\A f \in events : IsScore(f, e.user) => f.key <= e.key) =>
      e.score = sc[e.user]

CacheAndQueue ==
  /\ LatestTells(cache, score) /\ LatestTells(queue.events, score)
  /\ es # "open" => queue = NoEvents
  /\ es = "open" =>
       \A f \in queue.events : f \in cache \/ \A g \in cache : f.key < g.key
  /\ queue.reinit => ~CacheCovers
  /\ \A u \in User \ users : score[u] = 0

(* What the page has not, it is going to hear of.                          *)
UserIsOwed(u) ==
  \/ u \in DOMAIN shown \cup Awaited
  \/ \E e \in ToCome : Creates(e) /\ e.user = u

DataIsOwed(u) ==
  \/ u \in reordered
  \/ u \in DOMAIN shown /\ data[u] = version[u]
  \/ \E f \in fetching : f.user = u /\ f.since = version[u]
  \/ \E e \in ToCome : e.kind # "score" /\ e.user = u

ScoreIsOwed(u) ==
  \/ u \in missed
  \/ \E e \in ToCome : IsScore(e, u) /\ e.key > scoreInit
  \/ score[u] = IF u \in DOMAIN shown THEN shown[u] ELSE 0

NothingLost ==
  phase \in {"scores", "live"} /\ Covered =>
    \A u \in users :
      UserIsOwed(u) /\ DataIsOwed(u) /\ (phase = "live" => ScoreIsOwed(u))

PageInv == LiveInv /\ CacheAndQueue /\ NothingLost

-----------------------------------------------------------------------------
(* What the Publisher drops first was sent first.                          *)
LEMMA FirstIsLeast ==
  ASSUME NEW S, S # {}, \A e \in S : e.key \in Nat
  PROVE  First(S) \in S /\ \A f \in S : First(S).key <= f.key
  <1> DEFINE keys == {e.key : e \in S}
             less == OpToRel(<, Nat)
  <1>1. keys \subseteq Nat /\ keys # {}
    OBVIOUS
  <1>2. IsWellFoundedOn(less, Nat)
    BY NatLessThanWellFounded
  <1>3. \A a, b \in Nat : a < b => <<a, b>> \in less
    BY DEF OpToRel
  <1> HIDE DEF keys, less
  <1>4. PICK k \in keys : \A j \in keys : ~ (<<j, k>> \in less)
    BY <1>1, <1>2, WFMin
  <1>5. PICK e \in S : e.key = k
    BY DEF keys
  <1>6. \A f \in S : f.key \in keys
    BY DEF keys
  <1>7. \A f \in S : e.key <= f.key
    <2>1. SUFFICES ASSUME NEW f \in S PROVE ~ (f.key < e.key)
      OBVIOUS
    <2>2. ~ (<<f.key, e.key>> \in less)
      BY <1>4, <1>5, <1>6
    <2>3. QED BY <1>3, <2>2
  <1>8. QED BY <1>7 DEF First

(* Put: the cache keeps an event, or else only later ones.                 *)
LEMMA PutDropsOldest ==
  ASSUME NEW S, NEW e, e.key \in Nat,
         \A f \in S : f.key \in Nat /\ f.key < e.key,
         \A f, g \in S : f.key = g.key => f = g
  PROVE  /\ Put(S, e) \subseteq S \cup {e} /\ e \in Put(S, e)
         /\ \A f \in S : f \in Put(S, e) \/ \A g \in Put(S, e) : f.key < g.key
  <1>1. Put(S, e) \subseteq S \cup {e} /\ e \in Put(S, e)
    BY DEF Put
  <1>2. ASSUME NEW f \in S, f \notin Put(S, e), NEW g \in Put(S, e) PROVE f.key < g.key
    <2>1. f = First(S) /\ g \in (S \ {f}) \cup {e}
      BY <1>2 DEF Put
    <2>2. f.key <= g.key
      BY <1>2, <2>1, FirstIsLeast
    <2>3. g \in S => f.key # g.key
      BY <1>2, <2>1
    <2>4. QED BY <2>1, <2>2, <2>3
  <1>3. QED BY <1>1, <1>2

(* A new event, and older ones that go, leave the latest what it says.     *)
LEMMA LatestStaysLatest ==
  ASSUME NEW S, NEW T, NEW e, NEW sc, NEW new,
         LatestTells(S, sc),
         T \subseteq S \cup {e}, e \in T,
         \A f \in T : f.key \in Nat,
         \A f \in S : f.key \in Nat /\ f.key < e.key /\ (f \in T \/ \A g \in T : f.key < g.key),
         e.kind = "score" => e.score = new[e.user],
         \A f \in S : (e.kind = "score" => f.user # e.user) => new[f.user] = sc[f.user]
  PROVE  LatestTells(T, new)
  <1> SUFFICES ASSUME NEW g \in T, g.kind = "score",
                      \A f \in T : IsScore(f, g.user) => f.key <= g.key
               PROVE  g.score = new[g.user]
    BY DEF LatestTells
  <1>1. CASE g = e
    BY <1>1
  <1>2. CASE g # e
    <2>1. g \in S /\ g.key < e.key
      BY <1>2
    <2>2. e.kind = "score" => e.user # g.user
      BY <2>1 DEF IsScore
    <2>3. \A f \in S : IsScore(f, g.user) => f.key <= g.key
      <3>1. SUFFICES ASSUME NEW f \in S, IsScore(f, g.user) PROVE f.key <= g.key
        OBVIOUS
      <3>2. CASE f \in T
        BY <3>1, <3>2
      <3>3. CASE f \notin T
        BY <3>3
      <3>4. QED BY <3>2, <3>3
    <2>4. g.score = sc[g.user]
      BY <2>1, <2>3 DEF LatestTells
    <2>5. QED BY <2>2, <2>4
  <1>3. QED BY <1>1, <1>2

(* So do the older ones that go alone.                                     *)
LEMMA LaterTell ==
  ASSUME NEW S, NEW T, NEW sc, LatestTells(S, sc), T \subseteq S,
         \A f \in S : f.key \in Nat,
         \A f \in S \ T, g \in T : f.key <= g.key
  PROVE  LatestTells(T, sc)
  BY DEF LatestTells

(* What Send leaves: a page that will receive what it has not still will,  *)
(* with the new event, and nothing that was to come is lost.               *)
LEMMA SendLosesNothing ==
  ASSUME PageInv, NEW e \in Event, e.key = clock + 1, Send(e),
         UNCHANGED <<es, header, lastId, phase, userInit, scoreInit, outdated>>,
         e.kind = "score" => e.score = score'[e.user],
         \A u \in User : (e.kind = "score" => u # e.user) => score'[u] = score[u]
  PROVE  /\ LatestTells(cache, score)' /\ LatestTells(queue.events, score)'
         /\ es' # "open" => queue' = NoEvents
         /\ es' = "open" =>
              \A f \in queue'.events : f \in cache' \/ \A g \in cache' : f.key < g.key
         /\ queue'.reinit => ~CacheCovers'
         /\ phase \in {"scores", "live"} /\ Covered' =>
              Covered /\ ToCome \subseteq ToCome' /\ e \in ToCome'
  <1> USE DEF PageInv, LiveInv
  <1>1. /\ clock \in Nat /\ Had \in Nat /\ Had <= clock /\ e.key \in Nat
    BY LiveRankingAssumption DEF TypeOK, KeysInOrder, Had
  <1>2. /\ cache \subseteq Event /\ queue.events \subseteq Event
        /\ queue = [reinit |-> queue.reinit, events |-> queue.events]
    BY DEF TypeOK
  <1>3. /\ \A f \in cache : f.key \in Nat /\ f.key < e.key /\ f.user \in User
        /\ \A f \in queue.events : f.key \in Nat /\ f.key < e.key /\ f.user \in User
        /\ \A f, g \in cache : f.key = g.key => f = g
    <2>1. \A f \in Event : f.key \in Nat /\ f.user \in User
      BY DEF Event
    <2>2. \A f \in cache \cup queue.events : f.key <= clock
      BY DEF KeysInOrder, Known
    <2>3. QED BY <1>1, <1>2, <2>1, <2>2 DEF KeysInOrder, Known
  <1>4. /\ cache' \subseteq cache \cup {e} /\ e \in cache'
        /\ \A f \in cache : f \in cache' \/ \A g \in cache' : f.key < g.key
    BY <1>1, <1>3, PutDropsOldest DEF Send
  <1>5. /\ queue'.reinit = queue.reinit
        /\ queue'.events = IF es = "open" THEN queue.events \cup {e} ELSE queue.events
    BY <1>2 DEF Send
  <1>6. LatestTells(cache, score)'
    <2>1. LatestTells(cache', score')
      BY <1>1, <1>3, <1>4, LatestStaysLatest DEF CacheAndQueue
    <2>2. QED BY <2>1 DEF LatestTells
  <1>7. es' # "open" => queue' = NoEvents
    BY DEF Send, CacheAndQueue
  <1>8. LatestTells(queue.events, score)'
    <2>1. CASE es = "open"
      <3> DEFINE T == queue.events \cup {e}
      <3>1. LatestTells(T, score')
        <4>1. /\ T \subseteq queue.events \cup {e} /\ e \in T /\ queue.events \subseteq T
              /\ \A f \in T : f.key \in Nat
          BY <1>1, <1>3
        <4> HIDE DEF T
        <4>2. QED BY <1>1, <1>3, <4>1, LatestStaysLatest DEF CacheAndQueue
      <3>2. QED BY <1>5, <2>1, <3>1 DEF LatestTells
    <2>2. CASE es # "open"
      BY <1>7, <2>2 DEF LatestTells, NoEvents
    <2>3. QED BY <2>1, <2>2
  <1>9. es' = "open" =>
          \A f \in queue'.events : f \in cache' \/ \A g \in cache' : f.key < g.key
    <2>1. SUFFICES ASSUME es = "open", NEW f \in queue.events, f \notin cache'
                   PROVE  \A g \in cache' : f.key < g.key
      BY <1>4, <1>5
    <2>2. CASE f \in cache
      BY <1>4, <2>1, <2>2
    <2>3. CASE f \notin cache
      BY <1>3, <1>4, <2>1, <2>3 DEF CacheAndQueue
    <2>4. QED BY <2>2, <2>3
  <1>10. Had' = Had
    BY DEF Had
  <1>11. CacheCovers' => CacheCovers
    BY <1>1, <1>4, <1>10 DEF CacheCovers
  <1>12. queue'.reinit => ~CacheCovers'
    BY <1>5, <1>11 DEF CacheAndQueue
  <1>13. ASSUME Covered' PROVE Covered /\ ToCome \subseteq ToCome' /\ e \in ToCome'
    <2>1. Covered
      BY <1>5, <1>11, <1>13 DEF Covered
    <2>2. CASE es = "open"
      BY <1>5, <2>1, <2>2 DEF ToCome
    <2>3. CASE es # "open"
      <3>1. PICK g \in cache' : g.key <= Had
        BY <1>10, <1>13, <2>3 DEF Covered, CacheCovers
      <3>2. \A f \in After(cache, Had) : f \in cache'
        BY <1>1, <1>3, <1>4, <3>1 DEF After
      <3>3. QED BY <1>1, <1>4, <1>10, <2>1, <2>3, <3>2 DEF ToCome, After
    <2>4. QED BY <2>2, <2>3
  <1>14. QED BY <1>6, <1>7, <1>8, <1>9, <1>12, <1>13

(* Nothing has happened to the page at first.                              *)
LEMMA InitPageInv == Init => PageInv
  BY InitLiveInv DEF Init, PageInv, CacheAndQueue, NothingLost, CacheCovers, LatestTells, NoEvents

(* Every step keeps the invariant.                                         *)
LEMMA NextKeepsPageInv == PageInv /\ Next => PageInv'
  <1> SUFFICES ASSUME PageInv, Next PROVE CacheAndQueue' /\ NothingLost'
    BY NextKeepsLiveInv DEF PageInv
  <1> USE DEF PageInv, LiveInv
  <1>0. /\ clock \in Nat /\ lastId \in Nat /\ header \in Nat /\ userInit \in Nat
        /\ scoreInit \in Nat /\ Had \in Nat
        /\ \A e \in cache \cup queue.events : e.key \in Nat /\ e \in Event /\ e.user \in User
    BY LiveRankingAssumption DEF TypeOK, Had, Event
  <1>a. phase \in {"scores", "live"} /\ Covered =>
          \A u \in users : UserIsOwed(u) /\ DataIsOwed(u) /\ (phase = "live" => ScoreIsOwed(u))
    BY DEF NothingLost
  <1>1. ASSUME NEW u \in User, CreateUser(u) PROVE CacheAndQueue' /\ NothingLost'
    <2> DEFINE e == [key |-> clock + 1, kind |-> "create", user |-> u]
    <2>1. /\ e \in Event /\ e.key = clock + 1 /\ e.user = u /\ e.kind = "create" /\ Send(e)
          /\ UNCHANGED <<es, header, lastId, phase, userInit, scoreInit, outdated, score,
                         version, shown, data, fetching, missed, reordered>>
          /\ u \notin users /\ users' = users \cup {u}
      BY <1>1, LiveRankingAssumption
      DEF CreateUser, TypeOK, Event, initVars, pageVars, shownVars
    <2> HIDE DEF e
    <2>2. /\ LatestTells(cache, score)' /\ LatestTells(queue.events, score)'
          /\ es' # "open" => queue' = NoEvents
          /\ es' = "open" =>
               \A f \in queue'.events : f \in cache' \/ \A g \in cache' : f.key < g.key
          /\ queue'.reinit => ~CacheCovers'
          /\ phase \in {"scores", "live"} /\ Covered' =>
               Covered /\ ToCome \subseteq ToCome' /\ e \in ToCome'
      BY <2>1, SendLosesNothing
    <2>3. CacheAndQueue'
      BY <2>1, <2>2 DEF CacheAndQueue
    <2>4. Awaited' = Awaited
      BY <2>1 DEF Awaited
    <2>5. ASSUME phase \in {"scores", "live"}, Covered', NEW v \in users
          PROVE  /\ UserIsOwed(v)' /\ DataIsOwed(v)' /\ (phase = "live" => ScoreIsOwed(v)')
      <3>1. Covered /\ ToCome \subseteq ToCome'
        BY <2>2, <2>5
      <3>2. UserIsOwed(v) /\ DataIsOwed(v) /\ (phase = "live" => ScoreIsOwed(v))
        BY <1>a, <2>5, <3>1
      <3>3. QED BY <2>1, <2>4, <3>1, <3>2 DEF UserIsOwed, DataIsOwed, ScoreIsOwed
    <2>6. ASSUME phase \in {"scores", "live"}, Covered'
          PROVE  /\ UserIsOwed(u)' /\ DataIsOwed(u)' /\ ScoreIsOwed(u)'
      <3>1. e \in ToCome'
        BY <2>2, <2>6
      <3>2. u \notin DOMAIN shown /\ score[u] = 0
        BY <2>1 DEF CacheAndQueue, UsersAreNew
      <3>3. QED BY <2>1, <3>1, <3>2 DEF UserIsOwed, DataIsOwed, ScoreIsOwed, Creates
    <2>7. NothingLost'
      BY <2>1, <2>5, <2>6 DEF NothingLost
    <2>8. QED BY <2>3, <2>7
  <1>2. ASSUME NEW u \in User, UpdateUser(u) PROVE CacheAndQueue' /\ NothingLost'
    <2> DEFINE e == [key |-> clock + 1, kind |-> "update", user |-> u]
    <2>1. /\ e \in Event /\ e.key = clock + 1 /\ e.user = u /\ e.kind = "update" /\ Send(e)
          /\ UNCHANGED <<es, header, lastId, phase, userInit, scoreInit, outdated, score,
                         users, shown, data, fetching, missed, reordered>>
          /\ u \in users /\ \A v \in User : v # u => version'[v] = version[v]
      BY <1>2, LiveRankingAssumption
      DEF UpdateUser, TypeOK, Event, initVars, pageVars, shownVars
    <2> HIDE DEF e
    <2>2. /\ LatestTells(cache, score)' /\ LatestTells(queue.events, score)'
          /\ es' # "open" => queue' = NoEvents
          /\ es' = "open" =>
               \A f \in queue'.events : f \in cache' \/ \A g \in cache' : f.key < g.key
          /\ queue'.reinit => ~CacheCovers'
          /\ phase \in {"scores", "live"} /\ Covered' =>
               Covered /\ ToCome \subseteq ToCome' /\ e \in ToCome'
      BY <2>1, SendLosesNothing
    <2>3. CacheAndQueue'
      BY <2>1, <2>2 DEF CacheAndQueue
    <2>4. Awaited' = Awaited
      BY <2>1 DEF Awaited
    <2>5. ASSUME phase \in {"scores", "live"}, Covered', NEW v \in users
          PROVE  /\ UserIsOwed(v)' /\ DataIsOwed(v)' /\ (phase = "live" => ScoreIsOwed(v)')
      <3>1. Covered /\ ToCome \subseteq ToCome' /\ e \in ToCome'
        BY <2>2, <2>5
      <3>2. /\ UserIsOwed(v) /\ DataIsOwed(v) /\ (phase = "live" => ScoreIsOwed(v))
            /\ v \in User
        BY <1>a, <2>5, <3>1 DEF TypeOK
      <3>3. DataIsOwed(v)'
        BY <2>1, <3>1, <3>2 DEF DataIsOwed
      <3>4. QED BY <2>1, <2>4, <3>1, <3>2, <3>3 DEF UserIsOwed, ScoreIsOwed
    <2>6. NothingLost'
      BY <2>1, <2>5 DEF NothingLost
    <2>7. QED BY <2>3, <2>6
  <1>3. ASSUME NEW u \in User, NEW x \in Score, SetScore(u, x)
        PROVE  CacheAndQueue' /\ NothingLost'
    <2> DEFINE e == [key |-> clock + 1, kind |-> "score", user |-> u, score |-> x]
    <2>1. /\ e \in Event /\ e.key = clock + 1 /\ e.user = u /\ e.kind = "score" /\ Send(e)
          /\ e.score = x
          /\ UNCHANGED <<es, header, lastId, phase, userInit, scoreInit, outdated, version,
                         users, shown, data, fetching, missed, reordered>>
          /\ u \in users /\ score'[u] = x /\ \A v \in User : v # u => score'[v] = score[v]
      BY <1>3, LiveRankingAssumption
      DEF SetScore, TypeOK, Event, initVars, pageVars, shownVars
    <2> HIDE DEF e
    <2>2. /\ LatestTells(cache, score)' /\ LatestTells(queue.events, score)'
          /\ es' # "open" => queue' = NoEvents
          /\ es' = "open" =>
               \A f \in queue'.events : f \in cache' \/ \A g \in cache' : f.key < g.key
          /\ queue'.reinit => ~CacheCovers'
          /\ phase \in {"scores", "live"} /\ Covered' =>
               Covered /\ ToCome \subseteq ToCome' /\ e \in ToCome'
      BY <2>1, SendLosesNothing
    <2>3. CacheAndQueue'
      BY <2>1, <2>2 DEF CacheAndQueue
    <2>4. Awaited' = Awaited /\ e.key > scoreInit'
      BY <1>0, <2>1 DEF Awaited, KeysInOrder
    <2>5. ASSUME phase \in {"scores", "live"}, Covered', NEW v \in users
          PROVE  /\ UserIsOwed(v)' /\ DataIsOwed(v)' /\ (phase = "live" => ScoreIsOwed(v)')
      <3>1. Covered /\ ToCome \subseteq ToCome' /\ e \in ToCome'
        BY <2>2, <2>5
      <3>2. /\ UserIsOwed(v) /\ DataIsOwed(v) /\ (phase = "live" => ScoreIsOwed(v))
            /\ v \in User
        BY <1>a, <2>5, <3>1 DEF TypeOK
      <3>3. phase = "live" => ScoreIsOwed(v)'
        BY <2>1, <2>4, <3>1, <3>2 DEF ScoreIsOwed, IsScore
      <3>4. QED BY <2>1, <2>4, <3>1, <3>2, <3>3 DEF UserIsOwed, DataIsOwed
    <2>6. NothingLost'
      BY <2>1, <2>5 DEF NothingLost
    <2>7. QED BY <2>3, <2>6
  <1>4. CASE ServerRestarts \/ Reload
    <2> USE <1>4 DEF ServerRestarts, Reload, Blank, serverVars, initVars, pageVars, shownVars
    <2>1. CacheAndQueue'
      BY DEF CacheAndQueue, LatestTells, NoEvents
    <2>2. NothingLost'
      BY DEF NothingLost, Covered, CacheCovers
    <2>3. QED BY <2>1, <2>2
  <1>5. CASE InitUsers
    <2> USE <1>5 DEF InitUsers, serverVars, streamVars
    <2>1. CacheAndQueue'
      BY DEF CacheAndQueue, LatestTells, LoadsFirst, NoEvents
    <2>2. \A u \in users' : UserIsOwed(u)' /\ DataIsOwed(u)'
      BY DEF UserIsOwed, DataIsOwed
    <2>3. QED BY <2>1, <2>2 DEF NothingLost
  <1>6. CASE InitScores
    <2> USE <1>6 DEF InitScores, serverVars
    <2>1. UNCHANGED <<cache, queue, users, score>> /\ queue = NoEvents /\ es' # "open"
      BY DEF LoadsFirst, streamVars
    <2>2. CacheAndQueue'
      BY <2>1 DEF CacheAndQueue, LatestTells, NoEvents
    <2>3. ASSUME phase' = "live", Covered', NEW u \in users
          PROVE  UserIsOwed(u)' /\ DataIsOwed(u)' /\ ScoreIsOwed(u)'
      <3>1. /\ phase = "scores" /\ scoreInit' = clock
            /\ shown' = [v \in DOMAIN shown |-> score[v]]
            /\ lastId' = userInit /\ es' = "connecting" /\ es = "none"
            /\ UNCHANGED <<header, userInit, data, fetching, missed, reordered, outdated,
                           version>>
            /\ u \notin DOMAIN shown => ~(score[u] > 0)
        BY <2>3 DEF LoadsFirst
      <3>2. Had' = Had /\ header = 0
        BY <2>3, <3>1 DEF Had, LoadsFirst
      <3>3. Covered /\ ToCome' = ToCome
        BY <2>1, <2>3, <3>1, <3>2 DEF Covered, CacheCovers, ToCome, After
      <3>4. UserIsOwed(u) /\ DataIsOwed(u)
        BY <1>a, <3>1, <3>3
      <3>5. score[u] = IF u \in DOMAIN shown' THEN shown'[u] ELSE 0
        BY <3>1 DEF TypeOK, Score
      <3>6. QED BY <3>1, <3>3, <3>4, <3>5 DEF UserIsOwed, DataIsOwed, ScoreIsOwed, Awaited
    <2>4. NothingLost'
      BY <2>1, <2>3 DEF NothingLost
    <2>5. QED BY <2>2, <2>4
  <1>7. CASE Connect
    <2> USE <1>7 DEF Connect, serverVars, initVars, pageVars, shownVars
    <2>1. phase = "live" /\ Had' = Had /\ queue' = GetSubscriber(cache, Had)
      BY DEF LoadsFirst, Had
    <2>2. /\ queue'.reinit => ~CacheCovers
          /\ ~queue'.reinit => CacheCovers /\ queue'.events = After(cache, Had)
          /\ queue'.events \subseteq After(cache, Had)
      <3>1. cache # {} => First(cache) \in cache /\ \A f \in cache : First(cache).key <= f.key
        BY <1>0, FirstIsLeast
      <3>2. CASE cache # {} /\ Had >= First(cache).key
        BY <2>1, <3>1, <3>2 DEF GetSubscriber, CacheCovers
      <3>3. CASE ~(cache # {} /\ Had >= First(cache).key)
        BY <1>0, <2>1, <3>1, <3>3 DEF GetSubscriber, CacheCovers
      <3>4. QED BY <3>2, <3>3
    <2>3. LatestTells(queue'.events, score)
      <3>1. LatestTells(After(cache, Had), score)
        BY <1>0, LaterTell DEF CacheAndQueue, After
      <3>2. queue'.events \in {{}, After(cache, Had)}
        BY <2>1 DEF GetSubscriber
      <3>3. QED BY <3>1, <3>2 DEF LatestTells
    <2>4. CacheAndQueue'
      <3>1. LatestTells(cache, score)' /\ LatestTells(queue.events, score)'
        BY <2>3 DEF LatestTells, CacheAndQueue
      <3>2. queue'.reinit => ~CacheCovers'
        BY <2>1, <2>2 DEF CacheCovers
      <3>3. QED BY <2>2, <3>1, <3>2 DEF CacheAndQueue, After
    <2>5. Covered' => Covered /\ ToCome' = ToCome
      BY <2>2 DEF Covered, ToCome
    <2>6. NothingLost'
      BY <1>a, <2>1, <2>5 DEF NothingLost, UserIsOwed, DataIsOwed, ScoreIsOwed, Awaited
    <2>7. QED BY <2>4, <2>6
  <1>8. CASE StreamEnds \/ CreateEventSource
    <2> USE <1>8 DEF StreamEnds, CreateEventSource, serverVars, initVars, pageVars, shownVars
    <2>1. /\ phase = "live" /\ queue' = NoEvents /\ Had' \in Nat /\ Had' <= Had
          /\ es' \notin {"open", "failed"}
      BY <1>0 DEF LoadsFirst, Had, CacheAndQueue, KeysInOrder
    <2>2. CacheAndQueue'
      BY <2>1 DEF CacheAndQueue, LatestTells, NoEvents
    <2>3. ASSUME Covered' PROVE Covered /\ ToCome \subseteq ToCome'
      <3>1. PICK g \in cache : g.key <= Had'
        BY <2>1, <2>3 DEF Covered, CacheCovers
      <3>2. CacheCovers
        BY <1>0, <2>1, <3>1 DEF CacheCovers
      <3>3. Covered
        BY <2>1, <2>3, <3>2 DEF Covered, CacheAndQueue
      <3>4. \A f \in queue.events : Had < f.key /\ (f \in cache \/ f.key < g.key)
        BY <2>1, <3>1 DEF CacheAndQueue, KeysInOrder, Had, NoEvents
      <3>5. \A f \in ToCome : f \in cache /\ f.key > Had'
        BY <1>0, <2>1, <3>1, <3>4 DEF ToCome, After
      <3>6. QED BY <2>1, <3>3, <3>5 DEF ToCome, After
    <2>4. NothingLost'
      BY <1>a, <2>1, <2>3 DEF NothingLost, UserIsOwed, DataIsOwed, ScoreIsOwed, Awaited
    <2>5. QED BY <2>2, <2>4
  <1>9. CASE ReceiveReinit
    <2> USE <1>9 DEF ReceiveReinit, serverVars, initVars, shownVars
    <2>1. queue'.events = queue.events /\ queue'.reinit = FALSE
      BY DEF TypeOK
    <2>2. CacheAndQueue'
      BY <2>1 DEF CacheAndQueue, LatestTells
    <2>3. QED BY <2>2 DEF NothingLost, Covered
  <1>10. ASSUME NEW e \in queue.events, Receive(e) PROVE CacheAndQueue' /\ NothingLost'
    <2> USE <1>10 DEF Receive, serverVars, initVars
    <2>1. /\ phase = "live" /\ es = "open"
          /\ queue'.events = queue.events \ {e} /\ queue'.reinit = FALSE
          /\ UNCHANGED <<users, score, version, cache, es, phase, userInit, scoreInit, data,
                         reordered, outdated>>
          /\ e.key \in Nat /\ e.user \in User /\ userInit < e.key
      BY <1>0 DEF LoadsFirst, TypeOK, KeysInOrder
    <2>2. \A f \in queue.events : e.key <= f.key
      OBVIOUS
    <2>3. LatestTells(queue'.events, score)
      BY <1>0, <2>1, <2>2, LaterTell DEF CacheAndQueue
    <2>4. CacheAndQueue'
      BY <2>1, <2>3 DEF CacheAndQueue, LatestTells
    <2>5. (Covered' => Covered) /\ ToCome = queue.events /\ ToCome' = ToCome \ {e}
      BY <2>1 DEF Covered, ToCome
    <2>6. CASE e.kind \in {"create", "update"}
      <3> DEFINE new == [key |-> e.key, kind |-> e.kind, user |-> e.user,
                         since |-> version[e.user]]
      <3>1. /\ fetching' = fetching \cup {new} /\ UNCHANGED <<shown, missed>>
            /\ new.user = e.user /\ new.since = version[e.user] /\ new.kind = e.kind
        BY <2>1, <2>6 DEF UserEvent
      <3> HIDE DEF new
      <3>2. /\ Awaited \subseteq Awaited'
            /\ Creates(e) => e.user \in Awaited'
        BY <3>1 DEF Awaited, Creates
      <3>3. ASSUME NEW u \in users, UserIsOwed(u), DataIsOwed(u), ScoreIsOwed(u)
            PROVE  UserIsOwed(u)' /\ DataIsOwed(u)' /\ ScoreIsOwed(u)'
        <4>1. UserIsOwed(u)'
          BY <2>5, <3>1, <3>2, <3>3 DEF UserIsOwed
        <4>2. DataIsOwed(u)'
          BY <2>1, <2>5, <3>1, <3>3 DEF DataIsOwed
        <4>3. ScoreIsOwed(u)'
          BY <2>1, <2>5, <2>6, <3>1, <3>3 DEF ScoreIsOwed, IsScore
        <4>4. QED BY <4>1, <4>2, <4>3
      <3>4. QED BY <1>a, <2>1, <2>4, <2>5, <3>3 DEF NothingLost
    <2>7. CASE e.kind = "score"
      <3>1. DOMAIN shown' = DOMAIN shown /\ fetching' = fetching /\ Awaited' = Awaited
        BY <2>7 DEF ScoreEvent, Awaited
      <3>2. ASSUME NEW u \in users, UserIsOwed(u), DataIsOwed(u), ScoreIsOwed(u)
            PROVE  UserIsOwed(u)' /\ DataIsOwed(u)' /\ ScoreIsOwed(u)'
        <4>1. UserIsOwed(u)' /\ DataIsOwed(u)'
          BY <2>1, <2>5, <2>7, <3>1, <3>2 DEF UserIsOwed, DataIsOwed, Creates
        <4> SUFFICES ScoreIsOwed(u)'
          BY <4>1
        <4>a. CASE UNCHANGED shown /\ missed \subseteq missed'
                   /\ (u = e.user => u \in missed' \/ ~(e.key > scoreInit))
          <5>1. CASE u \in missed'
            BY <5>1 DEF ScoreIsOwed
          <5>2. CASE u \notin missed'
            <6>1. \A f \in ToCome : IsScore(f, u) /\ f.key > scoreInit => f \in ToCome'
              BY <2>5, <4>a, <5>2 DEF IsScore
            <6>2. QED BY <2>1, <3>2, <4>a, <5>2, <6>1 DEF ScoreIsOwed, IsScore
          <5>3. QED BY <5>1, <5>2
        <4>2. CASE e.key > scoreInit /\ e.user \notin DOMAIN shown
          BY <2>7, <4>2, <4>a DEF ScoreEvent
        <4>3. CASE ~(e.key > scoreInit)
          BY <2>7, <4>3, <4>a DEF ScoreEvent
        <4>4. CASE e.key > scoreInit /\ e.user \in DOMAIN shown
          <5>1. shown' = [shown EXCEPT ![e.user] = e.score] /\ missed' = missed \ {e.user}
            BY <2>7, <4>4 DEF ScoreEvent
          <5>2. CASE u # e.user
            <6>1. \A f \in ToCome : IsScore(f, u) => f \in ToCome'
              BY <2>5, <5>2 DEF IsScore
            <6>2. /\ u \in DOMAIN shown' <=> u \in DOMAIN shown
                  /\ u \in DOMAIN shown => shown'[u] = shown[u]
                  /\ u \in missed => u \in missed'
              BY <3>1, <5>1, <5>2
            <6>3. QED BY <2>1, <3>2, <6>1, <6>2 DEF ScoreIsOwed, IsScore
          <5>3. CASE u = e.user /\ \E f \in ToCome' : IsScore(f, u) /\ f.key > scoreInit
            BY <2>1, <5>3 DEF ScoreIsOwed, IsScore
          <5>4. CASE u = e.user /\ ~ \E f \in ToCome' : IsScore(f, u) /\ f.key > scoreInit
            <6>1. \A f \in queue.events : IsScore(f, e.user) => f.key <= e.key
              BY <1>0, <2>1, <2>5, <4>4, <5>4
            <6>2. e.score = score[e.user]
              BY <2>7, <6>1 DEF CacheAndQueue, LatestTells
            <6>3. score'[u] = shown'[u] /\ u \in DOMAIN shown'
              BY <2>1, <3>1, <4>4, <5>1, <5>4, <6>2
            <6>4. QED BY <6>3 DEF ScoreIsOwed
          <5>5. QED BY <5>2, <5>3, <5>4
        <4>5. QED BY <4>2, <4>3, <4>4
      <3>3. QED BY <1>a, <2>1, <2>4, <2>5, <3>2 DEF NothingLost
    <2>8. QED BY <2>6, <2>7
  <1>11. ASSUME NEW f \in fetching, Fetched(f) PROVE CacheAndQueue' /\ NothingLost'
    <2> USE <1>11 DEF Fetched, serverVars
    <2>1. /\ f \in Fetch /\ f.since \in Nat /\ f.user \in users /\ f.user \in User
          /\ phase = "live"
          /\ UNCHANGED <<users, score, version, cache, missed, outdated>>
          /\ fetching' = fetching \ {f}
      BY DEF UsersAreNew, TypeOK, Fetch
    <2>2. CASE UpdateOvertakes(f)
      BY <2>1, <2>2 DEF UpdateOvertakes, CacheAndQueue, LatestTells, NoEvents, NothingLost
    <2>3. ASSUME NEW x \in f.since..version[f.user], Created(f, x) \/ Updated(f, x)
          PROVE  CacheAndQueue' /\ NothingLost'
      <3>1. UNCHANGED <<queue, es, header, lastId, phase, userInit, scoreInit>>
        BY <2>3 DEF Created, Updated, streamVars, initVars
      <3>2. /\ (Covered' <=> Covered) /\ ToCome' = ToCome
            /\ (CacheCovers' <=> CacheCovers)
        BY <2>1, <3>1 DEF Covered, ToCome, CacheCovers, Had, After
      <3>3. CacheAndQueue'
        BY <2>1, <3>1, <3>2 DEF CacheAndQueue, LatestTells
      <3>4. /\ x \in Nat /\ version[f.user] \in Nat
            /\ f.since = version[f.user] => x = version[f.user]
            /\ x # version[f.user] => x < version[f.user]
        BY <2>1, <2>3 DEF TypeOK
      <3>5. CASE Created(f, x)
        <4>1. /\ f.user \notin DOMAIN shown /\ Creates(f)
              /\ DOMAIN shown' = DOMAIN shown \cup {f.user}
              /\ shown'[f.user] = 0 /\ data'[f.user] = x /\ reordered' = reordered
              /\ \A v \in DOMAIN shown : shown'[v] = shown[v] /\ data'[v] = data[v]
          BY <3>5 DEF Created, Creates, UsersAreNew, Awaited
        <4>2. Awaited \subseteq Awaited' \cup {f.user}
          BY <2>1 DEF Awaited
        <4>3. ASSUME NEW u \in users, UserIsOwed(u), DataIsOwed(u), ScoreIsOwed(u)
              PROVE  UserIsOwed(u)' /\ DataIsOwed(u)' /\ ScoreIsOwed(u)'
          <5>1. UserIsOwed(u)'
            BY <3>2, <4>1, <4>2, <4>3 DEF UserIsOwed
          <5>2. DataIsOwed(u)'
            BY <2>1, <3>2, <3>4, <4>1, <4>3 DEF DataIsOwed
          <5>3. ScoreIsOwed(u)'
            BY <2>1, <3>1, <3>2, <4>1, <4>3 DEF ScoreIsOwed
          <5>4. QED BY <5>1, <5>2, <5>3
        <4>4. QED BY <1>a, <2>1, <3>1, <3>2, <3>3, <4>3 DEF NothingLost
      <3>6. CASE Updated(f, x)
        <4>1. /\ UNCHANGED shown /\ f.user \in DOMAIN shown /\ data'[f.user] = x
              /\ data[f.user] \in Nat
              /\ \A v \in DOMAIN shown : v # f.user => data'[v] = data[v]
              /\ reordered' = IF x = version[f.user] THEN reordered \ {f.user}
                              ELSE IF x < data[f.user] THEN reordered \cup {f.user}
                              ELSE reordered
          BY <3>6 DEF Updated, TypeOK
        <4>2. Awaited \subseteq Awaited' \cup {f.user}
          BY <2>1 DEF Awaited
        <4>3. ASSUME NEW u \in users, UserIsOwed(u), DataIsOwed(u), ScoreIsOwed(u)
              PROVE  UserIsOwed(u)' /\ DataIsOwed(u)' /\ ScoreIsOwed(u)'
          <5>1. UserIsOwed(u)'
            BY <3>2, <4>1, <4>2, <4>3 DEF UserIsOwed
          <5>2. DataIsOwed(u)'
            BY <2>1, <3>2, <3>4, <4>1, <4>3 DEF DataIsOwed
          <5>3. ScoreIsOwed(u)'
            BY <2>1, <3>1, <3>2, <4>1, <4>3 DEF ScoreIsOwed
          <5>4. QED BY <5>1, <5>2, <5>3
        <4>4. QED BY <1>a, <2>1, <3>1, <3>2, <3>3, <4>3 DEF NothingLost
      <3>7. QED BY <2>3, <3>5, <3>6
    <2>4. QED BY <2>2, <2>3
  <1>12. ASSUME NEW f \in fetching, FetchFails(f) PROVE CacheAndQueue' /\ NothingLost'
    BY <1>12
    DEF FetchFails, serverVars, CacheAndQueue, LatestTells, NoEvents, NothingLost, Covered
  <1>13. QED
    BY <1>1, <1>2, <1>3, <1>4, <1>5, <1>6, <1>7, <1>8, <1>9, <1>10, <1>11, <1>12 DEF Next

(* The invariant holds in every reachable state.                           *)
THEOREM PageInvariant == Spec => []PageInv
  <1>1. PageInv /\ UNCHANGED vars => PageInv'
    BY DEF PageInv, LiveInv, TypeOK, KeysInOrder, LoadsFirst, UsersAreNew, RanksAreExact, Known,
           Awaited, CacheAndQueue, LatestTells, CacheCovers, Had, NothingLost, Covered, ToCome,
           UserIsOwed, DataIsOwed, ScoreIsOwed, After,
           vars, serverVars, streamVars, initVars, pageVars, shownVars
  <1>2. QED BY InitPageInv, NextKeepsPageInv, <1>1, PTL DEF Spec

(* However often the stream is lost or the server starts again, a page that*)
(* is connected and has received everything shows what the server has.     *)
THEOREM LivePageIsCurrent == Spec => []PageIsCurrent
  <1>1. PageInv => PageIsCurrent
    <2> SUFFICES ASSUME PageInv, es = "open", queue = NoEvents, fetching = {}, ~outdated
                 PROVE  /\ DOMAIN shown = users
                        /\ \A u \in users \ missed : shown[u] = score[u]
                        /\ \A u \in users \ reordered : data[u] = version[u]
      BY DEF PageIsCurrent
    <2>1. phase = "live" /\ Covered /\ ToCome = {} /\ Awaited = {}
      BY DEF PageInv, LiveInv, LoadsFirst, Covered, ToCome, NoEvents, Awaited
    <2>2. \A u \in users : UserIsOwed(u) /\ DataIsOwed(u) /\ ScoreIsOwed(u)
      BY <2>1 DEF PageInv, NothingLost
    <2>3. DOMAIN shown = users
      BY <2>1, <2>2 DEF PageInv, LiveInv, UsersAreNew, UserIsOwed
    <2>4. QED BY <2>1, <2>2, <2>3 DEF DataIsOwed, ScoreIsOwed
  <1>2. QED BY PageInvariant, <1>1, PTL

=============================================================================
