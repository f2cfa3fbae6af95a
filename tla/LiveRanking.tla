----------------------------- MODULE LiveRanking -----------------------------
(***************************************************************************)
(* The page of the ranking (cmsranking/static/DataStore.js), kept current  *)
(* by the events of the ranking web server (DataWatcher).                  *)
(*                                                                         *)
(* A user has one score, which stands for the global one, and data (name,  *)
(* team), of which there is a version after each update.  The handlers of  *)
(* the page and of the server run without a break, so each is one action;  *)
(* the events on their way to the page, in the queue of its subscriber or  *)
(* in the network, are one queue; the answers to what the page asks for    *)
(* come in any order.                                                      *)
(***************************************************************************)
EXTENDS EventSource

CONSTANTS
  User,
  MaxScore,
  MaxTime,    \* bounds the clock, which counts the events
  MaxVersion  \* bounds the updates of a user

ASSUME LiveRankingAssumption ==
  IsFiniteSet(User) /\ {MaxScore, MaxTime, MaxVersion} \subseteq Nat

VARIABLES
  users,      \* the users in the store of the server
  score,      \* their scores there
  version,    \* the updates of their data
  clock,
  cache,      \* Publisher._cache
  queue,      \* the events the page has still to receive
  es,         \* what the EventSource of the page does
  header,     \* the id of the last event it received, or 0
  lastId,     \* last_event_id of the page
  phase,      \* how far the page is with its initialization
  userInit, scoreInit,  \* user_init_time, score_init_time
  shown,      \* the scores shown: a function on the users the page knows
  rank,       \* their ranks, 0 at first
  data,       \* the versions of their data that the page has
  fetching,   \* what the page has asked the server for
  missed,     \* the users whose last score came while the page did not know them
  reordered,  \* those of whom an older answer came last
  outdated    \* the page was asked to get everything again

serverVars == <<users, score, version, clock, cache>>
streamVars == <<queue, es, header, lastId>>
initVars == <<phase, userInit, scoreInit>>
shownVars == <<shown, rank, data>>
pageVars == <<shownVars, fetching, missed, reordered, outdated>>
vars == <<serverVars, streamVars, initVars, pageVars>>

Score == 0..MaxScore
NoEvents == [reinit |-> FALSE, events |-> {}]
Event == [key : 1..MaxTime, kind : {"create", "update"}, user : User]
         \cup [key : 1..MaxTime, kind : {"score"}, user : User, score : Score]
Fetch == [key : 1..MaxTime, kind : {"create", "update"}, user : User, since : Nat]

TypeOK ==
  /\ users \subseteq User /\ score \in [User -> Score] /\ version \in [User -> Nat]
  /\ clock \in 0..MaxTime
  /\ cache \subseteq Event
  /\ queue \in [reinit : BOOLEAN, events : SUBSET Event]
  /\ es \in {"none", "connecting", "open", "closed", "failed"}
  /\ header \in 0..MaxTime /\ lastId \in 0..MaxTime
  /\ phase \in {"users", "scores", "stuck", "live", "garbled"}
  /\ userInit \in 0..MaxTime /\ scoreInit \in 0..MaxTime
  /\ DOMAIN shown \subseteq User
  /\ shown \in [DOMAIN shown -> Score] /\ rank \in [DOMAIN shown -> Nat]
  /\ data \in [DOMAIN shown -> Nat]
  /\ fetching \subseteq Fetch /\ missed \subseteq User /\ reordered \subseteq User
  /\ outdated \in BOOLEAN

-----------------------------------------------------------------------------
(* DataWatcher: a change is sent to every subscriber.                      *)
Send(event) ==
  /\ clock' = clock + 1
  /\ cache' = Put(cache, event)
  /\ queue' = IF es = "open" THEN [queue EXCEPT !.events = @ \cup {event}] ELSE queue

CreateUser(u) ==
  /\ clock < MaxTime
  /\ u \notin users
  /\ users' = users \cup {u}
  /\ Send([key |-> clock + 1, kind |-> "create", user |-> u])
  /\ UNCHANGED <<score, version, es, header, lastId, initVars, pageVars>>

(* Also when ProxyService sends all users again.                           *)
UpdateUser(u) ==
  /\ clock < MaxTime
  /\ u \in users /\ version[u] < MaxVersion
  /\ version' = [version EXCEPT ![u] = @ + 1]
  /\ Send([key |-> clock + 1, kind |-> "update", user |-> u])
  /\ UNCHANGED <<users, score, es, header, lastId, initVars, pageVars>>

SetScore(u, x) ==
  /\ clock < MaxTime
  /\ u \in users /\ x # score[u]
  /\ score' = [score EXCEPT ![u] = x]
  /\ Send([key |-> clock + 1, kind |-> "score", user |-> u, score |-> x])
  /\ UNCHANGED <<users, version, es, header, lastId, initVars, pageVars>>

(* The server starts again, with what is in its stores: the cache is not.  *)
ServerRestarts ==
  /\ cache # {}
  /\ cache' = {}
  /\ es' = IF es = "open" THEN "connecting" ELSE es
  /\ queue' = NoEvents
  /\ UNCHANGED <<users, score, version, clock, header, lastId, initVars, pageVars>>

-----------------------------------------------------------------------------
(* The ranks by their definition, of users with the scores sc.             *)
Above(sc, u) == {v \in DOMAIN sc : sc[v] > sc[u]}
RankOf(sc, u) == 1 + Cardinality(Above(sc, u))

(* The page is opened, or reloaded by its user.                            *)
Blank ==
  /\ phase' = "users" /\ es' = "none"
  /\ queue' = NoEvents /\ header' = 0 /\ lastId' = 0
  /\ userInit' = 0 /\ scoreInit' = 0
  /\ shown' = [u \in {} |-> 0] /\ rank' = shown' /\ data' = shown'
  /\ fetching' = {} /\ missed' = {} /\ reordered' = {} /\ outdated' = FALSE

Reload == phase # "users" /\ Blank /\ UNCHANGED serverVars

InitUsers ==
  /\ phase = "users"
  /\ phase' = "scores"
  /\ userInit' = clock
  /\ shown' = [u \in users |-> 0] /\ rank' = shown'
  /\ data' = [u \in users |-> version[u]]
  /\ UNCHANGED <<serverVars, streamVars, scoreInit, fetching, missed, reordered, outdated>>

(* init_scores, init_ranks, create_event_source.  The server tells of the  *)
(* scores above zero; one of a user it did not have at InitUsers is an     *)
(* exception, and the page goes no further.                                *)
InitScores ==
  LET known == DOMAIN shown IN
  /\ phase = "scores"
  /\ IF \E u \in users \ known : score[u] > 0
     THEN /\ phase' = "stuck"
          /\ UNCHANGED <<streamVars, userInit, scoreInit, pageVars>>
     ELSE /\ phase' = "live"
          /\ scoreInit' = clock
          /\ shown' = [u \in known |-> score[u]]
          /\ rank' = [u \in known |-> RankOf(shown', u)]
          /\ lastId' = userInit
          /\ es' = "connecting"
          /\ UNCHANGED <<queue, header, userInit, data, fetching, missed, reordered, outdated>>
  /\ UNCHANGED serverVars

-----------------------------------------------------------------------------
(* The browser connects: what it tells overrides the id in the URL.        *)
Connect ==
  /\ es = "connecting"
  /\ es' = "open"
  /\ queue' = GetSubscriber(cache, IF header # 0 THEN header ELSE lastId)
  /\ UNCHANGED <<serverVars, header, lastId, initVars, pageVars>>

(* The stream ends, with what was on its way, or cannot be opened; the     *)
(* browser tries again, or gives up.                                       *)
StreamEnds ==
  /\ es \in {"connecting", "open"}
  /\ es' \in {"connecting", "closed"}
  /\ queue' = NoEvents
  /\ UNCHANGED <<serverVars, header, lastId, initVars, pageVars>>

(* The user clicks on "try to connect".                                    *)
CreateEventSource ==
  /\ es = "closed"
  /\ es' = "connecting" /\ header' = 0
  /\ UNCHANGED <<serverVars, queue, lastId, initVars, pageVars>>

(* update_rank, after the score of u became x.  The mutant takes users with*)
(* an equal score to stay ahead of u.                                      *)
UpdateRankStrictly(u, x) ==
  [v \in DOMAIN shown |->
     IF v = u THEN RankOf([shown EXCEPT ![u] = x], u)
     ELSE IF rank[u] > rank[v] /\ shown[v] < x THEN rank[v] + 1
     ELSE IF x <= shown[v] /\ rank[v] > rank[u] THEN rank[v] - 1
     ELSE rank[v]]

UpdateRank(u, x) ==
  [v \in DOMAIN shown |->
     IF v = u THEN RankOf([shown EXCEPT ![u] = x], u)
     ELSE IF rank[u] >= rank[v] /\ shown[v] < x THEN rank[v] + 1
     ELSE IF x <= shown[v] /\ rank[v] > rank[u] THEN rank[v] - 1
     ELSE rank[v]]

(* set_score, from score_listener: of a user the page does not know it is  *)
(* an exception, and the event does not count for lastId.                  *)
ScoreEvent(e) ==
  IF e.key > scoreInit /\ e.user \notin DOMAIN shown
  THEN /\ missed' = missed \cup {e.user}
       /\ UNCHANGED <<lastId, shown, rank>>
  ELSE /\ lastId' = e.key
       /\ IF e.key > scoreInit
          THEN /\ rank' = UpdateRank(e.user, e.score)
               /\ shown' = [shown EXCEPT ![e.user] = e.score]
               /\ missed' = missed \ {e.user}
          ELSE UNCHANGED <<shown, rank, missed>>

(* user_listener: the page asks for the user.                              *)
UserEvent(e) ==
  /\ lastId' = e.key
  /\ fetching' =
       IF e.key > userInit
       THEN fetching \cup {[key |-> e.key, kind |-> e.kind, user |-> e.user,
                            since |-> version[e.user]]}
       ELSE fetching

(* What get_subscriber sends instead of events has no id and no data: no   *)
(* listener of the page hears of it.                                       *)
ReceiveReinit ==
  /\ es = "open" /\ queue.reinit
  /\ queue' = [queue EXCEPT !.reinit = FALSE]
  /\ outdated' = TRUE
  /\ UNCHANGED <<serverVars, es, header, lastId, initVars, shownVars, fetching, missed,
                 reordered>>

Receive(e) ==
  /\ es = "open" /\ ~queue.reinit
  /\ \A f \in queue.events : e.key <= f.key
  /\ queue' = [queue EXCEPT !.events = @ \ {e}]
  /\ header' = e.key
  /\ \/ e.kind \in {"create", "update"} /\ UserEvent(e) /\ UNCHANGED <<shown, rank, missed>>
     \/ e.kind = "score" /\ ScoreEvent(e) /\ UNCHANGED fetching
  /\ UNCHANGED <<serverVars, es, initVars, data, reordered, outdated>>

(* The answer has come, with a version the server had since the request.   *)
(* create_user: the page does not know the user.                           *)
Created(f, x) ==
  /\ f.kind = "create"
  /\ shown' = [v \in DOMAIN shown \cup {f.user} |-> IF v = f.user THEN 0 ELSE shown[v]]
  /\ rank' = [v \in DOMAIN shown' |-> IF v = f.user THEN RankOf(shown', f.user) ELSE rank[v]]
  /\ data' = [v \in DOMAIN shown' |-> IF v = f.user THEN x ELSE data[v]]
  /\ UNCHANGED <<streamVars, initVars, reordered>>

(* update_user, which keeps score and rank.                                *)
Updated(f, x) ==
  /\ f.kind = "update" /\ f.user \in DOMAIN shown
  /\ data' = [data EXCEPT ![f.user] = x]
  /\ reordered' = IF x = version[f.user] THEN reordered \ {f.user}
                  ELSE IF x < data[f.user] THEN reordered \cup {f.user}
                  ELSE reordered
  /\ UNCHANGED <<streamVars, initVars, shown, rank>>

(* update_user of a user who is still to be created is an exception, after *)
(* which the page has a user without score; it is not followed from there. *)
UpdateOvertakes(f) ==
  /\ f.kind = "update" /\ f.user \notin DOMAIN shown
  /\ phase' = "garbled"
  /\ es' = "none" /\ queue' = NoEvents
  /\ UNCHANGED <<header, lastId, userInit, scoreInit, shownVars, reordered>>

Fetched(f) ==
  /\ phase = "live"
  /\ fetching' = fetching \ {f}
  /\ \/ \E x \in f.since..version[f.user] : Created(f, x) \/ Updated(f, x)
     \/ UpdateOvertakes(f)
  /\ UNCHANGED <<serverVars, missed, outdated>>

FetchFails(f) ==
  /\ phase = "live"
  /\ fetching' = fetching \ {f}
  /\ es' = "failed" /\ queue' = NoEvents
  /\ UNCHANGED <<serverVars, header, lastId, initVars, shownVars, missed, reordered, outdated>>

-----------------------------------------------------------------------------
Init ==
  /\ users \in SUBSET User /\ score = [u \in User |-> 0] /\ version = score
  /\ clock = 0 /\ cache = {}
  /\ phase = "users" /\ es = "none"
  /\ queue = NoEvents /\ header = 0 /\ lastId = 0
  /\ userInit = 0 /\ scoreInit = 0
  /\ shown = [u \in {} |-> 0] /\ rank = shown /\ data = shown
  /\ fetching = {} /\ missed = {} /\ reordered = {} /\ outdated = FALSE

Next ==
  \/ \E u \in User : CreateUser(u) \/ UpdateUser(u)
  \/ \E u \in User, x \in Score : SetScore(u, x)
  \/ ServerRestarts
  \/ Reload \/ InitUsers \/ InitScores
  \/ Connect \/ StreamEnds \/ CreateEventSource \/ ReceiveReinit
  \/ \E e \in queue.events : Receive(e)
  \/ \E f \in fetching : Fetched(f) \/ FetchFails(f)

Spec == Init /\ [][Next]_vars

-----------------------------------------------------------------------------
(* A page that is connected, has received everything sent and has the users*)
(* it asked for shows what the server has, however often the stream was    *)
(* lost, unless it was asked to get everything again; but for the scores   *)
(* that came before the user they are of, and the data of which an older   *)
(* answer came last.                                                       *)
PageIsCurrent ==
  es = "open" /\ queue = NoEvents /\ fetching = {} /\ ~outdated =>
    /\ DOMAIN shown = users
    /\ \A u \in users \ missed : shown[u] = score[u]
    /\ \A u \in users \ reordered : data[u] = version[u]

(* However the ranks are changed, one score at a time, they are what they  *)
(* are by definition: one more than the users with a greater score.        *)
RanksAreExact ==
  phase = "live" => \A u \in DOMAIN shown : rank[u] = RankOf(shown, u)

(* The server only tells the score of users that the page knows, as it is  *)
(* taken to ensure.                                                        *)
ScoresAreOfKnown == missed = {}

(* A page that says that it receives live updates does.                    *)
OutdatedIsTold == ~(outdated /\ es = "open")
==============================================================================
