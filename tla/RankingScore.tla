---------------------------- MODULE RankingScore ----------------------------
(***************************************************************************)
(* The score of one user on one task in the ranking (cmsranking): the      *)
(* Score object that ScoringStore keeps up to date from the callbacks of   *)
(* RankingStores (Scoring.py).                                             *)
(*                                                                         *)
(* Every request holds the lock of the stores and is one action; a merge   *)
(* of a list is one action for each of its entities.  The server may die   *)
(* between two requests, half way through a deletion and while it writes a *)
(* file; the next start loads what the disk has.  Keys of subchanges are   *)
(* numbers, so that they are ordered; the key tells the submission and the *)
(* time, as ProxyService makes it.  The time of a submission does not      *)
(* change, as ProxyService sends it from a timestamp nobody changes,       *)
(* though update_submission would follow another.                          *)
(***************************************************************************)
EXTENDS RankingStores, SequencesExt

CONSTANTS
  Submission,
  SubmittedAt,   \* the time of each submission
  Key,           \* the keys of subchanges
  Time,          \* the time of the subchange of each key, whose submission is Of
  Content,       \* what the subchange of each key may say
  NoScore,       \* a subchange without score
  NoSubmission,
  Truncating     \* the submissions and keys a death may catch while their
                 \* file is written: a bound for TLC

ScoreMode == {"max", "max_subtask", "max_tokened_last"}

ASSUME RankingScoreAssumption ==
  /\ SubmittedAt \in [Submission -> Nat]
  /\ Key \subseteq Nat
  /\ Of \in [Key -> Submission]
  /\ Time \in [Key -> Nat]
  /\ \A k \in Key :
       Content[k] \subseteq [score : Nat \cup {NoScore}, extra : Seq(Nat), token : BOOLEAN]
  /\ NoScore \notin Nat
  /\ NoSubmission \notin Submission

VARIABLES
  taskMode,     \* the score mode of the task in its store
  changes,      \* Score._changes
  score,        \* the other fields of the Score, but for its mode
  mode,         \* Score._score_mode
  loading,      \* the keys init_store has still to load
  announced,    \* the score last given to the callbacks
  replayed,     \* no mode was taken since the history was last reset
  damaged       \* history: a death ever cut a file off

vars == <<taskMode, storeVars, changes, score, mode, loading, announced, replayed,
          damaged>>

(* A subchange gives the submission a score with its details by subtask,   *)
(* or a token.                                                             *)
Change == [key: Key, content: UNION {Content[k] : k \in Key}]
Status == [score: Nat, extra: Seq(Nat), token: BOOLEAN]
Unscored == [score |-> 0, extra |-> <<>>, token |-> FALSE]

(* The order of the changes: time, then key.                               *)
Before(k, l) == Time[k] < Time[l] \/ (Time[k] = Time[l] /\ k < l)

(* NumberSet, a list used as a bag.                                        *)
BagOf(x) == SetToBag({x})
Query(bag) == Max(BagToSet(bag) \cup {0})

TypeOK ==
  /\ taskMode \in ScoreMode /\ mode \in ScoreMode
  /\ submissions \subseteq Submission
  /\ DOMAIN subchanges \subseteq Key
  /\ \A k \in DOMAIN subchanges : subchanges[k] \in Content[k]
  /\ submissionFiles \subseteq Submission
  /\ DOMAIN subchangeFiles \subseteq Key
  /\ \A k \in DOMAIN subchangeFiles : subchangeFiles[k] \in Content[k]
  /\ truncated \subseteq Submission \cup Key
  /\ changes \in Seq(Change)
  /\ score.status \in [submissions -> Status]
  /\ IsABag(score.released)
  /\ score.last \in submissions \cup {NoSubmission}
  /\ score.history \in Seq(Nat \X Nat)
  /\ loading \subseteq DOMAIN subchanges
  /\ announced \in Nat
  /\ replayed \in BOOLEAN
  /\ damaged \in BOOLEAN

-----------------------------------------------------------------------------
(* Score.                                                                  *)

Blank(S) == [status |-> [s \in S |-> Unscored], released |-> EmptyBag,
             last |-> NoSubmission, history |-> <<>>]

GetScore(history) == IF history = <<>> THEN 0 ELSE Last(history)[2]

(* The details of a submission, its score when it has none.                *)
Extra(st) == IF st.extra = <<>> THEN <<st.score>> ELSE st.extra
Subtask(st, i) == IF i \in DOMAIN Extra(st) THEN Extra(st)[i] ELSE 0

(* The sum of the best scores of the subtasks, over the submissions whose  *)
(* status is in A.                                                         *)
BySubtask(A) ==
  LET width == Max({Len(Extra(st)) : st \in A})
  IN  SumFunction([i \in 1..width |-> Max({Subtask(st, i) : st \in A})])

(* The score by the mode m.                                                *)
ScoreNow(sc, m) ==
  LET all == {sc.status[s] : s \in DOMAIN sc.status}
  IN  CASE m = "max" -> Max({st.score : st \in all})
        [] m = "max_subtask" -> BySubtask(all)
        [] m = "max_tokened_last" ->
             Max({Query(sc.released),
                  IF sc.last = NoSubmission THEN 0 ELSE sc.status[sc.last].score})

(* The released scores when old becomes new.                               *)
Released(bag, old, new) ==
  (bag (-) (IF old.token THEN BagOf(old.score) ELSE EmptyBag))
  (+) (IF new.token THEN BagOf(new.score) ELSE EmptyBag)

(* append_change: what it does to the submissions, and all of it.          *)
Changed(sc, c) ==
  LET s == Of[c.key]
      scored == c.content.score # NoScore
      old == sc.status[s]
      new == [score |-> IF scored THEN c.content.score ELSE old.score,
              extra |-> IF scored THEN c.content.extra ELSE old.extra,
              token |-> old.token \/ c.content.token]
      later == sc.last = NoSubmission \/ SubmittedAt[s] > SubmittedAt[sc.last]
  IN  [status |-> [sc.status EXCEPT ![s] = new],
       released |-> Released(sc.released, old, new),
       last |-> IF scored /\ later THEN s ELSE sc.last,
       history |-> sc.history]

AppendChange(sc, c, m) ==
  LET next == Changed(sc, c)
      now == ScoreNow(next, m)
  IN  IF now = GetScore(sc.history) THEN next
      ELSE [next EXCEPT !.history = Append(@, <<Time[c.key], now>>)]

(* reset_history, on the submissions S and the changes chs; the mutant does*)
(* not forget the history.                                                 *)
ReplayFrom(first, chs, m) ==
  LET after[n \in 0 .. Len(chs)] ==
        IF n = 0 THEN first ELSE AppendChange(after[n - 1], chs[n], m)
  IN  after[Len(chs)]

ReplayKeepingHistory(S, chs, m) ==
  ReplayFrom([Blank(S) EXCEPT !.history = score.history], chs, m)

Replay(S, chs, m) == ReplayFrom(Blank(S), chs, m)

IsLatest(k, chs) == chs = <<>> \/ Before(Last(chs).key, k)

(* Where create_subchange inserts a change that is not the latest.         *)
Position(k, chs) ==
  CHOOSE i \in DOMAIN chs :
    /\ Before(k, chs[i].key)
    /\ \A j \in 1..(i - 1) : ~Before(k, chs[j].key)

(* The changes with a key in K.                                            *)
ChangesOf(K, chs) ==
  LET kept[n \in 0 .. Len(chs)] ==
        IF n = 0 THEN <<>>
        ELSE IF chs[n].key \in K THEN Append(kept[n - 1], chs[n]) ELSE kept[n - 1]
  IN  kept[Len(chs)]

(* Score.create_subchange.                                                 *)
CreateChange(c) ==
  IF IsLatest(c.key, changes)
  THEN /\ changes' = Append(changes, c)
       /\ score' = AppendChange(score, c, mode)
       /\ UNCHANGED replayed
  ELSE /\ changes' = InsertAt(changes, Position(c.key, changes), c)
       /\ score' = Replay(submissions, changes', mode)
       /\ replayed' = TRUE

(* The callbacks hear of a score that is not the one before.               *)
Notify == announced' = GetScore(score'.history)

-----------------------------------------------------------------------------
Init ==
  /\ taskMode \in ScoreMode /\ mode = taskMode
  /\ submissions = {} /\ subchanges = [k \in {} |-> NoScore]
  /\ submissionFiles = {} /\ subchangeFiles = [k \in {} |-> NoScore] /\ truncated = {}
  /\ changes = <<>> /\ score = Blank({})
  /\ loading = {} /\ announced = 0 /\ replayed = TRUE /\ damaged = FALSE

Serving == loading = {}

(* The task is merged: nobody tells the Score.                             *)
UpdateTask(m) ==
  /\ Serving
  /\ taskMode' = m
  /\ UNCHANGED <<storeVars, changes, score, mode, loading, announced, replayed, damaged>>

(* The first submission makes the Score.                                   *)
CreateSubmission(s) ==
  /\ Serving
  /\ s \notin submissions
  /\ PutSubmission(s)
  /\ score' = [score EXCEPT !.status =
                  [t \in submissions' |-> IF t = s THEN Unscored ELSE @[t]]]
  /\ mode' = IF submissions = {} THEN taskMode ELSE mode
  /\ UNCHANGED <<taskMode, changes, loading, announced, replayed, damaged>>

(* The history is reset, then the mode of the task is taken.               *)
UpdateSubmission(s) ==
  /\ Serving
  /\ s \in submissions
  /\ PutSubmission(s)
  /\ score' = Replay(submissions, changes, mode)
  /\ mode' = taskMode
  /\ replayed' = (mode' = mode)
  /\ Notify
  /\ UNCHANGED <<taskMode, changes, loading, damaged>>

(* The callbacks of the subchanges that go first do nothing, since their   *)
(* user and task are not known any more.  The Score goes with the last     *)
(* submission.                                                             *)
DeleteSubmission(s) ==
  /\ Serving
  /\ RemoveSubmission(s)
  /\ changes' = ChangesOf({k \in Key : Of[k] # s}, changes)
  /\ score' = Replay(submissions', changes', mode)
  /\ replayed' = TRUE
  /\ Notify
  /\ UNCHANGED <<taskMode, mode, loading, damaged>>

CreateSubchange(k) ==
  /\ Serving
  /\ k \notin DOMAIN subchanges
  /\ \E x \in Content[k] :
       /\ PutSubchange(k, x)
       /\ CreateChange([key |-> k, content |-> x])
  /\ Notify
  /\ UNCHANGED <<taskMode, mode, loading, damaged>>

UpdateSubchange(k) ==
  /\ Serving
  /\ k \in DOMAIN subchanges
  /\ \E x \in Content[k] :
       /\ PutSubchange(k, x)
       /\ changes' = [i \in DOMAIN changes |->
            IF changes[i].key = k THEN [key |-> k, content |-> x] ELSE changes[i]]
  /\ score' = Replay(submissions, changes', mode)
  /\ replayed' = TRUE
  /\ Notify
  /\ UNCHANGED <<taskMode, mode, loading, damaged>>

DeleteSubchange(k) ==
  /\ Serving
  /\ RemoveSubchange(k)
  /\ changes' = ChangesOf(Key \ {k}, changes)
  /\ score' = Replay(submissions, changes', mode)
  /\ replayed' = TRUE
  /\ Notify
  /\ UNCHANGED <<taskMode, mode, loading, damaged>>

-----------------------------------------------------------------------------
(* The server starts again: the stores load, init_store creates the        *)
(* submissions and has the subchanges to come.                             *)
Restarted ==
  /\ LoadFromDisk(Submission, Key)
  /\ loading' = DOMAIN subchanges'
  /\ changes' = <<>> /\ score' = Blank(submissions') /\ mode' = taskMode
  /\ announced' = 0 /\ replayed' = TRUE
  /\ UNCHANGED taskMode

(* It dies between two requests, or as it starts.                          *)
Restart == UNCHANGED <<diskVars, damaged>> /\ Restarted

(* It dies half way through a deletion.                                    *)
RestartInDelete(s) == Serving /\ HalfDelete(s) /\ UNCHANGED damaged /\ Restarted

(* It dies while it writes the file of an entity, new or known.            *)
RestartInWriteOfSubmission(s) ==
  /\ Serving /\ s \in Truncating
  /\ HalfPutSubmission(s)
  /\ damaged' = TRUE /\ Restarted

RestartInWriteOfSubchange(k) ==
  /\ Serving /\ k \in Truncating
  /\ HalfPutSubchange(k)
  /\ damaged' = TRUE /\ Restarted

(* init_store, one subchange, in the order of their keys.  It raises at    *)
(* one without its submission: the server does not start.                  *)
Load(k) ==
  /\ k \in loading /\ \A l \in loading : k <= l
  /\ Of[k] \in submissions
  /\ CreateChange([key |-> k, content |-> subchanges[k]])
  /\ loading' = loading \ {k}
  /\ Notify
  /\ UNCHANGED <<taskMode, storeVars, mode, damaged>>

Next ==
  \/ \E m \in ScoreMode : UpdateTask(m)
  \/ \E s \in Submission : CreateSubmission(s)
  \/ \E s \in Submission : UpdateSubmission(s)
  \/ \E s \in Submission : DeleteSubmission(s)
  \/ \E k \in Key : CreateSubchange(k)
  \/ \E k \in Key : UpdateSubchange(k)
  \/ \E k \in Key : DeleteSubchange(k)
  \/ Restart
  \/ \E s \in Submission : RestartInDelete(s)
  \/ \E s \in Submission : RestartInWriteOfSubmission(s)
  \/ \E k \in Key : RestartInWriteOfSubchange(k)
  \/ \E k \in Key : Load(k)

Spec == Init /\ [][Next]_vars

-----------------------------------------------------------------------------
(* What the score is by definition, from the subchanges sub with the keys  *)
(* K, for the submissions S.                                               *)

Scoring(sub, K) == {k \in K : sub[k].score # NoScore}

(* The last score a submission was given, and whether it was released.     *)
Given(sub, s, K) ==
  LET scored == {k \in Scoring(sub, K) : Of[k] = s}
      latest == CHOOSE k \in scored : \A l \in scored \ {k} : Before(l, k)
  IN  [score |-> IF scored = {} THEN 0 ELSE sub[latest].score,
       extra |-> IF scored = {} THEN <<>> ELSE sub[latest].extra,
       token |-> \E k \in K : Of[k] = s /\ sub[k].token]

(* The latest submission with a score; of several at the same time, the    *)
(* one whose score came first.                                             *)
IsLastSubmission(sub, s, K) ==
  \E k \in Scoring(sub, K) :
    /\ Of[k] = s
    /\ \A l \in Scoring(sub, K) :
         \/ SubmittedAt[Of[l]] < SubmittedAt[s]
         \/ SubmittedAt[Of[l]] = SubmittedAt[s] /\ (Of[l] = s \/ Before(k, l))

ByDefinition(S, sub, K, m) ==
  LET counting ==
        {Given(sub, s, K).score : s \in {t \in S :
           m = "max" \/ Given(sub, t, K).token \/ IsLastSubmission(sub, t, K)}}
  IN  IF m = "max_subtask" THEN BySubtask({Given(sub, s, K) : s \in S})
      ELSE Max(counting \cup {0})

(* The history that follows: the changes, in order, that change the score. *)
UpTo(k, K) == {l \in K : l = k \/ Before(l, k)}

ScoreChanges(S, sub, K, m) ==
  {k \in K : ByDefinition(S, sub, UpTo(k, K), m) # ByDefinition(S, sub, UpTo(k, K) \ {k}, m)}

HistoryByDefinition(S, sub, K, m) ==
  LET keys == ScoreChanges(S, sub, K, m)
      nth(i) == CHOOSE k \in keys : Cardinality({l \in keys : Before(l, k)}) = i - 1
  IN  [i \in 1 .. Cardinality(keys) |->
         <<Time[nth(i)], ByDefinition(S, sub, UpTo(nth(i), K), m)>>]

(* Whatever the order in which subchanges come, are replaced, deleted and  *)
(* loaded, the incremental history is the one by definition, but for the   *)
(* time between a new mode and the next reset.                             *)
HistoryIsExact ==
  replayed => score.history =
                HistoryByDefinition(submissions, subchanges, DOMAIN subchanges \ loading, mode)

(* A subchange in store has its submission, which init_store needs, unless *)
(* a death ever cut a file off: also when the server dies half way through *)
(* a deletion.                                                             *)
NoOrphans == damaged \/ \A k \in DOMAIN subchanges : Of[k] \in submissions
=============================================================================
