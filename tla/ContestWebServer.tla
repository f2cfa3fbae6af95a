-------------------------- MODULE ContestWebServer -------------------------
(* The requests of one contestant to ContestWebServer: starting the own    *)
(* time frame, submitting, testing, playing tokens.  A request is stamped  *)
(* when it arrives, checks the limits against what is committed by then,   *)
(* stores its files and commits; other requests of the contestant, to this *)
(* or another ContestWebServer, run in between.  The clock ticks to Horizon.*)
EXTENDS PhaseManagement, FiniteSets

CONSTANTS
  Task,
  Request,               \* at most so many requests at once
  Horizon,               \* no run lasts longer
  Scenarios              \* what the runs start from: the contest, the user, the
                         \* limits, the token rules, the last instant, the kinds of
                         \* requests, the submissions already there and how many
                         \* more rows may come

Class == {"submission", "user_test"}
RowType == [cls : Class, task : Task, timestamp : Int, official : BOOLEAN]

LimitIn(limits, cls, scope) == IF scope = "contest" THEN limits[cls].contest ELSE limits[cls].task

(* _filter_submission_query: what was sent in on the contest, or a task.   *)
InScope(list, cls, scope) ==
  {i \in 1 .. Len(list) : list[i].cls = cls /\ (scope = "contest" \/ list[i].task = scope)}

Keeps(limit, list, ids) ==
  /\ limit.number \in {None} \cup Nat /\ limit.interval \in {None} \cup Nat
  /\ limit.number = None \/ Cardinality(ids) <= limit.number
  /\ limit.interval = None \/ \A i, j \in ids :
       i >= j \/ list[j].timestamp - list[i].timestamp >= limit.interval

(* The constraints of the database on contests.                            *)
Constrained(c) ==
  /\ c.start \in Int /\ c.stop \in Int /\ c.start <= c.stop
  /\ c.per_user_time \in {None} \cup Nat
  /\ \/ c.analysis = None
     \/ /\ c.analysis[1] \in Int /\ c.analysis[2] \in Int
        /\ c.stop <= c.analysis[1] /\ c.analysis[1] <= c.analysis[2]

(* ... and on the token rules of contests and tasks.                       *)
Permitted(rules) ==
  \/ rules.mode \in {"disabled", "infinite"}
  \/ /\ rules.mode = "finite"
     /\ {rules.gen_initial, rules.gen_number, rules.min_interval} \subseteq Nat
     /\ rules.gen_interval \in Nat \ {0}
     /\ {rules.gen_max, rules.max_number} \subseteq {None} \cup (Nat \ {0})
     /\ rules.gen_max = None \/ rules.gen_initial <= rules.gen_max

(* What is there at instant 0 keeps the limits.                            *)
ASSUME ContestWebServerAssumption ==
  /\ Horizon \in Nat /\ None \notin Int /\ IsFiniteSet(Request)
  /\ \A s \in Scenarios :
       /\ s.until \in 0 .. Horizon
       /\ Constrained(s.contest)
       /\ s.user.delay_time \in Nat /\ s.user.extra_time \in Nat /\ s.more \in Nat
       /\ Permitted(s.tokens.contest) /\ Permitted(s.tokens.task)
       /\ s.rows \in Seq(RowType) /\ \A i \in 1 .. Len(s.rows) : s.rows[i].timestamp <= 0
       /\ \A cls \in Class, scope \in Task \cup {"contest"} :
            Keeps(LimitIn(s.limits, cls, scope), s.rows, InScope(s.rows, cls, scope))

VARIABLES
  now,
  setting,               \* the scenario: contest, user, limits, token rules; fixed
  starting_time,         \* of the participation
  rows,                  \* the committed submissions and user tests, in order of commit
  tokens,                \* the time of the token of each submission that has one
  requests,              \* the request each handler is working on
  overlapped             \* some request arrived while another was being handled

vars == <<now, setting, starting_time, rows, tokens, requests, overlapped>>

contest == setting.contest
user == [starting_time |-> starting_time, delay_time |-> setting.user.delay_time,
         extra_time |-> setting.user.extra_time]
unrestricted == setting.user.unrestricted

Idle == [stage |-> "idle"]

Init ==
  \E s \in Scenarios :
    /\ setting = s /\ now = 0 /\ rows = s.rows
    /\ starting_time = None /\ tokens = <<>>
    /\ requests = [r \in Request |-> Idle] /\ overlapped = FALSE

-----------------------------------------------------------------------------
(* The limits (submission/check.py).                                       *)

Sent(cls, scope) == InScope(rows, cls, scope)

Limit(cls, scope) == LimitIn(setting.limits, cls, scope)

CheckMaxNumber(cls, scope) ==
  \/ Limit(cls, scope).number = None
  \/ unrestricted
  \/ Cardinality(Sent(cls, scope)) < Limit(cls, scope).number

CheckMinInterval(cls, scope, timestamp) ==
  \/ Limit(cls, scope).interval = None
  \/ unrestricted
  \/ \A i \in Sent(cls, scope) : timestamp - rows[i].timestamp >= Limit(cls, scope).interval

(* is_last_minutes; EndOfFrame is None for a user who has not started.     *)
EndOfFrame ==
  IF contest.per_user_time = None THEN contest.stop
  ELSE IF starting_time = None THEN None ELSE starting_time + contest.per_user_time

IsLastMinutes(timestamp) ==
  /\ ~unrestricted /\ contest.grace # None
  /\ EndOfFrame + user.delay_time + user.extra_time - timestamp <= contest.grace

LastMinutesFails == ~unrestricted /\ contest.grace # None /\ EndOfFrame = None

-----------------------------------------------------------------------------
(* Tokens (tokening.py).                                                   *)

(* order_by(Token.timestamp).                                              *)
InOrder(times, ids) ==
  LET order == CHOOSE p \in [1 .. Cardinality(ids) -> ids] :
                 \A m, n \in DOMAIN p : m < n => p[m] # p[n] /\ times[p[m]] <= times[p[n]]
  IN [n \in DOMAIN order |-> times[order[n]]]

InTokenScope(timestamp, scope) ==
  {i \in DOMAIN tokens : tokens[i] <= timestamp /\ (scope = "contest" \/ rows[i].task = scope)}

Played(timestamp, scope) == InOrder(tokens, InTokenScope(timestamp, scope))

TokenRules(scope) == IF scope = "contest" THEN setting.tokens.contest ELSE setting.tokens.task

TokenStart == IF contest.per_user_time # None THEN starting_time ELSE contest.start

TokensAvailable(task, timestamp) ==
  Merged(TokensOf(TokenRules("contest"), TokenStart, Played(timestamp, "contest"), timestamp),
         TokensOf(TokenRules(task), TokenStart, Played(timestamp, task), timestamp))

(* The subtraction of None, and the assertions of _tokens_available: a     *)
(* token, or the request, may be from before the start.                    *)
TokensFail(task, timestamp) ==
  \E scope \in {"contest", task} :
    /\ TokenRules(scope).mode = "finite"
    /\ \/ TokenStart = None \/ TokenStart > timestamp
       \/ \E n \in DOMAIN Played(timestamp, scope) : Played(timestamp, scope)[n] < TokenStart

-----------------------------------------------------------------------------
(* Requests.                                                               *)

PhaseAt(timestamp) == ActualPhase(contest, user, timestamp).phase

(* actual_phase_required of the handlers.  The mutant lets a user start    *)
(* once more while the own time frame runs.                                *)
HandlerPhasesStartAgain(kind) ==
  CASE kind = "start" -> {-1, 0}
    [] kind = "submission" -> 0 .. 3
    [] OTHER -> {0}

HandlerPhases(kind) ==
  CASE kind = "start" -> {-1}
    [] kind = "submission" -> 0 .. 3
    [] OTHER -> {0}

(* ... and what SubmitHandler.post asks of the phase.                      *)
Admitted(kind, phase) ==
  /\ unrestricted \/ phase \in HandlerPhases(kind)
  /\ kind = "submission" => ~(0 < phase /\ phase < 3 /\ ~contest.unofficial)

Underway(r) == requests[r].stage # "idle"

Room ==
  Len(rows) + Cardinality({r \in Request : Underway(r) /\ requests[r].kind \in Class})
    < Len(setting.rows) + setting.more

(* prepare: the request is stamped and the phase of its user computed.     *)
Arrive(r, request) ==
  /\ ~Underway(r) /\ request.kind \in setting.kinds
  /\ Admitted(request.kind, PhaseAt(now))
  /\ requests' = [requests EXCEPT ![r] = request]
  /\ overlapped' = (overlapped \/ \E other \in Request : Underway(other))
  /\ UNCHANGED <<now, setting, starting_time, rows, tokens>>

SendRow(r, cls, task) ==
  /\ Room
  /\ Arrive(r, [stage |-> "arrived", kind |-> cls, task |-> task, timestamp |-> now,
                official |-> PhaseAt(now) = 0])

SendToken(r, i) ==
  /\ rows[i].cls = "submission"
  /\ Arrive(r, [stage |-> "arrived", kind |-> "token", submission |-> i, timestamp |-> now])

SendStart(r) ==
  /\ contest.per_user_time # None
  /\ Arrive(r, [stage |-> "arrived", kind |-> "start", timestamp |-> now])

Proceed(r) ==
  /\ requests' = [requests EXCEPT ![r].stage = "checked"]
  /\ UNCHANGED <<now, setting, starting_time, rows, tokens, overlapped>>

Reject(r) ==
  /\ requests' = [requests EXCEPT ![r] = Idle]
  /\ UNCHANGED <<now, setting, starting_time, rows, tokens, overlapped>>

(* accept_submission and accept_user_test before the files are stored: a   *)
(* request that breaks a limit, or the code, changes nothing.  The mutant  *)
(* looks at the task alone.                                                *)
ScopesTaskOnly(request) == {request.task}
Scopes(request) == {"contest", request.task}

NumbersAllow(request) ==
  \A scope \in Scopes(request) : CheckMaxNumber(request.kind, scope)

IntervalsAllow(request) ==
  \/ request.kind = "submission" /\ IsLastMinutes(request.timestamp)
  \/ \A scope \in Scopes(request) : CheckMinInterval(request.kind, scope, request.timestamp)

WithinLimits(request) ==
  /\ NumbersAllow(request)
  /\ ~(request.kind = "submission" /\ LastMinutesFails)
  /\ IntervalsAllow(request)

(* accept_token up to the new Token.  The mutant forgets the interval      *)
(* between two tokens.                                                     *)
PlayableAtOnce(available) == available.avail # 0
Playable(available) == available.avail # 0 /\ available.expiration = None

TokenAcceptable(request) ==
  /\ ~TokensFail(rows[request.submission].task, request.timestamp)
  /\ Playable(TokensAvailable(rows[request.submission].task, request.timestamp))
  /\ request.submission \notin DOMAIN tokens

CheckRow(r) ==
  /\ requests[r].stage = "arrived" /\ requests[r].kind \in Class
  /\ IF WithinLimits(requests[r]) THEN Proceed(r) ELSE Reject(r)

CheckToken(r) ==
  /\ requests[r].stage = "arrived" /\ requests[r].kind = "token"
  /\ IF TokenAcceptable(requests[r]) THEN Proceed(r) ELSE Reject(r)

(* Files or language are not valid, or the file cacher fails.              *)
StorageFails(r) ==
  /\ requests[r].stage = "checked" /\ requests[r].kind \in Class
  /\ Reject(r)

(* The files are stored and the row is committed.                          *)
CommitRow(r) ==
  /\ requests[r].stage = "checked" /\ requests[r].kind \in Class
  /\ rows' = Append(rows, [cls |-> requests[r].kind, task |-> requests[r].task,
                           timestamp |-> requests[r].timestamp,
                           official |-> requests[r].official])
  /\ requests' = [requests EXCEPT ![r] = Idle]
  /\ UNCHANGED <<now, setting, starting_time, tokens, overlapped>>

(* UseTokenHandler: the commit, which fails when the submission got a      *)
(* token in the meantime (tokens.submission_id is unique).                 *)
CommitToken(r) ==
  /\ requests[r].stage = "checked" /\ requests[r].kind = "token"
  /\ LET i == requests[r].submission IN
     tokens' = [j \in DOMAIN tokens \cup {i} |->
                  IF j \in DOMAIN tokens THEN tokens[j] ELSE requests[r].timestamp]
  /\ requests' = [requests EXCEPT ![r] = Idle]
  /\ UNCHANGED <<now, setting, starting_time, rows, overlapped>>

(* StartHandler.post.                                                      *)
CommitStart(r) ==
  /\ requests[r].stage = "arrived" /\ requests[r].kind = "start"
  /\ starting_time' = requests[r].timestamp
  /\ requests' = [requests EXCEPT ![r] = Idle]
  /\ UNCHANGED <<now, setting, rows, tokens, overlapped>>

Tick ==
  /\ now < setting.until
  /\ now' = now + 1
  /\ UNCHANGED <<setting, starting_time, rows, tokens, requests, overlapped>>

Next ==
  \/ Tick
  \/ \E r \in Request :
       \/ SendStart(r) \/ CommitStart(r)
       \/ \E cls \in Class, task \in Task : SendRow(r, cls, task)
       \/ \E i \in 1 .. Len(rows) : SendToken(r, i)
       \/ CheckRow(r) \/ StorageFails(r) \/ CommitRow(r)
       \/ CheckToken(r) \/ CommitToken(r)

Spec == Init /\ [][Next]_vars

-----------------------------------------------------------------------------
(* Types.                                                                  *)
TypeOK ==
  /\ now \in 0 .. Horizon /\ setting \in Scenarios /\ overlapped \in BOOLEAN
  /\ starting_time \in {None} \cup 0 .. now
  /\ \A i \in 1 .. Len(rows) :
       /\ rows[i].cls \in Class /\ rows[i].task \in Task
       /\ rows[i].timestamp \in Int /\ rows[i].timestamp <= now
       /\ rows[i].official \in BOOLEAN
  /\ \A i \in DOMAIN tokens : rows[i].cls = "submission" /\ tokens[i] \in 0 .. now
  /\ \A r \in Request : requests[r].stage \in {"idle", "arrived", "checked"}

(* However the requests of a contestant overlap, the submissions and tests *)
(* exceed a limit on their number by at most one per further request.      *)
NumbersHold ==
  \A cls \in Class, scope \in Task \cup {"contest"} :
    Limit(cls, scope).number = None \/ unrestricted \/
    Cardinality(Sent(cls, scope)) <=
      Limit(cls, scope).number + (IF overlapped THEN Cardinality(Request) - 1 ELSE 0)

(* A contestant whose requests never overlap waits min_submission_interval *)
(* (min_user_test_interval) between any two of them, on the contest and on *)
(* each task, except for submissions in the last minutes of the frame.     *)
IntervalsHold ==
  overlapped \/ unrestricted \/
  \A cls \in Class, scope \in Task \cup {"contest"} :
    \A i, j \in Sent(cls, scope) :
      \/ i >= j \/ Limit(cls, scope).interval = None
      \/ rows[j].timestamp - rows[i].timestamp >= Limit(cls, scope).interval
      \/ cls = "submission" /\ IsLastMinutes(rows[j].timestamp)

(* The limits on number and on frequency.                                  *)
LimitsHold == NumbersHold /\ IntervalsHold

(* The tokens in a bucket that is filled and emptied instant by instant,   *)
(* as the documentation tells it, and what it lets the contestant play in  *)
(* all; -1 when infinite.                                                  *)
PlayedAt(history, u) == Cardinality({n \in DOMAIN history : history[n] = u})

Filled(rules, start, u, avail) ==
  IF u > start /\ (u - start) % rules.gen_interval = 0
  THEN AtMost(avail + rules.gen_number, rules.gen_max) ELSE avail

Level(rules, start, history, timestamp) ==
  LET level[n \in 0 .. timestamp - start] ==
        (IF n = 0 THEN rules.gen_initial ELSE Filled(rules, start, start + n, level[n - 1]))
          - PlayedAt(history, start + n)
  IN level[timestamp - start]

Left(rules, start, history, timestamp) ==
  CASE rules.mode = "disabled" -> 0
    [] rules.mode = "infinite" -> -1
    [] rules.mode = "finite" ->
         IF rules.max_number = None THEN Level(rules, start, history, timestamp)
         ELSE Lesser(Level(rules, start, history, timestamp), rules.max_number - Len(history))

(* Only an unrestricted contestant can start again after playing tokens,   *)
(* which are then counted from the new start.                              *)
StartedAgain ==
  /\ unrestricted /\ contest.per_user_time # None /\ starting_time # None
  /\ \E i \in DOMAIN tokens : tokens[i] <= starting_time

(* Without overlapping requests nobody plays a token not yet generated,    *)
(* beyond the total, or too early after another one.                       *)
TokensAreEarned ==
  overlapped \/ StartedAgain \/
  \A scope \in Task \cup {"contest"} :
    LET rules == TokenRules(scope)  history == Played(now, scope) IN
    /\ rules.mode = "disabled" => history = <<>>
    /\ rules.mode = "finite" /\ history # <<>> =>
         /\ TokenStart # None /\ TokenStart <= history[1]
         /\ \A u \in TokenStart .. now : Level(rules, TokenStart, history, u) >= 0
         /\ rules.max_number = None \/ Len(history) <= rules.max_number
         /\ \A n \in 1 .. Len(history) - 1 : history[n + 1] - history[n] >= rules.min_interval

(* From when on no token played holds up another, and how many are left if *)
(* the contestant does nothing: the fewer, unless infinite.                *)
FreeAt(scope, u) ==
  TokenRules(scope).mode = "finite" =>
    \A n \in DOMAIN Played(now, scope) :
      u - Played(now, scope)[n] >= TokenRules(scope).min_interval

LeftAt(task, u) ==
  LET c == Left(TokenRules("contest"), TokenStart, Played(now, "contest"), u)
      t == Left(TokenRules(task), TokenStart, Played(now, task), u)
  IN IF c = -1 THEN t ELSE IF t = -1 THEN c ELSE Lesser(c, t)

(* The documentation of tokens_available: if the user does nothing, [1] is *)
(* the first time at which there are more tokens than [0] (None: never),   *)
(* and, unless there will be no token, [2] the first at which one may be   *)
(* played (None: already).                                                 *)
TokensAvailableIsRight ==
  overlapped \/ StartedAgain \/
  \A task \in Task :
    LET claimed == TokensAvailable(task, now)
        later == now + 1 .. 2 * Horizon
    IN \/ TokensFail(task, now)
       \/ /\ claimed.avail = LeftAt(task, now)
          /\ \A u \in later : LeftAt(task, u) > claimed.avail
                               <=> claimed.next # None /\ u >= claimed.next
          /\ ~(claimed.avail = 0 /\ claimed.next = None) =>
               \A u \in {now} \cup later : FreeAt("contest", u) /\ FreeAt(task, u)
                                             <=> claimed.expiration = None \/ u >= claimed.expiration

(* The boundaries shown to the user are those of the phase: it lasts from  *)
(* one to the other, and no longer.                                        *)
PhaseBoundaries ==
  LET shown == ActualPhase(contest, user, now)
      lasts(u) == ActualPhase(contest, user, u).phase = shown.phase
  IN \A u \in 0 .. 2 * Horizon :
       /\ (shown.begin = None \/ shown.begin < u) /\ (shown.end = None \/ u < shown.end) => lasts(u)
       /\ (shown.begin # None /\ u < shown.begin) \/ (shown.end # None /\ u > shown.end) => ~lasts(u)

(* A contestant is never taken back to an earlier phase, starting again    *)
(* during a delay included, unless requests overlapped or the start        *)
(* committed later than its instant.                                       *)
PhaseOnlyAdvances ==
  [][overlapped' \/ unrestricted \/ starting_time' \notin {starting_time, now}
     \/ PhaseAt(now) <= ActualPhase(contest, user', now').phase]_vars
=============================================================================
