------------------------- MODULE MCContestWebServer ------------------------
(* Small instances of ContestWebServer.                                    *)
EXTENDS ContestWebServer

CONSTANTS t1, t2

Free == [number |-> None, interval |-> None]
NoLimits == [submission |-> [contest |-> Free, task |-> Free],
             user_test |-> [contest |-> Free, task |-> Free]]

NoTokens == [mode |-> "disabled"]
Infinite == [mode |-> "infinite"]
Finite(initial, number, interval, max, total, wait) ==
  [mode |-> "finite", gen_initial |-> initial, gen_number |-> number,
   gen_interval |-> interval, gen_max |-> max, max_number |-> total, min_interval |-> wait]

Traditional == [start |-> 0, stop |-> 5, per_user_time |-> None, analysis |-> None,
                unofficial |-> FALSE, grace |-> None]
Plain == [delay_time |-> 0, extra_time |-> 0, unrestricted |-> FALSE]
Sheet(task) == [cls |-> "submission", task |-> task, timestamp |-> 0, official |-> TRUE]

(* An own time frame of 2 within a contest that lasts 3, with a delay and  *)
(* extra time that may reach into the analysis mode.                       *)
OwnFrame ==
  [contest |-> [start |-> 1, stop |-> 4, per_user_time |-> 2, analysis |-> <<5, 8>>,
                unofficial |-> TRUE, grace |-> 1],
   user |-> [delay_time |-> 2, extra_time |-> 1, unrestricted |-> FALSE],
   limits |-> NoLimits, rows |-> <<>>, more |-> 1, until |-> 7,
   kinds |-> {"start", "submission", "token"},
   tokens |-> [contest |-> Finite(1, 1, 2, 1, 1, 0), task |-> Infinite]]

Unrestricted ==
  [OwnFrame EXCEPT !.user = [delay_time |-> 0, extra_time |-> 0, unrestricted |-> TRUE],
                   !.contest.unofficial = FALSE, !.until = 5,
                   !.limits.submission.task = [number |-> 1, interval |-> 1]]

(* Limits on number and interval, of the contest and of the tasks.         *)
Limited(cls, of_contest, of_task) ==
  [contest |-> [Traditional EXCEPT !.stop = 3, !.grace = 1], user |-> Plain,
   limits |-> [NoLimits EXCEPT ![cls] = [contest |-> of_contest, task |-> of_task]],
   rows |-> <<>>, more |-> 3, until |-> 4, kinds |-> {cls},
   tokens |-> [contest |-> NoTokens, task |-> NoTokens]]

LimitScenarios ==
  {Limited("submission", [number |-> None, interval |-> 1], [number |-> 1, interval |-> 2]),
   Limited("user_test", [number |-> 2, interval |-> 1], [number |-> 2, interval |-> 2])}

(* Three submissions on which tokens may be played, under several rules.   *)
Tokened(contest_rules, task_rules) ==
  [contest |-> Traditional, user |-> Plain, limits |-> NoLimits, more |-> 0,
   until |-> 6, kinds |-> {"token"},
   rows |-> <<Sheet(t1), Sheet(t1), Sheet(t2)>>,
   tokens |-> [contest |-> contest_rules, task |-> task_rules]]

TokenScenarios ==
  {Tokened(Finite(2, 1, 2, 2, None, 1), Finite(0, 1, 3, None, 2, 0)),
   Tokened(Finite(1, 2, 2, 2, 3, 2), Infinite),
   Tokened(Infinite, Finite(1, 1, 1, 1, None, 2)),
   Tokened(Finite(0, 1, 2, 2, 2, 0), Finite(0, 2, 3, 2, 2, 1))}

Everything == {OwnFrame, Unrestricted} \cup LimitScenarios \cup TokenScenarios
Symmetry == Permutations(Request)
=============================================================================
