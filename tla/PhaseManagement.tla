--------------------------- MODULE PhaseManagement -------------------------
(* cms/server/contest/phase_management.py: the phase of a contest for one  *)
(* participation, and its boundaries.  Times are integers.                 *)
EXTENDS Tokening

(* The frame in which the user may compete: "Traditional" and "USACO-like" *)
(* contests, then delay and extra time.                                    *)
ActualFrame(contest, user) ==
  LET within(time) == Lesser(Greater(time, contest.start), contest.stop)
      intended ==
        IF contest.per_user_time = None
        THEN <<contest.start, contest.stop>>
        ELSE <<within(user.starting_time), within(user.starting_time + contest.per_user_time)>>
  IN [start |-> intended[1] + user.delay_time,
      stop |-> intended[2] + user.delay_time + user.extra_time]

NotStarted(contest, user) == contest.per_user_time # None /\ user.starting_time = None

Phase(phase, begin, end) == [phase |-> phase, begin |-> begin, end |-> end]

(* compute_actual_phase before it looks at the analysis mode.              *)
WithoutAnalysis(contest, user, now) ==
  IF NotStarted(contest, user)
  THEN CASE now < contest.start -> Phase(-2, None, contest.start)
         [] contest.start <= now /\ now <= contest.stop -> Phase(-1, contest.start, contest.stop)
         [] contest.stop < now -> Phase(2, contest.stop, None)
  ELSE LET frame == ActualFrame(contest, user) IN
       CASE frame.start <= now /\ now <= frame.stop -> Phase(0, frame.start, frame.stop)
         [] contest.start <= now /\ now < frame.start -> Phase(-1, contest.start, frame.start)
         [] now < contest.start -> Phase(-2, None, contest.start)
         [] frame.stop < now /\ now <= contest.stop -> Phase(1, frame.stop, contest.stop)
         [] contest.stop < now /\ frame.stop < now ->
              Phase(2, Greater(contest.stop, frame.stop), None)

(* compute_actual_phase.  The mutant forgets that extra time may reach into*)
(* the analysis mode.                                                      *)
ActualPhaseIgnoringExtra(contest, user, now) ==
  LET basic == WithoutAnalysis(contest, user, now) IN
  IF basic.phase # 2 THEN basic
  ELSE IF contest.analysis = None THEN [basic EXCEPT !.phase = 4]
  ELSE CASE now < contest.analysis[1] -> [basic EXCEPT !.end = contest.analysis[1]]
         [] contest.analysis[1] <= now /\ now <= contest.analysis[2] ->
              Phase(3, contest.analysis[1], contest.analysis[2])
         [] contest.analysis[2] < now -> Phase(4, contest.analysis[2], None)

ActualPhase(contest, user, now) ==
  LET basic == WithoutAnalysis(contest, user, now)
      since(time) == IF NotStarted(contest, user) THEN time
                     ELSE Greater(time, ActualFrame(contest, user).stop)
  IN IF basic.phase # 2 THEN basic
     ELSE IF contest.analysis = None THEN [basic EXCEPT !.phase = 4]
     ELSE CASE now < contest.analysis[1] -> [basic EXCEPT !.end = contest.analysis[1]]
            [] contest.analysis[1] <= now /\ now <= contest.analysis[2] ->
                 Phase(3, since(contest.analysis[1]), contest.analysis[2])
            [] contest.analysis[2] < now -> Phase(4, since(contest.analysis[2]), None)
=============================================================================
