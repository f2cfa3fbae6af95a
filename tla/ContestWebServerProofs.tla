----------------------- MODULE ContestWebServerProofs ----------------------
(***************************************************************************)
(* The limits and the phases of a contestant, for every contest, every     *)
(* frame, delay and extra time, and any number of overlapping requests;    *)
(* then the tokens, for all rules of contest and tasks: the closed form of *)
(* the code against the bucket, the order of the tokens, the merge of two  *)
(* scopes, and the invariant on tokens.                                    *)
(***************************************************************************)
EXTENDS ContestWebServer, FiniteSetTheorems, FunctionTheorems, NaturalsInduction, TLAPS

-----------------------------------------------------------------------------
(* Lemmas on the phases.                                                   *)

(* The assertions of compute_actual_phase on its arguments.                *)
Sound(c, u) ==
  /\ Constrained(c)
  /\ u.delay_time \in Nat /\ u.extra_time \in Nat /\ u.starting_time \in {None} \cup Int

(* The phases around a frame from f0 to f1; e1 is what is shown as the end *)
(* of the waiting before it.                                               *)
BasicIn(c, f0, f1, e1, t) ==
  IF t < c.start THEN Phase(-2, None, c.start)
  ELSE IF t < f0 THEN Phase(-1, c.start, e1)
  ELSE IF t <= f1 THEN Phase(0, f0, f1)
  ELSE IF t <= c.stop THEN Phase(1, f1, c.stop)
  ELSE Phase(2, Greater(c.stop, f1), None)

PhaseIn(c, f0, f1, e1, t) ==
  IF t < c.start THEN Phase(-2, None, c.start)
  ELSE IF t < f0 THEN Phase(-1, c.start, e1)
  ELSE IF t <= f1 THEN Phase(0, f0, f1)
  ELSE IF t <= c.stop THEN Phase(1, f1, c.stop)
  ELSE IF c.analysis = None THEN Phase(4, Greater(c.stop, f1), None)
  ELSE IF t < c.analysis[1] THEN Phase(2, Greater(c.stop, f1), c.analysis[1])
  ELSE IF t <= c.analysis[2] THEN Phase(3, Greater(c.analysis[1], f1), c.analysis[2])
  ELSE Phase(4, Greater(c.analysis[2], f1), None)

Around(c, u, f0, f1, e1) ==
  /\ c.start <= f0 /\ f0 <= f1 + 1 /\ e1 \in {f0 - 1, f0}
  /\ \A t \in Int : ActualPhase(c, u, t) = PhaseIn(c, f0, f1, e1, t)

LEMMA NoneIsNoTime == None \notin Int
  BY ContestWebServerAssumption

LEMMA FrameFacts ==
  ASSUME NEW c, NEW u, Sound(c, u), ~NotStarted(c, u)
  PROVE  /\ ActualFrame(c, u).start \in Int /\ ActualFrame(c, u).stop \in Int
         /\ c.start <= ActualFrame(c, u).start
         /\ ActualFrame(c, u).start <= ActualFrame(c, u).stop
  <1>1. CASE c.per_user_time = None
    <2>1. ActualFrame(c, u) = [start |-> c.start + u.delay_time,
                               stop |-> c.stop + u.delay_time + u.extra_time]
      BY <1>1 DEF ActualFrame
    <2>2. QED BY <2>1 DEF Sound, Constrained
  <1>2. CASE c.per_user_time # None
    <2> DEFINE within(time) == Lesser(Greater(time, c.start), c.stop)
               s == u.starting_time
               p == c.per_user_time
    <2>1. ActualFrame(c, u) = [start |-> within(s) + u.delay_time,
                               stop |-> within(s + p) + u.delay_time + u.extra_time]
      BY <1>2 DEF ActualFrame
    <2>2. s \in Int /\ p \in Nat
      BY <1>2 DEF Sound, Constrained, NotStarted
    <2>3. /\ within(s) \in Int /\ within(s + p) \in Int
          /\ c.start <= within(s) /\ within(s) <= within(s + p)
      BY <2>2 DEF Sound, Constrained, Lesser, Greater
    <2> HIDE DEF within
    <2>4. QED BY <2>1, <2>3 DEF Sound, Constrained
  <1>3. QED BY <1>1, <1>2

(* compute_actual_phase before it looks at the analysis mode.              *)
LEMMA BasicPhases ==
  ASSUME NEW c, NEW u, Sound(c, u)
  PROVE  \E f0, f1, e1 \in Int :
           /\ c.start <= f0 /\ f0 <= f1 + 1 /\ e1 \in {f0 - 1, f0}
           /\ NotStarted(c, u) => f1 = c.stop
           /\ ~NotStarted(c, u) => f1 = ActualFrame(c, u).stop
           /\ \A t \in Int : WithoutAnalysis(c, u, t) = BasicIn(c, f0, f1, e1, t)
  <1>1. CASE NotStarted(c, u)
    <2> DEFINE f == c.stop + 1
    <2>1. c.start \in Int /\ c.stop \in Int /\ f \in Int /\ c.start <= c.stop
      BY DEF Sound, Constrained
    <2>2. ASSUME NEW t \in Int
          PROVE  WithoutAnalysis(c, u, t) = BasicIn(c, f, c.stop, c.stop, t)
      <3>1. WithoutAnalysis(c, u, t) =
              CASE t < c.start -> Phase(-2, None, c.start)
                [] c.start <= t /\ t <= c.stop -> Phase(-1, c.start, c.stop)
                [] c.stop < t -> Phase(2, c.stop, None)
        BY Zenon, <1>1 DEF WithoutAnalysis
      <3>2. CASE t < c.start
        <4>1. ~(c.start <= t /\ t <= c.stop) /\ ~(c.stop < t)
          BY <2>1, <3>2
        <4>2. WithoutAnalysis(c, u, t) = Phase(-2, None, c.start)
          BY Zenon, <3>1, <3>2, <4>1
        <4>3. QED BY <3>2, <4>2 DEF BasicIn
      <3>3. CASE c.start <= t /\ t <= c.stop
        <4>1. ~(t < c.start) /\ ~(c.stop < t) /\ t < f
          BY <2>1, <3>3
        <4>2. WithoutAnalysis(c, u, t) = Phase(-1, c.start, c.stop)
          BY Zenon, <3>1, <3>3, <4>1
        <4>3. QED BY <4>1, <4>2 DEF BasicIn
      <3>4. CASE c.stop < t
        <4>1. /\ ~(t < c.start) /\ ~(c.start <= t /\ t <= c.stop) /\ ~(t < f)
              /\ ~(t <= c.stop) /\ Greater(c.stop, c.stop) = c.stop
          BY <2>1, <3>4 DEF Greater
        <4>2. WithoutAnalysis(c, u, t) = Phase(2, c.stop, None)
          BY Zenon, <3>1, <3>4, <4>1
        <4>3. QED BY <4>1, <4>2 DEF BasicIn
      <3>5. QED BY <2>1, <3>2, <3>3, <3>4
    <2>3. c.start <= f /\ f <= c.stop + 1 /\ c.stop \in {f - 1, f}
      BY <2>1
    <2>4. QED BY <1>1, <2>1, <2>2, <2>3
  <1>2. CASE ~NotStarted(c, u)
    <2> DEFINE f0 == ActualFrame(c, u).start
               f1 == ActualFrame(c, u).stop
    <2>1. /\ c.start \in Int /\ c.stop \in Int /\ c.start <= c.stop
          /\ f0 \in Int /\ f1 \in Int /\ c.start <= f0 /\ f0 <= f1
      BY <1>2, FrameFacts DEF Sound, Constrained
    <2>2. ASSUME NEW t \in Int
          PROVE  WithoutAnalysis(c, u, t) = BasicIn(c, f0, f1, f0, t)
      <3> DEFINE over == Phase(2, Greater(c.stop, f1), None)
      <3>1. WithoutAnalysis(c, u, t) =
              CASE f0 <= t /\ t <= f1 -> Phase(0, f0, f1)
                [] c.start <= t /\ t < f0 -> Phase(-1, c.start, f0)
                [] t < c.start -> Phase(-2, None, c.start)
                [] f1 < t /\ t <= c.stop -> Phase(1, f1, c.stop)
                [] c.stop < t /\ f1 < t -> over
        BY Zenon, <1>2 DEF WithoutAnalysis
      <3> HIDE DEF f0, f1, over
      <3>2. CASE t < c.start
        <4>1. /\ ~(f0 <= t /\ t <= f1) /\ ~(c.start <= t /\ t < f0) /\ ~(f1 < t /\ t <= c.stop)
              /\ ~(c.stop < t /\ f1 < t)
          BY <2>1, <3>2
        <4>2. WithoutAnalysis(c, u, t) = Phase(-2, None, c.start)
          BY Zenon, <3>1, <3>2, <4>1
        <4>3. QED BY <3>2, <4>2 DEF BasicIn
      <3>3. CASE c.start <= t /\ t < f0
        <4>1. /\ ~(f0 <= t /\ t <= f1) /\ ~(t < c.start) /\ ~(f1 < t /\ t <= c.stop)
              /\ ~(c.stop < t /\ f1 < t)
          BY <2>1, <3>3
        <4>2. WithoutAnalysis(c, u, t) = Phase(-1, c.start, f0)
          BY Zenon, <3>1, <3>3, <4>1
        <4>3. QED BY <3>3, <4>1, <4>2 DEF BasicIn
      <3>4. CASE f0 <= t /\ t <= f1
        <4>1. /\ ~(c.start <= t /\ t < f0) /\ ~(t < c.start) /\ ~(f1 < t /\ t <= c.stop)
              /\ ~(c.stop < t /\ f1 < t) /\ ~(t < f0)
          BY <2>1, <3>4
        <4>2. WithoutAnalysis(c, u, t) = Phase(0, f0, f1)
          BY Zenon, <3>1, <3>4, <4>1
        <4>3. QED BY <3>4, <4>1, <4>2 DEF BasicIn
      <3>5. CASE f1 < t /\ t <= c.stop
        <4>1. /\ ~(c.start <= t /\ t < f0) /\ ~(t < c.start) /\ ~(f0 <= t /\ t <= f1)
              /\ ~(c.stop < t /\ f1 < t) /\ ~(t < f0) /\ ~(t <= f1)
          BY <2>1, <3>5
        <4>2. WithoutAnalysis(c, u, t) = Phase(1, f1, c.stop)
          BY Zenon, <3>1, <3>5, <4>1
        <4>3. QED BY <3>5, <4>1, <4>2 DEF BasicIn
      <3>6. CASE c.stop < t /\ f1 < t
        <4>1. /\ ~(c.start <= t /\ t < f0) /\ ~(t < c.start) /\ ~(f0 <= t /\ t <= f1)
              /\ ~(f1 < t /\ t <= c.stop) /\ ~(t < f0) /\ ~(t <= f1) /\ ~(t <= c.stop)
          BY <2>1, <3>6
        <4>2. WithoutAnalysis(c, u, t) = over
          BY Zenon, <3>1, <3>6, <4>1
        <4>3. QED BY <4>1, <4>2 DEF BasicIn, over
      <3>7. QED BY <2>1, <3>2, <3>3, <3>4, <3>5, <3>6
    <2>3. f0 <= f1 + 1 /\ f0 \in {f0 - 1, f0}
      BY <2>1
    <2> HIDE DEF f0
    <2>4. QED BY <1>2, <2>1, <2>2, <2>3
  <1>3. QED BY <1>1, <1>2

(* compute_actual_phase cuts time into the phases around a frame.          *)
LEMMA Phases ==
  ASSUME NEW c, NEW u, Sound(c, u)
  PROVE  \E f0, f1, e1 \in Int : Around(c, u, f0, f1, e1)
  <1>1. PICK f0, f1, e1 \in Int :
          /\ c.start <= f0 /\ f0 <= f1 + 1 /\ e1 \in {f0 - 1, f0}
          /\ NotStarted(c, u) => f1 = c.stop
          /\ ~NotStarted(c, u) => f1 = ActualFrame(c, u).stop
          /\ \A t \in Int : WithoutAnalysis(c, u, t) = BasicIn(c, f0, f1, e1, t)
    BY BasicPhases
  <1>2. ASSUME NEW t \in Int PROVE ActualPhase(c, u, t) = PhaseIn(c, f0, f1, e1, t)
    <2> DEFINE basic == WithoutAnalysis(c, u, t)
               since(time) == IF NotStarted(c, u) THEN time
                              ELSE Greater(time, ActualFrame(c, u).stop)
               a1 == c.analysis[1]
               a2 == c.analysis[2]
    <2>1. basic = BasicIn(c, f0, f1, e1, t)
      BY <1>1
    <2>2. ActualPhase(c, u, t) =
            IF basic.phase # 2 THEN basic
            ELSE IF c.analysis = None THEN [basic EXCEPT !.phase = 4]
            ELSE CASE t < a1 -> [basic EXCEPT !.end = a1]
                   [] a1 <= t /\ t <= a2 -> Phase(3, since(a1), a2)
                   [] a2 < t -> Phase(4, since(a2), None)
      BY Zenon DEF ActualPhase
    <2>3. /\ c.start \in Int /\ c.stop \in Int /\ c.start <= c.stop
      BY DEF Sound, Constrained
    <2> HIDE DEF basic
    <2>4. CASE t < c.start \/ t < f0 \/ t <= f1 \/ t <= c.stop
      <3>1. basic = PhaseIn(c, f0, f1, e1, t) /\ basic.phase # 2
        BY <2>1, <2>4 DEF BasicIn, PhaseIn, Phase
      <3>2. QED BY Zenon, <2>2, <3>1
    <2>5. CASE ~(t < c.start \/ t < f0 \/ t <= f1 \/ t <= c.stop)
      <3>1. basic = Phase(2, Greater(c.stop, f1), None) /\ basic.phase = 2
        BY <2>1, <2>5 DEF BasicIn, Phase
      <3>2. CASE c.analysis = None
        <4>1. ActualPhase(c, u, t) = [basic EXCEPT !.phase = 4]
          BY Zenon, <2>2, <3>1, <3>2
        <4>2. ActualPhase(c, u, t) = Phase(4, Greater(c.stop, f1), None)
          BY <3>1, <4>1 DEF Phase
        <4>3. QED BY <2>5, <3>2, <4>2 DEF PhaseIn
      <3>3. CASE c.analysis # None
        <4>1. a1 \in Int /\ a2 \in Int /\ c.stop <= a1 /\ a1 <= a2
          BY <3>3 DEF Sound, Constrained
        <4>2. since(a1) = Greater(a1, f1) /\ since(a2) = Greater(a2, f1)
          BY <1>1, <2>3, <4>1 DEF Greater
        <4> HIDE DEF a1, a2, since
        <4>3. ActualPhase(c, u, t) =
                CASE t < a1 -> [basic EXCEPT !.end = a1]
                  [] a1 <= t /\ t <= a2 -> Phase(3, since(a1), a2)
                  [] a2 < t -> Phase(4, since(a2), None)
          BY Zenon, <2>2, <3>1, <3>3
        <4>4. CASE t < a1
          <5>1. ~(a1 <= t /\ t <= a2) /\ ~(a2 < t)
            BY <4>1, <4>4
          <5>2. ActualPhase(c, u, t) = [basic EXCEPT !.end = a1]
            BY Zenon, <4>3, <4>4, <5>1
          <5>3. ActualPhase(c, u, t) = Phase(2, Greater(c.stop, f1), a1)
            BY <3>1, <5>2 DEF Phase
          <5>4. QED BY <2>5, <3>3, <4>4, <5>3 DEF PhaseIn, a1
        <4>5. CASE a1 <= t /\ t <= a2
          <5>1. ~(t < a1) /\ ~(a2 < t)
            BY <4>1, <4>5
          <5>2. ActualPhase(c, u, t) = Phase(3, since(a1), a2)
            BY Zenon, <4>3, <4>5, <5>1
          <5>3. QED BY <2>5, <3>3, <4>2, <4>5, <5>1, <5>2 DEF PhaseIn, a1, a2
        <4>6. CASE a2 < t
          <5>1. ~(t < a1) /\ ~(a1 <= t /\ t <= a2) /\ ~(t <= a2)
            BY <4>1, <4>6
          <5>2. ActualPhase(c, u, t) = Phase(4, since(a2), None)
            BY Zenon, <4>3, <4>6, <5>1
          <5>3. QED BY <2>5, <3>3, <4>2, <5>1, <5>2 DEF PhaseIn, a1, a2
        <4>7. QED BY <4>1, <4>4, <4>5, <4>6
      <3>4. QED BY <3>2, <3>3
    <2>6. QED BY <2>4, <2>5
  <1>3. QED BY <1>1, <1>2 DEF Around

(* A phase only gives way to a later one.                                  *)
LEMMA PhasesInTime ==
  ASSUME NEW c, NEW u, Sound(c, u), NEW t \in Int, NEW v \in Int, t <= v
  PROVE  /\ ActualPhase(c, u, t).phase \in -2 .. 4
         /\ ActualPhase(c, u, t).phase <= ActualPhase(c, u, v).phase
  <1>1. PICK f0, f1, e1 \in Int : Around(c, u, f0, f1, e1)
    BY Phases
  <1>2. /\ ActualPhase(c, u, t) = PhaseIn(c, f0, f1, e1, t)
        /\ ActualPhase(c, u, v) = PhaseIn(c, f0, f1, e1, v)
    BY <1>1 DEF Around
  <1>3. /\ PhaseIn(c, f0, f1, e1, t).phase \in -2 .. 4
        /\ PhaseIn(c, f0, f1, e1, t).phase <= PhaseIn(c, f0, f1, e1, v).phase
    BY DEF PhaseIn, Phase, Sound, Constrained
  <1>4. QED BY <1>2, <1>3

(* Starting when one may does not take a contestant back.                  *)
LEMMA StartingAdvances ==
  ASSUME NEW c, NEW u, NEW w, Sound(c, u), Sound(c, w), NEW t \in Int,
         ActualPhase(c, u, t).phase = -1
  PROVE  ActualPhase(c, u, t).phase <= ActualPhase(c, w, t).phase
  <1>1. PICK f0, f1, e1 \in Int : Around(c, u, f0, f1, e1)
    BY Phases
  <1>2. PICK g0, g1, h1 \in Int : Around(c, w, g0, g1, h1)
    BY Phases
  <1>3. /\ ActualPhase(c, u, t) = PhaseIn(c, f0, f1, e1, t)
        /\ ActualPhase(c, w, t) = PhaseIn(c, g0, g1, h1, t)
    BY <1>1, <1>2 DEF Around
  <1>4. ~(t < c.start)
    BY <1>3 DEF PhaseIn, Phase
  <1>5. PhaseIn(c, g0, g1, h1, t).phase >= -1
    BY <1>4 DEF PhaseIn, Phase
  <1>6. QED BY <1>3, <1>5

(* What is shown are the boundaries of the phase.                          *)
LEMMA BoundariesAreRight ==
  ASSUME NEW c, NEW u, Sound(c, u), NEW t \in Int, NEW v \in Int
  PROVE  LET shown == ActualPhase(c, u, t)
             lasts == ActualPhase(c, u, v).phase = shown.phase
         IN /\ (shown.begin = None \/ shown.begin < v) /\ (shown.end = None \/ v < shown.end)
                 => lasts
            /\ (shown.begin # None /\ v < shown.begin) \/ (shown.end # None /\ v > shown.end)
                 => ~lasts
  <1>1. PICK f0, f1, e1 \in Int : Around(c, u, f0, f1, e1)
    BY Phases
  <1>2. /\ ActualPhase(c, u, t) = PhaseIn(c, f0, f1, e1, t)
        /\ ActualPhase(c, u, v) = PhaseIn(c, f0, f1, e1, v)
        /\ c.start <= f0 /\ f0 <= f1 + 1 /\ (e1 = f0 - 1 \/ e1 = f0)
    BY <1>1 DEF Around
  <1> DEFINE p == PhaseIn(c, f0, f1, e1, t)
             q == PhaseIn(c, f0, f1, e1, v)
             a1 == c.analysis[1]
             a2 == c.analysis[2]
  <1>3. c.start \in Int /\ c.stop \in Int /\ c.start <= c.stop
    BY DEF Sound, Constrained
  <1>4. CASE t < c.start
    <2>1. p = Phase(-2, None, c.start)
      BY <1>4 DEF PhaseIn
    <2>2. QED BY <1>2, <1>3, <1>4, <2>1, NoneIsNoTime DEF PhaseIn, Phase
  <1>5. CASE ~(t < c.start) /\ t < f0
    <2>1. p = Phase(-1, c.start, e1)
      BY <1>5 DEF PhaseIn
    <2>2. QED BY <1>2, <1>3, <1>5, <2>1, NoneIsNoTime DEF PhaseIn, Phase
  <1>6. CASE ~(t < c.start) /\ ~(t < f0) /\ t <= f1
    <2>1. p = Phase(0, f0, f1)
      BY <1>6 DEF PhaseIn
    <2>2. QED BY <1>2, <1>3, <1>6, <2>1, NoneIsNoTime DEF PhaseIn, Phase
  <1> DEFINE Past == ~(t < c.start) /\ ~(t < f0) /\ ~(t <= f1)
  <1>7. CASE Past /\ t <= c.stop
    <2>1. p = Phase(1, f1, c.stop)
      BY <1>7 DEF PhaseIn
    <2>2. QED BY <1>2, <1>3, <1>7, <2>1, NoneIsNoTime DEF PhaseIn, Phase
  <1>8. CASE Past /\ ~(t <= c.stop) /\ c.analysis = None
    <2>1. p = Phase(4, Greater(c.stop, f1), None)
      BY <1>8 DEF PhaseIn
    <2>2. QED BY <1>2, <1>3, <1>8, <2>1, NoneIsNoTime DEF PhaseIn, Phase, Greater
  <1>9. CASE Past /\ ~(t <= c.stop) /\ c.analysis # None
    <2>1. a1 \in Int /\ a2 \in Int /\ c.stop <= a1 /\ a1 <= a2
      BY <1>9 DEF Sound, Constrained
    <2> HIDE DEF a1, a2
    <2>2. \A u0 \in Int : PhaseIn(c, f0, f1, e1, u0) =
            IF u0 < c.start THEN Phase(-2, None, c.start)
            ELSE IF u0 < f0 THEN Phase(-1, c.start, e1)
            ELSE IF u0 <= f1 THEN Phase(0, f0, f1)
            ELSE IF u0 <= c.stop THEN Phase(1, f1, c.stop)
            ELSE IF u0 < a1 THEN Phase(2, Greater(c.stop, f1), a1)
            ELSE IF u0 <= a2 THEN Phase(3, Greater(a1, f1), a2)
            ELSE Phase(4, Greater(a2, f1), None)
      BY <1>9 DEF PhaseIn, a1, a2
    <2>3. CASE t < a1
      <3>1. p = Phase(2, Greater(c.stop, f1), a1)
        BY <1>9, <2>2, <2>3
      <3>2. QED BY <1>2, <1>3, <1>9, <2>1, <2>2, <2>3, <3>1, NoneIsNoTime DEF Phase, Greater
    <2>4. CASE ~(t < a1) /\ t <= a2
      <3>1. p = Phase(3, Greater(a1, f1), a2)
        BY <1>9, <2>2, <2>4
      <3>2. QED BY <1>2, <1>3, <1>9, <2>1, <2>2, <2>4, <3>1, NoneIsNoTime DEF Phase, Greater
    <2>5. CASE ~(t < a1) /\ ~(t <= a2)
      <3>1. p = Phase(4, Greater(a2, f1), None)
        BY <1>9, <2>2, <2>5
      <3>2. QED BY <1>2, <1>3, <1>9, <2>1, <2>2, <2>5, <3>1, NoneIsNoTime DEF Phase, Greater
    <2>6. QED BY <2>3, <2>4, <2>5
  <1>10. QED BY <1>4, <1>5, <1>6, <1>7, <1>8, <1>9

-----------------------------------------------------------------------------
(* The inductive invariant.                                                *)

RowRequest == [stage : {"arrived", "checked"}, kind : Class, task : Task, timestamp : Int,
               official : BOOLEAN]
TokenRequest == [stage : {"arrived", "checked"}, kind : {"token"}, submission : Nat,
                 timestamp : Int]
StartRequest == [stage : {"arrived"}, kind : {"start"}, timestamp : Int]
AnyRequest == RowRequest \cup TokenRequest \cup StartRequest

(* A request was stamped by now, and a token is for a submission.          *)
Possible(request) ==
  /\ request \in AnyRequest /\ request.timestamp \in 0 .. now
  /\ request.kind = "token" => /\ request.submission \in 1 .. Len(rows)
                               /\ rows[request.submission].cls = "submission"

TokensTyped ==
  /\ DOMAIN tokens \subseteq 1 .. Len(rows)
  /\ \A i \in DOMAIN tokens : rows[i].cls = "submission" /\ tokens[i] \in 0 .. now

Typed ==
  /\ now \in 0 .. Horizon /\ setting \in Scenarios /\ overlapped \in BOOLEAN
  /\ starting_time \in {None} \cup 0 .. now
  /\ rows \in Seq(RowType) /\ \A i \in 1 .. Len(rows) : rows[i].timestamp <= now
  /\ TokensTyped
  /\ requests \in [Request -> {Idle} \cup AnyRequest]
  /\ \A r \in Request : Underway(r) => Possible(requests[r])

(* Unless they overlapped, there is one request at a time.                 *)
Alone ==
  overlapped \/ \A r, other \in Request : Underway(r) /\ Underway(other) => r = other

(* What was there at instant 0 stays there, before all others.             *)
Kept ==
  /\ Len(setting.rows) <= Len(rows)
  /\ \A i \in 1 .. Len(setting.rows) : rows[i] = setting.rows[i]

(* Requests that passed the check and are to be committed.                 *)
Pending(cls, scope) ==
  {r \in Request : /\ requests[r].stage = "checked" /\ requests[r].kind = cls
                   /\ scope = "contest" \/ requests[r].task = scope}

(* A limit on a number counts them, too; each other request under way may  *)
(* have been checked against what was there before.                        *)
NumbersInv ==
  \A cls \in Class, scope \in Task \cup {"contest"} :
    Limit(cls, scope).number = None \/ unrestricted \/
    Cardinality(Sent(cls, scope)) + Cardinality(Pending(cls, scope)) <=
      Limit(cls, scope).number + (IF overlapped THEN Cardinality(Request) - 1 ELSE 0)

(* What was checked alone is still right when it is committed.             *)
ChecksStand ==
  overlapped \/ unrestricted \/
  \A r \in Request :
    requests[r].stage = "checked" /\ requests[r].kind \in Class => IntervalsAllow(requests[r])

(* Who has sent something cannot start any more, so that the frame that    *)
(* excused a submission in its last minutes stays.                         *)
Began ==
  \/ Len(rows) > Len(setting.rows)
  \/ \E r \in Request : Underway(r) /\ requests[r].kind \in Class

BegunStay ==
  overlapped \/ unrestricted \/ ~Began \/
  /\ PhaseAt(now) >= 0
  /\ \A r \in Request : Underway(r) => requests[r].kind # "start"

(* A start under way was allowed when it arrived.                          *)
StartsEarly ==
  overlapped \/ unrestricted \/
  \A r \in Request :
    Underway(r) /\ requests[r].kind = "start" => PhaseAt(requests[r].timestamp) = -1

ContestInv ==
  /\ Typed /\ Alone /\ Kept /\ NumbersInv /\ IntervalsHold /\ ChecksStand
  /\ BegunStay /\ StartsEarly

-----------------------------------------------------------------------------
(* Lemmas on rows and requests.                                            *)

LEMMA ScenarioFacts ==
  ASSUME NEW s \in Scenarios
  PROVE  /\ s.until \in 0 .. Horizon /\ Constrained(s.contest)
         /\ s.user.delay_time \in Nat /\ s.user.extra_time \in Nat
         /\ s.rows \in Seq(RowType) /\ \A i \in 1 .. Len(s.rows) : s.rows[i].timestamp <= 0
         /\ \A cls \in Class, scope \in Task \cup {"contest"} :
              Keeps(LimitIn(s.limits, cls, scope), s.rows, InScope(s.rows, cls, scope))
  BY ContestWebServerAssumption

LEMMA SoundFacts ==
  ASSUME setting \in Scenarios, starting_time \in {None} \cup 0 .. now, now \in 0 .. Horizon
  PROVE  Sound(contest, user)
  <1>1. Horizon \in Nat
    BY ContestWebServerAssumption
  <1>2. starting_time \in {None} \cup Int
    BY <1>1
  <1>3. /\ Constrained(setting.contest)
        /\ setting.user.delay_time \in Nat /\ setting.user.extra_time \in Nat
    BY ScenarioFacts
  <1>4. QED BY <1>2, <1>3 DEF Sound, contest, user

LEMMA InScopeIsFinite ==
  ASSUME NEW list \in Seq(RowType), NEW cls, NEW scope
  PROVE  /\ IsFiniteSet(InScope(list, cls, scope))
         /\ Cardinality(InScope(list, cls, scope)) \in Nat
  <1>1. InScope(list, cls, scope) \subseteq 1 .. Len(list)
    BY DEF InScope
  <1>2. IsFiniteSet(1 .. Len(list))
    BY FS_Interval
  <1>3. QED BY <1>1, <1>2, FS_Subset, FS_CardinalityType

LEMMA InScopeAfter ==
  ASSUME NEW list \in Seq(RowType), NEW row \in RowType, NEW cls, NEW scope
  PROVE  InScope(Append(list, row), cls, scope) =
           InScope(list, cls, scope)
             \cup (IF row.cls = cls /\ (scope = "contest" \/ row.task = scope)
                   THEN {Len(list) + 1} ELSE {})
  <1>1. /\ Append(list, row) \in Seq(RowType) /\ Len(Append(list, row)) = Len(list) + 1
        /\ \A i \in 1 .. Len(list) : Append(list, row)[i] = list[i]
        /\ Append(list, row)[Len(list) + 1] = row /\ Len(list) \in Nat
    OBVIOUS
  <1>2. QED BY <1>1 DEF InScope

LEMMA PendingIsFinite ==
  ASSUME NEW cls, NEW scope
  PROVE  IsFiniteSet(Pending(cls, scope)) /\ Cardinality(Pending(cls, scope)) \in Nat
  <1>1. Pending(cls, scope) \subseteq Request /\ IsFiniteSet(Request)
    BY ContestWebServerAssumption DEF Pending
  <1>2. QED BY <1>1, FS_Subset, FS_CardinalityType

(* What kinds of requests are.                                             *)
LEMMA RequestFacts ==
  ASSUME NEW request \in AnyRequest
  PROVE  /\ request.stage \in {"arrived", "checked"} /\ request # Idle
         /\ request.timestamp \in Int
         /\ request.kind \in Class \cup {"token", "start"}
         /\ request.kind \in Class => request \in RowRequest
         /\ request.kind = "token" => request \in TokenRequest
         /\ request.kind = "start" => request \in StartRequest
  BY DEF AnyRequest, RowRequest, TokenRequest, StartRequest, Class, Idle

LEMMA InvInitially == Init => ContestInv
  <1> SUFFICES ASSUME Init PROVE ContestInv
    OBVIOUS
  <1>1. PICK s \in Scenarios :
          /\ setting = s /\ now = 0 /\ rows = s.rows
          /\ starting_time = None /\ tokens = <<>>
          /\ requests = [r \in Request |-> Idle] /\ overlapped = FALSE
    BY DEF Init
  <1>2. \A r \in Request : ~Underway(r) /\ requests[r].stage = "idle"
    BY <1>1 DEF Underway, Idle
  <1>3. Typed
    <2>1. /\ now \in 0 .. Horizon /\ setting \in Scenarios
          /\ starting_time \in {None} \cup 0 .. now
      BY <1>1, ContestWebServerAssumption
    <2>6. overlapped \in BOOLEAN
      BY Zenon, <1>1
    <2>2. rows \in Seq(RowType) /\ \A i \in 1 .. Len(rows) : rows[i].timestamp <= now
      BY <1>1, ScenarioFacts
    <2>3. DOMAIN tokens = {}
      BY <1>1
    <2>4. requests \in [Request -> {Idle} \cup AnyRequest]
      BY <1>1
    <2>5. QED BY <1>2, <2>1, <2>2, <2>3, <2>4, <2>6 DEF Typed, TokensTyped
  <1>4. Alone /\ StartsEarly /\ ChecksStand
    BY <1>2 DEF Alone, StartsEarly, ChecksStand
  <1>5. Len(rows) \in Nat /\ setting.rows = rows
    BY <1>1, <1>3 DEF Typed
  <1>6. Kept /\ BegunStay
    BY <1>2, <1>5 DEF Kept, BegunStay, Began
  <1>7. \A cls \in Class, scope \in Task \cup {"contest"} :
          Keeps(Limit(cls, scope), rows, Sent(cls, scope))
    BY <1>1, ScenarioFacts DEF Limit, Sent
  <1>8. NumbersInv
    <2> SUFFICES ASSUME NEW cls \in Class, NEW scope \in Task \cup {"contest"},
                        Limit(cls, scope).number # None
                 PROVE  Cardinality(Sent(cls, scope)) + Cardinality(Pending(cls, scope)) <=
                          Limit(cls, scope).number
      <3>1. ~overlapped
        BY Zenon, <1>1
      <3>2. \A cls \in Class, scope \in Task \cup {"contest"} :
              Limit(cls, scope).number \in {None} \cup Nat
        BY <1>7 DEF Keeps
      <3>3. QED BY <3>1, <3>2 DEF NumbersInv
    <2>1. Pending(cls, scope) = {}
      BY <1>2 DEF Pending
    <2>2. Cardinality(Pending(cls, scope)) = 0
      BY <2>1, FS_EmptySet
    <2>3. Cardinality(Sent(cls, scope)) \in Nat
      BY <1>3, InScopeIsFinite DEF Typed, Sent
    <2>4. Cardinality(Sent(cls, scope)) <= Limit(cls, scope).number
      BY <1>7 DEF Keeps
    <2>5. QED BY <2>2, <2>3, <2>4
  <1>9. IntervalsHold
    BY <1>7 DEF IntervalsHold, Keeps
  <1>10. QED BY <1>3, <1>4, <1>6, <1>8, <1>9 DEF ContestInv

(* Time passes.                                                            *)
LEMMA TickKeeps ==
  ASSUME ContestInv, Tick PROVE ContestInv'
  <1>1. /\ now' = now + 1 /\ now < setting.until
        /\ UNCHANGED <<setting, starting_time, rows, tokens, requests, overlapped>>
    BY DEF Tick
  <1>2. Typed
    BY DEF ContestInv
  <1>3. now \in Nat /\ now' \in 0 .. Horizon /\ now <= now'
    BY <1>1, <1>2, ScenarioFacts, ContestWebServerAssumption DEF Typed
  <1>4. Typed'
    <2>1. starting_time' \in {None} \cup 0 .. now'
      BY <1>1, <1>2, <1>3 DEF Typed
    <2>2. rows' \in Seq(RowType) /\ \A i \in 1 .. Len(rows') : rows'[i].timestamp <= now'
      <3>1. \A i \in 1 .. Len(rows) : rows[i].timestamp \in Int /\ rows[i].timestamp <= now
        <4>1. \A i \in 1 .. Len(rows) : rows[i] \in RowType /\ rows[i].timestamp <= now
          BY <1>2 DEF Typed
        <4>2. QED BY <4>1 DEF RowType
      <3>2. QED BY <1>1, <1>2, <1>3, <3>1 DEF Typed
    <2>3. \A i \in DOMAIN tokens : tokens[i] \in 0 .. now'
      BY <1>2, <1>3 DEF Typed, TokensTyped
    <2>4. \A r \in Request : Underway(r) => Possible(requests[r])'
      <3>1. \A r \in Request : Underway(r) => requests[r].timestamp \in 0 .. now'
        BY <1>2, <1>3 DEF Typed, Possible
      <3>2. QED BY <1>1, <1>2, <3>1 DEF Typed, Possible
    <2>5. QED BY <1>1, <1>2, <1>3, <2>1, <2>2, <2>3, <2>4 DEF Typed, TokensTyped, Underway
  <1>5. Alone' /\ Kept' /\ NumbersInv' /\ StartsEarly'
    BY <1>1 DEF ContestInv, Alone, Kept, NumbersInv, StartsEarly, Underway, Limit, unrestricted,
                Sent, Pending, PhaseAt, contest, user
  <1>6. IntervalsHold' /\ ChecksStand'
    BY SMTT(60), <1>1 DEF ContestInv, IntervalsHold, ChecksStand, IntervalsAllow, IsLastMinutes,
                EndOfFrame, CheckMinInterval, Limit, unrestricted, Sent, contest, user
  <1>7. BegunStay'
    <2>1. PhaseAt(now) <= PhaseAt(now)' /\ PhaseAt(now) \in Int /\ PhaseAt(now)' \in Int
      <3>1. Sound(contest, user)
        BY <1>2, SoundFacts DEF Typed
      <3>2. PhaseAt(now)' = ActualPhase(contest, user, now').phase
        BY <1>1 DEF PhaseAt, contest, user
      <3>3. /\ ActualPhase(contest, user, now).phase \in -2 .. 4
            /\ ActualPhase(contest, user, now).phase <= ActualPhase(contest, user, now').phase
        BY <1>3, <3>1, PhasesInTime
      <3>4. ActualPhase(contest, user, now').phase \in -2 .. 4
        BY <1>3, <3>1, PhasesInTime
      <3>5. QED BY <3>2, <3>3, <3>4 DEF PhaseAt
    <2>2. (Began' <=> Began) /\ (unrestricted' <=> unrestricted)
      BY <1>1 DEF Began, Underway, unrestricted
    <2>3. QED BY <1>1, <2>1, <2>2 DEF ContestInv, BegunStay, Underway
  <1>8. QED BY <1>4, <1>5, <1>6, <1>7 DEF ContestInv

(* A request that arrives.                                                 *)
LEMMA ArriveKeeps ==
  ASSUME ContestInv, NEW r \in Request, NEW request,
         Possible(request), request.stage = "arrived", request.timestamp = now,
         Arrive(r, request)
  PROVE  ContestInv'
  <1>1. /\ ~Underway(r) /\ Admitted(request.kind, PhaseAt(now))
        /\ requests' = [requests EXCEPT ![r] = request]
        /\ overlapped' = (overlapped \/ \E other \in Request : Underway(other))
        /\ UNCHANGED <<now, setting, starting_time, rows, tokens>>
    BY DEF Arrive
  <1>2. Typed
    BY DEF ContestInv
  <1>3. /\ requests' \in [Request -> {Idle} \cup AnyRequest]
        /\ requests'[r] = request /\ \A x \in Request \ {r} : requests'[x] = requests[x]
    BY <1>1, <1>2 DEF Typed, Possible
  <1>4. Typed'
    BY <1>1, <1>2, <1>3 DEF Typed, TokensTyped, Possible, Underway
  <1>5. ~overlapped' => /\ ~overlapped
                        /\ \A x \in Request \ {r} : ~Underway(x) /\ ~Underway(x)'
    BY <1>1, <1>3 DEF Underway
  <1>6. Alone'
    BY <1>5 DEF Alone
  <1>7. Kept'
    BY <1>1 DEF ContestInv, Kept
  <1>8. UNCHANGED unrestricted /\ \A cls, scope : UNCHANGED <<Limit(cls, scope), Sent(cls, scope)>>
    BY <1>1 DEF Limit, Sent, unrestricted
  <1>9. NumbersInv'
    <2>1. ASSUME NEW cls, NEW scope PROVE Pending(cls, scope)' = Pending(cls, scope)
      <3>1. requests[r].stage # "checked" /\ requests'[r].stage # "checked"
        BY <1>1, <1>3 DEF Underway
      <3>2. QED BY <1>3, <3>1 DEF Pending
    <2>2. Cardinality(Request) \in Nat /\ Cardinality(Request) >= 1
      <3>1. IsFiniteSet(Request) /\ Request # {}
        BY ContestWebServerAssumption
      <3>2. QED BY <3>1, FS_CardinalityType, FS_EmptySet
    <2>3. SUFFICES ASSUME NEW cls \in Class, NEW scope \in Task \cup {"contest"},
                          Limit(cls, scope).number # None, ~unrestricted
                   PROVE  Cardinality(Sent(cls, scope)) + Cardinality(Pending(cls, scope)) <=
                            Limit(cls, scope).number
                              + (IF overlapped' THEN Cardinality(Request) - 1 ELSE 0)
      BY <1>8, <2>1 DEF NumbersInv
    <2>4. Limit(cls, scope).number \in Nat
      BY <1>2, <2>3, ScenarioFacts DEF Keeps, Limit, Typed
    <2>5. Cardinality(Sent(cls, scope)) \in Nat /\ Cardinality(Pending(cls, scope)) \in Nat
      BY <1>2, InScopeIsFinite, PendingIsFinite DEF Typed, Sent
    <2>6. Cardinality(Sent(cls, scope)) + Cardinality(Pending(cls, scope)) <=
            Limit(cls, scope).number + (IF overlapped THEN Cardinality(Request) - 1 ELSE 0)
      BY <2>3 DEF ContestInv, NumbersInv
    <2>7. QED BY <1>5, <2>2, <2>4, <2>5, <2>6
  <1>10. IntervalsHold'
    BY <1>1, <1>5, <1>8 DEF ContestInv, IntervalsHold, IsLastMinutes, EndOfFrame, contest, user
  <1>11. ChecksStand'
    BY <1>3, <1>5 DEF ChecksStand, Underway
  <1>12. \A t : PhaseAt(t)' = PhaseAt(t')
    BY <1>1 DEF PhaseAt, contest, user
  <1>13. ~unrestricted => PhaseAt(now) \in HandlerPhases(request.kind)
    BY <1>1 DEF Admitted
  <1>14. StartsEarly'
    <2>1. SUFFICES ASSUME ~overlapped', ~unrestricted, NEW x \in Request, Underway(x)',
                          requests'[x].kind = "start"
                   PROVE  (PhaseAt(requests[x].timestamp) = -1)'
      BY <1>8 DEF StartsEarly
    <2>2. x = r /\ request.kind = "start"
      BY <1>3, <1>5, <2>1
    <2>3. PhaseAt(now) = -1
      BY <1>13, <2>1, <2>2 DEF HandlerPhases
    <2>4. QED BY <1>1, <1>3, <2>2, <2>3 DEF PhaseAt, contest, user
  <1>15. BegunStay'
    <2>1. SUFFICES ASSUME ~overlapped', ~unrestricted, Began'
                   PROVE  (/\ PhaseAt(now) >= 0
                           /\ \A x \in Request : Underway(x) => requests[x].kind # "start")'
      BY <1>8 DEF BegunStay
    <2>2. \A x \in Request : Underway(x)' => x = r /\ requests'[x].kind = request.kind
      BY <1>3, <1>5, <2>1
    <2>3. PhaseAt(now)' = PhaseAt(now)
      BY <1>1 DEF PhaseAt, contest, user
    <2>4. CASE request.kind \in Class
      <3>1. request.kind # "start"
        BY <2>4 DEF Class
      <3>2. PhaseAt(now) \in HandlerPhases(request.kind)
        BY <1>13, <2>1
      <3>3. HandlerPhases(request.kind) \subseteq 0 .. 3
        BY <2>4 DEF Class, HandlerPhases
      <3>4. QED BY <2>2, <2>3, <3>1, <3>2, <3>3
    <2>5. CASE request.kind \notin Class
      <3>1. Len(rows) > Len(setting.rows)
        BY <1>1, <2>1, <2>2, <2>5 DEF Began
      <3>2. PhaseAt(now) >= 0
        BY <1>5, <2>1, <3>1 DEF ContestInv, BegunStay, Began
      <3>3. request.kind # "start"
        BY <1>13, <2>1, <3>2 DEF HandlerPhases
      <3>4. QED BY <2>2, <2>3, <3>2, <3>3
    <2>6. QED BY <2>4, <2>5
  <1>16. QED BY <1>4, <1>6, <1>7, <1>9, <1>10, <1>11, <1>14, <1>15 DEF ContestInv

(* A handler that ends, having changed nothing but tokens.                 *)
LEMMA EndKeeps ==
  ASSUME ContestInv, NEW r \in Request, requests' = [requests EXCEPT ![r] = Idle],
         UNCHANGED <<now, setting, starting_time, rows, overlapped>>, TokensTyped'
  PROVE  ContestInv'
  <1>1. /\ requests' = [requests EXCEPT ![r] = Idle]
        /\ UNCHANGED <<now, setting, starting_time, rows, overlapped>> /\ TokensTyped'
    OBVIOUS
  <1>2. Typed
    BY DEF ContestInv
  <1>3. /\ requests' \in [Request -> {Idle} \cup AnyRequest]
        /\ requests'[r] = Idle /\ \A x \in Request \ {r} : requests'[x] = requests[x]
    BY <1>1, <1>2 DEF Typed
  <1>4. \A x \in Request : requests'[x].stage # "idle" => x # r
    BY <1>3 DEF Idle
  <1>5. Typed'
    BY <1>1, <1>2, <1>3, <1>4 DEF Typed, TokensTyped, Possible, Underway
  <1>6. Alone' /\ Kept' /\ StartsEarly'
    BY <1>1, <1>3, <1>4 DEF ContestInv, Alone, Kept, StartsEarly, Underway, unrestricted,
                            PhaseAt, contest, user
  <1>7. IntervalsHold' /\ ChecksStand'
    BY SMTT(60), <1>1, <1>3, <1>4 DEF ContestInv, IntervalsHold, ChecksStand, IntervalsAllow,
                IsLastMinutes, EndOfFrame, CheckMinInterval, Limit, unrestricted, Sent, contest, user
  <1>8. BegunStay'
    <2>1. Began' => Began
      BY <1>1, <1>3, <1>4 DEF Began, Underway
    <2>2. QED BY <1>1, <1>3, <1>4, <2>1 DEF ContestInv, BegunStay, Underway, unrestricted,
                            PhaseAt, contest, user
  <1>9. NumbersInv'
    <2>1. UNCHANGED unrestricted
          /\ \A cls, scope : UNCHANGED <<Limit(cls, scope), Sent(cls, scope)>>
      BY <1>1 DEF Limit, Sent, unrestricted
    <2>2. ASSUME NEW cls, NEW scope
          PROVE  /\ Cardinality(Pending(cls, scope)) \in Nat
                 /\ Cardinality(Pending(cls, scope)') \in Nat
                 /\ Cardinality(Pending(cls, scope)') <= Cardinality(Pending(cls, scope))
      <3>1. Pending(cls, scope)' \subseteq Pending(cls, scope)
        BY <1>3, <1>4 DEF Pending
      <3>2. QED BY <3>1, PendingIsFinite, FS_Subset, FS_CardinalityType
    <2>3. SUFFICES ASSUME NEW cls \in Class, NEW scope \in Task \cup {"contest"},
                          Limit(cls, scope).number # None, ~unrestricted
                   PROVE  Cardinality(Sent(cls, scope)) + Cardinality(Pending(cls, scope)') <=
                            Limit(cls, scope).number
                              + (IF overlapped THEN Cardinality(Request) - 1 ELSE 0)
      BY <1>1, <2>1 DEF NumbersInv
    <2>4. Limit(cls, scope).number \in Nat
      BY <1>2, <2>3, ScenarioFacts DEF Keeps, Limit, Typed
    <2>5. Cardinality(Sent(cls, scope)) \in Nat
      BY <1>2, InScopeIsFinite DEF Typed, Sent
    <2>6. Cardinality(Sent(cls, scope)) + Cardinality(Pending(cls, scope)) <=
            Limit(cls, scope).number + (IF overlapped THEN Cardinality(Request) - 1 ELSE 0)
      BY <2>3 DEF ContestInv, NumbersInv
    <2>7. Cardinality(Request) \in Nat
      BY ContestWebServerAssumption, FS_CardinalityType
    <2>8. QED BY <2>2, <2>4, <2>5, <2>6, <2>7
  <1>10. QED BY <1>5, <1>6, <1>7, <1>8, <1>9 DEF ContestInv

LEMMA RejectKeeps ==
  ASSUME ContestInv, NEW r \in Request, Reject(r) PROVE ContestInv'
  <1>1. /\ requests' = [requests EXCEPT ![r] = Idle]
        /\ UNCHANGED <<now, setting, starting_time, rows, tokens, overlapped>>
    BY DEF Reject
  <1>2. TokensTyped'
    BY <1>1 DEF ContestInv, Typed, TokensTyped
  <1>3. QED BY <1>1, <1>2, EndKeeps

(* A request that passes the check.                                        *)
LEMMA ProceedKeeps ==
  ASSUME ContestInv, NEW r \in Request, Proceed(r), requests[r].stage = "arrived",
         requests[r].kind \in Class \cup {"token"},
         requests[r].kind \in Class => WithinLimits(requests[r])
  PROVE  ContestInv'
  <1> DEFINE request == requests[r]
             checked == [request EXCEPT !.stage = "checked"]
  <1>1. /\ requests' = [requests EXCEPT ![r] = checked]
        /\ UNCHANGED <<now, setting, starting_time, rows, tokens, overlapped>>
    BY DEF Proceed
  <1>2. Typed
    BY DEF ContestInv
  <1>3. Underway(r) /\ Possible(request)
    BY <1>2 DEF Typed, Underway
  <1>4. request \in RowRequest \cup TokenRequest
    BY <1>3, RequestFacts DEF Possible
  <1>5. /\ checked \in RowRequest \cup TokenRequest
        /\ checked.stage = "checked" /\ checked.kind = request.kind
        /\ checked.timestamp = request.timestamp
        /\ request.kind \in Class => checked.task = request.task
        /\ request.kind = "token" => checked.submission = request.submission
    BY <1>4 DEF RowRequest, TokenRequest, Class
  <1> HIDE DEF checked
  <1>6. /\ requests' \in [Request -> {Idle} \cup AnyRequest]
        /\ requests'[r] = checked /\ \A x \in Request \ {r} : requests'[x] = requests[x]
    BY <1>1, <1>2, <1>5 DEF Typed, AnyRequest
  <1>7. \A x \in Request : /\ Underway(x)' <=> Underway(x)
                           /\ Underway(x) => /\ requests'[x].kind = requests[x].kind
                                             /\ requests'[x].timestamp = requests[x].timestamp
    BY <1>3, <1>5, <1>6 DEF Underway
  <1>8. Typed'
    <2>1. ASSUME NEW x \in Request, Underway(x)' PROVE Possible(requests[x])'
      <3>1. Possible(requests[x])
        BY <1>2, <1>7, <2>1 DEF Typed
      <3>2. CASE x = r
        BY <1>1, <1>3, <1>5, <1>6, <3>2 DEF Possible, AnyRequest
      <3>3. CASE x # r
        BY <1>1, <1>6, <3>1, <3>3 DEF Possible
      <3>4. QED BY <3>2, <3>3
    <2>2. QED BY <1>1, <1>2, <1>6, <2>1 DEF Typed, TokensTyped
  <1>9. Alone' /\ Kept' /\ StartsEarly'
    BY <1>1, <1>7 DEF ContestInv, Alone, Kept, StartsEarly, unrestricted, PhaseAt, contest, user
  <1>10. IntervalsHold'
    BY <1>1 DEF ContestInv, IntervalsHold, IsLastMinutes, EndOfFrame, Limit, unrestricted, Sent,
                contest, user
  <1>11. BegunStay'
    <2>1. Began' <=> Began
      BY <1>1, <1>7 DEF Began
    <2>2. QED BY <1>1, <1>7, <2>1 DEF ContestInv, BegunStay, unrestricted, PhaseAt, contest, user
  <1>12. ChecksStand'
    <2>1. SUFFICES ASSUME ~overlapped', ~unrestricted', NEW x \in Request,
                          requests'[x].stage = "checked", requests'[x].kind \in Class
                   PROVE  IntervalsAllow(requests[x])'
      BY DEF ChecksStand
    <2>2. CASE x # r
      BY <1>1, <1>6, <2>1, <2>2 DEF ContestInv, ChecksStand, IntervalsAllow, IsLastMinutes,
         EndOfFrame, CheckMinInterval, Limit, unrestricted, Sent, contest, user
    <2>3. CASE x = r
      <3>1. IntervalsAllow(request)
        BY <1>5, <1>6, <2>1, <2>3 DEF WithinLimits
      <3>2. /\ requests'[x].kind = request.kind /\ requests'[x].task = request.task
            /\ requests'[x].timestamp = request.timestamp
        BY <1>5, <1>6, <2>1, <2>3
      <3>3. QED BY SMTT(60), <1>1, <3>1, <3>2 DEF IntervalsAllow, IsLastMinutes, Scopes,
               EndOfFrame, CheckMinInterval, Limit, unrestricted, Sent, contest, user
    <2>4. QED BY <2>2, <2>3
  <1>13. NumbersInv'
    <2>1. UNCHANGED unrestricted
          /\ \A cls, scope : UNCHANGED <<Limit(cls, scope), Sent(cls, scope)>>
      BY <1>1 DEF Limit, Sent, unrestricted
    <2>2. SUFFICES ASSUME NEW cls \in Class, NEW scope \in Task \cup {"contest"},
                          Limit(cls, scope).number # None, ~unrestricted
                   PROVE  Cardinality(Sent(cls, scope)) + Cardinality(Pending(cls, scope)') <=
                            Limit(cls, scope).number
                              + (IF overlapped THEN Cardinality(Request) - 1 ELSE 0)
      BY <1>1, <2>1 DEF NumbersInv
    <2>3. Limit(cls, scope).number \in Nat
      BY <1>2, <2>2, ScenarioFacts DEF Keeps, Limit, Typed
    <2>4. Cardinality(Sent(cls, scope)) \in Nat /\ Cardinality(Pending(cls, scope)) \in Nat
      BY <1>2, InScopeIsFinite, PendingIsFinite DEF Typed, Sent
    <2>5. Cardinality(Sent(cls, scope)) + Cardinality(Pending(cls, scope)) <=
            Limit(cls, scope).number + (IF overlapped THEN Cardinality(Request) - 1 ELSE 0)
      BY <2>2 DEF ContestInv, NumbersInv
    <2>6. CASE request.kind = cls /\ (scope = "contest" \/ request.task = scope)
      <3>1. Cardinality(Sent(cls, scope)) < Limit(cls, scope).number
        BY <2>2, <2>6 DEF WithinLimits, NumbersAllow, Scopes, CheckMaxNumber
      <3>2. Pending(cls, scope)' = Pending(cls, scope) \cup {r}
        <4>1. checked.kind = cls /\ (scope = "contest" \/ checked.task = scope)
          BY <1>5, <2>6
        <4>2. QED BY <1>5, <1>6, <4>1 DEF Pending
      <3>3. r \notin Pending(cls, scope)
        BY DEF Pending
      <3>4. Cardinality(Pending(cls, scope)') = Cardinality(Pending(cls, scope)) + 1
        <4>1. IsFiniteSet(Pending(cls, scope))
          BY PendingIsFinite
        <4>2. Cardinality(Pending(cls, scope) \cup {r}) = Cardinality(Pending(cls, scope)) + 1
          BY <3>3, <4>1, FS_AddElement
        <4>3. QED BY <3>2, <4>2
      <3>5. CASE overlapped
        <4>1. Pending(cls, scope)' \subseteq Request /\ IsFiniteSet(Request)
          BY ContestWebServerAssumption DEF Pending
        <4>2. Cardinality(Pending(cls, scope)') <= Cardinality(Request)
              /\ Cardinality(Request) \in Nat
          BY <4>1, FS_Subset, FS_CardinalityType
        <4>3. QED BY <2>3, <2>4, <3>1, <3>4, <3>5, <4>2
      <3>6. CASE ~overlapped
        <4>1. Pending(cls, scope) = {}
          <5>1. \A x \in Request : Underway(x) => x = r
            BY <1>3, <3>6 DEF ContestInv, Alone
          <5>2. QED BY <5>1 DEF Pending, Underway
        <4>2. Cardinality(Pending(cls, scope)) = 0
          BY <4>1, FS_EmptySet
        <4>3. QED BY <2>3, <2>4, <3>1, <3>4, <3>6, <4>2
      <3>7. QED BY <3>5, <3>6
    <2>7. CASE ~(request.kind = cls /\ (scope = "contest" \/ request.task = scope))
      <3>1. ~(checked.kind = cls /\ (scope = "contest" \/ checked.task = scope))
        <4>1. request.kind = cls => request.kind \in Class
          OBVIOUS
        <4>2. QED BY <1>5, <2>7, <4>1
      <3>2. Pending(cls, scope)' = Pending(cls, scope)
        BY <1>6, <3>1 DEF Pending
      <3>3. QED BY <2>5, <3>2
    <2>8. QED BY <2>6, <2>7
  <1>14. QED BY <1>8, <1>9, <1>10, <1>11, <1>12, <1>13 DEF ContestInv

(* The row of a request is committed.                                      *)
LEMMA CommitRowKeeps ==
  ASSUME ContestInv, NEW r \in Request, CommitRow(r) PROVE ContestInv'
  <1> DEFINE request == requests[r]
             row == [cls |-> request.kind, task |-> request.task,
                     timestamp |-> request.timestamp, official |-> request.official]
             last == Len(rows) + 1
  <1>1. /\ request.stage = "checked" /\ request.kind \in Class
        /\ rows' = Append(rows, row)
        /\ requests' = [requests EXCEPT ![r] = Idle]
        /\ UNCHANGED <<now, setting, starting_time, tokens, overlapped>>
    BY DEF CommitRow
  <1>2. Typed
    BY DEF ContestInv
  <1>3. /\ requests' \in [Request -> {Idle} \cup AnyRequest]
        /\ requests'[r] = Idle /\ \A x \in Request \ {r} : requests'[x] = requests[x]
    BY <1>1, <1>2 DEF Typed
  <1>4. \A x \in Request : requests'[x].stage # "idle" => x # r
    BY <1>3 DEF Idle
  <1>5. Underway(r) /\ Possible(request) /\ request \in RowRequest
    <2>1. Underway(r) /\ Possible(request)
      BY <1>1, <1>2 DEF Typed, Underway
    <2>2. QED BY <1>1, <2>1, RequestFacts DEF Possible
  <1>6. row \in RowType /\ row.timestamp <= now
    <2>1. request.timestamp \in 0 .. now /\ now \in 0 .. Horizon /\ Horizon \in Nat
      BY <1>2, <1>5, ContestWebServerAssumption DEF Possible, Typed
    <2>2. QED BY <1>5, <2>1 DEF RowRequest, RowType
  <1> HIDE DEF row
  <1>7. /\ rows \in Seq(RowType) /\ rows' \in Seq(RowType) /\ Len(rows) \in Nat
        /\ Len(rows') = last /\ rows'[last] = row
        /\ \A i \in 1 .. Len(rows) : rows'[i] = rows[i]
    BY <1>1, <1>2, <1>6 DEF Typed
  <1>8. Typed'
    <2>1. \A i \in 1 .. Len(rows') : rows'[i].timestamp <= now'
      BY <1>1, <1>2, <1>6, <1>7 DEF Typed
    <2>2. /\ DOMAIN tokens' \subseteq 1 .. Len(rows')
          /\ \A i \in DOMAIN tokens' : rows'[i].cls = "submission" /\ tokens'[i] \in 0 .. now'
      BY <1>1, <1>2, <1>7 DEF Typed, TokensTyped
    <2>3. ASSUME NEW x \in Request, Underway(x)' PROVE Possible(requests[x])'
      <3>1. x # r /\ requests'[x] = requests[x] /\ Possible(requests[x])
        BY <1>2, <1>3, <1>4, <2>3 DEF Underway, Typed
      <3>2. QED BY <1>1, <1>7, <3>1 DEF Possible
    <2>4. QED BY <1>1, <1>2, <1>3, <1>7, <2>1, <2>2, <2>3 DEF Typed, TokensTyped
  <1>9. Alone'
    BY <1>1, <1>3, <1>4 DEF ContestInv, Alone, Underway
  <1>10. Kept'
    <2>1. setting.rows \in Seq(RowType)
      BY <1>2, ScenarioFacts DEF Typed
    <2>2. QED BY <1>1, <1>7, <2>1 DEF ContestInv, Kept
  <1>11. UNCHANGED unrestricted /\ \A cls, scope : UNCHANGED Limit(cls, scope)
    BY <1>1 DEF Limit, unrestricted
  <1>12. ASSUME NEW cls, NEW scope
         PROVE  Sent(cls, scope)' = Sent(cls, scope)
                  \cup (IF request.kind = cls /\ (scope = "contest" \/ request.task = scope)
                        THEN {last} ELSE {})
    <2>1. row.cls = request.kind /\ row.task = request.task
      BY DEF row
    <2>2. QED BY <1>1, <1>6, <1>7, <2>1, InScopeAfter DEF Sent
  <1>13. NumbersInv'
    <2>1. SUFFICES ASSUME NEW cls \in Class, NEW scope \in Task \cup {"contest"},
                          Limit(cls, scope).number # None, ~unrestricted
                   PROVE  Cardinality(Sent(cls, scope)') + Cardinality(Pending(cls, scope)') <=
                            Limit(cls, scope).number
                              + (IF overlapped THEN Cardinality(Request) - 1 ELSE 0)
      BY <1>1, <1>11 DEF NumbersInv
    <2> DEFINE sent == Sent(cls, scope)
               pending == Pending(cls, scope)
    <2>2. IsFiniteSet(sent) /\ Cardinality(sent) \in Nat
      BY <1>7, InScopeIsFinite DEF Sent
    <2>3. IsFiniteSet(pending) /\ Cardinality(pending) \in Nat
      BY PendingIsFinite
    <2>4. Cardinality(sent) + Cardinality(pending) <=
            Limit(cls, scope).number + (IF overlapped THEN Cardinality(Request) - 1 ELSE 0)
      BY <2>1 DEF ContestInv, NumbersInv
    <2>5. pending' = pending \ {r}
      BY <1>3, <1>4 DEF Pending
    <2>6. CASE request.kind = cls /\ (scope = "contest" \/ request.task = scope)
      <3>1. last \notin sent /\ r \in pending
        BY <1>1, <1>7, <2>6 DEF Sent, InScope, Pending
      <3>2. Cardinality(sent \cup {last}) = Cardinality(sent) + 1
        BY <2>2, <3>1, FS_AddElement
      <3>3. Cardinality(pending \ {r}) = Cardinality(pending) - 1
        BY <2>3, <3>1, FS_RemoveElement
      <3>4. sent' = sent \cup {last}
        BY <1>12, <2>6
      <3> HIDE DEF sent, pending
      <3>5. Cardinality(sent') + Cardinality(pending') = Cardinality(sent) + Cardinality(pending)
        BY <2>2, <2>3, <2>5, <3>2, <3>3, <3>4
      <3>6. QED BY <2>4, <3>5 DEF sent, pending
    <2>7. CASE ~(request.kind = cls /\ (scope = "contest" \/ request.task = scope))
      <3>1. r \notin pending
        BY <2>7 DEF Pending
      <3>2. sent' = sent
        BY <1>12, <2>7
      <3>3. QED BY <2>4, <2>5, <3>1, <3>2
    <2>8. QED BY <2>6, <2>7
  <1>14. UNCHANGED EndOfFrame /\ \A t : IsLastMinutes(t)' = IsLastMinutes(t')
    BY <1>1 DEF IsLastMinutes, EndOfFrame, unrestricted, contest, user
  <1>15. IntervalsHold'
    <2>1. SUFFICES ASSUME ~overlapped, ~unrestricted, NEW cls \in Class,
                          NEW scope \in Task \cup {"contest"},
                          NEW i \in Sent(cls, scope)', NEW j \in Sent(cls, scope)',
                          i < j, Limit(cls, scope).interval # None
                   PROVE  \/ rows'[j].timestamp - rows'[i].timestamp >= Limit(cls, scope).interval
                          \/ cls = "submission" /\ IsLastMinutes(rows[j].timestamp)'
      <3>1. \A cls \in Class, scope \in Task \cup {"contest"} :
              Sent(cls, scope)' \subseteq 1 .. Len(rows')
        BY DEF Sent, InScope
      <3>2. QED BY <1>1, <1>7, <1>11, <3>1 DEF IntervalsHold
    <2>2. i \in Sent(cls, scope) /\ i \in 1 .. Len(rows) /\ rows'[i] = rows[i]
      <3>1. i \in 1 .. last /\ j \in 1 .. last
        BY <1>7 DEF Sent, InScope
      <3>2. i # last
        BY <1>7, <2>1, <3>1
      <3>3. i \in Sent(cls, scope)
        BY <1>12, <3>2
      <3>4. QED BY <1>7, <3>1, <3>2, <3>3
    <2>3. CASE j \in Sent(cls, scope)
      <3>1. rows'[j] = rows[j]
        BY <1>7, <2>3 DEF Sent, InScope
      <3>2. \/ rows[j].timestamp - rows[i].timestamp >= Limit(cls, scope).interval
            \/ cls = "submission" /\ IsLastMinutes(rows[j].timestamp)
        <4>1. i \in Int /\ j \in Int
          BY <1>7, <2>2, <2>3 DEF Sent, InScope
        <4>2. QED BY <2>1, <2>2, <2>3, <4>1 DEF ContestInv, IntervalsHold
      <3>3. QED BY <1>14, <2>2, <3>1, <3>2
    <2>4. CASE j \notin Sent(cls, scope)
      <3>1. j = last /\ request.kind = cls /\ (scope = "contest" \/ request.task = scope)
        BY <1>12, <2>4
      <3>2. rows'[j].timestamp = request.timestamp
        BY <1>7, <3>1 DEF row
      <3>3. IntervalsAllow(request)
        BY <1>1, <2>1 DEF ContestInv, ChecksStand
      <3>4. CASE request.kind = "submission" /\ IsLastMinutes(request.timestamp)
        BY <1>14, <3>1, <3>2, <3>4
      <3>5. CASE CheckMinInterval(cls, scope, request.timestamp)
        BY <2>1, <2>2, <3>2, <3>5 DEF CheckMinInterval
      <3>6. QED BY <3>1, <3>3, <3>4, <3>5 DEF IntervalsAllow, Scopes
    <2>5. QED BY <2>3, <2>4
  <1>16. overlapped \/ \A x \in Request : ~Underway(x)'
    BY <1>3, <1>4, <1>5 DEF ContestInv, Alone, Underway
  <1>17. ChecksStand' /\ StartsEarly'
    BY <1>1, <1>16 DEF ChecksStand, StartsEarly, Underway
  <1>18. BegunStay'
    <2>1. overlapped \/ unrestricted \/ PhaseAt(now) >= 0
      BY <1>1, <1>5 DEF ContestInv, BegunStay, Began
    <2>2. PhaseAt(now)' = PhaseAt(now)
      BY <1>1 DEF PhaseAt, contest, user
    <2>3. QED BY <1>1, <1>11, <1>16, <2>1, <2>2 DEF BegunStay
  <1>19. QED BY <1>8, <1>9, <1>10, <1>13, <1>15, <1>17, <1>18 DEF ContestInv

(* A token is committed.                                                   *)
LEMMA CommitTokenKeeps ==
  ASSUME ContestInv, NEW r \in Request, CommitToken(r) PROVE ContestInv'
  <1> DEFINE request == requests[r]
             given == [j \in DOMAIN tokens \cup {request.submission} |->
                         IF j \in DOMAIN tokens THEN tokens[j] ELSE request.timestamp]
  <1>1. /\ request.stage = "checked" /\ request.kind = "token" /\ tokens' = given
        /\ requests' = [requests EXCEPT ![r] = Idle]
        /\ UNCHANGED <<now, setting, starting_time, rows, overlapped>>
    BY DEF CommitToken
  <1>2. Typed
    BY DEF ContestInv
  <1>3. Possible(request)
    BY <1>1, <1>2 DEF Typed, Underway
  <1>4. TokensTyped'
    BY <1>1, <1>2, <1>3 DEF Typed, TokensTyped, Possible
  <1>5. QED BY <1>1, <1>4, EndKeeps

(* The start of the own time frame is committed.                           *)
LEMMA CommitStartKeeps ==
  ASSUME ContestInv, NEW r \in Request, CommitStart(r) PROVE ContestInv'
  <1> DEFINE request == requests[r]
  <1>1. /\ request.stage = "arrived" /\ request.kind = "start"
        /\ starting_time' = request.timestamp
        /\ requests' = [requests EXCEPT ![r] = Idle]
        /\ UNCHANGED <<now, setting, rows, tokens, overlapped>>
    BY DEF CommitStart
  <1>2. Typed
    BY DEF ContestInv
  <1>3. /\ requests' \in [Request -> {Idle} \cup AnyRequest]
        /\ requests'[r] = Idle /\ \A x \in Request \ {r} : requests'[x] = requests[x]
    BY <1>1, <1>2 DEF Typed
  <1>4. \A x \in Request : requests'[x].stage # "idle" => x # r
    BY <1>3 DEF Idle
  <1>5. Underway(r) /\ Possible(request)
    BY <1>1, <1>2 DEF Typed, Underway
  <1>6. Typed'
    <2>1. starting_time' \in {None} \cup 0 .. now'
      BY <1>1, <1>5 DEF Possible
    <2>2. QED BY <1>1, <1>2, <1>3, <1>4, <2>1 DEF Typed, TokensTyped, Possible, Underway
  <1>7. Alone' /\ Kept'
    BY <1>1, <1>3, <1>4 DEF ContestInv, Alone, Kept, Underway
  <1>8. UNCHANGED unrestricted
        /\ \A cls, scope : UNCHANGED <<Limit(cls, scope), Sent(cls, scope)>>
    BY <1>1 DEF Limit, Sent, unrestricted
  <1>9. NumbersInv'
    <2>1. \A cls, scope : cls \in Class =>
            Pending(cls, scope)' = Pending(cls, scope)
      BY <1>1, <1>3, <1>4 DEF Pending
    <2>2. QED BY <1>1, <1>8, <2>1 DEF ContestInv, NumbersInv
  <1>10. overlapped \/ \A x \in Request : ~Underway(x)'
    BY <1>3, <1>4, <1>5 DEF ContestInv, Alone, Underway
  <1>11. overlapped \/ unrestricted \/ Len(rows) <= Len(setting.rows)
    <2>1. Len(rows) \in Nat /\ Len(setting.rows) \in Nat
      BY <1>2, ScenarioFacts DEF Typed
    <2>2. QED BY <1>1, <1>5, <2>1 DEF ContestInv, BegunStay, Began
  <1>12. IntervalsHold'
    <2>1. SUFFICES ASSUME ~overlapped, ~unrestricted, NEW cls \in Class,
                          NEW scope \in Task \cup {"contest"},
                          NEW i \in Sent(cls, scope), NEW j \in Sent(cls, scope),
                          ~(i >= j), Limit(cls, scope).interval # None
                   PROVE  rows[j].timestamp - rows[i].timestamp >= Limit(cls, scope).interval
      BY <1>1, <1>8 DEF IntervalsHold
    <2>2. /\ Len(rows) = Len(setting.rows) /\ rows \in Seq(RowType) /\ setting.rows \in Seq(RowType)
          /\ \A x \in 1 .. Len(rows) : rows[x] = setting.rows[x]
      BY <1>2, <1>11, <2>1, ScenarioFacts DEF ContestInv, Kept, Typed
    <2>3. InScope(setting.rows, cls, scope) = Sent(cls, scope)
      BY <2>2 DEF InScope, Sent
    <2>4. Keeps(Limit(cls, scope), setting.rows, Sent(cls, scope))
      BY <1>2, <2>3, ScenarioFacts DEF Limit, Typed
    <2>5. i \in 1 .. Len(rows) /\ j \in 1 .. Len(rows)
      BY DEF Sent, InScope
    <2>6. QED BY <2>1, <2>2, <2>4, <2>5 DEF Keeps
  <1>13. ChecksStand' /\ StartsEarly'
    BY <1>1, <1>10 DEF ChecksStand, StartsEarly, Underway
  <1>14. BegunStay'
    BY <1>1, <1>2, <1>8, <1>10, <1>11, ScenarioFacts DEF BegunStay, Began, Typed
  <1>15. QED BY <1>6, <1>7, <1>9, <1>12, <1>13, <1>14 DEF ContestInv

-----------------------------------------------------------------------------
(* Every step.                                                             *)

LEMMA NextKeeps ==
  ASSUME ContestInv, [Next]_vars PROVE ContestInv'
  <1>1. Typed /\ now \in 0 .. Horizon /\ Horizon \in Nat /\ rows \in Seq(RowType)
    BY ContestWebServerAssumption DEF ContestInv, Typed
  <1>2. CASE Tick
    BY <1>2, TickKeeps
  <1>3. ASSUME NEW r \in Request, SendStart(r) PROVE ContestInv'
    <2> DEFINE request == [stage |-> "arrived", kind |-> "start", timestamp |-> now]
    <2>1. Arrive(r, request)
      BY <1>3 DEF SendStart
    <2>2. Possible(request)
      BY <1>1 DEF Possible, AnyRequest, StartRequest
    <2>3. QED BY <2>1, <2>2, ArriveKeeps
  <1>4. ASSUME NEW r \in Request, NEW cls \in Class, NEW task \in Task, SendRow(r, cls, task)
        PROVE  ContestInv'
    <2> DEFINE official == PhaseAt(now) = 0
               request == [stage |-> "arrived", kind |-> cls, task |-> task,
                           timestamp |-> now, official |-> official]
    <2>1. Arrive(r, request)
      BY <1>4 DEF SendRow
    <2>2. official \in BOOLEAN
      OBVIOUS
    <2> HIDE DEF official
    <2>3. request \in RowRequest /\ cls # "token"
      BY <1>1, <2>2 DEF RowRequest, Class
    <2>4. Possible(request)
      BY <1>1, <2>3 DEF Possible, AnyRequest
    <2>5. QED BY <2>1, <2>4, ArriveKeeps
  <1>5. ASSUME NEW r \in Request, NEW i \in 1 .. Len(rows), SendToken(r, i) PROVE ContestInv'
    <2> DEFINE request == [stage |-> "arrived", kind |-> "token", submission |-> i,
                           timestamp |-> now]
    <2>1. Arrive(r, request) /\ rows[i].cls = "submission"
      BY <1>5 DEF SendToken
    <2>2. Possible(request)
      BY <1>1, <2>1 DEF Possible, AnyRequest, TokenRequest
    <2>3. QED BY <2>1, <2>2, ArriveKeeps
  <1>6. ASSUME NEW r \in Request, CheckRow(r) PROVE ContestInv'
    BY <1>6, ProceedKeeps, RejectKeeps DEF CheckRow
  <1>7. ASSUME NEW r \in Request, CheckToken(r) PROVE ContestInv'
    <2>1. requests[r].kind = "token" => requests[r].kind \notin Class
      BY DEF Class
    <2>2. QED BY <1>7, <2>1, ProceedKeeps, RejectKeeps DEF CheckToken
  <1>8. ASSUME NEW r \in Request, StorageFails(r) PROVE ContestInv'
    BY <1>8, RejectKeeps DEF StorageFails
  <1>9. CASE UNCHANGED vars
    <2>1. UNCHANGED <<now, setting, starting_time, rows, tokens, requests, overlapped>>
      BY <1>9 DEF vars
    <2>2. Typed' /\ Alone' /\ Kept' /\ StartsEarly' /\ BegunStay'
      BY <2>1 DEF ContestInv, Typed, TokensTyped, Possible, Underway, Alone, Kept, BegunStay, Began,
         StartsEarly, unrestricted, PhaseAt, contest, user
    <2>3. NumbersInv'
      BY <2>1 DEF ContestInv, NumbersInv, Limit, Sent, Pending, unrestricted
    <2>4. IntervalsHold' /\ ChecksStand'
      BY <2>1 DEF ContestInv, IntervalsHold, ChecksStand, IntervalsAllow, Limit, Sent,
         unrestricted, IsLastMinutes, EndOfFrame, CheckMinInterval, contest, user
    <2>5. QED BY <2>2, <2>3, <2>4 DEF ContestInv
  <1>10. QED
    BY <1>2, <1>3, <1>4, <1>5, <1>6, <1>7, <1>8, <1>9, CommitRowKeeps, CommitTokenKeeps,
       CommitStartKeeps DEF Next

LEMMA AlwaysContestInv == Spec => []ContestInv
  <1>1. ContestInv /\ [Next]_vars => ContestInv'
    BY NextKeeps
  <1>2. QED BY <1>1, InvInitially, PTL DEF Spec

-----------------------------------------------------------------------------
(* Types: what is committed was sent by now, and tokens are for            *)
(* submissions.                                                            *)
THEOREM ContestTypeOK == Spec => []TypeOK
  <1>1. ContestInv => TypeOK
    <2> SUFFICES ASSUME ContestInv PROVE TypeOK
      OBVIOUS
    <2>1. Typed
      BY DEF ContestInv
    <2>2. \A i \in 1 .. Len(rows) : rows[i] \in RowType /\ rows[i].timestamp <= now
      BY <2>1 DEF Typed
    <2>3. \A i \in 1 .. Len(rows) :
            /\ rows[i].cls \in Class /\ rows[i].task \in Task
            /\ rows[i].timestamp \in Int /\ rows[i].timestamp <= now
            /\ rows[i].official \in BOOLEAN
      BY <2>2 DEF RowType
    <2>4. \A r \in Request : requests[r].stage \in {"idle", "arrived", "checked"}
      BY <2>1, RequestFacts DEF Typed, Idle
    <2>5. QED BY <2>1, <2>3, <2>4 DEF Typed, TokensTyped, TypeOK
  <1>2. QED BY <1>1, AlwaysContestInv, PTL

(* max_submission_number and max_user_test_number are exceeded by at most  *)
(* one per further request under way, and by none when requests never      *)
(* overlap; the minimum intervals are then kept as well, but in the last   *)
(* minutes.  For every contest, limits and number of requests.             *)
THEOREM ContestLimitsHold == Spec => []LimitsHold
  <1>1. ContestInv => LimitsHold
    <2> SUFFICES ASSUME ContestInv PROVE NumbersHold /\ IntervalsHold
      BY DEF LimitsHold
    <2>1. NumbersHold
      <3>1. SUFFICES ASSUME NEW cls \in Class, NEW scope \in Task \cup {"contest"},
                            Limit(cls, scope).number # None, ~unrestricted
                     PROVE  Cardinality(Sent(cls, scope)) <= Limit(cls, scope).number
                              + (IF overlapped THEN Cardinality(Request) - 1 ELSE 0)
        BY DEF NumbersHold
      <3>2. Typed
        BY DEF ContestInv
      <3>3. Limit(cls, scope).number \in Nat /\ Cardinality(Request) \in Nat
        BY <3>1, <3>2, ScenarioFacts, ContestWebServerAssumption, FS_CardinalityType
           DEF Keeps, Limit, Typed
      <3>4. Cardinality(Sent(cls, scope)) \in Nat /\ Cardinality(Pending(cls, scope)) \in Nat
        BY <3>2, InScopeIsFinite, PendingIsFinite DEF Typed, Sent
      <3>5. Cardinality(Sent(cls, scope)) + Cardinality(Pending(cls, scope)) <=
              Limit(cls, scope).number + (IF overlapped THEN Cardinality(Request) - 1 ELSE 0)
        BY <3>1 DEF ContestInv, NumbersInv
      <3>6. QED BY <3>3, <3>4, <3>5
    <2>2. QED BY <2>1 DEF ContestInv
  <1>2. QED BY <1>1, AlwaysContestInv, PTL

(* The beginning and the end shown to a contestant are those of the phase  *)
(* they are in, for every contest, own frame, delay, extra time and        *)
(* analysis mode.                                                          *)
THEOREM ContestPhaseBoundaries == Spec => []PhaseBoundaries
  <1>1. ContestInv => PhaseBoundaries
    <2> SUFFICES ASSUME ContestInv PROVE PhaseBoundaries
      OBVIOUS
    <2>1. Sound(contest, user) /\ now \in Int /\ 0 .. 2 * Horizon \subseteq Int
      BY SoundFacts, ContestWebServerAssumption DEF ContestInv, Typed
    <2>2. QED BY <2>1, BoundariesAreRight DEF PhaseBoundaries
  <1>2. QED BY <1>1, AlwaysContestInv, PTL

(* Neither time nor a start takes a contestant back to an earlier phase,   *)
(* as long as requests do not overlap and the start is committed at once.  *)
THEOREM ContestPhaseOnlyAdvances == Spec => PhaseOnlyAdvances
  <1> DEFINE Advances ==
        overlapped' \/ unrestricted \/ starting_time' \notin {starting_time, now}
          \/ PhaseAt(now) <= ActualPhase(contest, user', now').phase
  <1>1. ASSUME ContestInv, ContestInv', [Next]_vars PROVE [Advances]_vars
    <2>1. SUFFICES ASSUME ~overlapped', ~unrestricted, starting_time' \in {starting_time, now},
                          vars' # vars
                   PROVE  PhaseAt(now) <= ActualPhase(contest, user', now').phase
      OBVIOUS
    <2>2. UNCHANGED setting /\ now' \in {now, now + 1}
      BY <1>1 DEF Next, vars, Tick, SendStart, SendRow, SendToken, Arrive, CheckRow, CheckToken,
                  StorageFails, Proceed, Reject, CommitRow, CommitToken, CommitStart
    <2>3. /\ Sound(contest, user) /\ Sound(contest, user')
          /\ now \in Int /\ now' \in Int /\ now <= now'
      <3>1. now \in Int /\ now' \in Int /\ now <= now'
        BY <1>1, <2>2, ContestWebServerAssumption DEF ContestInv, Typed
      <3>2. Sound(contest, user)
        BY <1>1, SoundFacts DEF ContestInv, Typed
      <3>3. Sound(contest, user)'
        <4>1. starting_time' \in {None} \cup Int
          BY <1>1, ContestWebServerAssumption DEF ContestInv, Typed
        <4>2. QED BY <2>2, <3>2, <4>1 DEF Sound, contest, user
      <3>4. QED BY <2>2, <3>1, <3>2, <3>3 DEF contest
    <2>4. CASE starting_time' = starting_time
      <3>1. user' = user
        BY <2>2, <2>4 DEF user
      <3>2. QED BY <2>3, <3>1, PhasesInTime DEF PhaseAt
    <2>5. CASE starting_time' # starting_time
      <3>1. PICK r \in Request : CommitStart(r)
        BY <1>1, <2>5 DEF Next, vars, Tick, SendStart, SendRow, SendToken, Arrive, CheckRow,
                  CheckToken, StorageFails, Proceed, Reject, CommitRow, CommitToken
      <3>2. /\ Underway(r) /\ requests[r].kind = "start" /\ requests[r].timestamp = now
            /\ now' = now /\ ~overlapped
        BY <2>1, <2>5, <3>1 DEF CommitStart, Underway
      <3>3. PhaseAt(now) = -1
        BY <1>1, <2>1, <3>2 DEF ContestInv, StartsEarly
      <3>4. QED BY <2>3, <3>2, <3>3, StartingAdvances DEF PhaseAt
    <2>6. QED BY <2>4, <2>5
  <1>2. QED BY <1>1, AlwaysContestInv, PTL DEF Spec, PhaseOnlyAdvances

-----------------------------------------------------------------------------
(* Lemmas on numbers.                                                      *)

LEMMA InductionUpTo ==
  ASSUME NEW N \in Nat, NEW S, 0 \in S,
         \A n \in 1 .. N : n - 1 \in S => n \in S
  PROVE  \A n \in 0 .. N : n \in S
  <1> SUFFICES ASSUME NEW m \in 0 .. N, m \notin S PROVE FALSE
    OBVIOUS
  <1> DEFINE others == {n \in 0 .. N : n \notin S}
             less == OpToRel(<, Nat)
  <1>1. others \subseteq Nat /\ m \in others
    OBVIOUS
  <1>2. IsWellFoundedOn(less, Nat)
    BY NatLessThanWellFounded
  <1>3. \A i, j \in Nat : <<i, j>> \in less <=> i < j
    BY DEF OpToRel
  <1> HIDE DEF less
  <1>4. PICK k \in others : \A j \in others : ~ (<<j, k>> \in less)
    BY <1>1, <1>2, WFMin
  <1>5. k # 0 /\ k \in 1 .. N /\ k - 1 \in 0 .. N
    BY <1>4
  <1>6. k - 1 \notin others
    <2>1. <<k - 1, k>> \in less
      BY <1>3, <1>5
    <2> QED BY <1>4, <2>1
  <1> QED BY <1>4, <1>5, <1>6

LEMMA InductionFrom ==
  ASSUME NEW a \in Int, NEW b \in Int, a <= b, NEW S, a \in S,
         \A u \in a + 1 .. b : u - 1 \in S => u \in S
  PROVE  \A u \in a .. b : u \in S
  <1> DEFINE N == b - a
             T == {n \in 0 .. N : a + n \in S}
  <1>1. N \in Nat
    OBVIOUS
  <1>2. 0 \in T
    <2>1. a + 0 = a
      OBVIOUS
    <2>2. QED BY <1>1, <2>1
  <1>3. ASSUME NEW n \in 1 .. N, n - 1 \in T PROVE n \in T
    <2>1. a + n \in a + 1 .. b /\ (a + n) - 1 = a + (n - 1) /\ n \in 0 .. N
      BY <1>1
    <2>2. QED BY <1>3, <2>1
  <1> HIDE DEF N, T
  <1>4. \A n \in 0 .. N : n \in T
    BY <1>1, <1>2, <1>3, InductionUpTo
  <1>5. ASSUME NEW u \in a .. b PROVE u \in S
    <2>1. u - a \in 0 .. N /\ a + (u - a) = u
      BY DEF N
    <2>2. QED BY <1>4, <2>1 DEF T
  <1>6. QED BY <1>5

LEMMA Products ==
  ASSUME NEW a \in Int, NEW b \in Int, NEW g \in Nat
  PROVE  /\ g * a \in Int /\ a * g = g * a
         /\ g * (a + b) = g * a + g * b /\ g * (a + 1) = g * a + g
         /\ b <= a => g * b <= g * a
         /\ 0 <= a => 0 <= g * a
  OBVIOUS

LEMMA Division ==
  ASSUME NEW x \in Int, NEW g \in Nat \ {0}
  PROVE  /\ x \div g \in Int /\ x % g \in 0 .. g - 1
         /\ x = (g * (x \div g)) + (x % g)
  OBVIOUS

LEMMA DivisionIsUnique ==
  ASSUME NEW g \in Nat \ {0}, NEW q \in Int, NEW p \in Int,
         NEW r \in 0 .. g - 1, NEW s \in 0 .. g - 1, g * q + r = g * p + s
  PROVE  q = p /\ r = s
  <1>1. ~(q >= p + 1)
    <2>1. q >= p + 1 => g * q >= g * p + g
      BY Products
    <2>2. QED BY <2>1, Products
  <1>2. ~(p >= q + 1)
    <2>1. p >= q + 1 => g * p >= g * q + g
      BY Products
    <2>2. QED BY <2>1, Products
  <1>3. q = p
    BY <1>1, <1>2
  <1>4. QED BY <1>3, Products

LEMMA NextPeriod ==
  ASSUME NEW g \in Nat \ {0}, NEW x \in Int
  PROVE  (x + 1) \div g = (x \div g) + (IF (x + 1) % g = 0 THEN 1 ELSE 0)
  <1> DEFINE q == x \div g
             r == x % g
             q1 == (x + 1) \div g
             r1 == (x + 1) % g
  <1>1. q \in Int /\ r \in 0 .. g - 1 /\ x = (g * q) + r
    BY Division
  <1>2. q1 \in Int /\ r1 \in 0 .. g - 1 /\ x + 1 = (g * q1) + r1
    BY Division, x + 1 \in Int
  <1> HIDE DEF q, r, q1, r1
  <1>3. CASE r + 1 < g
    <2>1. (g * q) + (r + 1) = (g * q1) + r1 /\ r + 1 \in 0 .. g - 1
      BY <1>1, <1>2, <1>3, Products
    <2>2. q = q1 /\ r1 = r + 1
      BY <1>1, <1>2, <2>1, DivisionIsUnique
    <2>3. QED BY <1>1, <2>2 DEF q, q1, r1
  <1>4. CASE r + 1 >= g
    <2>1. g * (q + 1) + 0 = (g * q1) + r1 /\ 0 \in 0 .. g - 1 /\ q + 1 \in Int
      BY <1>1, <1>2, <1>4, Products
    <2>2. q + 1 = q1 /\ r1 = 0
      BY <1>1, <1>2, <2>1, DivisionIsUnique
    <2>3. QED BY <1>1, <2>2 DEF q, q1, r1
  <1>5. QED BY <1>1, <1>3, <1>4

LEMMA PeriodReached ==
  ASSUME NEW g \in Nat \ {0}, NEW x \in Int, NEW k \in Int
  PROVE  k <= x \div g <=> g * k <= x
  <1> DEFINE q == x \div g
             r == x % g
  <1>1. q \in Int /\ r \in 0 .. g - 1 /\ x = (g * q) + r
    BY Division
  <1> HIDE DEF q, r
  <1>2. k <= q => g * k <= x
    <2>1. k <= q => g * k <= g * q
      BY <1>1, Products
    <2>2. QED BY <1>1, <2>1, Products
  <1>3. ~(k <= q) => ~(g * k <= x)
    <2>1. q + 1 <= k => g * (q + 1) <= g * k
      BY <1>1, Products
    <2>2. g * (q + 1) = g * q + g /\ g * q \in Int /\ g * k \in Int
      BY <1>1, Products
    <2>3. QED BY <1>1, <2>1, <2>2
  <1>4. QED BY <1>2, <1>3 DEF q

-----------------------------------------------------------------------------
(* The bucket of tokens.                                                   *)

FiniteRules(rules) == Permitted(rules) /\ rules.mode = "finite"

(* The periods that have ended by then.                                    *)
Periods(rules, start, u) == (u - start) \div rules.gen_interval

LEMMA FiniteFacts ==
  ASSUME NEW rules, FiniteRules(rules)
  PROVE  /\ rules.gen_initial \in Nat /\ rules.gen_number \in Nat /\ rules.min_interval \in Nat
         /\ rules.gen_interval \in Nat \ {0} /\ rules.gen_interval \in Int
         /\ rules.gen_max # None => rules.gen_max \in Nat \ {0}
         /\ rules.max_number # None => rules.max_number \in Nat \ {0}
         /\ rules.gen_max = None \/ rules.gen_initial <= rules.gen_max
         /\ rules.mode = "finite"
  BY DEF FiniteRules, Permitted

LEMMA PeriodFacts ==
  ASSUME NEW rules, FiniteRules(rules), NEW start \in Int, NEW t \in Int, NEW u \in Int
  PROVE  /\ Periods(rules, start, t) \in Int
         /\ t <= u => Periods(rules, start, t) <= Periods(rules, start, u)
         /\ Periods(rules, start, t + 1) = Periods(rules, start, t)
              + (IF ((t + 1) - start) % rules.gen_interval = 0 THEN 1 ELSE 0)
  <1> DEFINE g == rules.gen_interval
             p == (t - start) \div g
  <1>1. g \in Nat \ {0} /\ t - start \in Int /\ u - start \in Int
    BY FiniteFacts
  <1> HIDE DEF g
  <1>2. p \in Int
    BY <1>1, Division
  <1>3. t <= u => p <= (u - start) \div g
    <2>1. g * p <= t - start
      BY <1>1, <1>2, PeriodReached
    <2>2. t <= u => g * p <= u - start
      BY <1>1, <1>2, <2>1, Products
    <2> HIDE DEF p
    <2>3. QED BY <1>1, <1>2, <2>2, PeriodReached
  <1>4. ((t - start) + 1) \div g = p + (IF ((t - start) + 1) % g = 0 THEN 1 ELSE 0)
    BY <1>1, NextPeriod
  <1>5. (t - start) + 1 = (t + 1) - start
    OBVIOUS
  <1>6. QED BY <1>2, <1>3, <1>4, <1>5 DEF Periods, g

(* What the recursion of Level defines, up to N.                           *)
Levels(rules, start, history, N, f) ==
  f = [n \in 0 .. N |->
        (IF n = 0 THEN rules.gen_initial ELSE Filled(rules, start, start + n, f[n - 1]))
          - PlayedAt(history, start + n)]

LEMMA LevelsExist ==
  ASSUME NEW rules, NEW start, NEW history, NEW N \in Nat
  PROVE  \E f : Levels(rules, start, history, N, f)
  <1> DEFINE S == {n \in 0 .. N : \E f : Levels(rules, start, history, n, f)}
  <1>1. 0 \in S
    <2> DEFINE f == [n \in 0 .. 0 |-> rules.gen_initial - PlayedAt(history, start + n)]
    <2>1. Levels(rules, start, history, 0, f)
      BY DEF Levels
    <2>2. QED BY <2>1
  <1>2. ASSUME NEW n \in 1 .. N, n - 1 \in S PROVE n \in S
    <2>1. PICK f : Levels(rules, start, history, n - 1, f)
      BY <1>2
    <2> DEFINE last == Filled(rules, start, start + n, f[n - 1]) - PlayedAt(history, start + n)
               h == [m \in 0 .. n |-> IF m = n THEN last ELSE f[m]]
               next(m, x) == (IF m = 0 THEN rules.gen_initial
                              ELSE Filled(rules, start, start + m, x))
                               - PlayedAt(history, start + m)
    <2>2. f = [m \in 0 .. n - 1 |-> next(m, f[m - 1])]
      BY <2>1 DEF Levels
    <2>3. ASSUME NEW m \in 0 .. n PROVE h[m] = next(m, h[m - 1])
      <3>1. CASE m = n
        <4>1. h[m - 1] = f[n - 1] /\ m # 0
          BY <3>1
        <4>2. QED BY <3>1, <4>1
      <3>2. CASE m # n /\ m # 0
        <4>1. m \in 0 .. n - 1 /\ m - 1 \in 0 .. n /\ m - 1 # n
          BY <3>2
        <4> HIDE DEF next
        <4>2. f[m] = next(m, f[m - 1])
          BY <2>2, <4>1
        <4>3. h[m] = f[m] /\ h[m - 1] = f[m - 1]
          BY <3>2, <4>1
        <4>4. QED BY <4>2, <4>3
      <3>3. CASE m # n /\ m = 0
        <4>1. 0 \in 0 .. n - 1
          OBVIOUS
        <4>2. f[0] = rules.gen_initial - PlayedAt(history, start + 0)
          BY <2>2, <4>1
        <4>3. QED BY <3>3, <4>2
      <3>4. QED BY <3>1, <3>2, <3>3
    <2>4. h = [m \in 0 .. n |-> next(m, h[m - 1])]
      <3>1. h = [m \in 0 .. n |-> h[m]]
        OBVIOUS
      <3> HIDE DEF h, next
      <3>2. QED BY <2>3, <3>1
    <2>5. Levels(rules, start, history, n, h)
      BY <2>4 DEF Levels
    <2>6. QED BY <2>5
  <1> HIDE DEF S
  <1>3. N \in S
    BY <1>1, <1>2, InductionUpTo
  <1>4. QED BY <1>3 DEF S

LEMMA LevelsAgree ==
  ASSUME NEW rules, NEW start, NEW history, NEW N \in Nat, NEW M \in Nat, NEW f, NEW h,
         N <= M, Levels(rules, start, history, N, f), Levels(rules, start, history, M, h)
  PROVE  \A n \in 0 .. N : f[n] = h[n]
  <1> DEFINE S == {n \in 0 .. N : f[n] = h[n]}
             next(m, x) == (IF m = 0 THEN rules.gen_initial
                            ELSE Filled(rules, start, start + m, x))
                             - PlayedAt(history, start + m)
  <1>1. /\ f = [m \in 0 .. N |-> next(m, f[m - 1])]
        /\ h = [m \in 0 .. M |-> next(m, h[m - 1])]
    BY DEF Levels
  <1>2. 0 \in S
    BY <1>1
  <1>3. ASSUME NEW n \in 1 .. N, n - 1 \in S PROVE n \in S
    <2>1. f[n - 1] = h[n - 1] /\ n \in 0 .. N /\ n \in 0 .. M
      BY <1>3
    <2> HIDE DEF next
    <2>2. f[n] = next(n, f[n - 1]) /\ h[n] = next(n, h[n - 1])
      BY <1>1, <2>1
    <2>3. QED BY <2>1, <2>2
  <1> HIDE DEF S
  <1>4. \A n \in 0 .. N : n \in S
    BY <1>2, <1>3, InductionUpTo
  <1>5. QED BY <1>4 DEF S

(* Level, instant by instant.                                              *)
LEMMA LevelIsDefined ==
  ASSUME NEW rules, NEW start \in Int, NEW history
  PROVE  \E f : \A t \in Int : t >= start =>
           /\ Levels(rules, start, history, t - start, f[t])
           /\ Level(rules, start, history, t) = f[t][t - start]
  <1> DEFINE f == [t \in Int |-> CHOOSE x : Levels(rules, start, history, t - start, x)]
  <1>1. ASSUME NEW t \in Int, t >= start
        PROVE  /\ Levels(rules, start, history, t - start, f[t])
               /\ Level(rules, start, history, t) = f[t][t - start]
    <2>1. Level(rules, start, history, t) = f[t][t - start]
      BY DEF Level, Levels
    <2>2. t - start \in Nat
      BY <1>1
    <2>3. QED BY <2>1, <2>2, LevelsExist
  <1>2. QED BY <1>1

LEMMA LevelStarts ==
  ASSUME NEW rules, NEW start \in Int, NEW history
  PROVE  Level(rules, start, history, start) = rules.gen_initial - PlayedAt(history, start)
  <1>1. PICK f : \A t \in Int : t >= start =>
           /\ Levels(rules, start, history, t - start, f[t])
           /\ Level(rules, start, history, t) = f[t][t - start]
    BY LevelIsDefined
  <1>2. Levels(rules, start, history, 0, f[start])
        /\ Level(rules, start, history, start) = f[start][0]
    BY <1>1, start - start = 0
  <1>3. start + 0 = start /\ 0 \in 0 .. 0
    OBVIOUS
  <1>4. QED BY <1>2, <1>3 DEF Levels

LEMMA LevelRuns ==
  ASSUME NEW rules, NEW start \in Int, NEW history, NEW u \in Int, u > start
  PROVE  Level(rules, start, history, u) =
           Filled(rules, start, u, Level(rules, start, history, u - 1)) - PlayedAt(history, u)
  <1>1. PICK f : \A t \in Int : t >= start =>
           /\ Levels(rules, start, history, t - start, f[t])
           /\ Level(rules, start, history, t) = f[t][t - start]
    BY LevelIsDefined
  <1> DEFINE n == u - start
  <1>2. /\ n \in Nat /\ n - 1 \in Nat /\ n # 0 /\ n \in 0 .. n /\ n - 1 \in 0 .. n - 1
        /\ start + n = u /\ (u - 1) - start = n - 1 /\ u - 1 \in Int /\ u - 1 >= start
        /\ n - 1 <= n
    OBVIOUS
  <1>3. Levels(rules, start, history, n, f[u]) /\ Level(rules, start, history, u) = f[u][n]
    BY <1>1
  <1>4. /\ Levels(rules, start, history, n - 1, f[u - 1])
        /\ Level(rules, start, history, u - 1) = f[u - 1][n - 1]
    BY <1>1, <1>2
  <1> HIDE DEF n
  <1>5. f[u][n - 1] = f[u - 1][n - 1]
    <2> DEFINE m == n - 1
    <2>1. m \in Nat /\ m <= n /\ m \in 0 .. m
      BY <1>2
    <2>2. Levels(rules, start, history, m, f[u - 1])
      BY <1>4
    <2> HIDE DEF m
    <2>3. \A x, y : Levels(rules, start, history, m, x) /\ Levels(rules, start, history, n, y)
            => \A k \in 0 .. m : x[k] = y[k]
      BY <1>2, <2>1, LevelsAgree
    <2>4. f[u - 1][m] = f[u][m]
      BY <1>3, <2>1, <2>2, <2>3
    <2>5. QED BY <2>4 DEF m
  <1>6. f[u][n] = Filled(rules, start, start + n, f[u][n - 1]) - PlayedAt(history, start + n)
    BY <1>2, <1>3 DEF Levels
  <1>7. QED BY <1>2, <1>3, <1>4, <1>5, <1>6

LEMMA PlayedAtFacts ==
  ASSUME NEW history \in Seq(Int), NEW u
  PROVE  /\ IsFiniteSet({n \in DOMAIN history : history[n] = u})
         /\ PlayedAt(history, u) \in Nat
         /\ PlayedAt(history, u) = 0 <=> \A n \in 1 .. Len(history) : history[n] # u
  <1> DEFINE at == {n \in DOMAIN history : history[n] = u}
  <1>1. DOMAIN history = 1 .. Len(history) /\ IsFiniteSet(1 .. Len(history))
    BY FS_Interval
  <1>2. IsFiniteSet(at) /\ Cardinality(at) \in Nat /\ (Cardinality(at) = 0 <=> at = {})
    <2>1. at \subseteq 1 .. Len(history)
      BY <1>1
    <2>2. IsFiniteSet(at)
      BY <1>1, <2>1, FS_Subset
    <2>3. QED BY <2>2, FS_CardinalityType, FS_EmptySet
  <1>3. QED BY <1>1, <1>2 DEF PlayedAt

LEMMA NoPlays ==
  ASSUME NEW history \in Seq(Int), NEW p \in Int, \A n \in 1 .. Len(history) : history[n] <= p
  PROVE  \A u \in Int : p < u => PlayedAt(history, u) = 0
  <1> TAKE u \in Int
  <1> HAVE p < u
  <1>1. \A n \in 1 .. Len(history) : history[n] \in Int
    OBVIOUS
  <1>2. \A n \in 1 .. Len(history) : history[n] # u
    BY <1>1
  <1>3. QED BY <1>2, PlayedAtFacts

LEMMA AtMostFacts ==
  ASSUME NEW x \in Int, NEW max, max # None => max \in Nat
  PROVE  /\ AtMost(x, max) \in Int
         /\ max # None => AtMost(x, max) <= max
         /\ (max # None => x <= max) => AtMost(x, max) = x
         /\ \A k \in Nat : AtMost(AtMost(x, max) + k, max) = AtMost(x + k, max)
  <1>1. CASE max = None
    BY <1>1 DEF AtMost
  <1>2. CASE max # None
    <2>1. \A y : AtMost(y, max) = IF y < max THEN y ELSE max
      BY <1>2 DEF AtMost, Lesser
    <2>2. QED BY <1>2, <2>1
  <1>3. QED BY <1>1, <1>2

(* The bucket is never fuller than gen_max.                                *)
LEMMA LevelBounds ==
  ASSUME NEW rules, FiniteRules(rules), NEW start \in Int, NEW history \in Seq(Int),
         NEW t \in Int, start <= t
  PROVE  /\ Level(rules, start, history, t) \in Int
         /\ rules.gen_max # None => Level(rules, start, history, t) <= rules.gen_max
  <1> DEFINE L(u) == Level(rules, start, history, u)
             K(u) == PlayedAt(history, u)
             Bounded(x) == x \in Int /\ (rules.gen_max # None => x <= rules.gen_max)
             S == {u \in start .. t : Bounded(L(u))}
  <1>1. /\ L(start) = rules.gen_initial - K(start)
        /\ \A u \in Int : u > start => L(u) = Filled(rules, start, u, L(u - 1)) - K(u)
    BY LevelStarts, LevelRuns
  <1>2. \A u : K(u) \in Nat
    BY PlayedAtFacts
  <1> HIDE DEF L, K
  <1>3. start \in S
    BY <1>1, <1>2, FiniteFacts
  <1>4. ASSUME NEW u \in start + 1 .. t, u - 1 \in S PROVE u \in S
    <2>1. L(u) = Filled(rules, start, u, L(u - 1)) - K(u) /\ Bounded(L(u - 1))
      BY <1>1, <1>4
    <2>2. Bounded(Filled(rules, start, u, L(u - 1)))
      BY <2>1, FiniteFacts DEF Filled, AtMost, Lesser
    <2>3. QED BY <1>2, <2>1, <2>2, FiniteFacts
  <1> HIDE DEF S
  <1>5. \A u \in start .. t : u \in S
    BY <1>3, <1>4, InductionFrom
  <1>6. QED BY <1>5 DEF S, L

(* The closed form of the code, while no token is played.                  *)
LEMMA Growth ==
  ASSUME NEW rules, FiniteRules(rules), NEW start \in Int, NEW history \in Seq(Int),
         NEW p \in Int, NEW t \in Int, start <= p, p <= t,
         \A n \in 1 .. Len(history) : history[n] <= p
  PROVE  Level(rules, start, history, t) =
           AtMost(Level(rules, start, history, p)
                    + rules.gen_number * (Periods(rules, start, t) - Periods(rules, start, p)),
                  rules.gen_max)
  <1> DEFINE L(u) == Level(rules, start, history, u)
             P(u) == Periods(rules, start, u)
             gn == rules.gen_number
             max == rules.gen_max
             ends(u) == (u - start) % rules.gen_interval = 0
             S == {u \in p .. t : L(u) = AtMost(L(p) + gn * (P(u) - P(p)), max)}
  <1>1. gn \in Nat /\ (max # None => max \in Nat) /\ \A u \in Int : P(u) \in Int
    BY FiniteFacts, PeriodFacts
  <1>2. L(p) \in Int /\ (max # None => L(p) <= max)
    BY LevelBounds
  <1>3. ASSUME NEW u \in p + 1 .. t
        PROVE  /\ L(u) = IF ends(u) THEN AtMost(L(u - 1) + gn, max) ELSE L(u - 1)
               /\ P(u) = P(u - 1) + (IF ends(u) THEN 1 ELSE 0)
               /\ L(u - 1) \in Int
    <2>1. u \in Int /\ u - 1 \in Int /\ (u - 1) + 1 = u /\ u > start /\ start <= u - 1
      OBVIOUS
    <2>2. L(u) = Filled(rules, start, u, L(u - 1)) - PlayedAt(history, u)
      BY <2>1, LevelRuns
    <2>3. L(u - 1) \in Int
      BY <2>1, LevelBounds
    <2>4. PlayedAt(history, u) = 0
      <3>1. p < u
        OBVIOUS
      <3>2. QED BY <2>1, <3>1, NoPlays
    <2>5. \A v \in Int : P(v + 1) =
            P(v) + (IF ((v + 1) - start) % rules.gen_interval = 0 THEN 1 ELSE 0)
      BY PeriodFacts
    <2> HIDE DEF P
    <2>6. P(u) = P(u - 1) + (IF ends(u) THEN 1 ELSE 0)
      BY <2>1, <2>5
    <2>7. Filled(rules, start, u, L(u - 1)) = IF ends(u) THEN AtMost(L(u - 1) + gn, max) ELSE L(u - 1)
      BY <2>1 DEF Filled
    <2> HIDE DEF L, P, ends, gn, max
    <2>8. Filled(rules, start, u, L(u - 1)) \in Int
      <3>1. L(u - 1) + gn \in Int
        BY <1>1, <2>3
      <3>2. AtMost(L(u - 1) + gn, max) \in Int
        BY <1>1, <3>1, AtMostFacts
      <3>3. QED BY <2>3, <2>7, <3>2
    <2>9. L(u) = Filled(rules, start, u, L(u - 1))
      BY <2>2, <2>4, <2>8
    <2>10. QED BY <2>3, <2>6, <2>7, <2>9
  <1> HIDE DEF L, P, gn, max, ends
  <1>4. p \in S
    <2>1. P(p) - P(p) = 0 /\ gn * 0 = 0 /\ L(p) + 0 = L(p)
      BY <1>1, <1>2
    <2>2. L(p) = AtMost(L(p), max)
      BY <1>1, <1>2, AtMostFacts
    <2>3. QED BY <2>1, <2>2
  <1>5. ASSUME NEW u \in p + 1 .. t, u - 1 \in S PROVE u \in S
    <2> DEFINE d == P(u - 1) - P(p)
               k == gn * d
    <2>1. L(u - 1) = AtMost(L(p) + k, max)
      BY <1>5
    <2>2. P(u) \in Int /\ P(u - 1) \in Int /\ P(p) \in Int /\ d \in Int
      BY <1>1
    <2>3. k \in Int
      BY <1>1, <2>2, Products
    <2>7. gn * (d + 1) = k + gn
      BY <1>1, <2>2, Products
    <2>4. CASE ends(u)
      <3>1. P(u) - P(p) = d + 1 /\ L(u) = AtMost(L(u - 1) + gn, max)
        BY <1>3, <2>2, <2>4
      <3> HIDE DEF k, d
      <3>2. L(p) \in Int /\ gn \in Int /\ k \in Int
        BY <1>1, <1>2, <2>3
      <3>3. L(p) + k \in Int /\ (L(p) + k) + gn = L(p) + (k + gn)
        BY <3>2
      <3>4. gn \in Nat /\ (max # None => max \in Nat)
        BY <1>1
      <3>5. AtMost(AtMost(L(p) + k, max) + gn, max) = AtMost((L(p) + k) + gn, max)
        BY <3>3, <3>4, AtMostFacts
      <3>6. QED BY <2>1, <2>7, <3>1, <3>3, <3>5
    <2>5. CASE ~ends(u)
      <3>1. P(u) - P(p) = d /\ L(u) = L(u - 1)
        BY <1>3, <2>2, <2>5
      <3>2. QED BY <2>1, <3>1
    <2>8. QED BY <2>4, <2>5
  <1> HIDE DEF S
  <1>6. \A u \in p .. t : u \in S
    BY <1>4, <1>5, InductionFrom
  <1>7. QED BY <1>6 DEF S, L, P, gn, max

(* ... so that it does not get emptier, and fuller exactly when the code   *)
(* says that another token will be generated.                              *)
LEMMA GrowthIsKnown ==
  ASSUME NEW rules, FiniteRules(rules), NEW start \in Int, NEW history \in Seq(Int),
         NEW p \in Int, NEW t \in Int, start <= p, p <= t,
         \A n \in 1 .. Len(history) : history[n] <= p
  PROVE  /\ Level(rules, start, history, p) <= Level(rules, start, history, t)
         /\ Level(rules, start, history, p) < Level(rules, start, history, t) <=>
              /\ rules.gen_number > 0
              /\ rules.gen_max = None \/ Level(rules, start, history, p) < rules.gen_max
              /\ t >= start + rules.gen_interval * ((p - start) \div rules.gen_interval + 1)
  <1> DEFINE x == Level(rules, start, history, p)
             y == Level(rules, start, history, t)
             gn == rules.gen_number
             max == rules.gen_max
             g == rules.gen_interval
             a == Periods(rules, start, p)
             b == Periods(rules, start, t)
             k == gn * (b - a)
             next == g * (a + 1)
  <1>1. /\ x \in Int /\ (max # None => x <= max) /\ gn \in Nat /\ (max # None => max \in Nat)
        /\ g \in Nat \ {0} /\ a \in Int /\ b \in Int /\ a <= b
    BY LevelBounds, FiniteFacts, PeriodFacts
  <1>2. y = AtMost(x + k, max)
    BY Growth
  <1>3. t >= start + next <=> a < b
    <2>1. t - start \in Int /\ a + 1 \in Int /\ next \in Int
      BY <1>1, Products
    <2>2. a + 1 <= b <=> next <= t - start
      BY <1>1, <2>1, PeriodReached DEF Periods
    <2> HIDE DEF a, b, next
    <2>3. QED BY <1>1, <2>1, <2>2
  <1>4. next = g * ((p - start) \div g + 1)
    BY DEF Periods
  <1> HIDE DEF x, y, a, b, g, next, gn
  <1>5. k \in Int /\ k >= 0 /\ (k > 0 <=> gn > 0 /\ a < b)
    <2>1. b - a \in Int /\ 0 <= b - a
      BY <1>1
    <2>2. k \in Int /\ k >= 0
      BY <1>1, <2>1, Products
    <2>3. a < b => gn * 1 <= k
      BY <1>1, <2>1, Products
    <2>4. gn * 1 = gn
      BY <1>1
    <2>5. a = b => k = 0
      <3>1. a = b => b - a = 0
        BY <1>1
      <3>2. gn * 0 = 0
        BY <1>1
      <3>3. QED BY <3>1, <3>2
    <2>6. gn = 0 => k = 0
      BY <2>1
    <2> HIDE DEF k
    <2>7. QED BY <1>1, <2>2, <2>3, <2>4, <2>5, <2>6
  <1> HIDE DEF k, max
  <1>6. x <= y /\ (x < y <=> /\ gn > 0 /\ (max = None \/ x < max) /\ a < b)
    BY <1>1, <1>2, <1>5 DEF AtMost, Lesser
  <1>7. x <= y /\ (x < y <=> /\ gn > 0 /\ (max = None \/ x < max) /\ t >= start + next)
    BY <1>3, <1>6
  <1>8. QED BY <1>4, <1>7 DEF x, y, gn, max, g

(* One more token played at the end.                                       *)
LEMMA PlayedLater ==
  ASSUME NEW rules, FiniteRules(rules), NEW start \in Int, NEW H \in Seq(Int), NEW K \in Seq(Int),
         NEW t \in Int, start <= t,
         \A u \in Int : PlayedAt(K, u) = PlayedAt(H, u) + (IF u = t THEN 1 ELSE 0)
  PROVE  /\ \A u \in Int : start <= u /\ u < t =>
              Level(rules, start, K, u) = Level(rules, start, H, u)
         /\ Level(rules, start, K, t) = Level(rules, start, H, t) - 1
  <1> DEFINE A(u) == Level(rules, start, H, u)
             B(u) == Level(rules, start, K, u)
             a(u) == PlayedAt(H, u)
             b(u) == PlayedAt(K, u)
             F(u, x) == Filled(rules, start, u, x)
             less(u) == IF u = t THEN 1 ELSE 0
             S == {u \in start .. t : B(u) = A(u) - less(u)}
  <1>1. /\ A(start) = rules.gen_initial - a(start) /\ B(start) = rules.gen_initial - b(start)
        /\ \A u \in Int : u > start => A(u) = F(u, A(u - 1)) - a(u)
        /\ \A u \in Int : u > start => B(u) = F(u, B(u - 1)) - b(u)
    <2>1. /\ A(start) = rules.gen_initial - a(start)
          /\ \A u \in Int : u > start => A(u) = F(u, A(u - 1)) - a(u)
      BY LevelStarts, LevelRuns
    <2>2. /\ B(start) = rules.gen_initial - b(start)
          /\ \A u \in Int : u > start => B(u) = F(u, B(u - 1)) - b(u)
      BY LevelStarts, LevelRuns
    <2>3. QED BY <2>1, <2>2
  <1>2. \A u \in Int : a(u) \in Nat /\ b(u) \in Nat /\ b(u) = a(u) + less(u)
    BY PlayedAtFacts
  <1>3. \A u \in Int : start <= u => A(u) \in Int
    BY LevelBounds
  <1>4. \A u, x \in Int : F(u, x) \in Int
    BY FiniteFacts DEF Filled, AtMost, Lesser
  <1>5. \A u \in Int : less(u) \in Int /\ (u < t => less(u) = 0) /\ (u = t => less(u) = 1)
    OBVIOUS
  <1> HIDE DEF A, B, a, b, F, less
  <1>6. start \in S
    <2>1. /\ a(start) \in Nat /\ b(start) = a(start) + less(start) /\ less(start) \in Int
          /\ rules.gen_initial \in Nat
      BY <1>2, <1>5, FiniteFacts
    <2>2. B(start) = A(start) - less(start)
      BY <1>1, <2>1
    <2>3. QED BY <2>2
  <1>7. ASSUME NEW u \in start + 1 .. t, u - 1 \in S PROVE u \in S
    <2>1. u > start /\ u - 1 \in Int /\ start <= u - 1 /\ u - 1 < t
      OBVIOUS
    <2>2. A(u - 1) \in Int /\ B(u - 1) = A(u - 1)
      BY <1>3, <1>5, <1>7, <2>1
    <2>3. A(u) = F(u, A(u - 1)) - a(u) /\ B(u) = F(u, A(u - 1)) - b(u)
      BY <1>1, <2>1, <2>2
    <2>4. F(u, A(u - 1)) \in Int
      BY <1>4, <2>2
    <2>5. B(u) = A(u) - less(u)
      BY <1>2, <1>5, <2>3, <2>4
    <2>6. QED BY <2>5
  <1> HIDE DEF S
  <1>8. \A u \in start .. t : u \in S
    BY <1>6, <1>7, InductionFrom
  <1>9. \A u \in start .. t : B(u) = A(u) - less(u)
    BY <1>8 DEF S
  <1>10. \A u \in Int : start <= u /\ u < t => B(u) = A(u)
    <2>1. SUFFICES ASSUME NEW u \in Int, start <= u, u < t PROVE B(u) = A(u)
      OBVIOUS
    <2>2. u \in start .. t /\ less(u) = 0 /\ A(u) \in Int
      BY <1>3, <1>5, <2>1
    <2>3. QED BY <1>9, <2>2
  <1>11. B(t) = A(t) - 1
    <2>1. t \in start .. t /\ less(t) = 1
      BY <1>5
    <2>2. QED BY <1>9, <2>1
  <1>12. QED BY <1>10, <1>11 DEF A, B

LEMMA AppendPlays ==
  ASSUME NEW H \in Seq(Int), NEW t \in Int, NEW u
  PROVE  PlayedAt(Append(H, t), u) = PlayedAt(H, u) + (IF u = t THEN 1 ELSE 0)
  <1> DEFINE last == Len(H) + 1
             before == {n \in DOMAIN H : H[n] = u}
             after == {n \in DOMAIN Append(H, t) : Append(H, t)[n] = u}
  <1>1. /\ Len(H) \in Nat /\ DOMAIN H = 1 .. Len(H) /\ DOMAIN Append(H, t) = 1 .. last
        /\ Append(H, t)[last] = t /\ \A n \in 1 .. Len(H) : Append(H, t)[n] = H[n]
    OBVIOUS
  <1>2. last \notin before /\ after = before \cup (IF u = t THEN {last} ELSE {})
    BY <1>1
  <1>3. IsFiniteSet(before) /\ Cardinality(before) \in Nat
    BY PlayedAtFacts DEF PlayedAt
  <1>4. Cardinality(before \cup {last}) = Cardinality(before) + 1
    BY <1>2, <1>3, FS_AddElement
  <1> HIDE DEF before, after, last
  <1>5. CASE u = t
    <2>1. Cardinality(after) = Cardinality(before) + 1
      BY <1>2, <1>4, <1>5
    <2>2. QED BY <1>5, <2>1 DEF PlayedAt, before, after
  <1>6. CASE u # t
    <2>1. after = before
      BY <1>2, <1>6
    <2>2. Cardinality(after) = Cardinality(before) + 0
      BY <1>3, <2>1
    <2>3. QED BY <1>6, <2>2 DEF PlayedAt, before, after
  <1>7. QED BY <1>5, <1>6

LEMMA PlayedLast ==
  ASSUME NEW rules, FiniteRules(rules), NEW start \in Int, NEW H \in Seq(Int),
         NEW t \in Int, start <= t
  PROVE  Level(rules, start, Append(H, t), t) = Level(rules, start, H, t) - 1
  <1> DEFINE K == Append(H, t)
  <1>1. K \in Seq(Int)
    OBVIOUS
  <1>2. \A u \in Int : PlayedAt(K, u) = PlayedAt(H, u) + (IF u = t THEN 1 ELSE 0)
    BY AppendPlays
  <1> HIDE DEF K
  <1>3. Level(rules, start, K, t) = Level(rules, start, H, t) - 1
    BY <1>1, <1>2, PlayedLater
  <1>4. QED BY <1>3 DEF K

LEMMA IsAppend ==
  ASSUME NEW A \in Seq(Int), NEW B \in Seq(Int), Len(A) = Len(B) + 1,
         \A m \in 1 .. Len(B) : A[m] = B[m]
  PROVE  A = Append(B, A[Len(B) + 1])
  <1> DEFINE C == Append(B, A[Len(B) + 1])
  <1>1. A[Len(B) + 1] \in Int
    OBVIOUS
  <1>2. C \in Seq(Int) /\ Len(C) = Len(A) /\ \A m \in 1 .. Len(A) : C[m] = A[m]
    BY <1>1
  <1> HIDE DEF C
  <1>3. C = A
    BY <1>2
  <1>4. QED BY <1>3 DEF C

(* The recursion of AfterPlays.                                            *)
LEMMA AfterPlaysRuns ==
  ASSUME NEW rules, NEW start, NEW history \in Seq(Int)
  PROVE  \E f : /\ f[0] = [avail |-> rules.gen_initial, prev |-> start]
                /\ \A n \in 1 .. Len(history) : f[n] = Play(rules, start, f[n - 1], history[n])
                /\ AfterPlays(rules, start, history) = f[Len(history)]
  <1> DEFINE N == Len(history)
             first == [avail |-> rules.gen_initial, prev |-> start]
             next(n, s) == IF n = 0 THEN first ELSE Play(rules, start, s, history[n])
             Runs(n, f) == f = [m \in 0 .. n |-> next(m, f[m - 1])]
             S == {n \in 0 .. N : \E f : Runs(n, f)}
  <1>1. N \in Nat
    OBVIOUS
  <1>2. 0 \in S
    <2> DEFINE f == [m \in 0 .. 0 |-> first]
    <2>1. f = [m \in 0 .. 0 |-> next(m, f[m - 1])]
      OBVIOUS
    <2>2. \E x : Runs(0, x)
      BY <2>1
    <2> HIDE DEF Runs
    <2>3. QED BY <1>1, <2>2
  <1>3. ASSUME NEW n \in 1 .. N, n - 1 \in S PROVE n \in S
    <2>1. PICK f : Runs(n - 1, f)
      BY <1>3
    <2> DEFINE last == next(n, f[n - 1])
               h == [m \in 0 .. n |-> IF m = n THEN last ELSE f[m]]
    <2>2. ASSUME NEW m \in 0 .. n PROVE h[m] = next(m, h[m - 1])
      <3>1. CASE m = n
        <4>1. h[m - 1] = f[n - 1] /\ h[m] = last
          BY <3>1
        <4> HIDE DEF next, h
        <4>2. QED BY <3>1, <4>1
      <3>2. CASE m # n /\ m # 0
        <4>1. m \in 0 .. n - 1 /\ m - 1 \in 0 .. n /\ m - 1 # n
          BY <3>2
        <4> HIDE DEF next
        <4>2. f[m] = next(m, f[m - 1])
          BY <2>1, <4>1
        <4>3. h[m] = f[m] /\ h[m - 1] = f[m - 1]
          BY <3>2, <4>1
        <4>4. QED BY <4>2, <4>3
      <3>3. CASE m # n /\ m = 0
        <4>1. 0 \in 0 .. n - 1
          OBVIOUS
        <4>2. f[0] = first
          BY <2>1, <4>1
        <4>3. QED BY <3>3, <4>2
      <3>4. QED BY <3>1, <3>2, <3>3
    <2>3. h = [m \in 0 .. n |-> h[m]]
      OBVIOUS
    <2> HIDE DEF h, next
    <2>4. Runs(n, h)
      BY <2>2, <2>3
    <2>5. QED BY <2>4
  <1> HIDE DEF S
  <1>4. \A n \in 0 .. N : n \in S
    BY <1>1, <1>2, <1>3, InductionUpTo
  <1>5. \E f : Runs(N, f)
    BY <1>1, <1>4 DEF S
  <1> DEFINE f == CHOOSE f : Runs(N, f)
  <1>6. Runs(N, f)
    BY Zenon, <1>5
  <1>7. AfterPlays(rules, start, history) = f[N]
    BY DEF AfterPlays
  <1> HIDE DEF f, N
  <1>8. f[0] = first
    BY <1>1, <1>6
  <1>9. \A n \in 1 .. N : f[n] = Play(rules, start, f[n - 1], history[n])
    BY <1>1, <1>6
  <1>10. QED BY <1>7, <1>8, <1>9 DEF N

(* Histories as the code makes them.                                       *)
Sorted(history) == \A m, n \in 1 .. Len(history) : m <= n => history[m] <= history[n]

History(start, history, t) ==
  /\ history \in Seq(Int) /\ Sorted(history) /\ start <= t
  /\ \A n \in 1 .. Len(history) : start <= history[n] /\ history[n] <= t

(* "Simulate!" is right: what _tokens_available computes by walking from   *)
(* one played token to the next is what is in a bucket that is filled and  *)
(* emptied instant by instant.                                             *)
THEOREM SimulationIsRight ==
  ASSUME NEW rules, FiniteRules(rules), NEW start \in Int, NEW t \in Int, NEW H,
         History(start, H, t)
  PROVE  LET played == AfterPlays(rules, start, H) IN
         AtMost(played.avail + GenerateTokens(rules, start, played.prev, t), rules.gen_max)
           = Level(rules, start, H, t)
  <1> DEFINE N == Len(H)
             K(n) == SubSeq(H, 1, n)
             max == rules.gen_max
             gn == rules.gen_number
             P(u) == Periods(rules, start, u)
  <1>1. /\ H \in Seq(Int) /\ N \in Nat /\ start <= t /\ gn \in Nat /\ (max # None => max \in Nat)
        /\ \A n \in 1 .. N : H[n] \in Int /\ start <= H[n] /\ H[n] <= t
        /\ \A m, n \in 1 .. N : m <= n => H[m] <= H[n]
    BY FiniteFacts DEF History, Sorted
  <1>2. PICK f : /\ f[0] = [avail |-> rules.gen_initial, prev |-> start]
                 /\ \A n \in 1 .. N : f[n] = Play(rules, start, f[n - 1], H[n])
                 /\ AfterPlays(rules, start, H) = f[N]
    BY <1>1, AfterPlaysRuns
  <1> DEFINE Right(n, u) ==
               AtMost(f[n].avail + gn * (P(u) - P(f[n].prev)), max) = Level(rules, start, K(n), u)
             S == {n \in 0 .. N : \A u \in Int : start <= u /\ (n > 0 => H[n] <= u) => Right(n, u)}
  <1>3. \A n \in 0 .. N : /\ K(n) \in Seq(Int) /\ Len(K(n)) = n
                          /\ \A m \in 1 .. n : K(n)[m] = H[m]
    BY <1>1
  <1>4. 0 \in S
    <2>1. ASSUME NEW u \in Int, start <= u PROVE Right(0, u)
      <3>1. K(0) \in Seq(Int) /\ Len(K(0)) = 0
        BY <1>1, <1>3
      <3>2. PlayedAt(K(0), start) = 0
        <4>1. \A n \in 1 .. Len(K(0)) : K(0)[n] # start
          BY <3>1
        <4> HIDE DEF K
        <4>2. QED BY <3>1, <4>1, PlayedAtFacts
      <3> HIDE DEF K
      <3>6. \A n \in 1 .. Len(K(0)) : K(0)[n] <= start
        BY <3>1
      <3>3. Level(rules, start, K(0), u) =
              AtMost(Level(rules, start, K(0), start) + gn * (P(u) - P(start)), max)
        BY <2>1, <3>1, <3>6, Growth
      <3>4. Level(rules, start, K(0), start) = rules.gen_initial
        BY <3>2, LevelStarts, FiniteFacts
      <3>5. QED BY <1>2, <3>3, <3>4
    <2>2. QED BY <1>1, <2>1
  <1>5. ASSUME NEW n \in 1 .. N, n - 1 \in S PROVE n \in S
    <2> DEFINE h == H[n]
               B == K(n - 1)
               A == K(n)
    <2>1. h \in Int /\ start <= h
      BY <1>1
    <2>2. Right(n - 1, h)
      <3>1. n - 1 > 0 => H[n - 1] <= h
        BY <1>1
      <3>2. QED BY <1>5, <2>1, <3>1
    <2>3. f[n] = Play(rules, start, f[n - 1], h)
      BY <1>2
    <2>4. /\ f[n].prev = h
          /\ f[n].avail = AtMost(f[n - 1].avail + gn * (P(h) - P(f[n - 1].prev)), max) - 1
      BY <2>3 DEF Play, GenerateTokens, Periods
    <2>5. /\ A \in Seq(Int) /\ B \in Seq(Int) /\ A = Append(B, h)
          /\ Len(A) = n /\ \A m \in 1 .. n : A[m] = H[m]
      <3>1. A \in Seq(Int) /\ B \in Seq(Int) /\ Len(A) = n /\ Len(B) = n - 1
            /\ (\A m \in 1 .. n : A[m] = H[m]) /\ (\A m \in 1 .. n - 1 : B[m] = H[m])
        BY <1>1, <1>3
      <3> HIDE DEF A, B
      <3>2. /\ Len(A) = Len(B) + 1 /\ A[Len(B) + 1] = h
            /\ \A m \in 1 .. Len(B) : A[m] = B[m]
        <4>1. Len(B) + 1 = n /\ n \in 1 .. n
          BY <3>1
        <4>2. A[n] = h
          BY <3>1, <4>1
        <4>3. ASSUME NEW m \in 1 .. Len(B) PROVE A[m] = B[m]
          <5>1. m \in 1 .. n /\ m \in 1 .. n - 1
            BY <3>1, <1>1
          <5>2. A[m] = H[m] /\ B[m] = H[m]
            BY <3>1, <5>1
          <5>3. QED BY <5>2
        <4>4. QED BY <3>1, <4>1, <4>2, <4>3
      <3>3. A = Append(B, h)
        BY <3>1, <3>2, IsAppend
      <3>4. QED BY <3>1, <3>3
    <2>6. \A m \in 1 .. n : H[m] <= h
      BY <1>1
    <2> HIDE DEF A, B, h
    <2>7. Level(rules, start, A, h) = Level(rules, start, B, h) - 1
      BY <2>1, <2>5, PlayedLast
    <2>8. f[n].avail = Level(rules, start, A, h)
      BY <2>2, <2>4, <2>7 DEF B
    <2>9. ASSUME NEW u \in Int, h <= u PROVE Right(n, u)
      <3>1. \A m \in 1 .. Len(A) : A[m] <= h
        BY <2>5, <2>6
      <3>2. Level(rules, start, A, u) =
              AtMost(Level(rules, start, A, h) + gn * (P(u) - P(h)), max)
        <4>1. A \in Seq(Int)
          BY <2>5
        <4>2. QED BY <2>1, <2>9, <3>1, <4>1, Growth
      <3>3. QED BY <2>4, <2>8, <3>2 DEF A
    <2>10. QED BY <2>9 DEF h
  <1> HIDE DEF S
  <1>6. \A n \in 0 .. N : n \in S
    BY <1>1, <1>4, <1>5, InductionUpTo
  <1>7. Right(N, t)
    BY <1>1, <1>6 DEF S
  <1>8. K(N) = H
    BY <1>1
  <1>9. QED BY <1>2, <1>7, <1>8 DEF GenerateTokens, Periods

(* What _tokens_available says of one scope is true of the bucket, if the  *)
(* contestant does nothing: how many tokens are left, when there will be   *)
(* more, and when one may be played.                                       *)
Unhindered(rules, H, u) ==
  rules.mode = "finite" => \A n \in DOMAIN H : u - H[n] >= rules.min_interval

Truthful(rules, start, H, t, claimed) ==
  /\ claimed.avail = Left(rules, start, H, t) /\ claimed.avail \in {-1} \cup Nat
  /\ claimed.next \in {None} \cup Int /\ claimed.expiration \in {None} \cup Int
  /\ \A u \in Int : u > t =>
       IF claimed.avail = -1 THEN Left(rules, start, H, u) = -1
       ELSE /\ Left(rules, start, H, u) \in Nat /\ claimed.avail <= Left(rules, start, H, u)
            /\ Left(rules, start, H, u) > claimed.avail <=>
                 claimed.next # None /\ u >= claimed.next
  /\ \/ claimed.avail = 0 /\ claimed.next = None
     \/ \A u \in Int : u >= t =>
          (Unhindered(rules, H, u) <=> claimed.expiration = None \/ u >= claimed.expiration)

LEMMA FiniteIsTruthful ==
  ASSUME NEW rules, FiniteRules(rules), NEW start \in Int, NEW t \in Int, NEW H,
         History(start, H, t), Level(rules, start, H, t) >= 0,
         rules.max_number = None \/ Len(H) <= rules.max_number
  PROVE  Truthful(rules, start, H, t, FiniteTokens(rules, start, H, t))
  <1> DEFINE x == Level(rules, start, H, t)
             left == rules.max_number - Len(H)
             capped == rules.max_number # None /\ x >= left
             avail == IF capped THEN left ELSE x
             growing == rules.gen_number > 0 /\ (rules.gen_max = None \/ x < rules.gen_max)
             period == start + rules.gen_interval * ((t - start) \div rules.gen_interval + 1)
             next == IF growing /\ ~capped THEN period ELSE None
             last == IF H = <<>> THEN start ELSE Last(H) + rules.min_interval
             expiration == IF last <= t \/ (avail = 0 /\ next = None) THEN None ELSE last
             claimed == FiniteTokens(rules, start, H, t)
             L(u) == Left(rules, start, H, u)
  <1>1. claimed = [avail |-> avail, next |-> next, expiration |-> expiration]
    BY SimulationIsRight DEF FiniteTokens
  <1>2. /\ H \in Seq(Int) /\ Len(H) \in Nat /\ start <= t /\ DOMAIN H = 1 .. Len(H)
        /\ \A n \in 1 .. Len(H) : H[n] \in Int /\ start <= H[n] /\ H[n] <= t
        /\ \A m, n \in 1 .. Len(H) : m <= n => H[m] <= H[n]
    BY DEF History, Sorted
  <1>3. x \in Int /\ x >= 0
    BY <1>2, LevelBounds
  <1>4. rules.max_number # None => left \in Nat
    BY <1>2, FiniteFacts
  <1>5. \A u : L(u) = IF rules.max_number = None THEN Level(rules, start, H, u)
                      ELSE Lesser(Level(rules, start, H, u), left)
    BY FiniteFacts DEF Left
  <1>6. period \in Int
    <2> DEFINE g == rules.gen_interval
               q == (t - start) \div g
    <2>1. g \in Nat \ {0} /\ t - start \in Int
      BY FiniteFacts
    <2>2. q \in Int
      BY <2>1, Division
    <2> HIDE DEF q, g
    <2>3. g * (q + 1) \in Int
      BY <2>1, <2>2, Products
    <2>4. QED BY <2>3 DEF q, g
  <1>7. \A u \in Int : u > t => /\ Level(rules, start, H, u) \in Int
                                /\ x <= Level(rules, start, H, u)
                                /\ x < Level(rules, start, H, u) <=> growing /\ u >= period
    <2> TAKE u \in Int
    <2> HAVE u > t
    <2>1. Level(rules, start, H, u) \in Int
      BY <1>2, LevelBounds
    <2>2. t <= u /\ \A n \in 1 .. Len(H) : H[n] <= t
      BY <1>2
    <2>3. /\ x <= Level(rules, start, H, u)
          /\ x < Level(rules, start, H, u) <=> growing /\ u >= period
      BY <1>2, <2>2, GrowthIsKnown
    <2>4. QED BY <2>1, <2>3
  <1>8. last \in Int
    BY <1>2, FiniteFacts DEF Last
  <1>9. \A u \in Int : u >= t => (Unhindered(rules, H, u) <=> u >= last)
    <2> TAKE u \in Int
    <2> HAVE u >= t
    <2>1. rules.min_interval \in Nat
      BY FiniteFacts
    <2>2. CASE H = <<>>
      BY <1>2, <2>2 DEF Unhindered
    <2>3. CASE H # <<>>
      <3>1. Len(H) \in 1 .. Len(H)
        BY <1>2, <2>3
      <3>2. last = H[Len(H)] + rules.min_interval /\ \A n \in 1 .. Len(H) : H[n] <= H[Len(H)]
        BY <1>2, <2>3, <3>1 DEF Last
      <3> HIDE DEF last
      <3>3. Unhindered(rules, H, u) <=> \A n \in 1 .. Len(H) : u - H[n] >= rules.min_interval
        BY <1>2, FiniteFacts DEF Unhindered
      <3>4. \A n \in 1 .. Len(H) : H[n] \in Int
        BY <1>2
      <3>5. QED BY <2>1, <3>1, <3>2, <3>3, <3>4
    <2>4. QED BY <2>2, <2>3
  <1> HIDE DEF x, left, period, last, growing, L
  <1>10. \A u \in Int : u > t => L(u) \in Nat /\ avail <= L(u)
                                 /\ (L(u) > avail <=> next # None /\ u >= next)
    <2> TAKE u \in Int
    <2> HAVE u > t
    <2> DEFINE y == Level(rules, start, H, u)
    <2>1. y \in Int /\ x <= y /\ (x < y <=> growing /\ u >= period)
      BY <1>7
    <2> HIDE DEF y
    <2>2. L(u) = IF rules.max_number = None THEN y ELSE Lesser(y, left)
      BY <1>5 DEF y
    <2>3. CASE rules.max_number = None
      BY <1>3, <1>6, <2>1, <2>2, <2>3, NoneIsNoTime
    <2>4. CASE rules.max_number # None
      <3>1. L(u) = IF y < left THEN y ELSE left
        BY <2>2, <2>4 DEF Lesser
      <3>2. CASE x >= left
        BY <1>3, <1>4, <2>1, <2>4, <3>1, <3>2
      <3>3. CASE ~(x >= left)
        BY <1>3, <1>4, <1>6, <2>1, <2>4, <3>1, <3>3, NoneIsNoTime
      <3>4. QED BY <3>2, <3>3
    <2>5. QED BY <2>3, <2>4
  <1>11. avail = L(t) /\ avail \in Nat
    <2>1. L(t) = IF rules.max_number = None THEN x ELSE Lesser(x, left)
      BY <1>5 DEF x
    <2>2. QED BY <1>3, <1>4, <2>1 DEF Lesser
  <1>12. next \in {None} \cup Int /\ expiration \in {None} \cup Int
    BY <1>6, <1>8
  <1>13. \/ avail = 0 /\ next = None
         \/ \A u \in Int : u >= t =>
              (Unhindered(rules, H, u) <=> expiration = None \/ u >= expiration)
    <2> HIDE DEF avail, next
    <2>1. SUFFICES ASSUME ~(avail = 0 /\ next = None), NEW u \in Int, u >= t
                   PROVE  Unhindered(rules, H, u) <=> expiration = None \/ u >= expiration
      OBVIOUS
    <2>2. Unhindered(rules, H, u) <=> u >= last
      BY <1>9, <2>1
    <2>3. CASE last <= t
      <3>1. expiration = None /\ u >= last
        BY <1>8, <2>1, <2>3
      <3>2. QED BY <2>2, <3>1
    <2>4. CASE ~(last <= t)
      <3>1. expiration = last /\ last # None
        BY <1>8, <2>1, <2>4, NoneIsNoTime
      <3>2. QED BY <2>2, <3>1
    <2>5. QED BY <2>3, <2>4
  <1> HIDE DEF avail, next, expiration, claimed
  <1>14. claimed.avail = avail /\ claimed.next = next /\ claimed.expiration = expiration
    BY <1>1
  <1>15. Truthful(rules, start, H, t, claimed)
    <2>1. avail # -1 /\ avail \in {-1} \cup Nat
      BY <1>11
    <2>2. QED BY <1>10, <1>11, <1>12, <1>13, <1>14, <2>1 DEF Truthful, L
  <1>16. QED BY <1>15 DEF claimed

-----------------------------------------------------------------------------
(* The contest and the task together.                                      *)

LEMMA TokensOfIsTruthful ==
  ASSUME NEW rules, Permitted(rules), NEW start, NEW t \in Int, NEW H,
         rules.mode = "finite" =>
           /\ start \in Int /\ History(start, H, t) /\ Level(rules, start, H, t) >= 0
           /\ rules.max_number = None \/ Len(H) <= rules.max_number
  PROVE  Truthful(rules, start, H, t, TokensOf(rules, start, H, t))
  <1>1. rules.mode \in {"disabled", "infinite", "finite"}
    BY DEF Permitted
  <1>2. CASE rules.mode = "disabled"
    BY <1>2 DEF Truthful, TokensOf, Left
  <1>3. CASE rules.mode = "infinite"
    BY <1>3 DEF Truthful, TokensOf, Left, Unhindered
  <1>4. CASE rules.mode = "finite"
    <2>1. TokensOf(rules, start, H, t) = FiniteTokens(rules, start, H, t)
      BY <1>4 DEF TokensOf
    <2>2. FiniteRules(rules)
      BY <1>4 DEF FiniteRules
    <2>3. QED BY <1>4, <2>1, <2>2, FiniteIsTruthful
  <1>5. QED BY <1>1, <1>2, <1>3, <1>4

Fewer(c, t) == IF c = -1 THEN t ELSE IF t = -1 THEN c ELSE Lesser(c, t)

(* What tokens_available makes of the contest and of the task (Merged) is  *)
(* true of both together, if what it is told of each is true.              *)
THEOREM MergeIsTruthful ==
  ASSUME NEW R, NEW Q, NEW start, NEW t \in Int, NEW H, NEW K, NEW c, NEW d,
         Truthful(R, start, H, t, c), Truthful(Q, start, K, t, d), NEW u \in Int, u >= t
  PROVE  /\ Merged(c, d).avail = Fewer(Left(R, start, H, t), Left(Q, start, K, t))
         /\ u > t => (Fewer(Left(R, start, H, u), Left(Q, start, K, u)) > Merged(c, d).avail
                       <=> Merged(c, d).next # None /\ u >= Merged(c, d).next)
         /\ \/ Merged(c, d).avail = 0 /\ Merged(c, d).next = None
            \/ Unhindered(R, H, u) /\ Unhindered(Q, K, u)
                 <=> Merged(c, d).expiration = None \/ u >= Merged(c, d).expiration
  <1> DEFINE m == Merged(c, d)
             A(v) == Left(R, start, H, v)
             B(v) == Left(Q, start, K, v)
             p == IF c.avail = -1 THEN d.avail + 1 ELSE c.avail
             q == IF d.avail = -1 THEN p + 1 ELSE d.avail
  <1>1. /\ c.avail = A(t) /\ c.avail \in {-1} \cup Nat
        /\ c.next \in {None} \cup Int /\ c.expiration \in {None} \cup Int
        /\ u > t =>
             IF c.avail = -1 THEN A(u) = -1
             ELSE /\ A(u) \in Nat /\ c.avail <= A(u)
                  /\ A(u) > c.avail <=> c.next # None /\ u >= c.next
        /\ \/ c.avail = 0 /\ c.next = None
           \/ Unhindered(R, H, u) <=> c.expiration = None \/ u >= c.expiration
    BY DEF Truthful
  <1>2. /\ d.avail = B(t) /\ d.avail \in {-1} \cup Nat
        /\ d.next \in {None} \cup Int /\ d.expiration \in {None} \cup Int
        /\ u > t =>
             IF d.avail = -1 THEN B(u) = -1
             ELSE /\ B(u) \in Nat /\ d.avail <= B(u)
                  /\ B(u) > d.avail <=> d.next # None /\ u >= d.next
        /\ \/ d.avail = 0 /\ d.next = None
           \/ Unhindered(Q, K, u) <=> d.expiration = None \/ u >= d.expiration
    BY DEF Truthful
  <1> HIDE DEF A, B
  <1>3. p \in Int /\ q \in Int
    BY <1>1, <1>2
  <1>4. m = IF c.avail = -1 /\ d.avail = -1
            THEN [avail |-> -1, next |-> None, expiration |-> Later(c.expiration, d.expiration)]
            ELSE [avail |-> Lesser(p, q),
                  next |-> CASE p < q -> c.next
                             [] q < p -> d.next
                             [] OTHER -> IF c.next = None \/ d.next = None THEN None
                                         ELSE Greater(c.next, d.next),
                  expiration |-> Later(c.expiration, d.expiration)]
    BY DEF Merged
  <1>5. /\ m.expiration = Later(c.expiration, d.expiration)
        /\ c.avail = -1 /\ d.avail = -1 => m.avail = -1 /\ m.next = None
        /\ c.avail = -1 /\ d.avail # -1 => m.avail = d.avail /\ m.next = d.next
        /\ c.avail # -1 /\ d.avail = -1 => m.avail = c.avail /\ m.next = c.next
        /\ c.avail # -1 /\ d.avail # -1 => 
             /\ c.avail < d.avail => m.avail = c.avail /\ m.next = c.next
             /\ d.avail < c.avail => m.avail = d.avail /\ m.next = d.next
             /\ c.avail = d.avail =>
                  /\ m.avail = c.avail
                  /\ m.next = IF c.next = None \/ d.next = None THEN None
                              ELSE Greater(c.next, d.next)
    <2>1. CASE c.avail = -1 /\ d.avail = -1
      BY <1>4, <2>1
    <2>2. CASE c.avail = -1 /\ d.avail # -1
      BY <1>1, <1>2, <1>4, <2>2 DEF Lesser
    <2>3. CASE c.avail # -1 /\ d.avail = -1
      BY <1>1, <1>2, <1>4, <2>3 DEF Lesser
    <2>4. CASE c.avail # -1 /\ d.avail # -1
      <3>1. p = c.avail /\ q = d.avail
        BY <2>4
      <3> HIDE DEF p, q
      <3>2. CASE c.avail < d.avail
        BY <1>1, <1>2, <1>4, <2>4, <3>1, <3>2 DEF Lesser
      <3>3. CASE d.avail < c.avail
        BY <1>1, <1>2, <1>4, <2>4, <3>1, <3>3 DEF Lesser
      <3>4. CASE c.avail = d.avail
        BY <1>1, <1>2, <1>4, <2>4, <3>1, <3>4 DEF Lesser
      <3>5. QED BY <1>1, <1>2, <2>4, <3>2, <3>3, <3>4
    <2>5. QED BY <2>1, <2>2, <2>3, <2>4
  <1> HIDE DEF m, p, q
  <1>6. m.avail = Fewer(A(t), B(t))
    BY <1>1, <1>2, <1>5 DEF Fewer, Lesser
  <1>7. ASSUME u > t
        PROVE  Fewer(A(u), B(u)) > m.avail <=> m.next # None /\ u >= m.next
    <2>1. CASE c.avail = -1
      BY <1>1, <1>2, <1>5, <1>7, <2>1 DEF Fewer, Lesser
    <2>2. CASE c.avail # -1 /\ d.avail = -1
      BY <1>1, <1>2, <1>5, <1>7, <2>2 DEF Fewer, Lesser
    <2>3. CASE c.avail # -1 /\ d.avail # -1
      <3>1. /\ A(u) \in Nat /\ c.avail <= A(u)
            /\ A(u) > c.avail <=> c.next # None /\ u >= c.next
        BY <1>1, <1>7, <2>3
      <3>2. /\ B(u) \in Nat /\ d.avail <= B(u)
            /\ B(u) > d.avail <=> d.next # None /\ u >= d.next
        BY <1>2, <1>7, <2>3
      <3>3. c.avail \in Nat /\ d.avail \in Nat
        BY <1>1, <1>2, <2>3
      <3>4. Fewer(A(u), B(u)) = Lesser(A(u), B(u))
        BY <3>1, <3>2 DEF Fewer
      <3>5. CASE c.avail < d.avail
        <4>1. m.avail = c.avail /\ m.next = c.next
          BY <1>5, <2>3, <3>5
        <4>2. QED BY <3>1, <3>2, <3>3, <3>4, <3>5, <4>1 DEF Lesser
      <3>6. CASE d.avail < c.avail
        <4>1. m.avail = d.avail /\ m.next = d.next
          BY <1>5, <2>3, <3>6
        <4>2. QED BY <3>1, <3>2, <3>3, <3>4, <3>6, <4>1 DEF Lesser
      <3>7. CASE c.avail = d.avail
        <4>1. /\ m.avail = c.avail
              /\ m.next = IF c.next = None \/ d.next = None THEN None
                          ELSE Greater(c.next, d.next)
          BY <1>5, <2>3, <3>7
        <4>2. Fewer(A(u), B(u)) > m.avail <=> A(u) > c.avail /\ B(u) > d.avail
          BY <3>1, <3>2, <3>3, <3>4, <3>7, <4>1 DEF Lesser
        <4>3. CASE c.next = None \/ d.next = None
          BY <3>1, <3>2, <4>1, <4>2, <4>3
        <4>4. CASE c.next # None /\ d.next # None
          <5>1. c.next \in Int /\ d.next \in Int
            BY <1>1, <1>2, <4>4
          <5>2. m.next = Greater(c.next, d.next) /\ m.next # None
            BY <4>1, <4>4, <5>1 DEF Greater
          <5>3. u >= Greater(c.next, d.next) <=> u >= c.next /\ u >= d.next
            BY <5>1 DEF Greater
          <5>4. QED BY <3>1, <3>2, <4>2, <4>4, <5>2, <5>3
        <4>5. QED BY <4>3, <4>4
      <3>8. QED BY <3>3, <3>5, <3>6, <3>7
    <2>4. QED BY <2>1, <2>2, <2>3
  <1>8. \/ m.avail = 0 /\ m.next = None
        \/ Unhindered(R, H, u) /\ Unhindered(Q, K, u)
             <=> m.expiration = None \/ u >= m.expiration
    <2>1. CASE c.avail = 0 /\ c.next = None
      BY <1>1, <1>2, <1>5, <2>1
    <2>2. CASE d.avail = 0 /\ d.next = None
      BY <1>1, <1>2, <1>5, <2>2
    <2>3. CASE /\ Unhindered(R, H, u) <=> c.expiration = None \/ u >= c.expiration
               /\ Unhindered(Q, K, u) <=> d.expiration = None \/ u >= d.expiration
      <3>1. m.expiration = None \/ u >= m.expiration
              <=> /\ c.expiration = None \/ u >= c.expiration
                  /\ d.expiration = None \/ u >= d.expiration
        BY <1>1, <1>2, <1>5, NoneIsNoTime DEF Later, Greater
      <3>2. QED BY <2>3, <3>1
    <2>4. QED BY <1>1, <1>2, <2>1, <2>2, <2>3
  <1>9. QED BY <1>6, <1>7, <1>8 DEF A, B, m

-----------------------------------------------------------------------------
(* The order of the tokens.                                                *)

(* The order of the query of the played tokens.                            *)
Orders(times, ids, p) ==
  /\ p \in [1 .. Cardinality(ids) -> ids]
  /\ \A m, n \in DOMAIN p : m < n => p[m] # p[n] /\ times[p[m]] <= times[p[n]]

LEMMA LatestExists ==
  ASSUME NEW times, NEW ids, IsFiniteSet(ids), ids # {}, \A i \in ids : times[i] \in Int
  PROVE  \E i \in ids : \A j \in ids : times[j] <= times[i]
  <1> DEFINE N == Cardinality(ids)
             S == {n \in 0 .. N : \A I \in SUBSET ids : Cardinality(I) = n /\ I # {} =>
                     \E i \in I : \A j \in I : times[j] <= times[i]}
  <1>1. N \in Nat
    BY FS_CardinalityType
  <1>2. \A I \in SUBSET ids : IsFiniteSet(I)
    BY FS_Subset
  <1>3. 0 \in S
    <2>1. \A I \in SUBSET ids : Cardinality(I) = 0 => I = {}
      BY <1>2, FS_EmptySet
    <2>2. 0 \in 0 .. N
      BY <1>1
    <2>3. QED BY <2>1, <2>2
  <1>4. ASSUME NEW n \in 1 .. N, n - 1 \in S PROVE n \in S
    <2>1. SUFFICES ASSUME NEW I \in SUBSET ids, Cardinality(I) = n, I # {}
                   PROVE  \E i \in I : \A j \in I : times[j] <= times[i]
      BY <1>1
    <2>2. PICK x \in I : TRUE
      BY <2>1
    <2>3. Cardinality(I \ {x}) = n - 1
      BY <1>2, <2>1, <2>2, FS_RemoveElement
    <2>4. CASE I \ {x} = {}
      <3>1. \A j \in I : j = x
        BY <2>4
      <3>2. times[x] \in Int
        BY <2>1, <2>2
      <3>3. QED BY <3>1, <3>2, <2>2
    <2>5. CASE I \ {x} # {}
      <3>1. PICK y \in I \ {x} : \A j \in I \ {x} : times[j] <= times[y]
        BY <1>4, <2>1, <2>3, <2>5
      <3>2. times[x] \in Int /\ times[y] \in Int /\ \A j \in I : times[j] \in Int
        BY <2>1, <2>2, <3>1
      <3>3. CASE times[x] <= times[y]
        BY <3>1, <3>2, <3>3
      <3>4. CASE ~(times[x] <= times[y])
        <4>1. \A j \in I : times[j] <= times[x]
          BY <3>1, <3>2, <3>4
        <4>2. QED BY <2>2, <4>1
      <3>5. QED BY <3>3, <3>4
    <2>6. QED BY <2>4, <2>5
  <1>5. \A n \in 0 .. N : n \in S
    <2> HIDE DEF S, N
    <2> QED BY <1>1, <1>3, <1>4, InductionUpTo
  <1>6. N \in S
    BY <1>1, <1>5
  <1>7. QED BY <1>6

LEMMA OrdersExist ==
  ASSUME NEW times, NEW ids, IsFiniteSet(ids), \A i \in ids : times[i] \in Int
  PROVE  \E p : Orders(times, ids, p)
  <1> DEFINE N == Cardinality(ids)
             S == {n \in 0 .. N : \A I \in SUBSET ids : Cardinality(I) = n =>
                     \E p : Orders(times, I, p)}
  <1>1. N \in Nat
    BY FS_CardinalityType
  <1>2. \A I \in SUBSET ids : IsFiniteSet(I)
    BY FS_Subset
  <1>3. 0 \in S
    <2>1. 0 \in 0 .. N
      BY <1>1
    <2>2. SUFFICES ASSUME NEW I \in SUBSET ids, Cardinality(I) = 0
                   PROVE  \E p : Orders(times, I, p)
      BY <2>1
    <2>3. Orders(times, I, [n \in 1 .. 0 |-> n])
      BY <2>2 DEF Orders
    <2>4. QED BY <2>3
  <1>4. ASSUME NEW n \in 1 .. N, n - 1 \in S PROVE n \in S
    <2>1. SUFFICES ASSUME NEW I \in SUBSET ids, Cardinality(I) = n
                   PROVE  \E p : Orders(times, I, p)
      BY <1>1
    <2>2. IsFiniteSet(I) /\ I # {}
      BY <1>2, <2>1, FS_EmptySet
    <2>3. PICK x \in I : \A j \in I : times[j] <= times[x]
      BY <2>2, LatestExists
    <2>4. Cardinality(I \ {x}) = n - 1 /\ I \ {x} \in SUBSET ids
      BY <2>1, <2>2, <2>3, FS_RemoveElement
    <2>5. PICK q : Orders(times, I \ {x}, q)
      BY <1>4, <2>4
    <2> DEFINE p == [m \in 1 .. n |-> IF m = n THEN x ELSE q[m]]
    <2>6. q \in [1 .. n - 1 -> I \ {x}] /\ DOMAIN q = 1 .. n - 1
      BY <2>4, <2>5 DEF Orders
    <2>7. p \in [1 .. n -> I] /\ DOMAIN p = 1 .. n
      BY <2>3, <2>6
    <2>8. ASSUME NEW k \in 1 .. n, NEW m \in 1 .. n, k < m
          PROVE  p[k] # p[m] /\ times[p[k]] <= times[p[m]]
      <3>1. k \in 1 .. n - 1 /\ p[k] = q[k] /\ q[k] \in I \ {x}
        BY <2>6, <2>8
      <3>2. CASE m = n
        BY <2>3, <3>1, <3>2
      <3>3. CASE m # n
        <4>1. m \in 1 .. n - 1 /\ p[m] = q[m]
          BY <3>3
        <4>2. q[k] # q[m] /\ times[q[k]] <= times[q[m]]
          BY <2>5, <2>6, <2>8, <3>1, <4>1 DEF Orders
        <4>3. QED BY <3>1, <4>1, <4>2
      <3>4. QED BY <3>2, <3>3
    <2>9. Orders(times, I, p)
      <3> HIDE DEF p
      <3> QED BY <2>1, <2>7, <2>8 DEF Orders
    <2>10. QED BY <2>9
  <1>5. \A n \in 0 .. N : n \in S
    <2> HIDE DEF S, N
    <2> QED BY <1>1, <1>3, <1>4, InductionUpTo
  <1>6. N \in S
    BY <1>1, <1>5
  <1>7. QED BY <1>6

(* It has each token once.                                                 *)
LEMMA InOrderFacts ==
  ASSUME NEW times, NEW ids, IsFiniteSet(ids), \A i \in ids : times[i] \in Int
  PROVE  LET H == InOrder(times, ids) IN
         /\ H \in Seq(Int) /\ Len(H) = Cardinality(ids) /\ Sorted(H)
         /\ \A n \in 1 .. Len(H) : \E i \in ids : H[n] = times[i]
         /\ \A i \in ids : \E n \in 1 .. Len(H) : H[n] = times[i]
         /\ \A m, n \in 1 .. Len(H) : m < n =>
              \E i, j \in ids : i # j /\ H[m] = times[i] /\ H[n] = times[j] /\ times[i] <= times[j]
         /\ \A u : PlayedAt(H, u) = Cardinality({i \in ids : times[i] = u})
  <1> DEFINE H == InOrder(times, ids)
             N == Cardinality(ids)
             good(p) == \A m, n \in DOMAIN p : m < n => p[m] # p[n] /\ times[p[m]] <= times[p[n]]
             order == CHOOSE p \in [1 .. N -> ids] : good(p)
  <1>1. N \in Nat
    BY FS_CardinalityType
  <1>2. \E p \in [1 .. N -> ids] : good(p)
    BY OrdersExist DEF Orders
  <1>3. order \in [1 .. N -> ids] /\ good(order)
    BY <1>2
  <1>4. H = [n \in DOMAIN order |-> times[order[n]]]
    BY DEF InOrder
  <1> HIDE DEF order
  <1>5. DOMAIN order = 1 .. N /\ \A n \in 1 .. N : order[n] \in ids
    BY <1>3
  <1>6. \A m, n \in 1 .. N : m < n => order[m] # order[n] /\ times[order[m]] <= times[order[n]]
    BY <1>3, <1>5
  <1>7. order \in Injection(1 .. N, ids)
    <2>1. \A m, n \in 1 .. N : order[m] = order[n] => m = n
      BY <1>6
    <2>2. QED BY <1>3, <2>1 DEF Injection, IsInjective
  <1>8. order \in Surjection(1 .. N, ids)
    <2>1. Cardinality(1 .. N) = N
      BY <1>1, FS_Interval
    <2>2. QED BY <1>7, <2>1, FS_Injection
  <1>9. \A i \in ids : \E n \in 1 .. N : order[n] = i
    BY <1>8 DEF Surjection
  <1> HIDE DEF H
  <1>10. /\ H \in Seq(Int) /\ Len(H) = N /\ DOMAIN H = 1 .. N
         /\ \A n \in 1 .. N : H[n] = times[order[n]] /\ H[n] \in Int
    <2>1. H = [n \in 1 .. N |-> times[order[n]]] /\ \A n \in 1 .. N : times[order[n]] \in Int
      BY <1>4, <1>5
    <2>2. H \in Seq(Int)
      BY <1>1, <2>1
    <2>3. QED BY <1>1, <2>1, <2>2
  <1> HIDE DEF N, good
  <1>11. Sorted(H)
    <2>1. SUFFICES ASSUME NEW m \in 1 .. N, NEW n \in 1 .. N, m <= n PROVE H[m] <= H[n]
      BY <1>10 DEF Sorted
    <2>2. CASE m = n
      BY <1>10, <2>2
    <2>3. CASE m < n
      BY <1>6, <1>10, <2>3
    <2>4. QED BY <1>1, <2>1, <2>2, <2>3
  <1>12. \A i \in ids : \E n \in 1 .. N : H[n] = times[i]
    BY <1>9, <1>10
  <1>13. \A m, n \in 1 .. N : m < n =>
           \E i, j \in ids : i # j /\ H[m] = times[i] /\ H[n] = times[j] /\ times[i] <= times[j]
    BY <1>5, <1>6, <1>10
  <1>14. ASSUME NEW u PROVE PlayedAt(H, u) = Cardinality({i \in ids : times[i] = u})
    <2> DEFINE A == {n \in 1 .. N : H[n] = u}
               B == {i \in ids : times[i] = u}
               f == [n \in A |-> order[n]]
    <2>1. f \in [A -> B]
      BY <1>5, <1>10
    <2>2. \A m, n \in A : f[m] = f[n] => m = n
      BY <1>6
    <2>3. \A i \in B : \E n \in A : f[n] = i
      BY <1>9, <1>10
    <2>4. IsFiniteSet(A)
      <3>1. IsFiniteSet(1 .. N)
        BY <1>1, FS_Interval
      <3>2. A \in SUBSET (1 .. N)
        OBVIOUS
      <3>3. QED BY <3>1, <3>2, FS_Subset
    <2>5. f \in Bijection(A, B)
      <3> HIDE DEF A, B, f
      <3> QED BY <2>1, <2>2, <2>3, Fun_IsBij
    <2>6. Cardinality(B) = Cardinality(A)
      <3> HIDE DEF A, B, f
      <3>1. ExistsBijection(A, B)
        BY <2>5, Fun_ExistsBij
      <3>2. QED BY <2>4, <3>1, FS_Bijection
    <2>7. QED BY <1>10, <2>6 DEF PlayedAt
  <1>15. QED BY <1>5, <1>10, <1>11, <1>12, <1>13, <1>14 DEF H, N

-----------------------------------------------------------------------------
(* Earned tokens.                                                          *)

(* What makes the tokens with these ids earned at t, in one scope.         *)
EarnedIn(rules, start, times, ids, t) ==
  /\ rules.mode = "disabled" => ids = {}
  /\ rules.mode = "finite" =>
       /\ ids # {} => start # None
       /\ start # None =>
            /\ \A i \in ids : start <= times[i]
            /\ \A u \in start .. t : Level(rules, start, InOrder(times, ids), u) >= 0
       /\ rules.max_number = None \/ Cardinality(ids) <= rules.max_number
       /\ \A i, j \in ids :
            i # j /\ times[i] <= times[j] => times[j] - times[i] >= rules.min_interval

TimesUpTo(times, ids, t) ==
  IsFiniteSet(ids) /\ \A i \in ids : times[i] \in Int /\ times[i] <= t

(* A bucket with the initial tokens is not empty before one is played.     *)
LEMMA FullAtFirst ==
  ASSUME NEW rules, FiniteRules(rules), NEW start \in Int, NEW H \in Seq(Int),
         \A n \in 1 .. Len(H) : H[n] < start
  PROVE  \A u \in Int : start <= u => Level(rules, start, H, u) >= 0
  <1>1. \A n \in 1 .. Len(H) : H[n] \in Int
    OBVIOUS
  <1>2. PlayedAt(H, start) = 0
    <2>1. \A n \in 1 .. Len(H) : H[n] # start
      BY <1>1
    <2>2. QED BY <2>1, PlayedAtFacts
  <1>3. Level(rules, start, H, start) >= 0 /\ Level(rules, start, H, start) \in Int
    <2>1. Level(rules, start, H, start) = rules.gen_initial - 0
      BY <1>2, LevelStarts
    <2>2. QED BY <2>1, FiniteFacts
  <1>4. SUFFICES ASSUME NEW u \in Int, start <= u PROVE Level(rules, start, H, u) >= 0
    OBVIOUS
  <1>5. \A n \in 1 .. Len(H) : H[n] <= start
    BY <1>1
  <1>6. Level(rules, start, H, u) \in Int
    BY <1>4, LevelBounds
  <1>7. start <= start /\ Level(rules, start, H, start) <= Level(rules, start, H, u)
    BY <1>4, <1>5, GrowthIsKnown
  <1>8. QED BY <1>3, <1>6, <1>7

LEMMA SamePlays ==
  ASSUME NEW rules, FiniteRules(rules), NEW start \in Int, NEW H \in Seq(Int), NEW K \in Seq(Int),
         \A u \in Int : PlayedAt(K, u) = PlayedAt(H, u)
  PROVE  \A u \in Int : start <= u => Level(rules, start, K, u) = Level(rules, start, H, u)
  <1> SUFFICES ASSUME NEW u \in Int, start <= u
               PROVE  Level(rules, start, K, u) = Level(rules, start, H, u)
    OBVIOUS
  <1>1. u + 1 \in Int /\ start <= u + 1 /\ u < u + 1
    OBVIOUS
  <1> DEFINE S == {v \in start .. u : Level(rules, start, K, v) = Level(rules, start, H, v)}
  <1>2. start \in S
    BY LevelStarts
  <1>3. \A v \in start + 1 .. u : v - 1 \in S => v \in S
    <2> SUFFICES ASSUME NEW v \in start + 1 .. u, v - 1 \in S PROVE v \in S
      OBVIOUS
    <2>1. v \in Int /\ v > start /\ v \in start .. u
      OBVIOUS
    <2>2. /\ Level(rules, start, K, v)
               = Filled(rules, start, v, Level(rules, start, K, v - 1)) - PlayedAt(K, v)
          /\ Level(rules, start, H, v)
               = Filled(rules, start, v, Level(rules, start, H, v - 1)) - PlayedAt(H, v)
      BY <2>1, LevelRuns
    <2>3. QED BY <2>1, <2>2
  <1>4. \A v \in start .. u : v \in S
    <2> HIDE DEF S
    <2> QED BY <1>2, <1>3, InductionFrom
  <1>5. QED BY <1>4

LEMMA EarnedAtFirst ==
  ASSUME NEW rules, Permitted(rules), NEW start \in {None} \cup Int, NEW times, NEW t \in Int
  PROVE  EarnedIn(rules, start, times, {}, t)
  <1> DEFINE H == InOrder(times, {})
  <1>1. IsFiniteSet({}) /\ Cardinality({}) = 0
    BY FS_EmptySet
  <1>2. H \in Seq(Int) /\ Len(H) = 0
    BY <1>1, InOrderFacts
  <1> HIDE DEF H
  <1>3. ASSUME rules.mode = "finite", start # None
        PROVE  \A u \in start .. t : Level(rules, start, H, u) >= 0
    <2>1. FiniteRules(rules) /\ start \in Int
      BY <1>3 DEF FiniteRules
    <2>2. \A n \in 1 .. Len(H) : H[n] < start
      BY <1>2
    <2>3. \A u \in Int : start <= u => Level(rules, start, H, u) >= 0
      BY <1>2, <2>1, <2>2, FullAtFirst
    <2>4. QED BY <2>1, <2>3
  <1>4. ASSUME rules.mode = "finite" PROVE rules.max_number = None \/ 0 <= rules.max_number
    <2>1. FiniteRules(rules)
      BY <1>4 DEF FiniteRules
    <2>2. QED BY <2>1, FiniteFacts
  <1>5. QED BY <1>1, <1>3, <1>4 DEF EarnedIn, H

LEMMA EarnedBefore ==
  ASSUME NEW rules, NEW start \in {None} \cup Int, NEW times, NEW ids, NEW t \in Int, NEW u \in Int,
         u <= t, EarnedIn(rules, start, times, ids, t)
  PROVE  EarnedIn(rules, start, times, ids, u)
  <1>1. start # None => \A v \in start .. u : v \in start .. t
    OBVIOUS
  <1>2. QED BY <1>1 DEF EarnedIn

(* The bucket does not get empty by itself.                                *)
LEMMA EarnedLater ==
  ASSUME NEW rules, Permitted(rules), NEW start \in {None} \cup Int, NEW times, NEW ids,
         NEW t \in Int, TimesUpTo(times, ids, t), EarnedIn(rules, start, times, ids, t)
  PROVE  EarnedIn(rules, start, times, ids, t + 1)
  <1> DEFINE H == InOrder(times, ids)
  <1>1. ASSUME rules.mode = "finite", start # None
        PROVE  \A u \in start .. t + 1 : Level(rules, start, H, u) >= 0
    <2>1. FiniteRules(rules) /\ start \in Int
      BY <1>1 DEF FiniteRules
    <2>2. H \in Seq(Int) /\ \A n \in 1 .. Len(H) : H[n] \in Int /\ H[n] <= t
      <3>1. IsFiniteSet(ids) /\ \A i \in ids : times[i] \in Int /\ times[i] <= t
        BY DEF TimesUpTo
      <3>2. H \in Seq(Int) /\ \A n \in 1 .. Len(H) : \E i \in ids : H[n] = times[i]
        BY <3>1, InOrderFacts
      <3>3. QED BY <3>1, <3>2
    <2>3. \A u \in start .. t : Level(rules, start, H, u) >= 0
      BY <1>1 DEF EarnedIn
    <2> HIDE DEF H
    <2>4. ASSUME start <= t + 1 PROVE Level(rules, start, H, t + 1) >= 0
      <3>1. CASE start = t + 1
        <4>1. \A n \in 1 .. Len(H) : H[n] < start
          BY <2>2, <3>1
        <4>2. QED BY <2>1, <2>2, <2>4, <4>1, FullAtFirst
      <3>2. CASE start <= t
        <4>1. t <= t + 1 /\ t + 1 \in Int /\ start <= t + 1 /\ t \in start .. t
          BY <2>1, <3>2
        <4>2. Level(rules, start, H, t + 1) \in Int /\ Level(rules, start, H, t) \in Int
          BY <2>1, <2>2, <3>2, <4>1, LevelBounds
        <4>3. Level(rules, start, H, t) <= Level(rules, start, H, t + 1)
          BY <2>1, <2>2, <3>2, <4>1, GrowthIsKnown
        <4>4. QED BY <2>3, <4>1, <4>2, <4>3
      <3>3. QED BY <2>1, <2>4, <3>1, <3>2
    <2>5. \A u \in start .. t + 1 : u \in start .. t \/ (u = t + 1 /\ start <= t + 1)
      BY <2>1
    <2>6. QED BY <2>3, <2>4, <2>5
  <1>2. QED BY <1>1 DEF EarnedIn

(* What the code says of earned tokens is true.                            *)
LEMMA EarnedIsTruthful ==
  ASSUME NEW rules, Permitted(rules), NEW start, NEW times, NEW ids, NEW t \in Int,
         TimesUpTo(times, ids, t), EarnedIn(rules, start, times, ids, t),
         rules.mode = "finite" => start \in Int /\ start <= t
  PROVE  LET H == InOrder(times, ids) IN
         Truthful(rules, start, H, t, TokensOf(rules, start, H, t))
  <1> DEFINE H == InOrder(times, ids)
  <1>1. /\ H \in Seq(Int) /\ Len(H) = Cardinality(ids) /\ Sorted(H)
        /\ \A n \in 1 .. Len(H) : \E i \in ids : H[n] = times[i]
    BY InOrderFacts DEF TimesUpTo
  <1> HIDE DEF H
  <1>2. ASSUME rules.mode = "finite"
        PROVE  /\ start \in Int /\ History(start, H, t) /\ Level(rules, start, H, t) >= 0
               /\ rules.max_number = None \/ Len(H) <= rules.max_number
    <2>1. start \in Int /\ start <= t /\ start # None
      BY <1>2, NoneIsNoTime
    <2>2. /\ \A i \in ids : start <= times[i] /\ times[i] <= t
          /\ \A u \in start .. t : Level(rules, start, H, u) >= 0
          /\ rules.max_number = None \/ Cardinality(ids) <= rules.max_number
      BY <1>2, <2>1 DEF EarnedIn, TimesUpTo, H
    <2>3. History(start, H, t)
      <3>1. \A n \in 1 .. Len(H) : start <= H[n] /\ H[n] <= t
        BY <1>1, <2>2
      <3>2. QED BY <1>1, <2>1, <3>1 DEF History
    <2>4. t \in start .. t
      BY <2>1
    <2>5. QED BY <1>1, <2>1, <2>2, <2>3, <2>4
  <1>3. QED BY <1>2, TokensOfIsTruthful DEF H

LEMMA EarnedElsewhere ==
  ASSUME NEW rules, Permitted(rules), NEW start \in {None} \cup Int, NEW times, NEW ids,
         NEW t \in Int, TimesUpTo(times, ids, t), EarnedIn(rules, start, times, ids, t),
         NEW later, \A i \in ids : later[i] = times[i]
  PROVE  EarnedIn(rules, start, later, ids, t)
  <1> DEFINE H == InOrder(times, ids)
             K == InOrder(later, ids)
  <1>1. IsFiniteSet(ids) /\ \A i \in ids : times[i] \in Int /\ later[i] \in Int
    BY DEF TimesUpTo
  <1>2. H \in Seq(Int) /\ \A u : PlayedAt(H, u) = Cardinality({i \in ids : times[i] = u})
    BY <1>1, InOrderFacts
  <1>3. K \in Seq(Int) /\ \A u : PlayedAt(K, u) = Cardinality({i \in ids : later[i] = u})
    BY <1>1, InOrderFacts
  <1> HIDE DEF H, K
  <1>4. \A u \in Int : PlayedAt(K, u) = PlayedAt(H, u)
    <2>1. SUFFICES ASSUME NEW u \in Int PROVE PlayedAt(K, u) = PlayedAt(H, u)
      OBVIOUS
    <2>2. {i \in ids : later[i] = u} = {i \in ids : times[i] = u}
      OBVIOUS
    <2>3. QED BY <1>2, <1>3, <2>2
  <1>5. ASSUME rules.mode = "finite", start # None
        PROVE  \A u \in start .. t : Level(rules, start, K, u) = Level(rules, start, H, u)
    <2>1. FiniteRules(rules) /\ start \in Int
      BY <1>5 DEF FiniteRules
    <2>2. QED BY <1>2, <1>3, <1>4, <2>1, SamePlays
  <1>6. QED BY <1>5 DEF EarnedIn, H, K

(* A token played when the code says that one may be is earned.            *)
LEMMA EarnedByPlaying ==
  ASSUME NEW rules, Permitted(rules), NEW start, NEW times, NEW ids, NEW t \in Int,
         NEW played \in Int, played <= t, TimesUpTo(times, ids, played),
         EarnedIn(rules, start, times, ids, t),
         rules.mode = "finite" => start \in Int /\ start <= played,
         Left(rules, start, InOrder(times, ids), played) # 0,
         Left(rules, start, InOrder(times, ids), played) \in {-1} \cup Nat,
         Unhindered(rules, InOrder(times, ids), played),
         NEW i, i \notin ids, NEW later, later[i] = played, \A j \in ids : later[j] = times[j]
  PROVE  EarnedIn(rules, start, later, ids \cup {i}, t)
  <1> DEFINE H == InOrder(times, ids)
             K == InOrder(later, ids \cup {i})
             L(u) == Level(rules, start, H, u)
             M(u) == Level(rules, start, K, u)
  <1>1. rules.mode # "disabled"
    BY DEF Left
  <1>2. SUFFICES ASSUME rules.mode = "finite"
                 PROVE  /\ start # None
                        /\ \A j \in ids \cup {i} : start <= later[j]
                        /\ \A u \in start .. t : M(u) >= 0
                        /\ rules.max_number = None
                             \/ Cardinality(ids \cup {i}) <= rules.max_number
                        /\ \A j, k \in ids \cup {i} :
                             j # k /\ later[j] <= later[k]
                               => later[k] - later[j] >= rules.min_interval
    BY <1>1 DEF EarnedIn
  <1>3. FiniteRules(rules) /\ start \in Int /\ start <= played /\ start # None
    BY <1>2, NoneIsNoTime DEF FiniteRules
  <1>4. /\ IsFiniteSet(ids) /\ IsFiniteSet(ids \cup {i})
        /\ Cardinality(ids \cup {i}) = Cardinality(ids) + 1 /\ Cardinality(ids) \in Nat
        /\ \A j \in ids : times[j] \in Int /\ times[j] <= played
    BY FS_AddElement, FS_CardinalityType DEF TimesUpTo
  <1>5. /\ H \in Seq(Int) /\ Len(H) = Cardinality(ids)
        /\ \A n \in 1 .. Len(H) : \E j \in ids : H[n] = times[j]
        /\ \A j \in ids : \E n \in 1 .. Len(H) : H[n] = times[j]
        /\ \A u : PlayedAt(H, u) = Cardinality({j \in ids : times[j] = u})
    BY <1>4, InOrderFacts
  <1>6. /\ K \in Seq(Int)
        /\ \A n \in 1 .. Len(K) : \E j \in ids \cup {i} : K[n] = later[j]
        /\ \A u : PlayedAt(K, u) = Cardinality({j \in ids \cup {i} : later[j] = u})
    <2>1. \A j \in ids \cup {i} : later[j] \in Int
      BY <1>4
    <2> DEFINE both == ids \cup {i}
    <2>2. IsFiniteSet(both) /\ \A j \in both : later[j] \in Int
      BY <1>4, <2>1
    <2> HIDE DEF both
    <2>3. /\ InOrder(later, both) \in Seq(Int)
          /\ \A n \in 1 .. Len(InOrder(later, both)) :
               \E j \in both : InOrder(later, both)[n] = later[j]
          /\ \A u : PlayedAt(InOrder(later, both), u) = Cardinality({j \in both : later[j] = u})
      BY <2>2, InOrderFacts
    <2>4. QED BY <2>3 DEF both
  <1>7. /\ \A j \in ids : start <= times[j]
        /\ \A u \in start .. t : L(u) >= 0
        /\ rules.max_number = None \/ Cardinality(ids) <= rules.max_number
        /\ \A j, k \in ids :
             j # k /\ times[j] <= times[k] => times[k] - times[j] >= rules.min_interval
    BY <1>2, <1>3 DEF EarnedIn
  <1>8. L(played) \in Int
    BY <1>3, <1>5, LevelBounds
  <1>9. L(played) >= 1 /\ (rules.max_number # None => Cardinality(ids) < rules.max_number)
    <2> DEFINE left == Left(rules, start, H, played)
    <2>1. left = IF rules.max_number = None THEN L(played)
                 ELSE Lesser(L(played), rules.max_number - Len(H))
      BY <1>2 DEF Left
    <2>2. left # 0 /\ left \in {-1} \cup Nat
      OBVIOUS
    <2>3. L(played) >= 0
      BY <1>3, <1>7
    <2>4. rules.max_number # None => rules.max_number \in Nat
      BY <1>3, FiniteFacts
    <2> HIDE DEF left, L
    <2>5. QED BY <1>4, <1>5, <1>7, <1>8, <2>1, <2>2, <2>3, <2>4 DEF Lesser
  <1>10. \A j \in ids : played - times[j] >= rules.min_interval
    <2>1. \A n \in 1 .. Len(H) : played - H[n] >= rules.min_interval
      <3>1. DOMAIN H = 1 .. Len(H)
        BY <1>5
      <3>2. Unhindered(rules, H, played)
        OBVIOUS
      <3> HIDE DEF H
      <3>3. QED BY <1>2, <3>1, <3>2 DEF Unhindered
    <2>2. QED BY <1>5, <2>1
  <1>11. \A u \in Int : PlayedAt(K, u) = PlayedAt(H, u) + (IF u = played THEN 1 ELSE 0)
    <2>1. SUFFICES ASSUME NEW u \in Int
                   PROVE  PlayedAt(K, u) = PlayedAt(H, u) + (IF u = played THEN 1 ELSE 0)
      OBVIOUS
    <2> DEFINE A == {j \in ids : times[j] = u}
               B == {j \in ids \cup {i} : later[j] = u}
    <2>2. B = IF u = played THEN A \cup {i} ELSE A
      OBVIOUS
    <2>3. IsFiniteSet(A) /\ i \notin A
      <3>1. A \in SUBSET ids
        OBVIOUS
      <3>2. QED BY <1>4, <3>1, FS_Subset
    <2>4. PlayedAt(H, u) = Cardinality(A) /\ PlayedAt(K, u) = Cardinality(B)
      BY <1>5, <1>6
    <2> HIDE DEF A, B, H, K
    <2>5. Cardinality(A) \in Nat /\ Cardinality(A \cup {i}) = Cardinality(A) + 1
      BY <2>3, FS_AddElement, FS_CardinalityType
    <2>6. QED BY <2>2, <2>4, <2>5
  <1> HIDE DEF H, K
  <1>12. /\ \A u \in Int : start <= u /\ u < played => M(u) = L(u)
         /\ M(played) = L(played) - 1
    BY <1>3, <1>5, <1>6, <1>11, PlayedLater
  <1>13. \A n \in 1 .. Len(K) : K[n] <= played
    <2>1. \A j \in ids \cup {i} : later[j] \in Int /\ later[j] <= played
      BY <1>4
    <2>2. \A n \in 1 .. Len(K) : \E j \in ids \cup {i} : K[n] = later[j]
      BY <1>6
    <2>3. QED BY <2>1, <2>2
  <1>14. ASSUME NEW u \in start .. t PROVE M(u) >= 0
    <2>1. u \in Int /\ start <= u
      BY <1>3
    <2>2. CASE u < played
      BY <1>7, <1>12, <2>1, <2>2
    <2>3. CASE played <= u
      <3>1. M(played) <= M(u)
        BY <1>3, <1>6, <1>13, <2>1, <2>3, GrowthIsKnown
      <3>2. M(u) \in Int
        BY <1>3, <1>6, <2>1, LevelBounds
      <3> HIDE DEF L, M
      <3>3. QED BY <1>8, <1>9, <1>12, <3>1, <3>2
    <2>4. QED BY <2>1, <2>2, <2>3
  <1>15. rules.max_number = None \/ Cardinality(ids \cup {i}) <= rules.max_number
    BY <1>3, <1>4, <1>9, FiniteFacts
  <1>16. ASSUME NEW j \in ids \cup {i}, NEW k \in ids \cup {i}, j # k, later[j] <= later[k]
         PROVE  later[k] - later[j] >= rules.min_interval
    <2>1. CASE j \in ids /\ k \in ids
      BY <1>7, <1>16, <2>1
    <2>2. CASE k = i
      BY <1>10, <1>16, <2>2
    <2>3. CASE j = i
      <3>1. k \in ids /\ later[k] = times[k]
        BY <1>16, <2>3
      <3>2. times[k] = played
        BY <1>4, <1>16, <2>3, <3>1
      <3>3. played - played >= rules.min_interval
        BY <1>10, <3>1, <3>2
      <3>4. QED BY <2>3, <3>1, <3>2, <3>3
    <2>4. QED BY <2>1, <2>2, <2>3
  <1>17. \A j \in ids \cup {i} : start <= later[j]
    BY <1>3, <1>7
  <1>18. QED
    <2> HIDE DEF M
    <2> QED BY <1>3, <1>14, <1>15, <1>16, <1>17

-----------------------------------------------------------------------------
(* The inductive invariant on tokens, which rests on ContestInv.           *)

TokensIn(scope) == {i \in DOMAIN tokens : scope = "contest" \/ rows[i].task = scope}

(* Unless requests overlapped, a token is from before the one under way,   *)
TokensBefore ==
  overlapped \/
  \A r \in Request : Underway(r) =>
    \A i \in DOMAIN tokens : tokens[i] <= requests[r].timestamp

(* a token that was checked may still be played,                           *)
TokenChecksStand ==
  overlapped \/
  \A r \in Request :
    requests[r].stage = "checked" /\ requests[r].kind = "token" => TokenAcceptable(requests[r])

(* who has played one cannot start any more,                               *)
TokensStay ==
  overlapped \/ unrestricted \/
  \/ /\ DOMAIN tokens = {}
     /\ \A r \in Request : Underway(r) => requests[r].kind # "token"
  \/ /\ PhaseAt(now) >= 0
     /\ \A r \in Request : Underway(r) => requests[r].kind # "start"

(* and the tokens are earned.                                              *)
Earned ==
  overlapped \/ StartedAgain \/
  \A scope \in Task \cup {"contest"} :
    EarnedIn(TokenRules(scope), TokenStart, tokens, TokensIn(scope), now)

TokenInv == TokensBefore /\ TokenChecksStand /\ TokensStay /\ Earned

-----------------------------------------------------------------------------
(* Lemmas on tokens.                                                       *)

LEMMA TokenFacts ==
  ASSUME ContestInv
  PROVE  /\ TokenStart \in {None} \cup Int /\ now \in Int
         /\ \A i \in DOMAIN tokens : tokens[i] \in Int /\ tokens[i] <= now
         /\ \A scope : /\ Permitted(TokenRules(scope))
                       /\ IsFiniteSet(TokensIn(scope))
                       /\ TimesUpTo(tokens, TokensIn(scope), now)
  <1>1. Typed
    BY DEF ContestInv
  <1>2. now \in Int /\ starting_time \in {None} \cup Int
    BY <1>1, ContestWebServerAssumption DEF Typed
  <1>3. TokenStart \in {None} \cup Int
    <2>1. contest.start \in Int
      BY <1>1, ScenarioFacts DEF Typed, Constrained, contest
    <2>2. QED BY <1>2, <2>1 DEF TokenStart
  <1>4. /\ DOMAIN tokens \subseteq 1 .. Len(rows)
        /\ \A i \in DOMAIN tokens : tokens[i] \in Int /\ tokens[i] <= now
    BY <1>1, <1>2 DEF Typed, TokensTyped
  <1>5. IsFiniteSet(DOMAIN tokens)
    <2>1. IsFiniteSet(1 .. Len(rows))
      BY <1>1, FS_Interval DEF Typed
    <2>2. QED BY <1>4, <2>1, FS_Subset
  <1>6. ASSUME NEW scope
        PROVE  /\ Permitted(TokenRules(scope))
               /\ IsFiniteSet(TokensIn(scope))
               /\ TimesUpTo(tokens, TokensIn(scope), now)
    <2>1. Permitted(setting.tokens.contest) /\ Permitted(setting.tokens.task)
      BY <1>1, ContestWebServerAssumption DEF Typed
    <2>2. Permitted(TokenRules(scope))
      BY <2>1 DEF TokenRules
    <2>3. TokensIn(scope) \in SUBSET (DOMAIN tokens)
      BY DEF TokensIn
    <2>4. IsFiniteSet(TokensIn(scope))
      BY <1>5, <2>3, FS_Subset
    <2>5. QED BY <1>4, <2>2, <2>3, <2>4 DEF TimesUpTo
  <1>7. QED BY <1>2, <1>3, <1>4, <1>6

(* What the query of played tokens returns after all of them.              *)
LEMMA AllPlayed ==
  ASSUME NEW t, \A i \in DOMAIN tokens : tokens[i] <= t, NEW scope
  PROVE  Played(t, scope) = InOrder(tokens, TokensIn(scope))
  <1>1. InTokenScope(t, scope) = TokensIn(scope)
    BY DEF InTokenScope, TokensIn
  <1>2. QED BY <1>1 DEF Played

(* tokens_available, asked after all tokens were played.                   *)
LEMMA BothAreTruthful ==
  ASSUME ContestInv, NEW task \in Task, NEW t \in Int, t <= now,
         \A i \in DOMAIN tokens : tokens[i] <= t, ~TokensFail(task, t),
         \A scope \in Task \cup {"contest"} :
           EarnedIn(TokenRules(scope), TokenStart, tokens, TokensIn(scope), now),
         NEW scope \in {"contest", task}
  PROVE  /\ TokenRules(scope).mode = "finite" => TokenStart \in Int /\ TokenStart <= t
         /\ Truthful(TokenRules(scope), TokenStart, Played(t, scope), t,
                     TokensOf(TokenRules(scope), TokenStart, Played(t, scope), t))
  <1> DEFINE rules == TokenRules(scope)
             start == TokenStart
             ids == TokensIn(scope)
  <1>1. rules.mode = "finite" => start \in Int /\ start <= t
    <2>1. start \in {None} \cup Int
      BY TokenFacts
    <2>2. rules.mode = "finite" => start # None /\ ~(start > t)
      BY DEF TokensFail
    <2>3. QED BY <2>1, <2>2
  <1>2. EarnedIn(rules, start, tokens, ids, t)
    <2>1. EarnedIn(rules, start, tokens, ids, now)
      OBVIOUS
    <2>2. start \in {None} \cup Int /\ now \in Int
      BY TokenFacts
    <2> HIDE DEF rules, start, ids
    <2>3. QED BY <2>1, <2>2, EarnedBefore
  <1>3. TimesUpTo(tokens, ids, t)
    <2>1. TokensIn(scope) \subseteq DOMAIN tokens
      BY DEF TokensIn
    <2>2. QED BY <2>1, TokenFacts DEF TimesUpTo
  <1>4. Permitted(rules)
    BY TokenFacts
  <1>5. Played(t, scope) = InOrder(tokens, ids)
    BY AllPlayed
  <1> HIDE DEF rules, start, ids
  <1>6. Truthful(rules, start, InOrder(tokens, ids), t,
                 TokensOf(rules, start, InOrder(tokens, ids), t))
    BY <1>1, <1>2, <1>3, <1>4, EarnedIsTruthful
  <1>7. QED BY <1>1, <1>5, <1>6 DEF rules, start

(* A token that may be played is left, in both scopes, and none holds it   *)
(* up.                                                                     *)
LEMMA PlayableInBoth ==
  ASSUME ContestInv, NEW task \in Task, NEW t \in Int, t <= now,
         \A i \in DOMAIN tokens : tokens[i] <= t, ~TokensFail(task, t),
         \A scope \in Task \cup {"contest"} :
           EarnedIn(TokenRules(scope), TokenStart, tokens, TokensIn(scope), now),
         Playable(TokensAvailable(task, t)),
         NEW scope \in {"contest", task}
  PROVE  /\ Left(TokenRules(scope), TokenStart, Played(t, scope), t) # 0
         /\ Left(TokenRules(scope), TokenStart, Played(t, scope), t) \in {-1} \cup Nat
         /\ Unhindered(TokenRules(scope), Played(t, scope), t)
  <1> DEFINE R == TokenRules("contest")
             Q == TokenRules(task)
             H == Played(t, "contest")
             K == Played(t, task)
             c == TokensOf(R, TokenStart, H, t)
             d == TokensOf(Q, TokenStart, K, t)
             m == Merged(c, d)
             A == Left(R, TokenStart, H, t)
             B == Left(Q, TokenStart, K, t)
  <1>1. Truthful(R, TokenStart, H, t, c) /\ Truthful(Q, TokenStart, K, t, d)
    BY BothAreTruthful
  <1>2. m.avail # 0 /\ m.expiration = None
    BY DEF Playable, TokensAvailable
  <1> HIDE DEF R, Q, H, K, c, d
  <1>3. A \in {-1} \cup Nat /\ B \in {-1} \cup Nat
    BY <1>1 DEF Truthful
  <1>4. /\ m.avail = Fewer(A, B)
        /\ \/ m.avail = 0 /\ m.next = None
           \/ Unhindered(R, H, t) /\ Unhindered(Q, K, t)
                <=> m.expiration = None \/ t >= m.expiration
    <2>1. t >= t
      OBVIOUS
    <2>2. QED BY <1>1, <2>1, MergeIsTruthful
  <1> HIDE DEF m, A, B
  <1>5. A # 0 /\ B # 0
    BY <1>2, <1>3, <1>4 DEF Fewer, Lesser
  <1>6. Unhindered(R, H, t) /\ Unhindered(Q, K, t)
    BY <1>2, <1>4
  <1>7. CASE scope = "contest"
    BY <1>3, <1>5, <1>6, <1>7 DEF A, R, H
  <1>8. CASE scope = task
    BY <1>3, <1>5, <1>6, <1>8 DEF B, Q, K
  <1>9. QED BY <1>7, <1>8

-----------------------------------------------------------------------------
(* Every step keeps the invariant on tokens.                               *)

LEMMA TokenInvInitially == ASSUME ContestInv, Init PROVE TokenInv
  <1>1. /\ tokens = <<>> /\ requests = [r \in Request |-> Idle]
    BY DEF Init
  <1>2. \A r \in Request : ~Underway(r) /\ requests[r].stage = "idle"
    BY <1>1 DEF Underway, Idle
  <1>3. DOMAIN tokens = {}
    BY <1>1
  <1>4. \A scope : TokensIn(scope) = {}
    BY <1>3 DEF TokensIn
  <1>5. Earned
    BY <1>4, TokenFacts, EarnedAtFirst DEF Earned
  <1>6. QED BY <1>2, <1>3, <1>5 DEF TokenInv, TokensBefore, TokenChecksStand, TokensStay

(* Steps that leave the tokens and the instant alone.                      *)
LEMMA EarnedStays ==
  ASSUME Earned, UNCHANGED <<now, setting, starting_time, tokens>>, overlapped => overlapped',
         \A i \in DOMAIN tokens : rows'[i] = rows[i]
  PROVE  Earned'
  <1>1. /\ StartedAgain' <=> StartedAgain
        /\ TokenStart' = TokenStart /\ \A scope : TokenRules(scope)' = TokenRules(scope)
    BY DEF StartedAgain, TokenStart, TokenRules, contest, unrestricted
  <1>2. \A scope : TokensIn(scope)' = TokensIn(scope)
    BY DEF TokensIn
  <1>3. QED BY <1>1, <1>2 DEF Earned

LEMMA AcceptableStays ==
  ASSUME UNCHANGED <<setting, starting_time, rows, tokens>>, NEW r \in Request,
         requests'[r].submission = requests[r].submission,
         requests'[r].timestamp = requests[r].timestamp
  PROVE  TokenAcceptable(requests[r])' <=> TokenAcceptable(requests[r])
  <1> DEFINE i == requests[r].submission
             t == requests[r].timestamp
             task == rows[i].task
  <1>1. i' = i /\ t' = t /\ task' = task
    OBVIOUS
  <1> HIDE DEF i, t, task
  <1>2. TokensFail(task, t)' <=> TokensFail(task, t)
    BY <1>1 DEF TokensFail, Played, InTokenScope, TokenRules, TokenStart, contest
  <1>3. TokensAvailable(task, t)' = TokensAvailable(task, t)
    BY <1>1 DEF TokensAvailable, Played, InTokenScope, TokenRules, TokenStart, contest
  <1>4. QED BY <1>1, <1>2, <1>3 DEF TokenAcceptable, i, t, task

LEMMA TickKeepsTokens ==
  ASSUME ContestInv, TokenInv, Tick PROVE TokenInv'
  <1>1. /\ now' = now + 1
        /\ UNCHANGED <<setting, starting_time, rows, tokens, requests, overlapped>>
    BY DEF Tick
  <1>2. TokensBefore'
    BY <1>1 DEF TokenInv, TokensBefore, Underway
  <1>3. TokenChecksStand'
    BY <1>1, AcceptableStays DEF TokenInv, TokenChecksStand
  <1>4. TokensStay'
    <2>1. PhaseAt(now) <= PhaseAt(now)' /\ PhaseAt(now) \in Int /\ PhaseAt(now)' \in Int
      <3>1. Sound(contest, user)
        BY SoundFacts DEF ContestInv, Typed
      <3>2. PhaseAt(now)' = ActualPhase(contest, user, now').phase
        BY <1>1 DEF PhaseAt, contest, user
      <3>3. now \in Int /\ now' \in Int /\ now <= now'
        BY <1>1, TokenFacts
      <3>4. /\ ActualPhase(contest, user, now).phase \in -2 .. 4
            /\ ActualPhase(contest, user, now).phase <= ActualPhase(contest, user, now').phase
        BY <3>1, <3>3, PhasesInTime
      <3>5. ActualPhase(contest, user, now').phase \in -2 .. 4
        BY <3>1, <3>3, PhasesInTime
      <3>6. QED BY <3>2, <3>4, <3>5 DEF PhaseAt
    <2>2. unrestricted' <=> unrestricted
      BY <1>1 DEF unrestricted
    <2>3. QED BY <1>1, <2>1, <2>2 DEF TokenInv, TokensStay, Underway
  <1>5. Earned'
    <2>1. /\ StartedAgain' <=> StartedAgain
          /\ TokenStart' = TokenStart /\ \A scope : TokenRules(scope)' = TokenRules(scope)
          /\ \A scope : TokensIn(scope)' = TokensIn(scope)
      BY <1>1 DEF StartedAgain, TokenStart, TokenRules, TokensIn, contest, unrestricted
    <2>2. SUFFICES ASSUME ~overlapped, ~StartedAgain, NEW scope \in Task \cup {"contest"}
                   PROVE  EarnedIn(TokenRules(scope), TokenStart, tokens, TokensIn(scope), now + 1)
      BY <1>1, <2>1 DEF Earned
    <2>3. EarnedIn(TokenRules(scope), TokenStart, tokens, TokensIn(scope), now)
      BY <2>2 DEF TokenInv, Earned
    <2>4. QED BY <2>3, TokenFacts, EarnedLater
  <1>6. QED BY <1>2, <1>3, <1>4, <1>5 DEF TokenInv

LEMMA ArriveKeepsTokens ==
  ASSUME ContestInv, TokenInv, NEW r \in Request, NEW request,
         request.stage = "arrived", request.timestamp = now, Arrive(r, request)
  PROVE  TokenInv'
  <1>1. /\ ~Underway(r) /\ Admitted(request.kind, PhaseAt(now))
        /\ requests' = [requests EXCEPT ![r] = request]
        /\ overlapped' = (overlapped \/ \E other \in Request : Underway(other))
        /\ UNCHANGED <<now, setting, starting_time, rows, tokens>>
    BY DEF Arrive
  <1>2. requests'[r] = request /\ \A x \in Request \ {r} : requests'[x] = requests[x]
    BY <1>1 DEF ContestInv, Typed
  <1>3. ~overlapped' => ~overlapped /\ \A x \in Request : Underway(x)' => x = r
    BY <1>1, <1>2 DEF Underway
  <1>4. TokensBefore'
    BY <1>1, <1>2, <1>3, TokenFacts DEF TokensBefore
  <1>5. TokenChecksStand'
    <2>1. \A x \in Request : requests'[x].stage = "checked" => Underway(x)' /\ x # r
      BY <1>2 DEF Underway
    <2>2. QED BY <1>3, <2>1 DEF TokenChecksStand
  <1>6. TokensStay'
    <2>1. SUFFICES ASSUME ~overlapped', ~unrestricted
                   PROVE  \/ DOMAIN tokens = {} /\ request.kind # "token"
                          \/ PhaseAt(now) >= 0 /\ request.kind # "start"
      <3>1. UNCHANGED unrestricted /\ PhaseAt(now)' = PhaseAt(now)
        BY <1>1 DEF unrestricted, PhaseAt, contest, user
      <3>2. ~overlapped' => \A x \in Request : Underway(x)' => requests'[x].kind = request.kind
        BY <1>2, <1>3
      <3>3. QED BY <1>1, <2>1, <3>1, <3>2 DEF TokensStay
    <2>2. PhaseAt(now) \in HandlerPhases(request.kind)
      BY <1>1, <2>1 DEF Admitted
    <2>3. CASE request.kind = "token"
      <3>1. PhaseAt(now) = 0
        BY <2>2, <2>3 DEF HandlerPhases
      <3>2. QED BY <2>3, <3>1
    <2>4. CASE request.kind # "token"
      <3>1. DOMAIN tokens = {} \/ PhaseAt(now) >= 0
        BY <1>3, <2>1 DEF TokenInv, TokensStay
      <3>2. request.kind = "start" => PhaseAt(now) = -1
        BY <2>2 DEF HandlerPhases
      <3>3. QED BY <2>4, <3>1, <3>2
    <2>5. QED BY <2>3, <2>4
  <1>7. Earned'
    BY <1>1, <1>3, EarnedStays DEF TokenInv
  <1>8. QED BY <1>4, <1>5, <1>6, <1>7 DEF TokenInv

(* A handler that ends without playing a token.                            *)
LEMMA EndKeepsTokens ==
  ASSUME ContestInv, TokenInv, NEW r \in Request, Underway(r),
         requests' = [requests EXCEPT ![r] = Idle],
         UNCHANGED <<now, setting, starting_time, tokens, overlapped>>,
         \A i \in DOMAIN tokens : rows'[i] = rows[i]
  PROVE  TokenInv'
  <1>1. overlapped \/ \A x \in Request : ~Underway(x)' /\ requests'[x].stage = "idle"
    <2>1. requests'[r] = Idle /\ \A x \in Request \ {r} : requests'[x] = requests[x]
      BY DEF ContestInv, Typed
    <2>2. QED BY <2>1 DEF ContestInv, Alone, Underway, Idle
  <1>2. TokensBefore' /\ TokenChecksStand'
    BY <1>1 DEF TokensBefore, TokenChecksStand
  <1>3. TokensStay'
    <2>1. UNCHANGED unrestricted /\ PhaseAt(now)' = PhaseAt(now)
      BY DEF unrestricted, PhaseAt, contest, user
    <2>2. QED BY <1>1, <2>1 DEF TokenInv, TokensStay
  <1>4. Earned'
    BY EarnedStays DEF TokenInv
  <1>5. QED BY <1>2, <1>3, <1>4 DEF TokenInv

LEMMA RejectKeepsTokens ==
  ASSUME ContestInv, TokenInv, NEW r \in Request, Underway(r), Reject(r) PROVE TokenInv'
  BY EndKeepsTokens DEF Reject

LEMMA CommitRowKeepsTokens ==
  ASSUME ContestInv, TokenInv, NEW r \in Request, CommitRow(r) PROVE TokenInv'
  <1> DEFINE row == [cls |-> requests[r].kind, task |-> requests[r].task,
                     timestamp |-> requests[r].timestamp, official |-> requests[r].official]
  <1>1. /\ Underway(r) /\ rows' = Append(rows, row)
        /\ requests' = [requests EXCEPT ![r] = Idle]
        /\ UNCHANGED <<now, setting, starting_time, tokens, overlapped>>
    BY DEF CommitRow, Underway
  <1>2. \A i \in DOMAIN tokens : rows'[i] = rows[i]
    <2>1. rows \in Seq(RowType) /\ DOMAIN tokens \subseteq 1 .. Len(rows)
      BY DEF ContestInv, Typed, TokensTyped
    <2> HIDE DEF row
    <2>2. QED BY <1>1, <2>1
  <1>3. QED BY <1>1, <1>2, EndKeepsTokens

LEMMA ProceedKeepsTokens ==
  ASSUME ContestInv, TokenInv, NEW r \in Request, Proceed(r), requests[r].stage = "arrived",
         requests[r].kind = "token" => TokenAcceptable(requests[r])
  PROVE  TokenInv'
  <1>1. /\ requests' = [requests EXCEPT ![r].stage = "checked"]
        /\ UNCHANGED <<now, setting, starting_time, rows, tokens, overlapped>>
    BY DEF Proceed
  <1>2. \A x \in Request : /\ Underway(x)' <=> Underway(x)
                           /\ x # r => requests'[x] = requests[x]
    BY <1>1 DEF ContestInv, Typed, Underway
  <1>3. /\ requests'[r].kind = requests[r].kind
        /\ requests'[r].timestamp = requests[r].timestamp
        /\ requests[r].kind = "token" => requests'[r].submission = requests[r].submission
    <2>1. requests[r] \in AnyRequest
      BY DEF ContestInv, Typed, Possible, Underway
    <2>2. requests'[r] = [requests[r] EXCEPT !.stage = "checked"]
      BY <1>1 DEF ContestInv, Typed
    <2>3. QED BY <2>1, <2>2, RequestFacts DEF AnyRequest, RowRequest, TokenRequest, StartRequest
  <1>4. \A x \in Request : /\ requests'[x].kind = requests[x].kind
                           /\ requests'[x].timestamp = requests[x].timestamp
    BY <1>2, <1>3
  <1>5. TokensBefore'
    BY <1>1, <1>2, <1>4 DEF TokenInv, TokensBefore
  <1>6. TokenChecksStand'
    <2>1. SUFFICES ASSUME ~overlapped, NEW x \in Request, requests'[x].stage = "checked",
                          requests'[x].kind = "token"
                   PROVE  TokenAcceptable(requests[x])'
      BY <1>1 DEF TokenChecksStand
    <2>2. TokenAcceptable(requests[x]) /\ requests'[x].submission = requests[x].submission
      <3>1. CASE x = r
        BY <1>3, <2>1, <3>1
      <3>2. CASE x # r
        BY <1>2, <2>1, <3>2 DEF TokenInv, TokenChecksStand
      <3>3. QED BY <3>1, <3>2
    <2>3. QED BY <1>1, <1>4, <2>2, AcceptableStays
  <1>7. TokensStay'
    <2>1. UNCHANGED unrestricted /\ PhaseAt(now)' = PhaseAt(now)
      BY <1>1 DEF unrestricted, PhaseAt, contest, user
    <2>2. QED BY <1>1, <1>2, <1>4, <2>1 DEF TokenInv, TokensStay
  <1>8. Earned'
    BY <1>1, EarnedStays DEF TokenInv
  <1>9. QED BY <1>5, <1>6, <1>7, <1>8 DEF TokenInv

(* A token is played: it was left, and none held it up.                    *)
LEMMA CommitTokenKeepsTokens ==
  ASSUME ContestInv, TokenInv, NEW r \in Request, CommitToken(r) PROVE TokenInv'
  <1> DEFINE request == requests[r]
             i == request.submission
             t == request.timestamp
             given == [j \in DOMAIN tokens \cup {i} |-> IF j \in DOMAIN tokens THEN tokens[j] ELSE t]
             task == rows[i].task
  <1>1. /\ request.stage = "checked" /\ request.kind = "token" /\ tokens' = given
        /\ requests' = [requests EXCEPT ![r] = Idle]
        /\ UNCHANGED <<now, setting, starting_time, rows, overlapped>>
    BY DEF CommitToken
  <1>2. Underway(r) /\ Typed /\ Possible(request)
    BY <1>1 DEF Underway, ContestInv, Typed
  <1>3. i \in 1 .. Len(rows) /\ task \in Task /\ t \in Int /\ t <= now
    <2>1. i \in 1 .. Len(rows) /\ t \in Int /\ t <= now
      BY <1>1, <1>2, TokenFacts DEF Possible
    <2>2. rows[i] \in RowType
      BY <1>2, <2>1 DEF Typed
    <2>3. QED BY <2>1, <2>2 DEF RowType
  <1>4. overlapped \/ \A x \in Request : ~Underway(x)' /\ requests'[x].stage = "idle"
    <2>1. requests'[r] = Idle /\ \A x \in Request \ {r} : requests'[x] = requests[x]
      BY <1>1, <1>2 DEF Typed
    <2>2. QED BY <1>2, <2>1 DEF ContestInv, Alone, Underway, Idle
  <1>5. TokensBefore' /\ TokenChecksStand'
    BY <1>1, <1>4 DEF TokensBefore, TokenChecksStand
  <1>6. TokensStay'
    <2>1. UNCHANGED unrestricted /\ PhaseAt(now)' = PhaseAt(now)
      BY <1>1 DEF unrestricted, PhaseAt, contest, user
    <2>2. overlapped \/ unrestricted \/ PhaseAt(now) >= 0
      BY <1>1, <1>2 DEF TokenInv, TokensStay
    <2>3. QED BY <1>1, <1>4, <2>1, <2>2 DEF TokensStay
  <1>7. Earned'
    <2>1. SUFFICES ASSUME ~overlapped, ~StartedAgain', NEW scope \in Task \cup {"contest"}
                   PROVE  EarnedIn(TokenRules(scope), TokenStart, tokens, TokensIn(scope), now)'
      BY <1>1 DEF Earned
    <2>2. /\ TokenStart' = TokenStart /\ TokenRules(scope)' = TokenRules(scope)
          /\ now' = now
      BY <1>1 DEF TokenStart, TokenRules, contest
    <2>3. TokenAcceptable(request)
      BY <1>1, <2>1 DEF TokenInv, TokenChecksStand
    <2>4. i \notin DOMAIN tokens /\ ~TokensFail(task, t) /\ Playable(TokensAvailable(task, t))
      BY <2>3 DEF TokenAcceptable
    <2>5. \A j \in DOMAIN tokens : tokens[j] <= t
      BY <1>2, <2>1 DEF TokenInv, TokensBefore
    <2> HIDE DEF request
    <2>6. DOMAIN tokens' = DOMAIN tokens \cup {i} /\ tokens'[i] = t
          /\ \A j \in DOMAIN tokens : tokens'[j] = tokens[j]
      BY <1>1, <2>4
    <2> HIDE DEF given, i, t
    <2>7. ~StartedAgain
      BY <1>1, <2>1, <2>6 DEF StartedAgain, contest, unrestricted
    <2>8. \A s \in Task \cup {"contest"} :
            EarnedIn(TokenRules(s), TokenStart, tokens, TokensIn(s), now)
      BY <2>1, <2>7 DEF TokenInv, Earned
    <2>9. TokensIn(scope) \subseteq DOMAIN tokens
      BY DEF TokensIn
    <2>10. TimesUpTo(tokens, TokensIn(scope), t)
      BY <2>5, <2>9, TokenFacts DEF TimesUpTo
    <2>11. CASE scope \in {"contest", task}
      <3>1. TokensIn(scope)' = TokensIn(scope) \cup {i}
        BY <1>1, <2>6, <2>11 DEF TokensIn
      <3>2. Played(t, scope) = InOrder(tokens, TokensIn(scope))
        BY <2>5, AllPlayed
      <3>3. TokenRules(scope).mode = "finite" => TokenStart \in Int /\ TokenStart <= t
        BY <1>3, <2>4, <2>5, <2>8, <2>11, BothAreTruthful
      <3>4. /\ Left(TokenRules(scope), TokenStart, Played(t, scope), t) # 0
            /\ Left(TokenRules(scope), TokenStart, Played(t, scope), t) \in {-1} \cup Nat
            /\ Unhindered(TokenRules(scope), Played(t, scope), t)
        BY <1>3, <2>4, <2>5, <2>8, <2>11, PlayableInBoth
      <3> DEFINE rules == TokenRules(scope)
                 start == TokenStart
                 ids == TokensIn(scope)
                 times == tokens
                 later == tokens'
                 instant == now
      <3>5. /\ Permitted(rules) /\ instant \in Int /\ t \in Int /\ t <= instant
            /\ TimesUpTo(times, ids, t) /\ EarnedIn(rules, start, times, ids, instant)
            /\ rules.mode = "finite" => start \in Int /\ start <= t
            /\ Left(rules, start, InOrder(times, ids), t) # 0
            /\ Left(rules, start, InOrder(times, ids), t) \in {-1} \cup Nat
            /\ Unhindered(rules, InOrder(times, ids), t)
            /\ i \notin ids /\ later[i] = t /\ \A j \in ids : later[j] = times[j]
        BY <1>3, <2>4, <2>6, <2>8, <2>9, <2>10, <3>2, <3>3, <3>4, TokenFacts
      <3> HIDE DEF rules, start, ids, times, later, instant
      <3>6. EarnedIn(rules, start, later, ids \cup {i}, instant)
        BY <3>5, EarnedByPlaying
      <3>7. QED BY <2>2, <3>1, <3>6 DEF rules, start, ids, times, later, instant
    <2>12. CASE scope \notin {"contest", task}
      <3>1. TokensIn(scope)' = TokensIn(scope)
        BY <1>1, <2>6, <2>12 DEF TokensIn
      <3> DEFINE rules == TokenRules(scope)
                 start == TokenStart
                 ids == TokensIn(scope)
                 times == tokens
                 later == tokens'
                 instant == now
      <3>2. /\ Permitted(rules) /\ instant \in Int /\ start \in {None} \cup Int
            /\ TimesUpTo(times, ids, instant) /\ EarnedIn(rules, start, times, ids, instant)
            /\ \A j \in ids : later[j] = times[j]
        BY <2>6, <2>8, <2>9, TokenFacts
      <3> HIDE DEF rules, start, ids, times, later, instant
      <3>3. EarnedIn(rules, start, later, ids, instant)
        BY <3>2, EarnedElsewhere
      <3>4. QED BY <2>2, <3>1, <3>3 DEF rules, start, ids, times, later, instant
    <2>13. QED BY <2>11, <2>12
  <1>8. QED BY <1>5, <1>6, <1>7 DEF TokenInv

(* The contestant starts: no token is from before, unless started again.   *)
LEMMA CommitStartKeepsTokens ==
  ASSUME ContestInv, ContestInv', TokenInv, NEW r \in Request, CommitStart(r) PROVE TokenInv'
  <1> DEFINE t == requests[r].timestamp
  <1>1. /\ requests[r].stage = "arrived" /\ requests[r].kind = "start"
        /\ starting_time' = t
        /\ requests' = [requests EXCEPT ![r] = Idle]
        /\ UNCHANGED <<now, setting, rows, tokens, overlapped>>
    BY DEF CommitStart
  <1>2. Underway(r) /\ Typed /\ Possible(requests[r])
    BY <1>1 DEF Underway, ContestInv, Typed
  <1>3. overlapped \/ \A x \in Request : ~Underway(x)' /\ requests'[x].stage = "idle"
    <2>1. requests'[r] = Idle /\ \A x \in Request \ {r} : requests'[x] = requests[x]
      BY <1>1, <1>2 DEF Typed
    <2>2. QED BY <1>2, <2>1 DEF ContestInv, Alone, Underway, Idle
  <1>4. TokensBefore' /\ TokenChecksStand'
    BY <1>1, <1>3 DEF TokensBefore, TokenChecksStand
  <1>5. overlapped \/ unrestricted \/ DOMAIN tokens = {}
    BY <1>1, <1>2 DEF TokenInv, TokensStay
  <1>6. TokensStay'
    BY <1>1, <1>3, <1>5 DEF TokensStay, unrestricted
  <1>7. Earned'
    <2>1. SUFFICES ASSUME ~overlapped, ~StartedAgain', NEW scope \in Task \cup {"contest"}
                   PROVE  EarnedIn(TokenRules(scope), TokenStart, tokens, TokensIn(scope), now)'
      BY <1>1 DEF Earned
    <2>2. TokenRules(scope)' = TokenRules(scope) /\ TokensIn(scope)' = TokensIn(scope)
          /\ now' = now /\ tokens' = tokens
      BY <1>1 DEF TokenRules, TokensIn
    <2>3. CASE contest.per_user_time = None
      <3>1. TokenStart' = TokenStart /\ ~StartedAgain
        BY <1>1, <2>3 DEF TokenStart, StartedAgain, contest
      <3>2. EarnedIn(TokenRules(scope), TokenStart, tokens, TokensIn(scope), now)
        BY <2>1, <3>1 DEF TokenInv, Earned
      <3>3. QED BY <2>2, <3>1, <3>2
    <2>4. CASE contest.per_user_time # None
      <3>1. DOMAIN tokens = {}
        <4>1. CASE unrestricted
          <5>1. t # None
            BY <1>2, NoneIsNoTime DEF Possible
          <5>2. \A i \in DOMAIN tokens : ~(tokens[i] <= t)
            BY <1>1, <2>1, <2>4, <4>1, <5>1 DEF StartedAgain, contest, unrestricted
          <5>3. \A i \in DOMAIN tokens : tokens[i] <= t
            BY <1>2, <2>1 DEF TokenInv, TokensBefore
          <5>4. QED BY <5>2, <5>3
        <4>2. CASE ~unrestricted
          BY <1>5, <2>1, <4>2
        <4>3. QED BY <4>1, <4>2
      <3>2. TokensIn(scope) = {}
        BY <3>1 DEF TokensIn
      <3>3. TokenStart' \in {None} \cup Int /\ now' \in Int
        BY TokenFacts, <1>1, <1>2, <2>4 DEF TokenStart, contest, Possible
      <3>4. Permitted(TokenRules(scope))
        BY TokenFacts
      <3>5. EarnedIn(TokenRules(scope), TokenStart', tokens, {}, now')
        BY <3>3, <3>4, EarnedAtFirst
      <3>6. QED BY <2>2, <3>2, <3>5
    <2>5. QED BY <2>3, <2>4
  <1>8. QED BY <1>4, <1>6, <1>7 DEF TokenInv

-----------------------------------------------------------------------------
LEMMA NextKeepsTokens ==
  ASSUME ContestInv, ContestInv', TokenInv, [Next]_vars PROVE TokenInv'
  <1>1. CASE Tick
    BY <1>1, TickKeepsTokens
  <1>2. ASSUME NEW r \in Request, SendStart(r) PROVE TokenInv'
    BY <1>2, ArriveKeepsTokens DEF SendStart
  <1>3. ASSUME NEW r \in Request, NEW cls \in Class, NEW task \in Task, SendRow(r, cls, task)
        PROVE  TokenInv'
    <2> DEFINE request == [stage |-> "arrived", kind |-> cls, task |-> task, timestamp |-> now,
                           official |-> PhaseAt(now) = 0]
    <2>1. Arrive(r, request) /\ request.stage = "arrived" /\ request.timestamp = now
      BY <1>3 DEF SendRow
    <2> HIDE DEF request
    <2>2. QED BY <2>1, ArriveKeepsTokens
  <1>4. ASSUME NEW r \in Request, NEW i \in 1 .. Len(rows), SendToken(r, i) PROVE TokenInv'
    <2> DEFINE request == [stage |-> "arrived", kind |-> "token", submission |-> i,
                           timestamp |-> now]
    <2>1. Arrive(r, request) /\ request.stage = "arrived" /\ request.timestamp = now
      BY <1>4 DEF SendToken
    <2> HIDE DEF request
    <2>2. QED BY <2>1, ArriveKeepsTokens
  <1>5. ASSUME NEW r \in Request, CheckRow(r) PROVE TokenInv'
    <2>1. requests[r].kind # "token" /\ Underway(r)
      BY <1>5 DEF CheckRow, Class, Underway
    <2>2. QED BY <1>5, <2>1, ProceedKeepsTokens, RejectKeepsTokens DEF CheckRow
  <1>6. ASSUME NEW r \in Request, CheckToken(r) PROVE TokenInv'
    <2>1. Underway(r)
      BY <1>6 DEF CheckToken, Underway
    <2>2. QED BY <1>6, <2>1, ProceedKeepsTokens, RejectKeepsTokens DEF CheckToken
  <1>7. ASSUME NEW r \in Request, StorageFails(r) PROVE TokenInv'
    BY <1>7, RejectKeepsTokens DEF StorageFails, Underway
  <1>8. CASE UNCHANGED vars
    <2>1. UNCHANGED <<now, setting, starting_time, rows, tokens, requests, overlapped>>
      BY <1>8 DEF vars
    <2>2. TokensBefore' /\ TokensStay'
      BY <2>1 DEF TokenInv, TokensBefore, TokensStay, Underway, unrestricted, PhaseAt, contest, user
    <2>3. TokenChecksStand'
      BY <2>1, AcceptableStays DEF TokenInv, TokenChecksStand
    <2>4. Earned'
      BY <2>1, EarnedStays DEF TokenInv
    <2>5. QED BY <2>2, <2>3, <2>4 DEF TokenInv
  <1>9. QED
    BY <1>1, <1>2, <1>3, <1>4, <1>5, <1>6, <1>7, <1>8, CommitRowKeepsTokens,
       CommitTokenKeepsTokens, CommitStartKeepsTokens DEF Next

LEMMA AlwaysTokenInv == Spec => []TokenInv
  <1>1. ContestInv /\ Init => TokenInv
    BY TokenInvInitially
  <1>2. ContestInv /\ ContestInv' /\ TokenInv /\ [Next]_vars => TokenInv'
    BY NextKeepsTokens
  <1>3. QED BY <1>1, <1>2, AlwaysContestInv, PTL DEF Spec

(* No token is played before it was generated, beyond the total, or too    *)
(* early after another one, for all rules of contest and tasks, as long as *)
(* requests do not overlap and nobody starts again after playing tokens.   *)
THEOREM ContestTokensAreEarned == Spec => []TokensAreEarned
  <1>1. ASSUME ContestInv, TokenInv PROVE TokensAreEarned
    <2>1. SUFFICES ASSUME ~overlapped, ~StartedAgain, NEW scope \in Task \cup {"contest"}
                   PROVE  LET rules == TokenRules(scope)  history == Played(now, scope) IN
                          /\ rules.mode = "disabled" => history = <<>>
                          /\ rules.mode = "finite" /\ history # <<>> =>
                               /\ TokenStart # None /\ TokenStart <= history[1]
                               /\ \A u \in TokenStart .. now :
                                    Level(rules, TokenStart, history, u) >= 0
                               /\ rules.max_number = None \/ Len(history) <= rules.max_number
                               /\ \A n \in 1 .. Len(history) - 1 :
                                    history[n + 1] - history[n] >= rules.min_interval
      BY DEF TokensAreEarned
    <2> DEFINE rules == TokenRules(scope)
               start == TokenStart
               times == tokens
               ids == TokensIn(scope)
               H == InOrder(times, ids)
               instant == now
    <2>2. EarnedIn(rules, start, times, ids, instant)
      BY <1>1, <2>1 DEF TokenInv, Earned
    <2>3. Played(now, scope) = H
      BY <1>1, TokenFacts, AllPlayed
    <2>4. TimesUpTo(times, ids, instant)
      BY <1>1, TokenFacts
    <2> HIDE DEF rules, start, times, ids, instant
    <2>5. IsFiniteSet(ids) /\ \A i \in ids : times[i] \in Int
      BY <2>4 DEF TimesUpTo
    <2>6. /\ H \in Seq(Int) /\ Len(H) = Cardinality(ids)
          /\ \A n \in 1 .. Len(H) : \E i \in ids : H[n] = times[i]
          /\ \A m, n \in 1 .. Len(H) : m < n =>
               \E i, j \in ids : i # j /\ H[m] = times[i] /\ H[n] = times[j] /\ times[i] <= times[j]
      BY <2>5, InOrderFacts
    <2>7. H = <<>> <=> ids = {}
      BY <2>5, <2>6, FS_EmptySet
    <2>8. rules.mode = "disabled" => H = <<>>
      BY <2>2, <2>7 DEF EarnedIn
    <2>9. ASSUME rules.mode = "finite", H # <<>>
          PROVE  /\ start # None /\ start <= H[1]
                 /\ \A u \in start .. instant : Level(rules, start, H, u) >= 0
                 /\ rules.max_number = None \/ Len(H) <= rules.max_number
                 /\ \A n \in 1 .. Len(H) - 1 : H[n + 1] - H[n] >= rules.min_interval
      <3>1. /\ start # None /\ \A i \in ids : start <= times[i]
            /\ \A u \in start .. instant : Level(rules, start, H, u) >= 0
            /\ rules.max_number = None \/ Cardinality(ids) <= rules.max_number
            /\ \A i, j \in ids :
                 i # j /\ times[i] <= times[j] => times[j] - times[i] >= rules.min_interval
        BY <2>2, <2>7, <2>9 DEF EarnedIn
      <3> HIDE DEF H
      <3>2. 1 \in 1 .. Len(H)
        BY <2>6, <2>9
      <3>3. start <= H[1]
        BY <2>6, <3>1, <3>2
      <3>4. ASSUME NEW n \in 1 .. Len(H) - 1 PROVE H[n + 1] - H[n] >= rules.min_interval
        <4>1. n \in 1 .. Len(H) /\ n + 1 \in 1 .. Len(H) /\ n < n + 1
          BY <2>6
        <4>2. PICK i \in ids, j \in ids : /\ i # j /\ H[n] = times[i] /\ H[n + 1] = times[j]
                                          /\ times[i] <= times[j]
          BY <2>6, <4>1
        <4>3. QED BY <3>1, <4>2
      <3>5. QED BY <2>6, <3>1, <3>3, <3>4
    <2> HIDE DEF H
    <2>10. QED BY <2>3, <2>8, <2>9 DEF rules, start, instant
  <1>2. QED BY <1>1, AlwaysContestInv, AlwaysTokenInv, PTL

(* What tokens_available says is true: the number, the first time at which *)
(* there are more, and the first at which one may be played, for all rules *)
(* of contest and tasks and every history.                                 *)
THEOREM ContestTokensAvailableIsRight == Spec => []TokensAvailableIsRight
  <1>1. ASSUME ContestInv, TokenInv PROVE TokensAvailableIsRight
    <2>1. SUFFICES ASSUME ~overlapped, ~StartedAgain, NEW task \in Task, ~TokensFail(task, now)
                   PROVE  LET claimed == TokensAvailable(task, now)
                              later == now + 1 .. 2 * Horizon IN
                          /\ claimed.avail = LeftAt(task, now)
                          /\ \A u \in later : LeftAt(task, u) > claimed.avail
                               <=> claimed.next # None /\ u >= claimed.next
                          /\ ~(claimed.avail = 0 /\ claimed.next = None) =>
                               \A u \in {now} \cup later : FreeAt("contest", u) /\ FreeAt(task, u)
                                 <=> claimed.expiration = None \/ u >= claimed.expiration
      BY DEF TokensAvailableIsRight
    <2> DEFINE R == TokenRules("contest")
               Q == TokenRules(task)
               t == now
               start == TokenStart
               H == Played(t, "contest")
               K == Played(t, task)
               c == TokensOf(R, start, H, t)
               d == TokensOf(Q, start, K, t)
               claimed == Merged(c, d)
    <2>2. /\ t \in Int /\ \A u \in {now} \cup (now + 1 .. 2 * Horizon) : u \in Int /\ u >= t
          /\ \A u \in now + 1 .. 2 * Horizon : u > t
      BY <1>1, TokenFacts, ContestWebServerAssumption
    <2>3. Truthful(R, start, H, t, c) /\ Truthful(Q, start, K, t, d)
      <3>1. /\ \A i \in DOMAIN tokens : tokens[i] <= now
            /\ now \in Int /\ now <= now
        BY <1>1, TokenFacts
      <3>2. \A scope \in Task \cup {"contest"} :
              EarnedIn(TokenRules(scope), TokenStart, tokens, TokensIn(scope), now)
        BY <1>1, <2>1 DEF TokenInv, Earned
      <3>3. QED BY <1>1, <2>1, <3>1, <3>2, BothAreTruthful
    <2>4. TokensAvailable(task, now) = claimed
      BY DEF TokensAvailable
    <2>5. \A u : /\ LeftAt(task, u) = Fewer(Left(R, start, H, u), Left(Q, start, K, u))
                 /\ FreeAt("contest", u) <=> Unhindered(R, H, u)
                 /\ FreeAt(task, u) <=> Unhindered(Q, K, u)
      BY DEF LeftAt, Fewer, FreeAt, Unhindered
    <2> HIDE DEF R, Q, start, H, K, c, d, t
    <2>6. \A u \in Int : u >= t =>
            /\ claimed.avail = Fewer(Left(R, start, H, t), Left(Q, start, K, t))
            /\ u > t => (Fewer(Left(R, start, H, u), Left(Q, start, K, u)) > claimed.avail
                          <=> claimed.next # None /\ u >= claimed.next)
            /\ \/ claimed.avail = 0 /\ claimed.next = None
               \/ Unhindered(R, H, u) /\ Unhindered(Q, K, u)
                    <=> claimed.expiration = None \/ u >= claimed.expiration
      BY <2>2, <2>3, MergeIsTruthful
    <2> HIDE DEF claimed
    <2>7. claimed.avail = LeftAt(task, now)
      BY <2>2, <2>5, <2>6 DEF t
    <2>8. \A u \in now + 1 .. 2 * Horizon :
            LeftAt(task, u) > claimed.avail <=> claimed.next # None /\ u >= claimed.next
      <3>1. SUFFICES ASSUME NEW u \in now + 1 .. 2 * Horizon
                     PROVE  LeftAt(task, u) > claimed.avail
                              <=> claimed.next # None /\ u >= claimed.next
        OBVIOUS
      <3>2. u \in Int /\ u >= t /\ u > t
        BY <2>2
      <3>3. QED BY <2>5, <2>6, <3>2
    <2>9. ASSUME ~(claimed.avail = 0 /\ claimed.next = None),
                 NEW u \in {now} \cup (now + 1 .. 2 * Horizon)
          PROVE  FreeAt("contest", u) /\ FreeAt(task, u)
                   <=> claimed.expiration = None \/ u >= claimed.expiration
      <3>1. u \in Int /\ u >= t
        BY <2>2
      <3>2. QED BY <2>5, <2>6, <2>9, <3>1
    <2>10. QED BY <2>4, <2>7, <2>8, <2>9
  <1>2. QED BY <1>1, AlwaysContestInv, AlwaysTokenInv, PTL
=============================================================================
