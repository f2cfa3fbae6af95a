----------------------------- MODULE WorkerProofs --------------------------
(***************************************************************************)
(* Invariants of Worker, for every set of requests, every groups of jobs,  *)
(* whatever their commands leave in the logs of isolate, and for as many   *)
(* exceptions and deaths as there may be.                                  *)
(***************************************************************************)
EXTENDS Worker, WellFoundedInduction, TLAPS

-----------------------------------------------------------------------------
(* Lemmas on the logs of isolate and on the statistics.                    *)

LogType == [status : SUBSET {"XX", "TO", "SG", "RE"}, wall : BOOLEAN, oom : BOOLEAN, time : Nat]

(* "XX" is what tells that isolate failed, in the status and in the code.  *)
LEMMA LogFacts ==
  ASSUME NEW log \in LogType
  PROVE  /\ ExitStatus(log) \in ExitStatuses
         /\ ExitStatus(log) = "sandbox error" <=> "XX" \in log.status
         /\ BoxSuccess(ExitCode(log)) <=> "XX" \notin log.status
         /\ ExecutionStats(log) \in ExecutionStatsType
         /\ ExecutionStats(log).exit_status = ExitStatus(log)
  <1>1. /\ log.status \in SUBSET {"XX", "TO", "SG", "RE"} /\ log.time \in Nat
        /\ log.wall \in BOOLEAN /\ log.oom \in BOOLEAN
    BY DEF LogType
  <1>2. /\ ExitStatus(log) \in ExitStatuses
        /\ ExitStatus(log) = "sandbox error" <=> "XX" \in log.status
    <2>1. CASE "XX" \in log.status
      <3>1. ExitStatus(log) = "sandbox error"
        BY Zenon, <2>1 DEF ExitStatus
      <3>2. QED BY <2>1, <3>1 DEF ExitStatuses
    <2>2. CASE "XX" \notin log.status /\ "TO" \in log.status
      <3>1. ExitStatus(log) = IF log.wall THEN "wall timeout" ELSE "timeout"
        BY Zenon, <2>2 DEF ExitStatus
      <3>2. QED BY <2>2, <3>1 DEF ExitStatuses
    <2>3. CASE "XX" \notin log.status /\ "TO" \notin log.status /\ "SG" \in log.status
      <3>1. {"XX", "TO"} \cap log.status = {}
        BY <2>3
      <3>2. ExitStatus(log) = IF log.oom THEN "memory limit" ELSE "signal"
        BY Zenon, <2>3, <3>1 DEF ExitStatus
      <3>3. QED BY <2>3, <3>2 DEF ExitStatuses
    <2>4. CASE "XX" \notin log.status /\ "TO" \notin log.status /\ "SG" \notin log.status
      <3>1. ExitStatus(log) = IF "RE" \in log.status THEN "nonzero return" ELSE "ok"
        BY Zenon, <2>4 DEF ExitStatus
      <3>2. QED BY <2>4, <3>1 DEF ExitStatuses
    <2>5. QED BY <2>1, <2>2, <2>3, <2>4
  <1>3. BoxSuccess(ExitCode(log)) <=> "XX" \notin log.status
    BY DEF BoxSuccess, ExitCode
  <1>4. QED BY <1>1, <1>2, <1>3 DEF ExecutionStats, ExecutionStatsType

(* Induction up to a bound, with a set for the property.                   *)
LEMMA InductionUpTo ==
  ASSUME NEW N \in Nat, NEW S, 0 \in S,
         \A n \in 1 .. N : n - 1 \in S => n \in S
  PROVE  N \in S
  <1> SUFFICES ASSUME N \notin S PROVE FALSE
    OBVIOUS
  <1> DEFINE others == {n \in 0 .. N : n \notin S}
             less == OpToRel(<, Nat)
  <1>1. others \subseteq Nat /\ N \in others
    OBVIOUS
  <1>2. IsWellFoundedOn(less, Nat)
    BY NatLessThanWellFounded
  <1>3. \A i, j \in Nat : <<i, j>> \in less <=> i < j
    BY DEF OpToRel
  <1> HIDE DEF less
  <1>4. PICK k \in others : \A j \in others : ~ (<<j, k>> \in less)
    BY <1>1, <1>2, WFMin
  <1>5. k # 0 /\ k \in 1 .. N /\ k - 1 \in 0 .. N
    BY <1>4
  <1>6. k - 1 \notin others
    <2>1. <<k - 1, k>> \in less
      BY <1>3, <1>5
    <2>2. QED BY <1>4, <2>1
  <1>7. QED BY <1>4, <1>5, <1>6

(* A set of positive numbers that is not empty has a smallest one.         *)
LEMMA MinOfPositives ==
  ASSUME NEW S \in SUBSET (Nat \ {0}), S # {}
  PROVE  Min(S) \in S /\ \A n \in S : Min(S) <= n
  <1> DEFINE less == OpToRel(<, Nat)
  <1>1. IsWellFoundedOn(less, Nat)
    BY NatLessThanWellFounded
  <1>2. \A i, j \in Nat : <<i, j>> \in less <=> i < j
    BY DEF OpToRel
  <1> HIDE DEF less
  <1>3. PICK k \in S : \A j \in S : ~ (<<j, k>> \in less)
    BY <1>1, WFMin
  <1>4. ASSUME NEW j \in S PROVE k <= j
    <2>1. j \in Nat /\ k \in Nat /\ ~ (j < k)
      BY <1>2, <1>3
    <2>2. QED BY <2>1
  <1>5. QED BY <1>4 DEF Min

Merging(s, n, upTo) ==
  upTo = [k \in 1 .. n |-> IF k = 1 THEN s[1] ELSE MergeStats(upTo[k - 1], s[k])]

(* merge_execution_stats of statistics gives statistics.                   *)
LEMMA MergeStatsType ==
  ASSUME NEW first \in ExecutionStatsType, NEW second \in ExecutionStatsType
  PROVE  MergeStats(first, second) \in ExecutionStatsType
  BY DEF MergeStats, ExecutionStatsType

(* The statistics of several runs can be merged one after the other.       *)
LEMMA MergingExists ==
  ASSUME NEW s, NEW N \in Nat, N # 0
  PROVE  \E upTo : Merging(s, N, upTo)
  <1> DEFINE S == {n \in 0 .. N : n = 0 \/ \E upTo : Merging(s, n, upTo)}
  <1>1. 0 \in S
    OBVIOUS
  <1>2. ASSUME NEW n \in 1 .. N, n - 1 \in S PROVE n \in S
    <2>1. CASE n = 1
      <3>1. Merging(s, 1, [k \in 1 .. 1 |-> s[1]])
        BY DEF Merging
      <3>2. QED BY <2>1, <3>1
    <2>2. CASE n # 1
      <3>1. PICK f : Merging(s, n - 1, f)
        BY <1>2, <2>2
      <3> DEFINE MergeAt(x, k) == MergeStats(x, s[k])
                 last == MergeAt(f[n - 1], n)
                 g == [k \in 1 .. n |-> IF k = n THEN last ELSE f[k]]
      <3>2. f = [k \in 1 .. n - 1 |-> IF k = 1 THEN s[1] ELSE MergeAt(f[k - 1], k)]
        BY Zenon, <3>1 DEF Merging
      <3>3. last = MergeAt(f[n - 1], n)
        BY Zenon
      <3> HIDE DEF MergeAt, last
      <3>4. g = [k \in 1 .. n |-> IF k = 1 THEN s[1] ELSE MergeAt(g[k - 1], k)]
        <4> SUFFICES ASSUME NEW k \in 1 .. n
                     PROVE  g[k] = IF k = 1 THEN s[1] ELSE MergeAt(g[k - 1], k)
          OBVIOUS
        <4>1. CASE k = n
          BY <4>1, <3>3, <2>2
        <4>2. CASE k # n
          BY <4>2, <3>2
        <4>3. QED BY <4>1, <4>2
      <3> HIDE DEF g
      <3>5. Merging(s, n, g)
        BY Zenon, <3>4 DEF Merging, MergeAt
      <3>6. QED BY <3>5
    <2>3. QED BY <2>1, <2>2
  <1> HIDE DEF S
  <1>3. N \in S
    BY <1>1, <1>2, InductionUpTo
  <1>4. QED BY <1>3 DEF S

(* Statistics merge to statistics, and those of one run to themselves.     *)
LEMMA MergedIsStats ==
  ASSUME NEW s \in Seq(ExecutionStatsType), s # <<>>
  PROVE  /\ Merged(s) \in ExecutionStatsType
         /\ Len(s) = 1 => Merged(s) = s[1]
  <1> DEFINE N == Len(s)
             upTo == CHOOSE f : Merging(s, N, f)
             S == {n \in 0 .. N : n = 0 \/ upTo[n] \in ExecutionStatsType}
  <1>1. N \in Nat /\ N # 0
    OBVIOUS
  <1>2. Merging(s, N, upTo)
    BY <1>1, MergingExists
  <1>3. Merged(s) = upTo[N]
    BY Zenon DEF Merged, Merging
  <1> HIDE DEF upTo
  <1>4. \A n \in 1 .. N : upTo[n] = IF n = 1 THEN s[1] ELSE MergeStats(upTo[n - 1], s[n])
    <2>1. upTo = [k \in 1 .. N |-> IF k = 1 THEN s[1] ELSE MergeStats(upTo[k - 1], s[k])]
      BY Zenon, <1>2 DEF Merging
    <2>2. QED BY Zenon, <2>1
  <1>5. ASSUME NEW n \in 1 .. N, n - 1 \in S PROVE n \in S
    <2>1. s[n] \in ExecutionStatsType
      OBVIOUS
    <2>2. CASE n = 1
      BY <1>4, <2>1, <2>2
    <2>3. CASE n # 1
      <3>1. upTo[n - 1] \in ExecutionStatsType
        BY <1>5, <2>3
      <3>2. upTo[n] = MergeStats(upTo[n - 1], s[n])
        BY <1>4, <2>3
      <3>3. upTo[n] \in ExecutionStatsType
        BY <2>1, <3>1, <3>2, MergeStatsType
      <3>4. QED BY <3>3
    <2>4. QED BY <2>2, <2>3
  <1>6. 0 \in S
    OBVIOUS
  <1> HIDE DEF S
  <1>7. N \in S
    BY <1>1, <1>5, <1>6, InductionUpTo
  <1>8. QED BY <1>1, <1>3, <1>4, <1>7 DEF S

(* The commands that are executed: some of those there are.                *)
LEMMA ExecutedFacts ==
  ASSUME NEW logs \in Seq(LogType), logs # <<>>
  PROVE  /\ Executed(logs) \in Seq(LogType) /\ Executed(logs) # <<>>
         /\ Len(logs) = 1 => Executed(logs) = logs
  <1> DEFINE bad == {i \in 1 .. Len(logs) : ExitStatus(logs[i]) # "ok"}
  <1>1. Executed(logs) = IF bad = {} THEN logs ELSE SubSeq(logs, 1, Min(bad))
    BY DEF Executed
  <1>2. CASE bad = {}
    BY <1>1, <1>2
  <1>3. CASE bad # {}
    <2> DEFINE m == Min(bad)
    <2>1. m \in bad
      <3>1. bad \in SUBSET (Nat \ {0})
        OBVIOUS
      <3> HIDE DEF bad
      <3>2. QED BY Zenon, <1>3, <3>1, MinOfPositives
    <2>2. m \in 1 .. Len(logs)
      BY <2>1
    <2> HIDE DEF m, bad
    <2>3. Executed(logs) = SubSeq(logs, 1, m)
      BY <1>1, <1>3 DEF m
    <2>4. /\ SubSeq(logs, 1, m) \in Seq(LogType) /\ Len(SubSeq(logs, 1, m)) = m
          /\ \A i \in 1 .. m : SubSeq(logs, 1, m)[i] = logs[i]
      BY <2>2
    <2>5. Len(logs) = 1 => SubSeq(logs, 1, m) = logs
      BY <2>2, <2>4
    <2>6. QED BY <2>2, <2>3, <2>4, <2>5
  <1>4. QED BY <1>2, <1>3

LEMMA LastOfSome ==
  ASSUME NEW S, NEW s \in Seq(S), s # <<>>
  PROVE  Last(s) \in S /\ Last(s) = s[Len(s)]
  BY DEF Last

LEMMA NoneIsNoStats ==
  /\ None \notin ExecutionStatsType /\ None # <<>>
  /\ None \notin BOOLEAN
  BY NoneAssumption

(* generic_step has statistics unless isolate failed under its last        *)
(* command.                                                                *)
LEMMA GenericStepFacts ==
  ASSUME NEW logs \in Seq(LogType), logs # <<>>
  PROVE  /\ "XX" \in Last(Executed(logs)).status => GenericStep(logs) = None
         /\ "XX" \notin Last(Executed(logs)).status =>
              GenericStep(logs) \in ExecutionStatsType
         /\ Len(logs) = 1 /\ "XX" \notin logs[1].status =>
              GenericStep(logs) = ExecutionStats(logs[1])
  <1> DEFINE done == Executed(logs)
             some == [i \in 1 .. Len(done) |-> ExecutionStats(done[i])]
  <1>1. done \in Seq(LogType) /\ done # <<>> /\ (Len(logs) = 1 => done = logs)
    BY ExecutedFacts
  <1>2. Last(done) \in LogType /\ Last(done) = done[Len(done)]
    BY <1>1, LastOfSome
  <1>3. BoxSuccess(ExitCode(Last(done))) <=> "XX" \notin Last(done).status
    BY <1>2, LogFacts
  <1>4. GenericStep(logs) = IF ~BoxSuccess(ExitCode(Last(done))) THEN None ELSE Merged(some)
    BY DEF GenericStep
  <1> HIDE DEF done
  <1>5. ASSUME NEW i \in 1 .. Len(done)
        PROVE  ExecutionStats(done[i]) \in ExecutionStatsType
    <2>1. done[i] \in LogType
      BY <1>1
    <2>2. QED BY <2>1, LogFacts
  <1>6. some \in Seq(ExecutionStatsType) /\ Len(some) = Len(done) /\ some # <<>>
    BY <1>1, <1>5
  <1>7. Len(done) = 1 => some[1] = ExecutionStats(done[1])
    OBVIOUS
  <1> HIDE DEF some
  <1>8. /\ Merged(some) \in ExecutionStatsType
        /\ Len(some) = 1 => Merged(some) = some[1]
    BY <1>6, MergedIsStats
  <1>9. QED
    <2>1. "XX" \in Last(done).status => GenericStep(logs) = None
      BY <1>3, <1>4
    <2>2. "XX" \notin Last(done).status => GenericStep(logs) \in ExecutionStatsType
      BY <1>3, <1>4, <1>8
    <2>3. Len(logs) = 1 /\ "XX" \notin logs[1].status =>
            GenericStep(logs) = ExecutionStats(logs[1])
      BY <1>1, <1>2, <1>3, <1>4, <1>6, <1>7, <1>8
    <2>4. QED BY <2>1, <2>2, <2>3 DEF done

-----------------------------------------------------------------------------
(* Lemmas on the results of the steps.                                     *)

SomeStats == ExecutionStatsType \cup {<<>>}

LEMMA NoneIsNoText == None \notin Texts /\ None \notin Outcomes
  BY NoneAssumption

(* A result that answers with a verdict of V, or with none.                *)
Answers(r, V) ==
  /\ r.success \in BOOLEAN
  /\ r.success => r.verdict \in V /\ r.text \in Texts /\ r.stats \in SomeStats
  /\ ~r.success => /\ r.verdict = None /\ r.text = None
                   /\ r.stats \in SomeStats \cup {None}

LEMMA ResultFields ==
  ASSUME NEW v, NEW t, NEW s
  PROVE  /\ Result(v, t, s).success /\ Result(v, t, s).verdict = v
         /\ Result(v, t, s).text = t /\ Result(v, t, s).stats = s
  BY DEF Result

LEMMA FailureFields ==
  /\ Failure.success = FALSE /\ Failure.verdict = None
  /\ Failure.text = None /\ Failure.stats = None
  BY DEF Failure

LEMMA FailureAnswers ==
  ASSUME NEW V
  PROVE  /\ Answers(Failure, V)
         /\ \A s \in SomeStats \cup {None} :
              Answers([Failure EXCEPT !.stats = s], V) /\ ~[Failure EXCEPT !.stats = s].success
  <1>1. Answers(Failure, V)
    BY FailureFields DEF Answers
  <1>2. ASSUME NEW s \in SomeStats \cup {None}
        PROVE  Answers([Failure EXCEPT !.stats = s], V)
               /\ ~[Failure EXCEPT !.stats = s].success
    BY DEF Answers, Failure
  <1>3. QED BY <1>1, <1>2

LEMMA ResultAnswers ==
  ASSUME NEW V, NEW v \in V, NEW t \in Texts, NEW s \in SomeStats
  PROVE  Answers(Result(v, t, s), V)
  BY DEF Answers, Result

LEMMA ResultWith ==
  ASSUME NEW v, NEW t, NEW p, NEW s
  PROVE  LET r == [Result(v, t, p) EXCEPT !.stats = s]
         IN  r.success /\ r.verdict = v /\ r.text = t /\ r.stats = s
  BY DEF Result

(* compilation_step answers whether it compiled, unless isolate failed.    *)
LEMMA CompilationStepFacts ==
  ASSUME NEW logs \in Seq(LogType), logs # <<>>
  PROVE  /\ Answers(CompilationStep(logs), BOOLEAN)
         /\ CompilationStep(logs).success => "XX" \notin Last(Executed(logs)).status
  <1> DEFINE g == GenericStep(logs)
  <1>1. CASE "XX" \in Last(Executed(logs)).status
    <2>1. g = None
      BY <1>1, GenericStepFacts
    <2>2. CompilationStep(logs) = Failure
      BY Zenon, <2>1 DEF CompilationStep
    <2>3. QED BY <2>2, FailureAnswers, FailureFields
  <1>2. CASE "XX" \notin Last(Executed(logs)).status
    <2>1. g \in ExecutionStatsType /\ g \in SomeStats
      BY <1>2, GenericStepFacts DEF SomeStats
    <2>2. g # None
      BY <2>1, NoneIsNoStats
    <2> DEFINE status == g.exit_status
    <2>3. CompilationStep(logs) =
            CASE status = "ok" -> Result(TRUE, "success", g)
              [] status = "nonzero return" -> Result(FALSE, "fail", g)
              [] status \in {"timeout", "wall timeout"} -> Result(FALSE, "timeout", g)
              [] status = "signal" -> Result(FALSE, "signal", g)
              [] OTHER -> Failure
      BY Zenon, <2>2 DEF CompilationStep
    <2> HIDE DEF g, status
    <2>4. \A v \in BOOLEAN, t \in Texts : Answers(Result(v, t, g), BOOLEAN)
      BY Zenon, <2>1, ResultAnswers
    <2>5. /\ "success" \in Texts /\ "fail" \in Texts
          /\ "timeout" \in Texts /\ "signal" \in Texts
      BY DEF Texts
    <2>6. Answers(CompilationStep(logs), BOOLEAN)
      <3>1. CASE status = "ok"
        BY Zenon, <3>1, <2>3, <2>4, <2>5
      <3>2. CASE status = "nonzero return"
        BY Zenon, <3>2, <2>3, <2>4, <2>5
      <3>3. CASE status \in {"timeout", "wall timeout"}
        <4>1. status # "ok" /\ status # "nonzero return" /\ status # "signal"
          BY <3>3
        <4>2. QED BY Zenon, <3>3, <4>1, <2>3, <2>4, <2>5
      <3>4. CASE status = "signal"
        <4>1. status # "ok" /\ status # "nonzero return"
              /\ status \notin {"timeout", "wall timeout"}
          BY <3>4
        <4>2. QED BY Zenon, <3>4, <4>1, <2>3, <2>4, <2>5
      <3>5. CASE status \notin {"ok", "nonzero return", "timeout", "wall timeout", "signal"}
        <4>1. status # "ok" /\ status # "nonzero return" /\ status # "signal"
              /\ status \notin {"timeout", "wall timeout"}
          BY <3>5
        <4>2. CompilationStep(logs) = Failure
          BY Zenon, <4>1, <2>3
        <4>3. QED BY Zenon, <4>2, FailureAnswers
      <3>6. QED BY <3>1, <3>2, <3>3, <3>4, <3>5
    <2>7. QED BY <1>2, <2>6
  <1>3. QED BY <1>1, <1>2

(* evaluation_step_after_run answers whether the program ended well.       *)
LEMMA EvaluationAfterRunFacts ==
  ASSUME NEW log \in LogType
  PROVE  /\ Answers(EvaluationAfterRun(log), BOOLEAN)
         /\ EvaluationAfterRun(log).success <=> "XX" \notin log.status
         /\ EvaluationAfterRun(log).success =>
              /\ EvaluationAfterRun(log).verdict = (ExitStatus(log) = "ok")
              /\ EvaluationAfterRun(log).stats \in ExecutionStatsType
  <1> DEFINE g == ExecutionStats(log)
             m == HumanEvaluationMessage(g)
             ok == ExitStatus(log) = "ok"
  <1>1. /\ g \in ExecutionStatsType /\ g.exit_status = ExitStatus(log)
        /\ ExitStatus(log) \in ExitStatuses
        /\ ExitStatus(log) = "sandbox error" <=> "XX" \in log.status
    BY LogFacts
  <1>2. CASE "XX" \in log.status
    <2>1. EvaluationAfterRun(log) = Failure
      BY Zenon, <1>1, <1>2 DEF EvaluationAfterRun
    <2>2. QED BY <1>2, <2>1, FailureAnswers, FailureFields
  <1>3. CASE "XX" \notin log.status
    <2>1. PICK v \in BOOLEAN : v = ok
      BY Zenon
    <2>2. EvaluationAfterRun(log) = Result(v, m, g)
      BY Zenon, <1>1, <1>3, <2>1 DEF EvaluationAfterRun
    <2>3. m \in Texts
      BY <1>1 DEF HumanEvaluationMessage, ExitStatuses, Texts
    <2>4. g \in SomeStats
      BY <1>1 DEF SomeStats
    <2> HIDE DEF m, g
    <2>5. Answers(Result(v, m, g), BOOLEAN)
      BY <2>3, <2>4, ResultAnswers
    <2>6. /\ Result(v, m, g).success /\ Result(v, m, g).verdict = v
          /\ Result(v, m, g).stats = g
      BY ResultFields
    <2>7. QED BY <1>1, <1>3, <2>1, <2>2, <2>5, <2>6 DEF g
  <1>4. QED BY <1>2, <1>3

(* evaluation_step: so does that of several commands, unless isolate       *)
(* failed under one of them.                                               *)
LEMMA EvaluationStepFacts ==
  ASSUME NEW logs \in Seq(LogType), logs # <<>>
  PROVE  /\ Answers(EvaluationStep(logs), BOOLEAN)
         /\ EvaluationStep(logs).success <=>
              \A i \in 1 .. Len(logs) : "XX" \notin logs[i].status
         /\ EvaluationStep(logs).success =>
              EvaluationStep(logs).stats \in ExecutionStatsType
  <1>1. \A i \in 1 .. Len(logs) :
          BoxSuccess(ExitCode(logs[i])) <=> "XX" \notin logs[i].status
    <2>1. \A i \in 1 .. Len(logs) : logs[i] \in LogType
      OBVIOUS
    <2>2. QED BY <2>1, LogFacts
  <1>2. CASE \E i \in 1 .. Len(logs) : "XX" \in logs[i].status
    <2>1. EvaluationStep(logs) = Failure
      BY <1>1, <1>2 DEF EvaluationStep
    <2>2. QED BY <1>2, <2>1, FailureAnswers, FailureFields
  <1>3. CASE \A i \in 1 .. Len(logs) : "XX" \notin logs[i].status
    <2>1. Last(logs) \in LogType /\ Last(logs) = logs[Len(logs)] /\ Len(logs) \in 1 .. Len(logs)
      BY LastOfSome
    <2>2. EvaluationStep(logs) = EvaluationAfterRun(Last(logs))
      BY <1>1, <1>3 DEF EvaluationStep
    <2>3. /\ Answers(EvaluationStep(logs), BOOLEAN)
          /\ EvaluationStep(logs).success
          /\ EvaluationStep(logs).stats \in ExecutionStatsType
      BY <1>3, <2>1, <2>2, EvaluationAfterRunFacts
    <2>4. QED BY <1>3, <2>3
  <1>4. QED BY <1>2, <1>3

(* checker_step answers with an outcome only when the checker ended well.  *)
LEMMA CheckerStepFacts ==
  ASSUME NEW log \in LogType, NEW outcome \in Outcomes \cup {None}
  PROVE  /\ CheckerStep(log, outcome).success \in BOOLEAN
         /\ CheckerStep(log, outcome).success =>
              /\ CheckerStep(log, outcome).verdict \in Outcomes
              /\ CheckerStep(log, outcome).text \in Texts
              /\ ExitStatus(log) = "ok"
         /\ ~CheckerStep(log, outcome).success =>
              CheckerStep(log, outcome).verdict = None /\ CheckerStep(log, outcome).text = None
         /\ \/ CheckerStep(log, outcome) = Failure
            \/ /\ outcome \in Outcomes
               /\ CheckerStep(log, outcome) = Result(outcome, "checker", None)
  <1> DEFINE logs == <<log>>
             g == GenericStep(logs)
             trusted == TrustedStep(logs)
  <1>1. logs \in Seq(LogType) /\ logs # <<>> /\ Len(logs) = 1 /\ logs[1] = log
    OBVIOUS
  <1>2. CheckerStep(log, outcome) =
          IF ~trusted.success \/ trusted.verdict # TRUE \/ outcome = None THEN Failure
          ELSE Result(outcome, "checker", None)
    BY DEF CheckerStep
  <1> HIDE DEF logs
  <1>3. trusted.success /\ trusted.verdict = TRUE => ExitStatus(log) = "ok"
    <2>1. CASE "XX" \in log.status
      <3>1. Executed(logs) = logs /\ Last(logs) = log
        BY <1>1, ExecutedFacts DEF Last
      <3>2. g = None
        BY <2>1, <1>1, <3>1, GenericStepFacts
      <3>3. trusted = Failure
        BY Zenon, <3>2 DEF TrustedStep
      <3>4. QED BY <3>3, FailureFields
    <2>2. CASE "XX" \notin log.status
      <3>1. g = ExecutionStats(log) /\ g.exit_status = ExitStatus(log)
        BY <2>2, <1>1, GenericStepFacts, LogFacts
      <3>2. PICK ok \in BOOLEAN : ok = (g.exit_status = "ok")
        BY Zenon
      <3>3. trusted = Failure \/ trusted = Result(ok, None, g)
        BY Zenon, <3>2 DEF TrustedStep
      <3> HIDE DEF trusted, g
      <3>4. trusted = Failure => ~trusted.success
        BY FailureFields
      <3>5. trusted = Result(ok, None, g) => trusted.verdict = ok
        BY ResultFields
      <3>6. QED BY <3>1, <3>2, <3>3, <3>4, <3>5
    <2>3. QED BY <2>1, <2>2
  <1> HIDE DEF trusted
  <1>4. "checker" \in Texts
    BY DEF Texts
  <1>5. CASE CheckerStep(log, outcome) = Failure
    BY Zenon, <1>5, FailureFields
  <1>6. CASE CheckerStep(log, outcome) # Failure
    <2>1. /\ trusted.success /\ trusted.verdict = TRUE /\ outcome \in Outcomes
          /\ CheckerStep(log, outcome) = Result(outcome, "checker", None)
      BY Zenon, <1>2, <1>6
    <2>2. PICK r : r = CheckerStep(log, outcome)
      OBVIOUS
    <2>3. r.success /\ r.verdict = outcome /\ r.text = "checker"
      BY <2>1, <2>2, ResultFields
    <2>4. QED BY <1>3, <1>4, <2>1, <2>2, <2>3
  <1>7. QED BY <1>5, <1>6

-----------------------------------------------------------------------------
(* Lemmas on what the task types make of a job.                            *)

(* An outcome of a job: a result, with a verdict of V, which is no success *)
(* unless sound; or statistics, if it is sound, of an output to check.     *)
FillsWith(o, V, sound) == /\ o.then = "fill" /\ Answers(o.result, V)
                          /\ o.result.success => sound
ChecksWith(o, sound) == o.then = "check" /\ o.stats \in SomeStats /\ sound

LEMMA FillFields ==
  ASSUME NEW r, NEW V, Answers(r, V), NEW sound, r.success => sound
  PROVE  FillsWith(Fill(r), V, sound)
  <1>1. Fill(r).then = "fill" /\ Fill(r).result = r
    BY DEF Fill
  <1>2. QED BY Zenon, <1>1 DEF FillsWith

LEMMA FailureFills ==
  ASSUME NEW V, NEW sound
  PROVE  /\ FillsWith(Fill(Failure), V, sound)
         /\ \A s \in SomeStats : FillsWith(Fill([Failure EXCEPT !.stats = s]), V, sound)
  <1>1. FillsWith(Fill(Failure), V, sound)
    BY Zenon, FailureAnswers, FailureFields, FillFields
  <1>2. ASSUME NEW s \in SomeStats
        PROVE  FillsWith(Fill([Failure EXCEPT !.stats = s]), V, sound)
    BY Zenon, FailureAnswers, FillFields
  <1>3. QED BY <1>1, <1>2

LEMMA ResultFills ==
  ASSUME NEW V, NEW v \in V, NEW t \in Texts, NEW s \in SomeStats, NEW sound, sound
  PROVE  FillsWith(Fill(Result(v, t, s)), V, sound)
  BY Zenon, ResultAnswers, FillFields

(* After an evaluation step that gave a verdict on the program.            *)
LEMMA AfterEvaluationFacts ==
  ASSUME NEW job, NEW step, Answers(step, BOOLEAN),
         step.success => step.stats \in SomeStats,
         NEW output \in BOOLEAN, NEW sound, step.success => sound
  PROVE  \/ FillsWith(AfterEvaluation(job, step, output), Outcomes, sound)
         \/ ChecksWith(AfterEvaluation(job, step, output), sound)
  <1> DEFINE o == AfterEvaluation(job, step, output)
  <1>1. "0.0" \in Outcomes /\ "no output" \in Texts /\ "completed" \in Texts
    BY DEF Outcomes, Texts
  <1>2. CASE ~step.success
    <2>1. o = Fill(step)
      BY Zenon, <1>2 DEF AfterEvaluation
    <2>2. Answers(step, Outcomes)
      BY Zenon, <1>2 DEF Answers
    <2>3. QED BY Zenon, <1>2, <2>1, <2>2, FillFields
  <1>3. CASE step.success
    <2>1. step.verdict \in BOOLEAN /\ step.text \in Texts /\ step.stats \in SomeStats
      BY <1>3 DEF Answers
    <2>2. CASE ~step.verdict
      <3>1. o = Fill(Result("0.0", step.text, step.stats))
        BY Zenon, <1>3, <2>2 DEF AfterEvaluation
      <3>2. QED BY Zenon, <1>1, <1>3, <2>1, <3>1, ResultFills
    <2>3. CASE step.verdict /\ ~output
      <3>1. o = Fill(Result("0.0", "no output", step.stats))
        BY Zenon, <1>3, <2>3 DEF AfterEvaluation
      <3>2. QED BY Zenon, <1>1, <1>3, <2>1, <3>1, ResultFills
    <2>4. CASE step.verdict /\ output
      <3>1. o = IF job.only_execution THEN Fill(Result("0.0", "completed", step.stats))
                ELSE Check(step.stats)
        BY Zenon, <1>3, <2>4 DEF AfterEvaluation
      <3>2. FillsWith(Fill(Result("0.0", "completed", step.stats)), Outcomes, sound)
        BY Zenon, <1>1, <1>3, <2>1, ResultFills
      <3>3. ChecksWith(Check(step.stats), sound)
        <4>1. Check(step.stats).then = "check" /\ Check(step.stats).stats = step.stats
          BY DEF Check
        <4>2. QED BY Zenon, <1>3, <2>1, <4>1 DEF ChecksWith
      <3>4. QED BY Zenon, <3>1, <3>2, <3>3
    <2>5. QED BY <2>2, <2>3, <2>4
  <1>4. QED BY <1>2, <1>3

LEMMA HumanEvaluationMessageIsText ==
  ASSUME NEW s \in ExecutionStatsType
  PROVE  HumanEvaluationMessage(s) \in Texts
  BY DEF HumanEvaluationMessage, ExecutionStatsType, ExitStatuses, Texts

(* TwoSteps raises, or answers for two programs under which nothing failed *)
(* when it has a success.                                                  *)
LEMMA TwoStepsFacts ==
  ASSUME NEW job, NEW a \in LogType, NEW b \in LogType, NEW output \in BOOLEAN,
         NEW sound, "XX" \notin a.status /\ "XX" \notin b.status => sound
  PROVE  LET o == TwoStepsEvaluation(job, EvaluationAfterRun(a), EvaluationAfterRun(b), output)
         IN  o.then = "raise" \/ FillsWith(o, Outcomes, sound) \/ ChecksWith(o, sound)
  <1> DEFINE first == EvaluationAfterRun(a)
             second == EvaluationAfterRun(b)
             o == TwoStepsEvaluation(job, first, second, output)
  <1>1. /\ Answers(first, BOOLEAN) /\ Answers(second, BOOLEAN)
        /\ first.success <=> "XX" \notin a.status
        /\ second.success <=> "XX" \notin b.status
        /\ first.success => first.stats \in ExecutionStatsType
        /\ second.success => second.stats \in ExecutionStatsType
    BY EvaluationAfterRunFacts
  <1> HIDE DEF first, second
  <1>2. CASE ~second.success
    <2>1. o = Raise
      BY Zenon, <1>2 DEF TwoStepsEvaluation
    <2>2. QED BY <2>1 DEF Raise, first, second
  <1>3. CASE second.success /\ ~first.success
    <2>1. o = Fill([Failure EXCEPT !.stats = second.stats])
      BY Zenon, <1>3 DEF TwoStepsEvaluation
    <2>2. second.stats \in SomeStats
      BY <1>1, <1>3 DEF SomeStats
    <2>3. FillsWith(o, Outcomes, sound)
      BY Zenon, <2>1, <2>2, FailureFills
    <2>4. QED BY Zenon, <2>3 DEF first, second
  <1>4. CASE second.success /\ first.success
    <2> DEFINE s == MergeStats(first.stats, second.stats)
               m == HumanEvaluationMessage(s)
    <2>1. s \in ExecutionStatsType
      BY <1>1, <1>4, MergeStatsType
    <2>2. m \in Texts
      BY <2>1, HumanEvaluationMessageIsText
    <2>3. PICK v \in BOOLEAN : v = (first.verdict /\ second.verdict)
      <3>1. first.verdict \in BOOLEAN /\ second.verdict \in BOOLEAN
        BY <1>1, <1>4 DEF Answers
      <3>2. QED BY <3>1
    <2>4. o = AfterEvaluation(job, Result(v, m, s), output)
      BY Zenon, <1>4, <2>3 DEF TwoStepsEvaluation
    <2> HIDE DEF s, m, o
    <2>5. s \in SomeStats
      BY <2>1 DEF SomeStats
    <2>6. Answers(Result(v, m, s), BOOLEAN)
      BY <2>2, <2>5, ResultAnswers
    <2>7. Result(v, m, s).stats = s
      BY ResultFields
    <2>8. sound
      BY <1>1, <1>4
    <2>9. FillsWith(o, Outcomes, sound) \/ ChecksWith(o, sound)
      BY Zenon, <2>4, <2>5, <2>6, <2>7, <2>8, AfterEvaluationFacts
    <2>10. QED BY Zenon, <2>9 DEF o, first, second
  <1>5. QED BY <1>2, <1>3, <1>4

(* Communication has a success only when nothing failed under its users,   *)
(* and its manager ended well.                                             *)
LEMMA CommunicationFacts ==
  ASSUME NEW job, NEW a \in LogType, NEW logs \in Seq(LogType), logs # <<>>,
         NEW outcome \in Outcomes \cup {None}, NEW sound,
         /\ ExitStatus(a) = "ok"
         /\ \A i \in 1 .. Len(logs) : "XX" \notin logs[i].status
         => sound
  PROVE  LET o == CommunicationEvaluation(job, EvaluationAfterRun(a),
                    [i \in 1 .. Len(logs) |-> EvaluationAfterRun(logs[i])], outcome)
         IN  o.then = "raise" \/ FillsWith(o, Outcomes, sound)
  <1> DEFINE manager == EvaluationAfterRun(a)
             users == [i \in 1 .. Len(logs) |-> EvaluationAfterRun(logs[i])]
             o == CommunicationEvaluation(job, manager, users, outcome)
             failed == {i \in 1 .. Len(users) : ~users[i].success}
             given == [i \in 1 .. Len(users) |-> users[i].stats]
             merged == Merged(given)
             late == merged.time >= TimeLimit
             ok == (\A i \in 1 .. Len(users) : users[i].verdict) /\ ~late
             shown == IF late /\ merged.exit_status = "ok"
                      THEN [merged EXCEPT !.exit_status = "timeout"] ELSE merged
  <1>1. /\ manager.verdict = TRUE => ExitStatus(a) = "ok"
    <2>1. /\ Answers(manager, BOOLEAN)
          /\ manager.success => manager.verdict = (ExitStatus(a) = "ok")
      BY EvaluationAfterRunFacts
    <2>2. ~manager.success => manager.verdict = None
      BY <2>1 DEF Answers
    <2>3. manager.success \in BOOLEAN
      BY <2>1 DEF Answers
    <2> HIDE DEF manager
    <2>4. QED BY <2>1, <2>2, <2>3, NoneIsNoStats
  <1>2. Len(users) = Len(logs) /\ Len(logs) \in Nat \ {0}
    OBVIOUS
  <1>3. ASSUME NEW i \in 1 .. Len(logs)
        PROVE  /\ users[i].success <=> "XX" \notin logs[i].status
               /\ users[i].success => users[i].stats \in ExecutionStatsType
    <2>1. logs[i] \in LogType /\ users[i] = EvaluationAfterRun(logs[i])
      OBVIOUS
    <2> HIDE DEF users
    <2>2. QED BY <2>1, EvaluationAfterRunFacts
  <1>4. o = CASE failed \ {1} # {} -> Raise
              [] failed = {1} \/ (failed = {} /\ manager.verdict # TRUE) -> Fill(Failure)
              [] OTHER ->
                   CASE job.only_execution -> Fill(Result("0.0", "completed", shown))
                     [] ~job.only_execution /\ ~ok ->
                          Fill(Result("0.0", HumanEvaluationMessage(shown), shown))
                     [] OTHER -> IF outcome = None THEN Raise
                                 ELSE Fill(Result(outcome, "manager", shown))
    BY DEF CommunicationEvaluation
  <1>5. "0.0" \in Outcomes /\ "completed" \in Texts /\ "manager" \in Texts
    BY DEF Outcomes, Texts
  <1>6. Raise.then = "raise"
    BY DEF Raise
  <1> HIDE DEF o, users, manager, ok
  <1>7. CASE failed \ {1} # {}
    <2>1. o = Raise
      BY Zenon, <1>4, <1>7
    <2>2. QED BY <1>6, <2>1 DEF o, users, manager
  <1>8. CASE failed = {1} \/ (failed = {} /\ manager.verdict # TRUE)
    <2>1. failed \ {1} = {}
      BY <1>8
    <2>2. o = Fill(Failure)
      BY Zenon, <1>4, <1>8, <2>1
    <2>3. FillsWith(o, Outcomes, sound)
      BY Zenon, <2>2, FailureFills
    <2>4. QED BY Zenon, <2>3 DEF o, users, manager
  <1>9. CASE failed = {} /\ manager.verdict = TRUE
    <2>1. failed \ {1} = {} /\ failed # {1}
      BY <1>9
    <2>2. \A i \in 1 .. Len(logs) : users[i].success
      BY <1>2, <1>9
    <2>3. sound
      BY <1>1, <1>3, <1>9, <2>2
    <2>4. given \in Seq(ExecutionStatsType) /\ given # <<>>
      BY <1>2, <1>3, <2>2
    <2> HIDE DEF given
    <2>5. merged \in ExecutionStatsType
      BY <2>4, MergedIsStats
    <2> HIDE DEF merged
    <2>6. shown \in ExecutionStatsType
      BY <2>5 DEF ExecutionStatsType, ExitStatuses
    <2>7. o = CASE job.only_execution -> Fill(Result("0.0", "completed", shown))
                [] ~job.only_execution /\ ~ok ->
                     Fill(Result("0.0", HumanEvaluationMessage(shown), shown))
                [] OTHER -> IF outcome = None THEN Raise
                            ELSE Fill(Result(outcome, "manager", shown))
      BY Zenon, <1>4, <1>9, <2>1
    <2> HIDE DEF failed, shown
    <2>8. shown \in SomeStats /\ HumanEvaluationMessage(shown) \in Texts
      BY <2>6, HumanEvaluationMessageIsText DEF SomeStats
    <2>9. /\ FillsWith(Fill(Result("0.0", "completed", shown)), Outcomes, sound)
          /\ FillsWith(Fill(Result("0.0", HumanEvaluationMessage(shown), shown)),
                       Outcomes, sound)
          /\ outcome # None =>
               FillsWith(Fill(Result(outcome, "manager", shown)), Outcomes, sound)
      <3>1. outcome # None => outcome \in Outcomes
        OBVIOUS
      <3>2. QED BY Zenon, <1>5, <2>3, <2>8, <3>1, ResultFills
    <2>10. o.then = "raise" \/ FillsWith(o, Outcomes, sound)
      <3>1. CASE job.only_execution
        BY Zenon, <2>7, <2>9, <3>1
      <3>2. CASE ~job.only_execution /\ ~ok
        BY Zenon, <2>7, <2>9, <3>2
      <3>3. CASE ~job.only_execution /\ ok
        <4>1. o = IF outcome = None THEN Raise
                  ELSE Fill(Result(outcome, "manager", shown))
          BY Zenon, <2>7, <3>3
        <4>2. QED BY Zenon, <1>6, <2>9, <4>1
      <3>4. QED BY <3>1, <3>2, <3>3
    <2>11. QED BY Zenon, <2>10 DEF o, users, manager
  <1>10. QED
    <2>1. \/ failed \ {1} # {}
          \/ failed = {1} \/ (failed = {} /\ manager.verdict # TRUE)
          \/ failed = {} /\ manager.verdict = TRUE
      BY Zenon
    <2>2. QED BY Zenon, <2>1, <1>7, <1>8, <1>9

(* What the logs tell of a job: Worker's Errors, for any job.              *)
Faulty(job, logs) ==
  LET Broken(log) == ExitStatus(log) = "sandbox error" IN
  \/ job.kind = "compile" /\ Broken(Last(Executed(logs[1])))
  \/ /\ job.kind = "evaluate" /\ job.type \in {"Batch", "BatchAndOutput"}
     /\ \E i \in 1 .. Len(logs[1]) : Broken(logs[1][i])
  \/ /\ job.kind = "evaluate" /\ job.type \in {"TwoSteps", "Communication"}
     /\ \/ \E i \in 1 .. Len(logs) : Broken(Last(logs[i]))
        \/ job.type = "Communication" /\ ExitStatus(logs[1][1]) # "ok"

(* How many sandboxes a job of each kind has.                              *)
LEMMA BoxesOf ==
  ASSUME NEW job \in JobType
  PROVE  /\ Boxes(job) \in Nat \ {0}
         /\ job.kind = "compile" => Boxes(job) = 1
         /\ job.kind = "evaluate" /\ job.type = "TwoSteps" => Boxes(job) = 2
         /\ job.kind = "evaluate" /\ job.type = "Communication" => Boxes(job) = job.users + 1
         /\ job.kind = "evaluate" /\ job.type \notin {"TwoSteps", "Communication"} =>
              Boxes(job) = 1
  <1>1. job.kind \in {"compile", "evaluate"} /\ job.users \in Nat \ {0}
    BY DEF JobType
  <1>2. CASE job.kind = "compile"
    <2>1. Boxes(job) = 1
      BY Zenon, <1>2 DEF Boxes
    <2>2. QED BY <1>2, <2>1
  <1>3. CASE job.kind = "evaluate" /\ job.type = "TwoSteps"
    <2>1. job.kind # "compile" /\ job.type # "Communication"
      BY <1>3
    <2>2. Boxes(job) = 2
      BY Zenon, <1>3, <2>1 DEF Boxes
    <2>3. QED BY <1>3, <2>2
  <1>4. CASE job.kind = "evaluate" /\ job.type = "Communication"
    <2>1. job.kind # "compile" /\ job.type # "TwoSteps"
      BY <1>4
    <2>2. Boxes(job) = job.users + 1
      BY Zenon, <1>4, <2>1 DEF Boxes
    <2>3. QED BY <1>1, <1>4, <2>2
  <1>5. CASE job.kind = "evaluate" /\ job.type \notin {"TwoSteps", "Communication"}
    <2>1. job.kind # "compile" /\ job.type # "TwoSteps" /\ job.type # "Communication"
      BY <1>5
    <2>2. Boxes(job) = 1
      BY Zenon, <1>5, <2>1 DEF Boxes
    <2>3. QED BY <1>5, <2>2
  <1>6. QED BY <1>1, <1>2, <1>3, <1>4, <1>5

(* The commands of a job left these logs, a sequence for each sandbox.     *)
LogsOf(job, logs) ==
  /\ logs \in Seq(Seq(LogType) \ {<<>>}) /\ Len(logs) = Boxes(job)
  /\ \A i \in 1 .. Len(logs) : Len(logs[i]) = Commands(job, i)

(* What may come out of a job: a result which is no success if something   *)
(* was wrong, an output to check when nothing was, or an exception; but    *)
(* BatchAndOutput has a success exactly when something was wrong.          *)
MayBe(o, job, sound) ==
  \/ o.then = "raise"
  \/ job.kind = "compile" /\ FillsWith(o, BOOLEAN, sound)
  \/ /\ job.kind = "evaluate"
     /\ FillsWith(o, Outcomes, sound) \/ ChecksWith(o, sound)
  \/ /\ job.kind = "evaluate" /\ job.type = "BatchAndOutput" /\ ~sound
     /\ o.then = "leave" /\ Answers(o.result, Outcomes) /\ o.result.success

LEMMA OutcomeFacts ==
  ASSUME NEW job \in JobType, ~NoProgram(job), NEW logs, LogsOf(job, logs),
         NEW output \in BOOLEAN, NEW outcome \in Outcomes \cup {None},
         NEW sound \in BOOLEAN, sound <=> ~Faulty(job, logs)
  PROVE  MayBe(Outcome(job, logs, output, outcome), job, sound)
  <1> USE DEF MayBe
  <1> DEFINE o == Outcome(job, logs, output, outcome)
             After(box) == EvaluationAfterRun(Last(logs[box]))
  <1>1. /\ job.kind \in {"compile", "evaluate"} /\ job.type \in TaskType
        /\ job.users \in Nat \ {0}
    BY DEF JobType
  <1>2. /\ Len(logs) \in Nat \ {0} /\ Len(logs) = Boxes(job)
        /\ \A i \in 1 .. Len(logs) : logs[i] \in Seq(LogType) /\ logs[i] # <<>>
    BY BoxesOf DEF LogsOf
  <1>3. ASSUME NEW i \in 1 .. Len(logs)
        PROVE  /\ Last(logs[i]) \in LogType
               /\ ExitStatus(Last(logs[i])) = "sandbox error" <=> "XX" \in Last(logs[i]).status
    BY <1>2, LastOfSome, LogFacts
  <1>4. logs[1] \in Seq(LogType) /\ logs[1] # <<>>
    BY <1>2
  <1>5. CASE job.kind = "compile"
    <2> DEFINE r == CompilationStep(logs[1])
    <2>1. o = Fill(r)
      BY Zenon, <1>5 DEF Outcome
    <2>2. Answers(r, BOOLEAN) /\ (r.success => "XX" \notin Last(Executed(logs[1])).status)
      BY <1>4, CompilationStepFacts
    <2>3. /\ Executed(logs[1]) \in Seq(LogType) /\ Executed(logs[1]) # <<>>
      BY <1>4, ExecutedFacts
    <2>4. ExitStatus(Last(Executed(logs[1]))) = "sandbox error" <=>
            "XX" \in Last(Executed(logs[1])).status
      BY <2>3, LastOfSome, LogFacts
    <2>5. r.success => sound
      BY <1>5, <2>2, <2>4 DEF Faulty
    <2> HIDE DEF r
    <2>6. FillsWith(o, BOOLEAN, sound)
      BY Zenon, <2>1, <2>2, <2>5, FillFields
    <2>7. QED BY Zenon, <1>5, <2>6
  <1>6. CASE job.kind = "evaluate" /\ job.type \in {"Batch", "BatchAndOutput"}
    <2> DEFINE step == EvaluationStep(logs[1])
    <2>1. /\ Answers(step, BOOLEAN)
          /\ step.success <=> \A i \in 1 .. Len(logs[1]) : "XX" \notin logs[1][i].status
          /\ step.success => step.stats \in SomeStats
      BY <1>4, EvaluationStepFacts DEF SomeStats
    <2>2. ASSUME NEW i \in 1 .. Len(logs[1])
          PROVE  ExitStatus(logs[1][i]) = "sandbox error" <=> "XX" \in logs[1][i].status
      <3>1. logs[1][i] \in LogType
        BY <1>4
      <3>2. QED BY <3>1, LogFacts
    <2>3. step.success <=> sound
      BY <1>6, <2>1, <2>2 DEF Faulty
    <2> HIDE DEF step
    <2>4. \/ FillsWith(AfterEvaluation(job, step, output), Outcomes, sound)
          \/ ChecksWith(AfterEvaluation(job, step, output), sound)
      BY <2>1, <2>3, AfterEvaluationFacts
    <2>5. CASE job.type = "Batch"
      <3>1. job.kind # "compile"
        BY <1>6
      <3>2. o = AfterEvaluation(job, step, output)
        BY Zenon, <1>6, <2>5, <3>1 DEF Outcome, step
      <3>3. QED BY Zenon, <1>6, <2>4, <3>2
    <2>6. CASE job.type = "BatchAndOutput"
      <3>1. job.kind # "compile" /\ job.type # "Batch"
        BY <1>6, <2>6
      <3>2. o = BatchAndOutputEvaluation(job, step, output)
        BY Zenon, <1>6, <2>6, <3>1 DEF Outcome, step
      <3>3. CASE step.success
        <4>1. o = AfterEvaluation(job, step, output)
          BY Zenon, <3>2, <3>3 DEF BatchAndOutputEvaluation
        <4>2. QED BY Zenon, <1>6, <2>4, <4>1
      <3>4. CASE ~step.success
        <4>1. o = FillAndLeave
          BY Zenon, <3>2, <3>4 DEF BatchAndOutputEvaluation
        <4> DEFINE r == Result("0.0", "file not submitted", <<>>)
        <4>2. Answers(r, Outcomes) /\ r.success
          <5>1. "0.0" \in Outcomes /\ "file not submitted" \in Texts /\ <<>> \in SomeStats
            BY DEF Outcomes, Texts, SomeStats
          <5>2. QED BY Zenon, <5>1, ResultAnswers, ResultFields
        <4> HIDE DEF r
        <4>3. FillAndLeave.then = "leave" /\ FillAndLeave.result = r
          BY DEF FillAndLeave, r
        <4>4. QED BY Zenon, <1>6, <2>3, <2>6, <3>4, <4>1, <4>2, <4>3
      <3>5. QED BY <3>3, <3>4
    <2>7. QED BY <1>6, <2>5, <2>6
  <1>7. CASE job.kind = "evaluate" /\ job.type = "TwoSteps"
    <2>1. job.kind # "compile" /\ job.type # "Batch" /\ job.type # "BatchAndOutput"
      BY <1>7
    <2>2. o = TwoStepsEvaluation(job, After(1), After(2), output)
      BY Zenon, <1>7, <2>1 DEF Outcome
    <2>3. Len(logs) = 2
      BY <1>2, <1>7, BoxesOf
    <2>4. "XX" \notin Last(logs[1]).status /\ "XX" \notin Last(logs[2]).status => sound
      <3>1. SUFFICES ASSUME "XX" \notin Last(logs[1]).status,
                            "XX" \notin Last(logs[2]).status,
                            NEW i \in 1 .. Len(logs),
                            ExitStatus(Last(logs[i])) = "sandbox error"
                     PROVE  FALSE
        BY <1>7 DEF Faulty
      <3>2. i = 1 \/ i = 2
        BY <2>3
      <3>3. QED BY <1>3, <3>1, <3>2
    <2>5. Last(logs[1]) \in LogType /\ Last(logs[2]) \in LogType
      <3>1. 1 \in 1 .. Len(logs) /\ 2 \in 1 .. Len(logs)
        BY <2>3
      <3>2. QED BY <1>3, <3>1
    <2> HIDE DEF o
    <2>6. o.then = "raise" \/ FillsWith(o, Outcomes, sound) \/ ChecksWith(o, sound)
      BY Zenon, <2>2, <2>4, <2>5, TwoStepsFacts
    <2>7. QED BY Zenon, <1>7, <2>6 DEF o
  <1>8. CASE job.kind = "evaluate" /\ job.type = "Communication"
    <2> DEFINE theirs == [i \in 1 .. job.users |-> Last(logs[i + 1])]
               users == [i \in 1 .. job.users |-> After(i + 1)]
    <2>1. job.kind # "compile" /\ job.type # "Batch" /\ job.type # "BatchAndOutput"
          /\ job.type # "TwoSteps"
      BY <1>8
    <2>2. o = CommunicationEvaluation(job, After(1), users, outcome)
      BY Zenon, <1>8, <2>1 DEF Outcome
    <2>3. Len(logs) = job.users + 1
      BY <1>2, <1>8, BoxesOf
    <2>4. theirs \in Seq(LogType) /\ theirs # <<>> /\ Len(theirs) = job.users
      <3>1. ASSUME NEW i \in 1 .. job.users PROVE Last(logs[i + 1]) \in LogType
        <4>1. i + 1 \in 1 .. Len(logs)
          BY <1>1, <2>3
        <4>2. QED BY <4>1, <1>3
      <3>2. QED BY <1>1, <3>1
    <2>5. users = [i \in 1 .. Len(theirs) |-> EvaluationAfterRun(theirs[i])]
      BY <2>4
    <2>6. Last(logs[1]) \in LogType /\ Last(logs[1]) = logs[1][1]
      <3>1. Len(logs[1]) = 1
        <4>1. Len(logs[1]) = Commands(job, 1)
          BY <1>2 DEF LogsOf
        <4>2. QED BY <1>8, <4>1 DEF Commands
      <3>2. QED BY <1>2, <1>3, <1>4, <3>1, LastOfSome
    <2>7. /\ ExitStatus(Last(logs[1])) = "ok"
          /\ \A i \in 1 .. Len(theirs) : "XX" \notin theirs[i].status
          => sound
      <3>1. SUFFICES ASSUME ExitStatus(Last(logs[1])) = "ok",
                            \A i \in 1 .. job.users : "XX" \notin theirs[i].status,
                            NEW i \in 1 .. Len(logs),
                            ExitStatus(Last(logs[i])) = "sandbox error"
                     PROVE  FALSE
        BY <1>8, <2>4, <2>6 DEF Faulty
      <3>2. i # 1
        BY <3>1
      <3>3. i - 1 \in 1 .. job.users /\ theirs[i - 1] = Last(logs[i])
        BY <1>1, <2>3, <3>2
      <3>4. QED BY <1>3, <3>1, <3>3
    <2> HIDE DEF o, theirs, users
    <2>8. o.then = "raise" \/ FillsWith(o, Outcomes, sound)
      BY Zenon, <2>2, <2>4, <2>5, <2>6, <2>7, CommunicationFacts
    <2>9. QED BY Zenon, <1>8, <2>8 DEF o
  <1>9. QED
    <2>1. job.type # "OutputOnly"
      BY DEF NoProgram
    <2>2. QED BY <1>1, <1>5, <1>6, <1>7, <1>8, <2>1 DEF TaskType

-----------------------------------------------------------------------------
(* Lemmas on the numbers of the boxes.                                     *)

LEMMA ModFacts ==
  ASSUME NEW n \in Nat, NEW R \in Nat \ {0}
  PROVE  /\ n % R \in 0 .. R - 1
         /\ n = R * (n \div R) + (n % R) /\ n \div R \in Nat
         /\ (n % R) % R = n % R
  OBVIOUS

LEMMA BoxesAreOfTheShard == ASSUME NEW n \in Nat PROVE Box(n) \in BoxIds
  <1> DEFINE m == n % RangeSize
  <1>1. RangeSize \in Nat \ {0}
    BY WorkerAssumption
  <1>2. m \in 0 .. RangeSize - 1 /\ m % RangeSize = m
    BY <1>1, ModFacts
  <1>3. Box(n) = Box(m)
    BY <1>2 DEF Box
  <1> HIDE DEF m
  <1>4. QED BY <1>2, <1>3 DEF BoxIds

(* Numbers closer than the range have different remainders.                *)
LEMMA RemaindersDiffer ==
  ASSUME NEW R \in Nat \ {0}, NEW a \in Nat, NEW b \in Nat, a < b, b < a + R
  PROVE  a % R # b % R
  <1> SUFFICES ASSUME a % R = b % R PROVE FALSE
    OBVIOUS
  <1> DEFINE p == a \div R  q == b \div R
  <1>1. /\ p \in Nat /\ q \in Nat
        /\ a = R * p + (a % R) /\ b = R * q + (b % R)
        /\ a % R \in 0 .. R - 1
    BY Zenon, ModFacts
  <1> HIDE DEF p, q
  <1>2. b - a = R * q - R * p
    BY <1>1
  <1>3. R * q - R * p = R * (q - p)
    BY <1>1
  <1>4. R * (q - p) > 0 /\ R * (q - p) < R
    BY <1>2, <1>3
  <1>5. CASE q - p <= 0
    <2>1. R * (q - p) <= 0
      BY <1>1, <1>5
    <2>2. QED BY <1>1, <1>4, <2>1
  <1>6. CASE q - p >= 1
    <2>1. R * (q - p) >= R
      BY <1>1, <1>6
    <2>2. QED BY <1>1, <1>4, <2>1
  <1>7. QED BY <1>1, <1>5, <1>6

(* Boxes created within one range of each other are different.             *)
LEMMA BoxesDiffer ==
  ASSUME NEW a \in Nat, NEW b \in Nat, a < b, b < a + RangeSize
  PROVE  Box(a) # Box(b)
  <1> DEFINE base == (Shard + 1) * RangeSize
             x == a % RangeSize
             y == b % RangeSize
  <1>1. RangeSize \in 1 .. 1000 /\ Shard \in Nat
    BY WorkerAssumption
  <1>2. base \in Nat
    BY <1>1
  <1>3. x \in 0 .. RangeSize - 1 /\ y \in 0 .. RangeSize - 1 /\ x # y
    <2>1. RangeSize \in Nat \ {0}
      BY <1>1
    <2>2. QED BY Zenon, <2>1, ModFacts, RemaindersDiffer
  <1>4. Box(a) = (base + x) % 1000 /\ Box(b) = (base + y) % 1000
    BY DEF Box
  <1> HIDE DEF base, x, y
  <1>5. (base + x) % 1000 # (base + y) % 1000
    BY <1>1, <1>2, <1>3
  <1>6. QED BY <1>4, <1>5

-----------------------------------------------------------------------------
(* The inductive invariant.                                                *)

Places == {"idle", "begin", "create", "copy", "run", "check", "checker", "delete", "end"}

(* Where a job has nothing filled in yet.                                  *)
Unfilled == {"begin", "create", "copy", "run", "check", "checker"}

VerdictType == {None} \cup BOOLEAN \cup Outcomes
TextType == {None} \cup Texts
PlusType == ExecutionStatsType \cup {None, <<>>, Tombstone}

SuccessType == {None} \cup BOOLEAN
Flag == BOOLEAN
Directories == SUBSET Nat

FilledType ==
  [job : JobType, success : SuccessType, result : VerdictType, text : TextType,
   plus : PlusType, executables : Flag, used : Directories, errors : Flag]

SandboxType == [box : BoxIds, dir : Nat]

(* Types, and the lock.                                                    *)
Typed ==
  /\ work_lock \in Call \cup {NoCall}
  /\ calls \in [Call -> {"new", "running", "jobs", "declined", "failed", "lost"}]
  /\ \A c \in Call : calls[c] = "running" <=> work_lock = c
  /\ pc \in Places
  /\ pc = "idle" <=> work_lock = NoCall
  /\ jobs \in Seq(FilledType)
  /\ at \in 0 .. Len(jobs) /\ (pc # "idle" => at # 0)
  /\ live \in Seq(SandboxType)
  /\ stats \in ExecutionStatsType \cup {None, <<>>}
  /\ closing \in 0 .. Len(live)
  /\ next_id \in Nat /\ made \in Nat
  /\ boxes \in [BoxIds -> 0 .. made] /\ dirs \subseteq 1 .. made /\ left \subseteq 1 .. made

(* How many sandboxes a job has, by where it is.                           *)
Counted ==
  /\ pc \in {"idle", "begin"} => live = <<>>
  /\ pc = "create" => Len(live) < Boxes(Job)
  /\ pc \in {"copy", "run"} => Len(live) = Boxes(Job)
  /\ pc = "check" => Len(live) <= Boxes(Job)
  /\ pc = "checker" => Job.checker = "present" /\ Len(live) \in 1 .. Boxes(Job) + 1
  /\ pc \notin {"delete", "end"} => closing = 0

(* Its boxes are consecutive ones, and next_id is at the next.             *)
Consecutive ==
  \E first \in Nat :
    /\ \A i \in 1 .. Len(live) : live[i].box = Box(first + i - 1)
    /\ pc \notin {"delete", "end"} => next_id = first + Len(live)
    /\ FitsShard(Job) => Len(live) <= RangeSize

(* The files of a sandbox are in its box or in none, and they are there if *)
(* the job fits.                                                           *)
InPlace ==
  \A i \in closing + 1 .. Len(live) :
    /\ \A b \in BoxIds : boxes[b] = live[i].dir => b = live[i].box
    /\ FitsShard(Job) => boxes[live[i].box] = live[i].dir

BoxesInv == Counted /\ Consecutive /\ InPlace

(* What is left of a directory, on disk or in a box.                       *)
Remains(d) == d \in dirs \/ \E b \in BoxIds : boxes[b] = d

(* The jobs that are to come have been given nothing, and the directories  *)
(* of this one are those of its sandboxes until they are deleted.          *)
Coming ==
  \A i \in 1 .. Len(jobs) :
    i > at \/ (i = at /\ pc \in Unfilled) =>
      /\ jobs[i].success = None /\ jobs[i].result = None /\ jobs[i].plus = <<>>
      /\ jobs[i].executables = FALSE /\ jobs[i].errors = FALSE
      /\ i > at \/ pc = "begin" => jobs[i].used = {}

UsedInv ==
  /\ pc \in Unfilled => jobs[at].used = {live[i].dir : i \in 1 .. Len(live)}
  /\ pc \in Unfilled \cup {"delete"} =>
       IF pc = "delete" /\ Removes(jobs[at])
       THEN \A d \in jobs[at].used :
              Remains(d) => d \in left \/ \E i \in closing + 1 .. Len(live) : live[i].dir = d
       ELSE jobs[at].used \subseteq dirs
  /\ pc = "delete" => \A i \in 1 .. Len(live) : live[i].dir \in jobs[at].used
  /\ pc \in Unfilled \cup {"delete"} => jobs[at].used \subseteq 1 .. made

(* A job whose programs are about to run needs one.                        *)
Programs ==
  /\ pc \in {"create", "copy", "run"} => ~NoProgram(Job)
  /\ pc \in {"check", "checker"} => Job.kind = "evaluate"
  /\ pc \in {"check", "checker"} => stats # None

(* What JobContract, FaultsAreNoVerdicts and DirectoriesFollowSuccess say  *)
(* of a job.                                                               *)
Contract(filled) ==
  /\ filled.success \in BOOLEAN
  /\ filled.success => /\ filled.result # None /\ filled.text # None
                       /\ filled.plus # None /\ filled.plus # Tombstone
  /\ ~filled.success => filled.result = None /\ ~filled.executables
  /\ filled.job.kind = "compile" /\ ~NoProgram(filled.job) =>
       (filled.executables <=> filled.result = TRUE)

Honest(filled) == filled.success /\ ~Swallowed(filled) => ~filled.errors

Followed(filled) ==
  IF filled.success /\ ~filled.job.keep_sandbox /\ ~Swallowed(filled)
  THEN \A d \in filled.used : Remains(d) => d \in left
  ELSE filled.used \subseteq dirs

AnswerInv ==
  /\ pc \in {"delete", "end"} => Contract(jobs[at])
  /\ pc = "delete" => (jobs[at].success => ~jobs[at].errors)
  /\ pc = "end" => Honest(jobs[at]) /\ Followed(jobs[at])

WorkerInv == Typed /\ BoxesInv /\ Programs /\ Coming /\ UsedInv /\ AnswerInv

-----------------------------------------------------------------------------
(* Lemmas on what the steps are made of.                                   *)

(* The job being executed.                                                 *)
LEMMA TheJob ==
  ASSUME Typed, pc # "idle"
  PROVE  /\ at \in 1 .. Len(jobs) /\ jobs[at] \in FilledType /\ Job \in JobType
         /\ Job = jobs[at].job /\ work_lock \in Call
         /\ calls[work_lock] = "running"
  <1>1. at \in 1 .. Len(jobs)
    BY DEF Typed
  <1>2. jobs[at] \in FilledType
    BY <1>1 DEF Typed
  <1>3. Job \in JobType /\ Job = jobs[at].job
    BY <1>2 DEF FilledType, Job
  <1>4. work_lock \in Call /\ calls[work_lock] = "running"
    BY DEF Typed
  <1>5. QED BY <1>1, <1>2, <1>3, <1>4

(* The other jobs, and what a job is, are as they were.                    *)
OthersKept ==
  /\ jobs' \in Seq(FilledType) /\ Len(jobs') = Len(jobs)
  /\ \A i \in 1 .. Len(jobs) : i # at => jobs'[i] = jobs[i]
  /\ jobs'[at].job = jobs[at].job

Filled(f, s, v, t, p, e, x) ==
  [f EXCEPT !.success = s, !.result = v, !.text = t, !.plus = p, !.errors = e,
            !.executables = x]

(* A tombstone is no statistics.                                           *)
LEMMA TombstoneIsNoStats == Tombstone \notin SomeStats
  <1>1. Tombstone # <<>>
    <2>1. DOMAIN Tombstone = {"tombstone"}
      BY Zenon DEF Tombstone
    <2>2. DOMAIN <<>> = {}
      OBVIOUS
    <2>3. QED BY Zenon, <2>1, <2>2
  <1>2. Tombstone \notin ExecutionStatsType
    <2>1. DOMAIN Tombstone = {"tombstone"}
      BY Zenon DEF Tombstone
    <2>2. \A p \in ExecutionStatsType : DOMAIN p = {"exit_status", "time"}
      BY DEF ExecutionStatsType
    <2>3. {"tombstone"} # {"exit_status", "time"}
      OBVIOUS
    <2>4. QED BY Zenon, <2>1, <2>2, <2>3
  <1>3. QED BY <1>1, <1>2 DEF SomeStats

(* A job that is filled with an answer keeps the contract of a job.        *)
LEMMA FillingAJob ==
  ASSUME Typed, pc # "idle",
         NEW V, V \subseteq BOOLEAN \cup Outcomes, NEW result, Answers(result, V),
         Job.kind = "compile" /\ ~NoProgram(Job) => V = BOOLEAN,
         NEW errors \in BOOLEAN, FillJob(result, errors)
  PROVE  /\ OthersKept
         /\ jobs'[at].used = jobs[at].used
         /\ jobs'[at].success = result.success /\ jobs'[at].errors = errors
         /\ Contract(jobs'[at])
  <1>1. at \in 1 .. Len(jobs) /\ jobs[at] \in FilledType /\ Job = jobs[at].job
    BY TheJob
  <1>2. jobs \in Seq(FilledType)
    BY DEF Typed
  <1>3. PICK s : s = result.success
    OBVIOUS
  <1>4. PICK v : v = result.verdict
    OBVIOUS
  <1>5. PICK t : t = result.text
    OBVIOUS
  <1>6. PICK p : p = result.stats
    OBVIOUS
  <1>7. PICK x \in Flag :
          x = (Job.kind = "compile" /\ ~NoProgram(Job) /\ result.verdict = TRUE)
    BY Zenon DEF Flag
  <1>8. /\ s \in BOOLEAN
        /\ s => v \in V /\ t \in Texts /\ p \in SomeStats
        /\ ~s => v = None /\ t = None /\ p \in SomeStats \cup {None}
    BY <1>3, <1>4, <1>5, <1>6 DEF Answers
  <1>9. jobs' = [jobs EXCEPT ![at].success = s, ![at].result = v, ![at].text = t,
                             ![at].plus = p, ![at].errors = errors, ![at].executables = x]
    BY Zenon, <1>3, <1>4, <1>5, <1>6, <1>7 DEF FillJob
  <1>10. /\ v \in VerdictType /\ t \in TextType /\ p \in PlusType
         /\ s \in SuccessType /\ errors \in Flag
    <2>1. v \in VerdictType
      BY <1>8 DEF VerdictType
    <2>2. t \in TextType /\ p \in PlusType
      BY <1>8 DEF TextType, PlusType, SomeStats
    <2>3. s \in SuccessType /\ errors \in Flag
      BY <1>8 DEF SuccessType, Flag
    <2>4. QED BY <2>1, <2>2, <2>3
  <1> DEFINE new == Filled(jobs[at], s, v, t, p, errors, x)
  <1>11. /\ new \in FilledType
         /\ new.job = jobs[at].job /\ new.used = jobs[at].used /\ new.success = s
         /\ new.result = v /\ new.text = t /\ new.plus = p /\ new.errors = errors
         /\ new.executables = x
    BY <1>1, <1>10 DEF FilledType, Filled
  <1>12. jobs' = [jobs EXCEPT ![at] = new]
    BY <1>1, <1>2, <1>9 DEF Filled
  <1> HIDE DEF new
  <1>13. OthersKept /\ jobs'[at] = new
    <2>1. /\ jobs' \in Seq(FilledType) /\ Len(jobs') = Len(jobs) /\ jobs'[at] = new
          /\ \A i \in 1 .. Len(jobs) : i # at => jobs'[i] = jobs[i]
      BY <1>1, <1>2, <1>11, <1>12
    <2>2. QED BY <1>11, <2>1 DEF OthersKept
  <1>14. Contract(new)
    <2>1. v \in BOOLEAN \/ v \in Outcomes => v # None
      BY NoneIsNoStats, NoneIsNoText
    <2>2. s => v # None /\ t # None /\ p # None /\ p # Tombstone
      <3>1. SUFFICES ASSUME s PROVE v # None /\ t # None /\ p # None /\ p # Tombstone
        BY <1>8
      <3>2. v # None
        BY <1>8, <3>1, <2>1
      <3>3. t # None
        BY <1>8, <3>1, NoneIsNoText
      <3>4. p # None
        BY <1>8, <3>1, NoneIsNoStats DEF SomeStats
      <3>5. p # Tombstone
        BY <1>8, <3>1, TombstoneIsNoStats
      <3>6. QED BY <3>2, <3>3, <3>4, <3>5
    <2>3. x \in BOOLEAN
      BY <1>7 DEF Flag
    <2>4. ~s => ~x
      BY <1>4, <1>7, <1>8, NoneIsNoStats
    <2>5. Job.kind = "compile" /\ ~NoProgram(Job) => (x <=> v = TRUE)
      BY <1>4, <1>7
    <2>6. QED BY <1>1, <1>8, <1>11, <2>2, <2>3, <2>4, <2>5 DEF Contract
  <1>15. QED BY <1>3, <1>11, <1>13, <1>14

(* A sandbox is given a box that no sandbox of the job has, and files that *)
(* nobody has.                                                             *)
LEMMA CreatingFiles ==
  ASSUME Typed, BoxesInv, pc \in {"create", "check"}, NewSandbox,
         FitsShard(Job) => Len(live) < RangeSize,
         \A i \in 1 .. Len(live) : live[i].dir \in 1 .. made
  PROVE  /\ next_id' = next_id + 1 /\ made' = made + 1 /\ dirs' = dirs \cup {made + 1}
         /\ live' \in Seq(SandboxType) /\ Len(live') = Len(live) + 1
         /\ \A i \in 1 .. Len(live) : live'[i] = live[i]
         /\ live'[Len(live) + 1].dir = made + 1
         /\ boxes' \in [BoxIds -> 0 .. made']
         /\ \A i \in 1 .. Len(live') : \A c \in BoxIds :
              boxes'[c] = live'[i].dir => c = live'[i].box
         /\ FitsShard(Job) => \A i \in 1 .. Len(live') : boxes'[live'[i].box] = live'[i].dir
         /\ \E first \in Nat :
              /\ \A i \in 1 .. Len(live') : live'[i].box = Box(first + i - 1)
              /\ next_id' = first + Len(live')
  <1> DEFINE b == Box(next_id)
             new == [box |-> b, dir |-> made + 1]
  <1>1. /\ next_id \in Nat /\ made \in Nat /\ live \in Seq(SandboxType)
        /\ boxes \in [BoxIds -> 0 .. made] /\ dirs \subseteq 1 .. made
    BY DEF Typed
  <1>2. b \in BoxIds
    BY <1>1, BoxesAreOfTheShard
  <1>3. /\ next_id' = next_id + 1 /\ made' = made + 1 /\ dirs' = dirs \cup {made + 1}
        /\ boxes' = [boxes EXCEPT ![b] = made + 1] /\ live' = Append(live, new)
    BY DEF NewSandbox
  <1>4. PICK first \in Nat :
          /\ \A i \in 1 .. Len(live) : live[i].box = Box(first + i - 1)
          /\ next_id = first + Len(live)
    BY DEF BoxesInv, Consecutive
  <1>5. closing = 0
    BY DEF BoxesInv, Counted
  <1>6. \A i \in 1 .. Len(live) :
          /\ \A c \in BoxIds : boxes[c] = live[i].dir => c = live[i].box
          /\ FitsShard(Job) => boxes[live[i].box] = live[i].dir
    BY <1>5 DEF BoxesInv, InPlace
  <1>7. new \in SandboxType /\ new.box = b /\ new.dir = made + 1
    BY <1>1, <1>2 DEF SandboxType
  <1>8. /\ live' \in Seq(SandboxType) /\ Len(live') = Len(live) + 1 /\ Len(live) \in Nat
        /\ \A i \in 1 .. Len(live) : live'[i] = live[i]
        /\ live'[Len(live) + 1] = new
    <2> HIDE DEF new
    <2>1. QED BY <1>1, <1>3, <1>7
  <1>9. \A i \in 1 .. Len(live) : /\ live[i].box \in BoxIds
                                  /\ FitsShard(Job) => live[i].box # b
    <2>1. SUFFICES ASSUME NEW i \in 1 .. Len(live)
                   PROVE  live[i].box \in BoxIds /\ (FitsShard(Job) => live[i].box # b)
      OBVIOUS
    <2>2. live[i].box \in BoxIds
      <3>1. live[i] \in SandboxType
        BY <1>1
      <3>2. QED BY <3>1 DEF SandboxType
    <2>3. ASSUME FitsShard(Job) PROVE live[i].box # b
      <3>1. /\ first + i - 1 \in Nat /\ first + i - 1 < next_id
            /\ next_id < first + i - 1 + RangeSize /\ RangeSize \in Nat
        BY <1>4, <1>8, <2>3, WorkerAssumption
      <3>2. Box(first + i - 1) # Box(next_id)
        BY <1>1, <3>1, BoxesDiffer
      <3>3. QED BY <1>4, <3>2
    <2>4. QED BY <2>2, <2>3
  <1> HIDE DEF b, new
  <1>10. /\ boxes' \in [BoxIds -> 0 .. made'] /\ boxes'[b] = made + 1
         /\ \A c \in BoxIds : c # b => boxes'[c] = boxes[c]
         /\ \A c \in BoxIds : boxes[c] # made + 1
    BY <1>1, <1>2, <1>3
  <1>11. \A i \in 1 .. Len(live) : live[i].dir # made + 1
    BY <1>1
  <1>12. ASSUME NEW i \in 1 .. Len(live')
         PROVE  /\ \A c \in BoxIds : boxes'[c] = live'[i].dir => c = live'[i].box
                /\ FitsShard(Job) => boxes'[live'[i].box] = live'[i].dir
                /\ live'[i].box = Box(first + i - 1)
    <2>1. CASE i \in 1 .. Len(live)
      <3>1. live'[i] = live[i]
        BY <1>8, <2>1
      <3>2. \A c \in BoxIds : boxes'[c] = live[i].dir => c = live[i].box
        BY <1>6, <1>10, <1>11, <2>1
      <3>3. FitsShard(Job) => boxes'[live[i].box] = live[i].dir
        BY <1>6, <1>9, <1>10, <2>1
      <3>4. QED BY <1>4, <2>1, <3>1, <3>2, <3>3
    <2>2. CASE i = Len(live) + 1
      <3>1. live'[i] = new /\ first + i - 1 = next_id
        BY <1>4, <1>8, <2>2
      <3>2. QED BY <1>7, <1>10, <3>1 DEF b
    <2>3. QED BY <1>8, <2>1, <2>2
  <1>13. next_id' = first + Len(live')
    BY <1>3, <1>4, <1>8
  <1>14. live'[Len(live) + 1].dir = made + 1
    BY <1>7, <1>8
  <1>15. QED BY <1>3, <1>8, <1>10, <1>12, <1>13, <1>14

(* ... and its directory is one of the job's.                              *)
LEMMA CreatingForJob ==
  ASSUME Typed, pc # "idle", NewSandbox
  PROVE  /\ OthersKept
         /\ jobs'[at].used = jobs[at].used \cup {made + 1}
         /\ jobs'[at].success = jobs[at].success /\ jobs'[at].result = jobs[at].result
         /\ jobs'[at].plus = jobs[at].plus /\ jobs'[at].errors = jobs[at].errors
         /\ jobs'[at].executables = jobs[at].executables
  <1>1. /\ at \in 1 .. Len(jobs) /\ jobs[at] \in FilledType /\ jobs \in Seq(FilledType)
        /\ made \in Nat
    BY TheJob DEF Typed
  <1> DEFINE u == jobs[at].used \cup {made + 1}
             new == [jobs[at] EXCEPT !.used = u]
  <1>2. u \in Directories
    BY <1>1 DEF FilledType, Directories
  <1>3. jobs' = [jobs EXCEPT ![at].used = u]
    BY Zenon DEF NewSandbox
  <1> HIDE DEF u
  <1>4. /\ new \in FilledType /\ new.used = u /\ new.job = jobs[at].job
        /\ new.success = jobs[at].success /\ new.result = jobs[at].result
        /\ new.plus = jobs[at].plus /\ new.errors = jobs[at].errors
        /\ new.executables = jobs[at].executables
    BY <1>1, <1>2 DEF FilledType
  <1>5. jobs' = [jobs EXCEPT ![at] = new]
    BY <1>1, <1>3
  <1> HIDE DEF new
  <1>6. /\ jobs' \in Seq(FilledType) /\ Len(jobs') = Len(jobs) /\ jobs'[at] = new
        /\ \A i \in 1 .. Len(jobs) : i # at => jobs'[i] = jobs[i]
    BY <1>1, <1>4, <1>5
  <1>7. QED BY <1>4, <1>6 DEF OthersKept, u

(* The other jobs are still to come.                                       *)
LEMMA ComingKept ==
  ASSUME Typed, pc # "idle", Coming, OthersKept, at' = at, pc' \notin Unfilled
  PROVE  Coming'
  BY TheJob DEF Coming, OthersKept, Typed

(* Nothing is asked of the jobs of a Worker that executes none.            *)
LEMMA IdleInv ==
  ASSUME Typed, pc' = "idle", jobs' = <<>>, at' = 0, live' = <<>>, stats' = None,
         closing' = 0, next_id' \in Nat, boxes' = boxes, dirs' = dirs, made' = made,
         left' = left, work_lock' = NoCall,
         calls' \in [Call -> {"new", "running", "jobs", "declined", "failed", "lost"}],
         \A c \in Call : calls'[c] # "running"
  PROVE  WorkerInv'
  <1>1. Typed'
    BY WorkerAssumption DEF Typed, Places
  <1>2. Counted' /\ InPlace'
    BY DEF Counted, InPlace
  <1>3. Consecutive'
    <2>1. Len(live') = 0 /\ RangeSize >= 0
      BY WorkerAssumption
    <2>2. PICK n \in Nat : n = next_id'
      OBVIOUS
    <2>3. n = n + Len(live')
      BY <2>1
    <2>4. QED BY <2>1, <2>2, <2>3 DEF Consecutive
  <1>4. Programs' /\ Coming' /\ UsedInv' /\ AnswerInv'
    BY DEF Programs, Coming, UsedInv, AnswerInv, Unfilled
  <1>5. QED BY <1>1, <1>2, <1>3, <1>4 DEF WorkerInv, BoxesInv

(* A job that got its results is answered, or its sandboxes are deleted.   *)
LEMMA FilledInv ==
  ASSUME WorkerInv, pc \in {"begin", "copy", "run", "check"}, pc' \in {"delete", "end"},
         UNCHANGED <<calls, work_lock, at, live, stats, closing, disk>>,
         OthersKept, jobs'[at].used = jobs[at].used, Contract(jobs'[at]),
         pc' = "delete" /\ jobs'[at].success => ~jobs'[at].errors,
         pc' = "end" => \/ ~jobs'[at].success \/ Swallowed(jobs'[at])
                        \/ pc = "begin" /\ ~jobs'[at].errors
  PROVE  WorkerInv'
  <1>1. Typed
    BY DEF WorkerInv
  <1>2. /\ at \in 1 .. Len(jobs) /\ pc # "idle" /\ pc \in Unfilled
        /\ pc' \notin Unfilled
    BY <1>1, TheJob DEF Unfilled
  <1>3. Typed'
    <2>1. jobs' \in Seq(FilledType) /\ Len(jobs') = Len(jobs)
      BY DEF OthersKept
    <2>2. QED BY <1>1, <1>2, <2>1 DEF Typed, disk, Places
  <1>4. BoxesInv'
    <2>1. Counted'
      BY DEF Counted
    <2>2. Job' = Job
      BY DEF OthersKept, Job
    <2>3. Consecutive' /\ InPlace'
      BY <2>2 DEF WorkerInv, BoxesInv, Consecutive, InPlace, disk
    <2>4. QED BY <2>1, <2>3 DEF BoxesInv
  <1>5. Programs'
    BY DEF Programs
  <1>6. Coming'
    BY <1>1, <1>2, ComingKept DEF WorkerInv
  <1>7. /\ jobs[at].used = {live[i].dir : i \in 1 .. Len(live)}
        /\ jobs[at].used \subseteq dirs /\ jobs[at].used \subseteq 1 .. made
    BY <1>2 DEF WorkerInv, UsedInv, Unfilled
  <1>8. closing = 0
    BY DEF WorkerInv, BoxesInv, Counted
  <1>9. UsedInv'
    BY <1>2, <1>7, <1>8 DEF UsedInv, disk, Remains
  <1>10. AnswerInv'
    <2>1. pc = "begin" => jobs[at].used = {}
      BY <1>2 DEF WorkerInv, Coming
    <2>2. pc' = "end" => (Honest(jobs[at]) /\ Followed(jobs[at]))'
      BY <1>7, <2>1 DEF Honest, Followed, disk
    <2>3. QED BY <2>2 DEF AnswerInv
  <1>11. QED BY <1>3, <1>4, <1>5, <1>6, <1>9, <1>10 DEF WorkerInv

(* A job goes on with nothing filled in.                                   *)
LEMMA MovedInv ==
  ASSUME WorkerInv, pc \in Unfilled, pc' \in Unfilled \ {"begin"},
         UNCHANGED <<calls, work_lock, jobs, at, live, closing, disk>>,
         stats' \in ExecutionStatsType \cup {None, <<>>}, Counted', Programs'
  PROVE  WorkerInv'
  <1>1. Typed'
    BY DEF WorkerInv, Typed, disk, Unfilled, Places
  <1>2. BoxesInv'
    <2>1. Consecutive' /\ InPlace'
      BY DEF WorkerInv, BoxesInv, Consecutive, InPlace, disk, Unfilled, Job
    <2>2. QED BY <2>1 DEF BoxesInv
  <1>3. Coming'
    BY DEF WorkerInv, Coming
  <1>4. UsedInv'
    BY DEF WorkerInv, UsedInv, disk, Unfilled, Remains
  <1>5. AnswerInv'
    BY DEF AnswerInv, Unfilled
  <1>6. QED BY <1>1, <1>2, <1>3, <1>4, <1>5 DEF WorkerInv

(* A sandbox more.                                                         *)
LEMMA CreatedInv ==
  ASSUME WorkerInv, pc \in {"create", "check"}, pc' \in {"create", "copy", "checker"},
         NewSandbox, FitsShard(Job) => Len(live) < RangeSize,
         UNCHANGED <<calls, work_lock, at, stats, closing, left>>, Counted', Programs'
  PROVE  WorkerInv'
  <1>1. Typed /\ pc # "idle" /\ pc \in Unfilled /\ pc' \in Unfilled \ {"begin"}
    BY DEF WorkerInv, Unfilled
  <1>2. at \in 1 .. Len(jobs)
    BY <1>1, TheJob
  <1>3. /\ OthersKept
        /\ jobs'[at].used = jobs[at].used \cup {made + 1}
        /\ jobs'[at].success = jobs[at].success /\ jobs'[at].result = jobs[at].result
        /\ jobs'[at].plus = jobs[at].plus /\ jobs'[at].errors = jobs[at].errors
        /\ jobs'[at].executables = jobs[at].executables
    BY <1>1, CreatingForJob
  <1>4. /\ next_id' = next_id + 1 /\ made' = made + 1 /\ dirs' = dirs \cup {made + 1}
        /\ live' \in Seq(SandboxType) /\ Len(live') = Len(live) + 1
        /\ \A i \in 1 .. Len(live) : live'[i] = live[i]
        /\ live'[Len(live) + 1].dir = made + 1
        /\ boxes' \in [BoxIds -> 0 .. made']
        /\ \A i \in 1 .. Len(live') : \A c \in BoxIds :
             boxes'[c] = live'[i].dir => c = live'[i].box
        /\ FitsShard(Job) => \A i \in 1 .. Len(live') : boxes'[live'[i].box] = live'[i].dir
        /\ \E first \in Nat :
             /\ \A i \in 1 .. Len(live') : live'[i].box = Box(first + i - 1)
             /\ next_id' = first + Len(live')
    <2>1. \A i \in 1 .. Len(live) : live[i].dir \in 1 .. made
      BY <1>1 DEF WorkerInv, UsedInv
    <2>2. QED BY <1>1, <2>1, CreatingFiles DEF WorkerInv
  <1>5. /\ live \in Seq(SandboxType) /\ next_id \in Nat /\ made \in Nat
        /\ dirs \subseteq 1 .. made /\ left \subseteq 1 .. made /\ Len(live) \in Nat
    BY <1>1 DEF Typed
  <1>6. closing = 0
    BY DEF WorkerInv, BoxesInv, Counted
  <1>7. Typed'
    <2>1. jobs' \in Seq(FilledType) /\ Len(jobs') = Len(jobs)
      BY <1>3 DEF OthersKept
    <2>2. /\ made' \in Nat /\ next_id' \in Nat /\ dirs' \subseteq 1 .. made'
          /\ left' \subseteq 1 .. made' /\ closing' \in 0 .. Len(live')
      BY <1>4, <1>5, <1>6
    <2>3. QED BY <1>1, <1>4, <2>1, <2>2 DEF Typed, Places
  <1>8. BoxesInv'
    <2>1. Job' = Job
      BY <1>3 DEF OthersKept, Job
    <2>2. Consecutive'
      <3>1. FitsShard(Job) => Len(live') <= RangeSize
        BY <1>4, <1>5, WorkerAssumption
      <3>2. QED BY <1>4, <2>1, <3>1 DEF Consecutive
    <2>3. InPlace'
      <3>1. \A i \in closing' + 1 .. Len(live') : i \in 1 .. Len(live')
        BY <1>6
      <3>2. QED BY <1>4, <2>1, <3>1 DEF InPlace
    <2>4. QED BY <2>2, <2>3 DEF BoxesInv
  <1>9. Coming'
    <2>1. \A i \in 1 .. Len(jobs) : i > at => jobs'[i] = jobs[i]
      BY <1>2, <1>3 DEF OthersKept
    <2>2. QED BY <1>1, <1>2, <1>3, <2>1 DEF WorkerInv, Coming, OthersKept
  <1>10. UsedInv'
    <2>1. /\ jobs[at].used = {live[i].dir : i \in 1 .. Len(live)}
          /\ jobs[at].used \subseteq dirs /\ jobs[at].used \subseteq 1 .. made
      BY <1>1 DEF WorkerInv, UsedInv, Unfilled
    <2>2. jobs'[at].used = {live'[i].dir : i \in 1 .. Len(live')}
      <3>1. ASSUME NEW d \in jobs'[at].used PROVE \E i \in 1 .. Len(live') : live'[i].dir = d
        <4>1. CASE d = made + 1
          <5>1. Len(live) + 1 \in 1 .. Len(live')
            BY <1>4, <1>5
          <5>2. QED BY <1>4, <4>1, <5>1
        <4>2. CASE d \in jobs[at].used
          <5>1. PICK i \in 1 .. Len(live) : live[i].dir = d
            BY <2>1, <4>2
          <5>2. i \in 1 .. Len(live') /\ live'[i] = live[i]
            BY <1>4, <1>5
          <5>3. QED BY <5>1, <5>2
        <4>3. QED BY <1>3, <3>1, <4>1, <4>2
      <3>2. ASSUME NEW i \in 1 .. Len(live') PROVE live'[i].dir \in jobs'[at].used
        <4>1. i \in 1 .. Len(live) \/ i = Len(live) + 1
          BY <1>4, <1>5
        <4>2. QED BY <1>3, <1>4, <2>1, <4>1
      <3>3. QED BY <3>1, <3>2
    <2>3. jobs'[at].used \subseteq dirs' /\ jobs'[at].used \subseteq 1 .. made'
      <3>1. SUFFICES ASSUME NEW d \in jobs'[at].used PROVE d \in dirs' /\ d \in 1 .. made'
        OBVIOUS
      <3>2. d = made + 1 \/ (d \in dirs /\ d \in 1 .. made)
        BY <1>3, <2>1
      <3>3. QED BY <1>4, <1>5, <3>2
    <2>4. QED BY <1>1, <2>2, <2>3 DEF UsedInv, Unfilled
  <1>11. AnswerInv'
    BY DEF AnswerInv
  <1>12. QED BY <1>7, <1>8, <1>9, <1>10, <1>11 DEF WorkerInv

-----------------------------------------------------------------------------
(* Every action keeps the invariant.                                       *)

LEMMA BlankFields ==
  ASSUME NEW job \in JobType
  PROVE  /\ Blank(job) \in FilledType /\ Blank(job).job = job
         /\ Blank(job).success = None /\ Blank(job).result = None
         /\ Blank(job).plus = <<>> /\ Blank(job).executables = FALSE
         /\ Blank(job).used = {} /\ Blank(job).errors = FALSE
  <1> PICK no \in Flag : no = FALSE
    BY Zenon DEF Flag
  <1> DEFINE blank == [job |-> job, success |-> None, result |-> None, text |-> None,
                       plus |-> <<>>, executables |-> no, used |-> {}, errors |-> no]
  <1>1. Blank(job) = blank
    BY Zenon DEF Blank
  <1>2. /\ None \in SuccessType /\ None \in VerdictType /\ None \in TextType
        /\ <<>> \in PlusType /\ {} \in Directories
    BY DEF SuccessType, VerdictType, TextType, PlusType, Directories
  <1>3. blank \in FilledType
    BY <1>2 DEF FilledType
  <1>4. /\ blank.job = job /\ blank.success = None /\ blank.result = None
        /\ blank.plus = <<>> /\ blank.executables = no /\ blank.used = {} /\ blank.errors = no
    OBVIOUS
  <1> HIDE DEF blank
  <1>5. QED BY Zenon, <1>1, <1>3, <1>4

LEMMA ExecuteInv ==
  ASSUME WorkerInv, NEW c \in Call, NEW group \in Groups, Execute(c, group)
  PROVE  WorkerInv'
  <1>1. /\ calls[c] = "new" /\ work_lock = NoCall
        /\ calls' = [calls EXCEPT ![c] = "running"] /\ work_lock' = c
        /\ jobs' = [i \in 1 .. Len(group) |-> Blank(group[i])]
        /\ at' = 1 /\ pc' = "begin" /\ UNCHANGED <<live, stats, closing, disk, faults>>
    BY DEF Execute, job_vars
  <1>2. Typed /\ pc = "idle" /\ live = <<>> /\ closing = 0
    BY <1>1 DEF WorkerInv, Typed, BoxesInv, Counted
  <1>3. group \in Seq(JobType) /\ group # <<>>
    BY WorkerAssumption
  <1>4. ASSUME NEW i \in 1 .. Len(group)
        PROVE  /\ jobs'[i] \in FilledType
               /\ jobs'[i].success = None /\ jobs'[i].result = None
               /\ jobs'[i].plus = <<>> /\ jobs'[i].executables = FALSE
               /\ jobs'[i].used = {} /\ jobs'[i].errors = FALSE
    <2>1. group[i] \in JobType /\ jobs'[i] = Blank(group[i])
      BY <1>1, <1>3
    <2>2. QED BY <2>1, BlankFields
  <1>5. jobs' \in Seq(FilledType) /\ Len(jobs') = Len(group) /\ Len(group) \in Nat \ {0}
    <2>1. Len(group) \in Nat \ {0}
      BY <1>3
    <2>2. ASSUME NEW i \in 1 .. Len(group) PROVE Blank(group[i]) \in FilledType
      BY <1>1, <1>4
    <2>3. QED BY <1>1, <2>1, <2>2
  <1>6. Typed'
    <2>1. /\ calls' \in [Call -> {"new", "running", "jobs", "declined", "failed", "lost"}]
          /\ \A e \in Call : calls'[e] = "running" <=> work_lock' = e
      BY <1>1, <1>2, WorkerAssumption DEF Typed
    <2>2. work_lock' \in Call /\ work_lock' # NoCall
      BY <1>1, WorkerAssumption
    <2>3. at' \in 0 .. Len(jobs') /\ at' # 0
      BY <1>1, <1>5
    <2>4. QED BY <1>1, <1>2, <1>5, <2>1, <2>2, <2>3 DEF Typed, Places, disk
  <1>7. BoxesInv'
    <2>1. Counted'
      BY <1>1, <1>2 DEF Counted
    <2>2. Len(live') = 0 /\ 0 <= RangeSize /\ closing' = 0
      BY <1>1, <1>2, WorkerAssumption
    <2>3. Consecutive' /\ InPlace'
      BY <1>1, <1>2, <2>2 DEF WorkerInv, BoxesInv, Consecutive, InPlace, disk
    <2>4. QED BY <2>1, <2>3 DEF BoxesInv
  <1>8. Programs' /\ AnswerInv'
    BY <1>1 DEF Programs, AnswerInv
  <1>9. Coming'
    BY <1>1, <1>4, <1>5 DEF Coming
  <1>10. UsedInv'
    <2>1. 1 \in 1 .. Len(group)
      BY <1>5
    <2>2. jobs'[1].used = {} /\ live' = <<>>
      BY <1>1, <1>2, <1>4, <2>1
    <2>3. {live'[i].dir : i \in 1 .. Len(live')} = {}
      BY <2>2
    <2>4. jobs'[at'].used = {} /\ pc' = "begin"
      BY <1>1, <2>2
    <2>5. QED BY <2>3, <2>4 DEF UsedInv
  <1>11. QED BY <1>6, <1>7, <1>8, <1>9, <1>10 DEF WorkerInv

(* Nothing but the types depends on who has called.                        *)
LEMMA CallsAside ==
  ASSUME WorkerInv, Typed',
         UNCHANGED <<work_lock, jobs, at, pc, job_vars, disk>>
  PROVE  WorkerInv'
  <1>1. BoxesInv' /\ Programs'
    BY DEF WorkerInv, BoxesInv, Counted, Consecutive, InPlace, Programs, Job, job_vars, disk
  <1>2. Coming'
    BY DEF WorkerInv, Coming
  <1>3. UsedInv'
    <2>1. UNCHANGED <<jobs, at, pc, live, closing, dirs, made, left, boxes>>
      BY DEF job_vars, disk
    <2>2. UsedInv
      BY DEF WorkerInv
    <2>3. QED BY <2>1, <2>2 DEF UsedInv, Removes, Remains
  <1>4. AnswerInv'
    BY DEF WorkerInv, AnswerInv, Contract, Honest, Followed, Swallowed, Remains, job_vars, disk
  <1>5. QED BY <1>1, <1>2, <1>3, <1>4 DEF WorkerInv

LEMMA DeclineInv ==
  ASSUME WorkerInv, NEW c \in Call, Decline(c)
  PROVE  WorkerInv'
  <1>1. Typed'
    BY DEF WorkerInv, Typed, Decline, job_vars, disk
  <1>2. QED BY <1>1, CallsAside DEF Decline

LEMMA BeginInv ==
  ASSUME WorkerInv, Begin
  PROVE  WorkerInv'
  <1>1. /\ pc = "begin" /\ pc # "idle" /\ Typed /\ pc \in Unfilled
        /\ UNCHANGED <<live, closing, disk, calls, work_lock, at>>
    BY DEF WorkerInv, Begin, Go, Unfilled
  <1>2. /\ Job \in JobType /\ Job = jobs[at].job /\ at \in 1 .. Len(jobs)
        /\ live = <<>> /\ closing = 0 /\ jobs[at].plus = <<>>
    BY <1>1, TheJob DEF WorkerInv, BoxesInv, Counted, Coming
  <1>3. Boxes(Job) \in Nat \ {0}
    BY <1>2, BoxesOf
  <1>4. CASE /\ NoProgram(Job) /\ ChecksFile(Job)
             /\ stats' = <<>> /\ UNCHANGED jobs /\ Go("check")
    <2>1. pc' = "check" /\ Job' = Job /\ Job.kind = "evaluate"
      BY <1>1, <1>4 DEF Go, ChecksFile, Job
    <2>2. Counted' /\ Programs'
      BY <1>1, <1>2, <1>3, <1>4, <2>1, NoneIsNoStats DEF Counted, Programs
    <2>3. stats' \in ExecutionStatsType \cup {None, <<>>}
      BY <1>4
    <2>4. QED BY <1>1, <1>4, <2>1, <2>2, <2>3, MovedInv DEF Unfilled
  <1>5. CASE ~NoProgram(Job) /\ Job.configured /\ UNCHANGED <<jobs, stats>> /\ Go("create")
    <2>1. pc' = "create" /\ Job' = Job
      BY <1>1, <1>5 DEF Go, Job
    <2>2. Counted' /\ Programs'
      BY <1>1, <1>2, <1>3, <1>5, <2>1 DEF Counted, Programs
    <2>3. stats' \in ExecutionStatsType \cup {None, <<>>}
      BY <1>1, <1>5 DEF Typed
    <2>4. QED BY <1>1, <1>5, <2>1, <2>2, <2>3, MovedInv DEF Unfilled
  <1>6. PICK no \in BOOLEAN : no = FALSE
    BY Zenon
  <1>7. ASSUME NEW V, V \subseteq BOOLEAN \cup Outcomes, NEW result, Answers(result, V),
               Job.kind = "compile" /\ ~NoProgram(Job) => V = BOOLEAN,
               FillJob(result, no), UNCHANGED stats, Go("end")
        PROVE  WorkerInv'
    <2>1. /\ OthersKept /\ jobs'[at].used = jobs[at].used
          /\ jobs'[at].errors = no /\ Contract(jobs'[at])
      BY <1>1, <1>7, FillingAJob
    <2>2. pc' = "end" /\ ~jobs'[at].errors
      BY <1>6, <1>7, <2>1 DEF Go
    <2>3. QED BY <1>1, <1>7, <2>1, <2>2, FilledInv
  <1>8. CASE /\ NoProgram(Job) /\ ~ChecksFile(Job)
             /\ FillJob(NoProgramResult(Job), FALSE) /\ UNCHANGED stats /\ Go("end")
    <2>1. \E V : V \subseteq BOOLEAN \cup Outcomes /\ Answers(NoProgramResult(Job), V)
      <3>1. /\ "no compilation needed" \in Texts /\ "file not submitted" \in Texts
            /\ <<>> \in SomeStats /\ "0.0" \in Outcomes
        BY DEF Texts, SomeStats, Outcomes
      <3>2. CASE Job.kind = "compile"
        <4>1. PICK yes \in BOOLEAN : yes = TRUE
          BY Zenon
        <4>2. NoProgramResult(Job) = Result(yes, "no compilation needed", <<>>)
          BY Zenon, <3>2, <4>1 DEF NoProgramResult
        <4>3. Answers(NoProgramResult(Job), BOOLEAN)
          BY <3>1, <4>2, ResultAnswers
        <4>4. QED BY <4>3
      <3>3. CASE Job.kind # "compile"
        <4>1. NoProgramResult(Job) = Result("0.0", "file not submitted", <<>>)
          BY Zenon, <3>3 DEF NoProgramResult
        <4>2. Answers(NoProgramResult(Job), Outcomes)
          BY <3>1, <4>1, ResultAnswers
        <4>3. QED BY <4>2
      <3>4. QED BY <3>2, <3>3
    <2>2. FillJob(NoProgramResult(Job), no)
      BY Zenon, <1>6, <1>8
    <2>3. QED BY <1>7, <1>8, <2>1, <2>2
  <1>9. CASE /\ ~NoProgram(Job) /\ ~Job.configured
             /\ FillJob([Failure EXCEPT !.stats = jobs[at].plus], FALSE)
             /\ UNCHANGED stats /\ Go("end")
    <2> DEFINE result == [Failure EXCEPT !.stats = jobs[at].plus]
    <2>1. jobs[at].plus \in SomeStats
      BY <1>2 DEF SomeStats
    <2>2. Answers(result, BOOLEAN)
      BY <2>1, FailureAnswers
    <2>3. FillJob(result, no)
      BY Zenon, <1>6, <1>9
    <2> HIDE DEF result
    <2>4. QED BY <1>7, <1>9, <2>2, <2>3
  <1>10. QED BY <1>4, <1>5, <1>8, <1>9 DEF Begin

LEMMA CopyFilesInv ==
  ASSUME WorkerInv, CopyFiles
  PROVE  WorkerInv'
  <1>1. /\ pc = "copy" /\ pc' = "run" /\ pc \in Unfilled
        /\ UNCHANGED <<calls, work_lock, jobs, at, live, stats, closing, disk>>
    BY DEF CopyFiles, Go, job_vars, Unfilled
  <1>2. Counted' /\ Programs'
    BY <1>1 DEF WorkerInv, BoxesInv, Counted, Programs, Job
  <1>3. stats' \in ExecutionStatsType \cup {None, <<>>}
    BY <1>1 DEF WorkerInv, Typed
  <1>4. QED BY <1>1, <1>2, <1>3, MovedInv DEF Unfilled

LEMMA FindTombstoneInv ==
  ASSUME WorkerInv, FindTombstone
  PROVE  WorkerInv'
  <1>1. PICK no \in SuccessType : no = FALSE
    BY Zenon DEF SuccessType
  <1>2. /\ pc = "copy" /\ pc' = "end" /\ pc \in Unfilled /\ pc # "idle" /\ Typed
        /\ UNCHANGED <<calls, work_lock, at, live, stats, closing, disk>>
        /\ Job.kind = "evaluate"
    BY DEF FindTombstone, Go, job_vars, Unfilled, WorkerInv
  <1>3. jobs' = [jobs EXCEPT ![at].success = no, ![at].plus = Tombstone]
    BY Zenon, <1>1 DEF FindTombstone
  <1>4. /\ at \in 1 .. Len(jobs) /\ jobs[at] \in FilledType /\ Job = jobs[at].job
        /\ jobs \in Seq(FilledType)
    BY <1>2, TheJob DEF Typed
  <1>5. jobs[at].result = None /\ jobs[at].executables = FALSE
    BY <1>2, <1>4 DEF WorkerInv, Coming
  <1> DEFINE new == [jobs[at] EXCEPT !.success = no, !.plus = Tombstone]
  <1>6. Tombstone \in PlusType
    BY DEF PlusType
  <1>7. /\ new \in FilledType /\ new.job = jobs[at].job /\ new.used = jobs[at].used
        /\ new.success = no /\ new.result = jobs[at].result
        /\ new.executables = jobs[at].executables
    BY <1>4, <1>6 DEF FilledType
  <1>8. jobs' = [jobs EXCEPT ![at] = new]
    BY <1>3, <1>4
  <1> HIDE DEF new
  <1>9. /\ jobs' \in Seq(FilledType) /\ Len(jobs') = Len(jobs) /\ jobs'[at] = new
        /\ \A i \in 1 .. Len(jobs) : i # at => jobs'[i] = jobs[i]
    BY <1>4, <1>7, <1>8
  <1>10. OthersKept /\ jobs'[at].used = jobs[at].used
    BY <1>7, <1>9 DEF OthersKept
  <1>11. new.success = FALSE
    BY <1>1, <1>7
  <1>12. Contract(new)
    BY <1>2, <1>4, <1>5, <1>7, <1>11 DEF Contract
  <1>13. QED BY <1>2, <1>9, <1>10, <1>11, <1>12, FilledInv

(* The logs of a job that runs.                                            *)
LEMMA RanLogs ==
  ASSUME Typed, pc = "run", Counted,
         NEW ran \in [1 .. Len(live) -> UNION {[1 .. n -> Logs] : n \in 1 .. Job.commands}],
         \A i \in 1 .. Len(live) : Len(ran[i]) = Commands(Job, i)
  PROVE  LogsOf(Job, ran)
  <1>1. Logs \subseteq LogType
    BY WorkerAssumption DEF LogType
  <1>2. ASSUME NEW i \in 1 .. Len(live) PROVE ran[i] \in Seq(LogType) \ {<<>>}
    <2>1. PICK n \in 1 .. Job.commands : ran[i] \in [1 .. n -> Logs]
      <3>1. ran[i] \in UNION {[1 .. n -> Logs] : n \in 1 .. Job.commands}
        BY Zenon
      <3>2. QED BY Zenon, <3>1
    <2>2. n \in Nat \ {0}
      <3>1. Job.commands \in Nat
        BY TheJob DEF JobType
      <3>2. QED BY <2>1, <3>1
    <2>3. ran[i] \in [1 .. n -> LogType]
      BY <1>1, <2>1
    <2>4. QED BY <2>2, <2>3
  <1>3. Len(live) \in Nat /\ Len(live) = Boxes(Job)
    BY DEF Typed, Counted
  <1>4. ran \in Seq(Seq(LogType) \ {<<>>}) /\ Len(ran) = Len(live)
    BY <1>2, <1>3
  <1>5. QED BY <1>3, <1>4 DEF LogsOf

LEMMA AbortInv ==
  ASSUME WorkerInv, pc # "idle", Abort
  PROVE  WorkerInv'
  <1>1. /\ calls' = [calls EXCEPT ![work_lock] = "failed"] /\ work_lock' = NoCall
        /\ pc' = "idle" /\ at' = 0 /\ jobs' = <<>> /\ live' = <<>> /\ stats' = None
        /\ closing' = 0 /\ UNCHANGED disk
    BY DEF Abort, Leave, ForgetJob
  <1>2. Typed
    BY DEF WorkerInv
  <1>3. /\ calls' \in [Call -> {"new", "running", "jobs", "declined", "failed", "lost"}]
        /\ \A c \in Call : calls'[c] # "running"
    BY <1>1, <1>2, TheJob DEF Typed
  <1>4. InPlace /\ next_id' \in Nat
    BY <1>1, <1>2 DEF WorkerInv, BoxesInv, Typed, disk
  <1>5. QED BY <1>1, <1>2, <1>3, <1>4, IdleInv DEF disk

LEMMA RunInv ==
  ASSUME WorkerInv, Run
  PROVE  WorkerInv'
  <1>1. pc = "run" /\ pc # "idle" /\ Typed /\ pc \in Unfilled /\ closing = 0
    BY DEF Run, WorkerInv, Unfilled, BoxesInv, Counted
  <1>2. PICK ran \in [1 .. Len(live) -> UNION {[1 .. n -> Logs] : n \in 1 .. Job.commands}],
             output \in BOOLEAN, manager \in {None, "0.0", "1.0"} :
          LET outcome == Outcome(Job, ran, output, manager) IN
          /\ \A i \in 1 .. Len(live) : Len(ran[i]) = Commands(Job, i)
          /\ \/ outcome.then = "raise" /\ Abort
             \/ /\ outcome.then \in {"fill", "leave"}
                /\ FillJob(outcome.result, Errors(ran))
                /\ Go(IF outcome.then = "fill" THEN "delete" ELSE "end")
                /\ UNCHANGED <<job_vars, disk>>
             \/ /\ outcome.then = "check"
                /\ stats' = outcome.stats /\ Go("check")
                /\ UNCHANGED <<jobs, live, closing, disk>>
    BY Zenon DEF Run
  <1>3. /\ Job \in JobType /\ at \in 1 .. Len(jobs) /\ Job = jobs[at].job /\ ~NoProgram(Job)
        /\ LogsOf(Job, ran) /\ manager \in Outcomes \cup {None} /\ output \in BOOLEAN
    <2>1. LogsOf(Job, ran)
      BY <1>1, <1>2, RanLogs DEF WorkerInv, BoxesInv
    <2>2. ~NoProgram(Job)
      BY <1>1 DEF WorkerInv, Programs
    <2>3. manager \in Outcomes \cup {None}
      BY DEF Outcomes
    <2>4. output \in BOOLEAN
      BY Zenon, <1>2
    <2>5. QED BY <1>1, <2>1, <2>2, <2>3, <2>4, TheJob
  <1> DEFINE o == Outcome(Job, ran, output, manager)
  <1>4. PICK faulty \in BOOLEAN : faulty = Faulty(Job, ran)
    BY Zenon DEF Faulty
  <1>5. \/ o.then = "raise"
        \/ Job.kind = "compile" /\ FillsWith(o, BOOLEAN, ~faulty)
        \/ /\ Job.kind = "evaluate"
           /\ FillsWith(o, Outcomes, ~faulty) \/ ChecksWith(o, ~faulty)
        \/ /\ Job.kind = "evaluate" /\ Job.type = "BatchAndOutput" /\ faulty
           /\ o.then = "leave" /\ Answers(o.result, Outcomes) /\ o.result.success
    <2>1. PICK sound \in BOOLEAN : sound <=> ~faulty
      BY Zenon
    <2>2. sound <=> ~Faulty(Job, ran)
      BY Zenon, <1>4, <2>1
    <2>3. MayBe(o, Job, sound)
      BY Zenon, <1>3, <2>2, OutcomeFacts
    <2> HIDE DEF o
    <2>4. QED BY Zenon, <2>1, <2>3 DEF MayBe, FillsWith, ChecksWith
  <1>6. Errors(ran) = Faulty(Job, ran)
    BY Zenon DEF Errors, Faulty
  <1> HIDE DEF o
  <1>7. CASE o.then = "raise" /\ Abort
    BY <1>1, <1>7, AbortInv
  <1>8. CASE /\ o.then \in {"fill", "leave"} /\ FillJob(o.result, Errors(ran))
             /\ Go(IF o.then = "fill" THEN "delete" ELSE "end")
             /\ UNCHANGED <<job_vars, disk>>
    <2>1. FillJob(o.result, faulty)
      BY Zenon, <1>4, <1>6, <1>8
    <2>2. UNCHANGED <<calls, work_lock, at, live, stats, closing, disk>>
      BY <1>8 DEF Go, job_vars
    <2>3. CASE o.then = "fill"
      <3>1. PICK V : /\ V \subseteq BOOLEAN \cup Outcomes /\ FillsWith(o, V, ~faulty)
                     /\ Job.kind = "compile" /\ ~NoProgram(Job) => V = BOOLEAN
        <4>1. CASE Job.kind = "compile" /\ FillsWith(o, BOOLEAN, ~faulty)
          BY <4>1
        <4>2. CASE Job.kind = "evaluate" /\ FillsWith(o, Outcomes, ~faulty)
          BY <4>2
        <4>3. QED BY <1>5, <2>3, <4>1, <4>2 DEF ChecksWith
      <3>2. Answers(o.result, V) /\ (o.result.success => ~faulty)
        BY <3>1 DEF FillsWith
      <3>3. /\ OthersKept /\ jobs'[at].used = jobs[at].used
            /\ jobs'[at].success = o.result.success /\ jobs'[at].errors = faulty
            /\ Contract(jobs'[at])
        BY <1>1, <2>1, <3>1, <3>2, FillingAJob
      <3>4. pc' = "delete"
        BY <1>8, <2>3 DEF Go
      <3>5. QED BY <1>1, <2>2, <3>2, <3>3, <3>4, FilledInv
    <2>4. CASE o.then = "leave"
      <3>1. /\ Job.kind = "evaluate" /\ Job.type = "BatchAndOutput" /\ faulty
            /\ Answers(o.result, Outcomes) /\ o.result.success
        BY <1>5, <2>4 DEF FillsWith, ChecksWith
      <3>2. /\ OthersKept /\ jobs'[at].used = jobs[at].used
            /\ jobs'[at].success = o.result.success /\ jobs'[at].errors = faulty
            /\ Contract(jobs'[at])
        BY <1>1, <2>1, <3>1, FillingAJob
      <3>3. Swallowed(jobs'[at])
        BY <1>3, <3>1, <3>2 DEF Swallowed, OthersKept
      <3>4. pc' = "end"
        BY <1>8, <2>4 DEF Go
      <3>5. QED BY <1>1, <2>2, <3>2, <3>3, <3>4, FilledInv
    <2>5. QED BY <1>8, <2>3, <2>4
  <1>9. CASE /\ o.then = "check" /\ stats' = o.stats /\ Go("check")
             /\ UNCHANGED <<jobs, live, closing, disk>>
    <2>1. Job.kind = "evaluate" /\ o.stats \in SomeStats
      BY <1>5, <1>9 DEF FillsWith, ChecksWith
    <2>2. /\ pc' = "check" /\ Job' = Job
          /\ UNCHANGED <<calls, work_lock, jobs, at, live, closing, disk>>
      BY <1>9 DEF Go, Job
    <2>3. stats' \in ExecutionStatsType \cup {None, <<>>} /\ stats' # None
      BY <1>9, <2>1, NoneIsNoStats DEF SomeStats
    <2>4. Len(live) = Boxes(Job) /\ Boxes(Job) \in Nat
      BY <1>1, <1>3, BoxesOf DEF WorkerInv, BoxesInv, Counted
    <2>5. Counted' /\ Programs'
      BY <1>1, <2>1, <2>2, <2>3, <2>4 DEF Counted, Programs
    <2>6. QED BY <1>1, <2>2, <2>3, <2>5, MovedInv DEF Unfilled
  <1>10. QED BY Zenon, <1>2, <1>7, <1>8, <1>9 DEF o

(* What eval_output fills in answers with the statistics of the program.   *)
LEMMA CheckedFacts ==
  ASSUME Typed, pc \in {"check", "checker"}, Programs,
         NEW r, NEW t \in Texts, NEW outcome \in Outcomes,
         r = Failure \/ r = Result(outcome, t, None),
         NEW errors \in BOOLEAN, Checked(r, errors)
  PROVE  /\ OthersKept /\ jobs'[at].used = jobs[at].used
         /\ jobs'[at].success = r.success /\ jobs'[at].errors = errors
         /\ Contract(jobs'[at])
  <1> DEFINE s == IF Job.type = "OutputOnly" /\ ~r.success THEN None ELSE stats
  <1>1. FillJob([r EXCEPT !.stats = s], errors)
    BY DEF Checked
  <1>2. /\ stats \in SomeStats /\ Job.kind = "evaluate"
    BY DEF Typed, Programs, SomeStats
  <1>3. s \in SomeStats \cup {None} /\ (r.success => s \in SomeStats)
    BY <1>2
  <1> HIDE DEF s
  <1> DEFINE result == [r EXCEPT !.stats = s]
  <1>4. CASE r = Failure
    <2>1. Answers(result, Outcomes) /\ ~result.success /\ ~r.success
      BY <1>3, <1>4, FailureAnswers, FailureFields
    <2>2. FillJob(result, errors)
      BY <1>1
    <2> HIDE DEF result
    <2>3. Answers(result, Outcomes) /\ result.success \in BOOLEAN
      BY <2>1 DEF Answers
    <2>4. r.success = FALSE
      BY <1>4, FailureFields
    <2>5. QED BY <1>2, <2>1, <2>2, <2>3, <2>4, FillingAJob
  <1>5. CASE r = Result(outcome, t, None)
    <2>1. /\ result.success /\ result.verdict = outcome
          /\ result.text = t /\ result.stats = s
      BY <1>5, ResultWith
    <2>2. FillJob(result, errors)
      BY <1>1
    <2>3. result.success \in BOOLEAN /\ result.success = r.success
      BY <1>5 DEF Result
    <2>4. r.success
      BY <1>5, ResultFields
    <2> HIDE DEF result
    <2>5. Answers(result, Outcomes)
      BY <1>3, <2>1, <2>3, <2>4 DEF Answers
    <2>6. QED BY <1>2, <2>2, <2>3, <2>5, FillingAJob
  <1>6. QED BY <1>4, <1>5

LEMMA CompareInv ==
  ASSUME WorkerInv, Compare
  PROVE  WorkerInv'
  <1>1. /\ pc = "check" /\ pc' = "delete" /\ Typed /\ Programs
        /\ UNCHANGED <<calls, work_lock, at, live, stats, closing, disk>>
    BY DEF Compare, Go, job_vars, WorkerInv
  <1>2. PICK no \in BOOLEAN : no = FALSE
    BY Zenon
  <1>3. PICK outcome \in Outcomes :
          \E r : (r = Failure \/ r = Result(outcome, "diff", None)) /\ Checked(r, no)
    <2>1. CASE Checked(Failure, FALSE)
      <3>1. Checked(Failure, no)
        BY Zenon, <1>2, <2>1 DEF Checked, FillJob
      <3>2. "0.0" \in Outcomes
        BY DEF Outcomes
      <3>3. QED BY Zenon, <3>1, <3>2
    <2>2. CASE \E outcome \in {"0.0", "1.0"} : Checked(Result(outcome, "diff", None), FALSE)
      <3>1. PICK outcome \in Outcomes : Checked(Result(outcome, "diff", None), FALSE)
        BY Zenon, <2>2 DEF Outcomes
      <3>2. Checked(Result(outcome, "diff", None), no)
        BY Zenon, <1>2, <3>1 DEF Checked, FillJob
      <3>3. QED BY Zenon, <3>2
    <2>3. QED BY Zenon, <2>1, <2>2 DEF Compare
  <1>4. PICK r : (r = Failure \/ r = Result(outcome, "diff", None)) /\ Checked(r, no)
    BY Zenon, <1>3
  <1>5. "diff" \in Texts
    BY DEF Texts
  <1>6. /\ OthersKept /\ jobs'[at].used = jobs[at].used
        /\ jobs'[at].success = r.success /\ jobs'[at].errors = no
        /\ Contract(jobs'[at])
    BY <1>1, <1>4, <1>5, CheckedFacts
  <1>7. QED BY <1>1, <1>2, <1>6, FilledInv

LEMMA CreateSandboxInv ==
  ASSUME WorkerInv, CreateSandbox
  PROVE  WorkerInv'
  <1>1. /\ pc = "create" /\ pc # "idle" /\ Typed /\ NewSandbox /\ closing = 0
        /\ UNCHANGED <<calls, work_lock, at, stats, closing, left>>
        /\ pc' = IF Len(live') < Boxes(Job) THEN "create" ELSE "copy"
    BY DEF CreateSandbox, Go, WorkerInv, BoxesInv, Counted
  <1>2. /\ Len(live) < Boxes(Job) /\ ~NoProgram(Job) /\ Len(live) \in Nat
        /\ Boxes(Job) \in Nat
    BY <1>1, TheJob, BoxesOf DEF WorkerInv, BoxesInv, Counted, Programs, Typed
  <1>3. FitsShard(Job) => Len(live) < RangeSize
    BY <1>2, WorkerAssumption DEF FitsShard
  <1>4. Len(live') = Len(live) + 1
    BY <1>1, <1>2 DEF NewSandbox, Typed
  <1>5. Job' = Job
    BY <1>1, CreatingForJob DEF OthersKept, Job
  <1>6. Counted'
    BY <1>1, <1>2, <1>4, <1>5 DEF Counted
  <1>7. Programs'
    BY <1>1, <1>2, <1>5 DEF Programs
  <1>8. QED BY <1>1, <1>3, <1>6, <1>7, CreatedInv

LEMMA CreateCheckerInv ==
  ASSUME WorkerInv, CreateChecker
  PROVE  WorkerInv'
  <1>1. /\ pc = "check" /\ pc # "idle" /\ Typed /\ NewSandbox /\ closing = 0
        /\ Job.checker = "present" /\ pc' = "checker"
        /\ UNCHANGED <<calls, work_lock, at, stats, closing, left>>
    BY DEF CreateChecker, Go, WorkerInv, BoxesInv, Counted
  <1>2. /\ Len(live) <= Boxes(Job) /\ Job.kind = "evaluate" /\ stats # None
        /\ Len(live) \in Nat /\ Boxes(Job) \in Nat
    BY <1>1, TheJob, BoxesOf DEF WorkerInv, BoxesInv, Counted, Programs, Typed
  <1>3. FitsShard(Job) => Len(live) < RangeSize
    BY <1>1, <1>2, WorkerAssumption DEF FitsShard
  <1>4. Len(live') = Len(live) + 1
    BY <1>1, <1>2 DEF NewSandbox, Typed
  <1>5. Job' = Job
    BY <1>1, CreatingForJob DEF OthersKept, Job
  <1>6. Counted'
    BY <1>1, <1>2, <1>4, <1>5 DEF Counted
  <1>7. Programs'
    BY <1>1, <1>2, <1>5 DEF Programs
  <1>8. QED BY <1>1, <1>3, <1>6, <1>7, CreatedInv

LEMMA NextJobInv ==
  ASSUME WorkerInv, NextJob
  PROVE  WorkerInv'
  <1>1. pc = "end" /\ pc # "idle" /\ Typed
        /\ live' = <<>> /\ stats' = None /\ closing' = 0 /\ UNCHANGED disk
    BY DEF NextJob, ForgetJob, WorkerInv
  <1>2. CASE at < Len(jobs) /\ at' = at + 1 /\ pc' = "begin"
             /\ UNCHANGED <<calls, work_lock, jobs>>
    <2>1. at' \in 1 .. Len(jobs) /\ at' > at
      BY <1>1, <1>2, TheJob
    <2>2. Typed'
      <3>1. <<>> \in Seq(SandboxType) /\ Len(<<>>) = 0
        OBVIOUS
      <3>2. QED BY <1>1, <1>2, <2>1, <3>1 DEF Typed, Places, disk
    <2>3. BoxesInv'
      <3>1. Counted'
        BY <1>1, <1>2 DEF Counted
      <3>2. InPlace'
        BY <1>1 DEF InPlace, disk
      <3>3. Consecutive'
        <4>1. PICK n \in Nat : n = next_id'
          BY <1>1 DEF Typed, disk
        <4>2. Len(live') = 0 /\ RangeSize >= 0
          BY <1>1, WorkerAssumption
        <4>3. n = n + Len(live')
          BY <4>2
        <4>4. QED BY <4>1, <4>2, <4>3 DEF Consecutive
      <3>4. QED BY <3>1, <3>2, <3>3 DEF BoxesInv
    <2>4. \A i \in 1 .. Len(jobs) :
            i > at => /\ jobs[i].success = None /\ jobs[i].result = None
                      /\ jobs[i].plus = <<>> /\ jobs[i].executables = FALSE
                      /\ jobs[i].errors = FALSE /\ jobs[i].used = {}
      BY DEF WorkerInv, Coming
    <2>5. Coming'
      <3>1. \A i \in 1 .. Len(jobs) : i > at' \/ i = at' => i > at
        BY <1>1, <2>1 DEF Typed
      <3>2. QED BY <1>2, <2>4, <3>1 DEF Coming
    <2>6. UsedInv'
      <3>1. jobs'[at'].used = {}
        BY <1>2, <2>1, <2>4
      <3>2. {live'[i].dir : i \in 1 .. Len(live')} = {}
        BY <1>1
      <3>3. QED BY <1>2, <3>1, <3>2 DEF UsedInv
    <2>7. Programs' /\ AnswerInv'
      BY <1>2 DEF Programs, AnswerInv
    <2>8. QED BY <2>2, <2>3, <2>5, <2>6, <2>7 DEF WorkerInv
  <1>3. CASE Leave("jobs")
    <2>1. /\ calls' = [calls EXCEPT ![work_lock] = "jobs"] /\ work_lock' = NoCall
          /\ pc' = "idle" /\ at' = 0 /\ jobs' = <<>>
      BY <1>3 DEF Leave
    <2>2. /\ calls' \in [Call -> {"new", "running", "jobs", "declined", "failed", "lost"}]
          /\ \A c \in Call : calls'[c] # "running"
      BY <1>1, <2>1, TheJob DEF Typed
    <2>3. next_id' \in Nat
      BY <1>1 DEF Typed, disk
    <2>4. QED BY <1>1, <2>1, <2>2, <2>3, IdleInv DEF disk
  <1>4. QED BY <1>2, <1>3 DEF NextJob

LEMMA CrashInv ==
  ASSUME WorkerInv, Crash
  PROVE  WorkerInv'
  <1>1. /\ calls' = [c \in Call |-> IF calls[c] = "running" THEN "lost" ELSE calls[c]]
        /\ work_lock' = NoCall /\ pc' = "idle" /\ at' = 0 /\ jobs' = <<>> /\ next_id' = 0
        /\ live' = <<>> /\ stats' = None /\ closing' = 0
        /\ UNCHANGED <<boxes, dirs, made, left>>
    BY DEF Crash, ForgetJob
  <1>2. Typed
    BY DEF WorkerInv
  <1>3. /\ calls' \in [Call -> {"new", "running", "jobs", "declined", "failed", "lost"}]
        /\ \A c \in Call : calls'[c] # "running"
    BY <1>1, <1>2 DEF Typed
  <1>4. QED BY <1>1, <1>2, <1>3, IdleInv

(* Two sandboxes of a job share a box only when they are RangeSize apart.  *)
LEMMA SandboxesDiffer ==
  ASSUME Typed, BoxesInv, NEW i \in 1 .. Len(live), NEW j \in 1 .. Len(live),
         i < j, j < i + RangeSize
  PROVE  live[i].box # live[j].box
  <1>1. PICK first \in Nat : \A k \in 1 .. Len(live) : live[k].box = Box(first + k - 1)
    BY DEF BoxesInv, Consecutive
  <1>2. RangeSize \in Nat
    BY WorkerAssumption
  <1> DEFINE a == first + i - 1
             b == first + j - 1
  <1>3. a \in Nat /\ b \in Nat /\ a < b /\ b < a + RangeSize
    BY <1>1, <1>2
  <1>4. live[i].box = Box(a) /\ live[j].box = Box(b)
    BY <1>1
  <1> HIDE DEF a, b
  <1>5. QED BY <1>3, <1>4, BoxesDiffer

(* ... which no two of a job that fits are.                                *)
LEMMA SandboxesOfOneThatFits ==
  ASSUME Typed, BoxesInv, FitsShard(Job),
         NEW i \in 1 .. Len(live), NEW j \in 1 .. Len(live), i # j
  PROVE  live[i].box # live[j].box
  <1>1. Len(live) <= RangeSize /\ RangeSize \in Nat /\ Len(live) \in Nat
    BY WorkerAssumption DEF BoxesInv, Consecutive, Typed
  <1>2. CASE i < j
    BY <1>1, <1>2, SandboxesDiffer
  <1>3. CASE j < i
    BY <1>1, <1>3, SandboxesDiffer
  <1>4. QED BY <1>2, <1>3

(* The cleanup of a sandbox disturbs no other, and what is left of it has  *)
(* been noted.                                                             *)
LEMMA CleaningUp ==
  ASSUME Typed, BoxesInv, \A j \in 1 .. Len(live) : live[j].dir \in 1 .. made,
         NEW i \in closing + 1 .. Len(live), NEW delete \in BOOLEAN, CleanUp(live[i], delete)
  PROVE  /\ boxes' \in [BoxIds -> 0 .. made]
         /\ dirs' \subseteq dirs /\ (~delete => dirs' = dirs)
         /\ left \subseteq left' /\ left' \subseteq 1 .. made
         /\ \A b \in BoxIds : boxes'[b] # Clean => boxes[b] = boxes'[b]
         /\ \A j \in closing + 1 .. Len(live) :
              /\ \A b \in BoxIds : boxes'[b] = live[j].dir => b = live[j].box
              /\ FitsShard(Job) /\ j # i => boxes'[live[j].box] = live[j].dir
         /\ delete /\ (live[i].dir \in dirs' \/ \E b \in BoxIds : boxes'[b] = live[i].dir)
              => live[i].dir \in left'
  <1> DEFINE e == live[i].box
             d == live[i].dir
             emptied == [boxes EXCEPT ![e] = Clean]
  <1>1. /\ i \in 1 .. Len(live) /\ closing \in Nat /\ made \in Nat
        /\ boxes \in [BoxIds -> 0 .. made] /\ live \in Seq(SandboxType)
        /\ left \subseteq 1 .. made
    BY DEF Typed
  <1>2. \/ /\ boxes' = emptied /\ left' = left
           /\ dirs' = IF delete THEN dirs \ {d} ELSE dirs
        \/ /\ boxes' \in {boxes, emptied} /\ left' = left \cup {d} /\ dirs' = dirs
    BY DEF CleanUp
  <1>3. d \in 1 .. made /\ d # Clean
    BY <1>1 DEF Clean
  <1>4. e \in BoxIds
    <2>1. live[i] \in SandboxType
      BY <1>1
    <2>2. QED BY <2>1 DEF SandboxType
  <1>5. ASSUME NEW j \in closing + 1 .. Len(live)
        PROVE  /\ j \in 1 .. Len(live) /\ live[j].dir # Clean /\ live[j].box \in BoxIds
               /\ \A b \in BoxIds : boxes[b] = live[j].dir => b = live[j].box
               /\ FitsShard(Job) => boxes[live[j].box] = live[j].dir
    <2>1. j \in 1 .. Len(live) /\ live[j].dir # Clean
      BY <1>1 DEF Clean
    <2>2. live[j] \in SandboxType
      BY <1>1, <2>1
    <2>3. live[j].box \in BoxIds
      BY <2>2 DEF SandboxType
    <2>4. QED BY <2>1, <2>3 DEF BoxesInv, InPlace
  <1>6. \A j \in closing + 1 .. Len(live) : FitsShard(Job) /\ j # i => live[j].box # e
    BY <1>1, <1>5, SandboxesOfOneThatFits
  <1>7. Clean \in 0 .. made
    BY <1>1 DEF Clean
  <1> HIDE DEF e, d
  <1>8. /\ emptied \in [BoxIds -> 0 .. made]
        /\ \A b \in BoxIds : emptied[b] = IF b = e THEN Clean ELSE boxes[b]
    BY <1>1, <1>4, <1>7
  <1> HIDE DEF emptied
  <1>9. /\ boxes' \in [BoxIds -> 0 .. made]
        /\ \A b \in BoxIds : boxes'[b] # Clean => boxes[b] = boxes'[b]
        /\ \A b \in BoxIds : b # e => boxes'[b] = boxes[b]
    BY <1>1, <1>2, <1>8
  <1>10. ASSUME NEW j \in closing + 1 .. Len(live)
         PROVE  /\ \A b \in BoxIds : boxes'[b] = live[j].dir => b = live[j].box
                /\ FitsShard(Job) /\ j # i => boxes'[live[j].box] = live[j].dir
    BY <1>5, <1>6, <1>9
  <1>11. left \subseteq left' /\ left' \subseteq 1 .. made
    BY <1>1, <1>2, <1>3
  <1>12. ASSUME delete, d \in dirs' \/ \E b \in BoxIds : boxes'[b] = d PROVE d \in left'
    <2>1. CASE left' = left \cup {d}
      BY <2>1
    <2>2. CASE boxes' = emptied /\ dirs' = dirs \ {d}
      <3>1. PICK b \in BoxIds : boxes'[b] = d
        BY <1>12, <2>2
      <3>2. b # e /\ boxes[b] = d
        BY <1>3, <1>8, <2>2, <3>1
      <3>3. b = e
        BY <1>5, <3>2 DEF e, d
      <3>4. QED BY <3>2, <3>3
    <2>3. QED BY <1>2, <1>12, <2>1, <2>2
  <1>13. dirs' \subseteq dirs /\ (~delete => dirs' = dirs)
    BY <1>2
  <1>14. QED BY Zenon, <1>9, <1>10, <1>11, <1>12, <1>13 DEF d

LEMMA FrontFacts ==
  ASSUME NEW S, NEW s \in Seq(S), s # <<>>
  PROVE  /\ Len(s) \in 1 .. Len(s) /\ Last(s) = s[Len(s)]
         /\ Front(s) \in Seq(S) /\ Len(Front(s)) = Len(s) - 1
         /\ \A i \in 1 .. Len(s) - 1 : Front(s)[i] = s[i]
  <1> DEFINE n == Len(s) - 1
  <1>1. Len(s) \in 1 .. Len(s) /\ n \in 0 .. Len(s)
    OBVIOUS
  <1>2. /\ SubSeq(s, 1, n) \in Seq(S) /\ Len(SubSeq(s, 1, n)) = n
        /\ \A i \in 1 .. n : SubSeq(s, 1, n)[i] = s[i]
    <2> HIDE DEF n
    <2>1. QED BY <1>1
  <1>3. QED BY <1>1, <1>2 DEF Front, Last

LEMMA RunCheckerInv ==
  ASSUME WorkerInv, RunChecker
  PROVE  WorkerInv'
  <1>1. PICK log \in Logs, outcome \in {None, "0.0", "1.0"} :
          LET step == CheckerStep(log, outcome) IN
          /\ Checked(step, ExitStatus(log) # "ok")
          /\ CleanUp(Last(live), step.success /\ ~Job.keep_sandbox)
    BY Zenon DEF RunChecker
  <1> DEFINE step == CheckerStep(log, outcome)
             last == Len(live)
  <1>2. /\ pc = "checker" /\ pc # "idle" /\ pc \in Unfilled /\ Typed /\ Programs /\ BoxesInv
        /\ pc' = "delete" /\ closing = 0
        /\ UNCHANGED <<calls, work_lock, at, stats, closing, next_id, made>>
        /\ live' = Front(live)
    BY DEF RunChecker, Go, Unfilled, WorkerInv, BoxesInv, Counted
  <1>3. /\ live \in Seq(SandboxType) /\ Len(live) \in Nat /\ Len(live) # 0 /\ live # <<>>
    BY <1>2, TheJob, BoxesOf DEF Typed, BoxesInv, Counted
  <1>4. /\ last \in 1 .. Len(live) /\ Last(live) = live[last]
        /\ live' \in Seq(SandboxType) /\ Len(live') = last - 1
        /\ \A i \in 1 .. last - 1 : live'[i] = live[i]
    BY <1>2, <1>3, FrontFacts
  <1>5. /\ at \in 1 .. Len(jobs) /\ Job = jobs[at].job
    BY <1>2, TheJob
  <1>6. /\ jobs[at].used = {live[i].dir : i \in 1 .. Len(live)}
        /\ jobs[at].used \subseteq dirs /\ jobs[at].used \subseteq 1 .. made
    BY <1>2 DEF WorkerInv, UsedInv, Unfilled
  <1>7. /\ log \in LogType /\ outcome \in Outcomes \cup {None}
    BY WorkerAssumption DEF LogType, Outcomes
  <1>8. PICK errors \in BOOLEAN : errors = (ExitStatus(log) # "ok")
    BY Zenon
  <1>9. Checked(step, errors)
    BY Zenon, <1>1, <1>8 DEF Checked, FillJob
  <1>10. PICK r : r = step
    OBVIOUS
  <1>11. PICK o \in Outcomes : r = Failure \/ r = Result(o, "checker", None)
    <2>1. "0.0" \in Outcomes
      BY DEF Outcomes
    <2>2. QED BY <1>7, <1>10, <2>1, CheckerStepFacts
  <1>12. /\ Checked(r, errors) /\ (r.success => ~errors)
         /\ CleanUp(live[last], r.success /\ ~Job.keep_sandbox)
    <2>1. step.success => ExitStatus(log) = "ok"
      BY <1>7, CheckerStepFacts
    <2>2. CleanUp(Last(live), step.success /\ ~Job.keep_sandbox)
      BY Zenon, <1>1
    <2>3. QED BY Zenon, <1>4, <1>8, <1>9, <1>10, <2>1, <2>2
  <1> HIDE DEF step, last
  <1>13. /\ OthersKept /\ jobs'[at].used = jobs[at].used
         /\ jobs'[at].success = r.success /\ jobs'[at].errors = errors
         /\ Contract(jobs'[at])
    <2>1. "checker" \in Texts
      BY DEF Texts
    <2>2. QED BY <1>2, <1>11, <1>12, <2>1, CheckedFacts
  <1>14. \A i \in 1 .. Len(live) : live[i].dir \in 1 .. made
    BY <1>6
  <1> DEFINE d == live[last].dir
  <1>15. PICK delete \in BOOLEAN : delete = (r.success /\ ~Job.keep_sandbox)
    BY Zenon
  <1>16. /\ boxes' \in [BoxIds -> 0 .. made]
         /\ dirs' \subseteq dirs /\ (~delete => dirs' = dirs)
         /\ left \subseteq left' /\ left' \subseteq 1 .. made
         /\ \A b \in BoxIds : boxes'[b] # Clean => boxes[b] = boxes'[b]
         /\ \A j \in closing + 1 .. Len(live) :
              /\ \A b \in BoxIds : boxes'[b] = live[j].dir => b = live[j].box
              /\ FitsShard(Job) /\ j # last => boxes'[live[j].box] = live[j].dir
         /\ delete /\ (d \in dirs' \/ \E b \in BoxIds : boxes'[b] = d) => d \in left'
    <2>1. last \in closing + 1 .. Len(live)
      BY <1>2, <1>4
    <2>2. CleanUp(live[last], delete)
      BY Zenon, <1>12, <1>15
    <2>3. QED BY <1>2, <1>14, <2>1, <2>2, CleaningUp
  <1> HIDE DEF d
  <1>17. Typed' /\ BoxesInv'
    <2>1. jobs' \in Seq(FilledType) /\ Len(jobs') = Len(jobs)
      BY <1>13 DEF OthersKept
    <2>2. dirs' \subseteq dirs /\ left' \subseteq 1 .. made /\ closing' \in 0 .. Len(live')
      BY <1>2, <1>3, <1>4, <1>16 DEF last
    <2>3. Typed'
      BY <1>2, <1>4, <1>16, <2>1, <2>2 DEF Typed, Places
    <2>4. Counted'
      BY <1>2 DEF Counted
    <2>5. Job' = Job
      BY <1>2, <1>13 DEF OthersKept, Job
    <2>6. \A i \in 1 .. Len(live') : i \in 1 .. Len(live) /\ i # last /\ live'[i] = live[i]
      BY <1>3, <1>4 DEF last
    <2>7. Consecutive'
      <3>1. PICK first \in Nat :
              /\ \A k \in 1 .. Len(live) : live[k].box = Box(first + k - 1)
              /\ FitsShard(Job) => Len(live) <= RangeSize
        BY <1>2 DEF BoxesInv, Consecutive
      <3>2. FitsShard(Job) => Len(live') <= RangeSize
        BY <1>3, <1>4, <3>1, WorkerAssumption DEF last
      <3>3. QED BY <1>2, <2>5, <2>6, <3>1, <3>2 DEF Consecutive
    <2>8. InPlace'
      <3>1. closing' + 1 = 1 /\ closing + 1 = 1
        BY <1>2
      <3>2. ASSUME NEW i \in 1 .. Len(live')
            PROVE  /\ \A b \in BoxIds : boxes'[b] = live'[i].dir => b = live'[i].box
                   /\ FitsShard(Job) => boxes'[live'[i].box] = live'[i].dir
        BY <1>16, <2>6, <3>1
      <3>3. QED BY <2>5, <3>1, <3>2 DEF InPlace
    <2>9. QED BY <2>3, <2>4, <2>7, <2>8 DEF BoxesInv
  <1>18. Programs' /\ Coming'
    BY <1>2, <1>13, ComingKept DEF WorkerInv, Programs, Unfilled
  <1>19. UsedInv'
    <2>1. \A i \in 1 .. Len(live') : live'[i].dir \in jobs'[at].used
      <3>1. ASSUME NEW i \in 1 .. Len(live') PROVE live'[i].dir \in jobs'[at].used
        <4>1. i \in 1 .. Len(live) /\ live'[i] = live[i]
          BY <1>3, <1>4, <3>1 DEF last
        <4>2. QED BY <1>6, <1>13, <4>1
      <3>2. QED BY <3>1
    <2>2. delete <=> Removes(jobs'[at])
      BY Zenon, <1>5, <1>13, <1>15 DEF OthersKept, Removes
    <2>3. CASE delete
      <3>1. ASSUME NEW f \in jobs'[at].used, f \in dirs' \/ \E b \in BoxIds : boxes'[b] = f
            PROVE  f \in left' \/ \E i \in closing' + 1 .. Len(live') : live'[i].dir = f
        <4>1. PICK i \in 1 .. Len(live) : live[i].dir = f
          BY <1>6, <1>13
        <4>2. CASE i = last
          BY <1>16, <2>3, <3>1, <4>1, <4>2 DEF d
        <4>3. CASE i # last
          <5>1. i \in closing' + 1 .. Len(live') /\ live'[i] = live[i]
            BY <1>2, <1>3, <1>4, <4>1, <4>3 DEF last
          <5>2. QED BY <4>1, <5>1
        <4>4. QED BY <4>2, <4>3
      <3>2. jobs'[at].used \subseteq 1 .. made'
        BY <1>2, <1>6, <1>13
      <3>3. QED BY <1>2, <2>1, <2>2, <2>3, <3>1, <3>2 DEF UsedInv, Remains, Unfilled
    <2>4. CASE ~delete
      <3>1. jobs'[at].used \subseteq 1 .. made' /\ jobs'[at].used \subseteq dirs'
        BY <1>2, <1>6, <1>13, <1>16, <2>4
      <3>2. QED BY <1>2, <2>1, <2>2, <2>4, <3>1 DEF UsedInv, Unfilled
    <2>5. QED BY <2>3, <2>4
  <1>20. AnswerInv'
    BY <1>2, <1>12, <1>13 DEF AnswerInv
  <1>21. QED BY <1>17, <1>18, <1>19, <1>20 DEF WorkerInv

LEMMA DeleteSandboxInv ==
  ASSUME WorkerInv, DeleteSandbox
  PROVE  WorkerInv'
  <1>1. /\ pc = "delete" /\ pc # "idle" /\ pc \notin Unfilled /\ Typed /\ BoxesInv /\ Programs
        /\ UNCHANGED <<calls, work_lock, jobs, at, live, stats, next_id, made>>
    BY DEF DeleteSandbox, Unfilled, WorkerInv
  <1>2. /\ live \in Seq(SandboxType) /\ Len(live) \in Nat /\ closing \in 0 .. Len(live)
        /\ made \in Nat
    BY <1>1 DEF Typed
  <1>3. /\ jobs[at].used \subseteq 1 .. made
        /\ \A i \in 1 .. Len(live) : live[i].dir \in jobs[at].used
        /\ IF Removes(jobs[at])
           THEN \A d \in jobs[at].used :
                  Remains(d) =>
                    d \in left \/ \E i \in closing + 1 .. Len(live) : live[i].dir = d
           ELSE jobs[at].used \subseteq dirs
    BY <1>1 DEF WorkerInv, UsedInv
  <1>4. Contract(jobs[at]) /\ (jobs[at].success => ~jobs[at].errors)
    BY <1>1 DEF WorkerInv, AnswerInv
  <1>5. CASE closing < Len(live)
    <2> DEFINE i == closing + 1
    <2>1. /\ i \in closing + 1 .. Len(live) /\ i \in 1 .. Len(live) /\ i \in 0 .. Len(live)
          /\ \A j \in i + 1 .. Len(live) : j \in closing + 1 .. Len(live) /\ i # j
          /\ \A j \in closing + 1 .. Len(live) : j = i \/ j \in i + 1 .. Len(live)
      BY <1>2, <1>5
    <2>2. closing' = i /\ pc' = pc /\ CleanUp(live[i], Removes(jobs[at]))
      BY <1>5 DEF DeleteSandbox
    <2> HIDE DEF i
    <2>3. PICK delete \in BOOLEAN : delete = Removes(jobs[at])
      BY Zenon DEF Removes
    <2>4. /\ boxes' \in [BoxIds -> 0 .. made]
          /\ dirs' \subseteq dirs /\ (~delete => dirs' = dirs)
          /\ left \subseteq left' /\ left' \subseteq 1 .. made
          /\ \A b \in BoxIds : boxes'[b] # Clean => boxes[b] = boxes'[b]
          /\ \A j \in closing + 1 .. Len(live) :
               /\ \A b \in BoxIds : boxes'[b] = live[j].dir => b = live[j].box
               /\ FitsShard(Job) /\ j # i => boxes'[live[j].box] = live[j].dir
          /\ delete /\ (live[i].dir \in dirs' \/ \E b \in BoxIds : boxes'[b] = live[i].dir)
               => live[i].dir \in left'
      <3>1. CleanUp(live[i], delete)
        BY Zenon, <2>2, <2>3
      <3>2. \A j \in 1 .. Len(live) : live[j].dir \in 1 .. made
        BY <1>3
      <3>3. QED BY <1>1, <2>1, <3>1, <3>2, CleaningUp
    <2>5. Typed'
      BY <1>1, <2>1, <2>2, <2>4 DEF Typed
    <2>6. BoxesInv'
      <3>1. Counted'
        BY <1>1, <2>2 DEF Counted
      <3>2. Consecutive'
        BY <1>1, <2>2 DEF BoxesInv, Consecutive, Job
      <3>3. InPlace'
        BY <1>1, <2>1, <2>2, <2>4 DEF InPlace, Job
      <3>4. QED BY <3>1, <3>2, <3>3 DEF BoxesInv
    <2>7. Programs' /\ Coming'
      BY <1>1, <2>2 DEF WorkerInv, Programs, Coming
    <2>8. UsedInv'
      <3>1. CASE delete
        <4>1. ASSUME NEW d \in jobs[at].used, d \in dirs' \/ \E b \in BoxIds : boxes'[b] = d
              PROVE  d \in left' \/ \E j \in i + 1 .. Len(live) : live[j].dir = d
          <5>1. d # Clean
            <6>1. d \in 1 .. made
              BY <1>3, <4>1
            <6>2. QED BY <1>2, <6>1 DEF Clean
          <5>2. Remains(d)
            BY <2>4, <4>1, <5>1 DEF Remains
          <5>3. d \in left \/ \E j \in closing + 1 .. Len(live) : live[j].dir = d
            BY <1>3, <2>3, <3>1, <4>1, <5>2
          <5>4. CASE \E j \in closing + 1 .. Len(live) : live[j].dir = d
            <6>1. PICK j \in closing + 1 .. Len(live) : live[j].dir = d
              BY <5>4
            <6>2. j = i => d \in left'
              BY <2>4, <3>1, <4>1, <6>1
            <6>3. QED BY <2>1, <6>1, <6>2
          <5>5. QED BY <2>4, <5>3, <5>4
        <4>2. QED BY <1>1, <1>3, <2>2, <2>3, <3>1, <4>1 DEF UsedInv, Removes, Remains
      <3>2. CASE ~delete
        <4>1. dirs' = dirs
          BY <2>4, <3>2
        <4>2. QED BY <1>1, <1>3, <2>2, <2>3, <3>2, <4>1 DEF UsedInv, Removes
      <3>3. QED BY <3>1, <3>2
    <2>9. AnswerInv'
      BY <1>1, <1>4, <2>2 DEF AnswerInv, Contract
    <2>10. QED BY <2>5, <2>6, <2>7, <2>8, <2>9 DEF WorkerInv
  <1>6. CASE ~(closing < Len(live))
    <2>1. pc' = "end" /\ UNCHANGED <<closing, boxes, dirs, left>>
      BY <1>6 DEF DeleteSandbox
    <2>2. Typed'
      BY <1>1, <2>1 DEF Typed, Places
    <2>3. BoxesInv'
      BY <1>1, <2>1 DEF BoxesInv, Counted, Consecutive, InPlace, Job
    <2>4. Programs' /\ Coming' /\ UsedInv'
      BY <1>1, <2>1 DEF WorkerInv, Programs, Coming, UsedInv, Unfilled
    <2>5. Followed(jobs[at])
      <3>1. closing + 1 .. Len(live) = {}
        BY <1>2, <1>6
      <3>2. Removes(jobs[at]) => \A d \in jobs[at].used : Remains(d) => d \in left
        BY <1>3, <3>1
      <3>3. ~Removes(jobs[at]) => jobs[at].used \subseteq dirs
        BY <1>3
      <3>4. Removes(jobs[at]) =>
              jobs[at].success /\ ~jobs[at].job.keep_sandbox /\ ~Swallowed(jobs[at])
        BY <1>4 DEF Removes, Swallowed
      <3>5. QED BY <3>2, <3>3, <3>4 DEF Followed, Removes
    <2>6. AnswerInv'
      BY <1>1, <1>4, <2>1, <2>5 DEF AnswerInv, Contract, Honest, Followed, Swallowed, Remains
    <2>7. QED BY <2>2, <2>3, <2>4, <2>6 DEF WorkerInv
  <1>7. QED BY <1>5, <1>6

LEMMA InitInv ==
  ASSUME Init
  PROVE  WorkerInv
  <1>1. Typed
    <2>1. <<>> \in Seq(FilledType) /\ <<>> \in Seq(SandboxType) /\ Len(<<>>) = 0
      OBVIOUS
    <2>2. \A c \in Call : NoCall # c
      BY WorkerAssumption
    <2>3. boxes \in [BoxIds -> 0 .. made] /\ dirs \subseteq 1 .. made /\ left \subseteq 1 .. made
      BY DEF Init, Clean
    <2>4. QED BY <2>1, <2>2, <2>3 DEF Init, Typed, Places
  <1>2. BoxesInv
    <2>1. Counted /\ InPlace
      BY DEF Init, Counted, InPlace
    <2>2. Consecutive
      <3>1. 0 \in Nat /\ RangeSize >= 0 /\ Len(<<>>) = 0 /\ 0 = 0 + Len(<<>>)
        BY WorkerAssumption
      <3>2. QED BY <3>1 DEF Init, Consecutive
    <2>3. QED BY <2>1, <2>2 DEF BoxesInv
  <1>3. Programs /\ Coming /\ UsedInv /\ AnswerInv
    BY DEF Init, Programs, Coming, UsedInv, AnswerInv, Unfilled
  <1>4. QED BY <1>1, <1>2, <1>3 DEF WorkerInv

LEMMA NextInv ==
  ASSUME WorkerInv, [Next]_vars
  PROVE  WorkerInv'
  <1>1. ASSUME NEW c \in Call, Decline(c) PROVE WorkerInv'
    BY <1>1, DeclineInv
  <1>2. ASSUME NEW c \in Call, NEW group \in Groups, Execute(c, group) PROVE WorkerInv'
    BY <1>2, ExecuteInv
  <1>3. CASE Step
    BY <1>3, BeginInv, CreateSandboxInv, CopyFilesInv, FindTombstoneInv, RunInv, CompareInv,
       CreateCheckerInv, RunCheckerInv, DeleteSandboxInv, NextJobInv DEF Step
  <1>4. CASE Fail
    BY <1>4, AbortInv DEF Fail
  <1>5. CASE Crash
    BY <1>5, CrashInv
  <1>6. CASE UNCHANGED vars
    <2>1. Typed'
      BY <1>6 DEF WorkerInv, Typed, vars, job_vars, disk
    <2>2. QED BY <1>6, <2>1, CallsAside DEF vars
  <1>7. QED BY <1>1, <1>2, <1>3, <1>4, <1>5, <1>6 DEF Next

-----------------------------------------------------------------------------
(* The theorems.                                                           *)

LEMMA WorkerInvariant == Spec => []WorkerInv
  <1>1. Init => WorkerInv
    BY InitInv
  <1>2. WorkerInv /\ [Next]_vars => WorkerInv'
    BY NextInv
  <1>3. QED BY <1>1, <1>2, PTL DEF Spec

(* The answer of a job, as the properties ask for it.                      *)
LEMMA AnsweredFacts ==
  ASSUME WorkerInv, NEW i \in Answered
  PROVE  /\ i = at /\ Contract(jobs[i]) /\ Honest(jobs[i]) /\ Followed(jobs[i])
  BY DEF WorkerInv, AnswerInv, Answered

(* Types, and the lock: a Worker executes a group exactly while one        *)
(* request is being served, and that is the one that holds the lock, which *)
(* every way out of execute_job_group gives back.                          *)
THEOREM WorkerTypeOK == Spec => []TypeOK
  <1>1. WorkerInv => TypeOK
    BY DEF WorkerInv, Typed, TypeOK
  <1>2. QED BY <1>1, WorkerInvariant, PTL

(* Whatever the task type and the logs of isolate, a job that is answered  *)
(* with success has its verdict, its text and its statistics, and has its  *)
(* executable exactly when it compiled; one that is not has neither, as    *)
(* Job.to_submission and EvaluationService take for granted.               *)
THEOREM WorkerJobContract == Spec => []JobContract
  <1>1. WorkerInv => JobContract
    BY AnsweredFacts DEF JobContract, Contract
  <1>2. QED BY <1>1, WorkerInvariant, PTL

(* A failure of isolate, of a checker or of a manager is never answered as *)
(* a success, but by BatchAndOutput.                                       *)
THEOREM WorkerFaultsAreNoVerdicts == Spec => []FaultsAreNoVerdicts
  <1>1. WorkerInv => FaultsAreNoVerdicts
    BY AnsweredFacts DEF FaultsAreNoVerdicts, Honest
  <1>2. QED BY <1>1, WorkerInvariant, PTL

(* Two sandboxes of a job share a box of isolate only when they are as far *)
(* apart as the shard has boxes; those of a job that fits in the boxes of  *)
(* the shard, whatever their number is, have their own files there.  All   *)
(* this whatever earlier jobs, failures and deaths left behind.            *)
THEOREM WorkerBoxesAreOwn == Spec => []BoxesAreOwn
  <1>1. WorkerInv => BoxesAreOwn
    <2>1. SUFFICES ASSUME WorkerInv, NEW i \in closing + 1 .. Len(live)
                   PROVE  /\ \A j \in i + 1 .. Len(live) :
                               j < i + RangeSize => live[i].box # live[j].box
                          /\ FitsShard(Job) => boxes[live[i].box] = live[i].dir
      BY DEF BoxesAreOwn
    <2>2. Typed /\ BoxesInv
      BY <2>1 DEF WorkerInv
    <2>3. ASSUME NEW j \in i + 1 .. Len(live), j < i + RangeSize
          PROVE  live[i].box # live[j].box
      <3>1. i \in 1 .. Len(live) /\ j \in 1 .. Len(live) /\ i < j
        BY <2>2 DEF Typed
      <3>2. QED BY <2>2, <2>3, <3>1, SandboxesDiffer
    <2>4. QED BY <2>2, <2>3 DEF BoxesInv, InPlace
  <1>2. QED BY <1>1, WorkerInvariant, PTL

(* Of the directories of a job that succeeds nothing is left on disk or in *)
(* a box, the checker's included, but for those whose cleanup met an       *)
(* OSError; one that does not succeed keeps them all, whatever failed.     *)
THEOREM WorkerDirectoriesFollowSuccess == Spec => []DirectoriesFollowSuccess
  <1>1. WorkerInv => DirectoriesFollowSuccess
    <2>1. SUFFICES ASSUME WorkerInv, NEW i \in Answered
                   PROVE  IF jobs[i].success /\ ~jobs[i].job.keep_sandbox
                             /\ ~Swallowed(jobs[i])
                          THEN jobs[i].used \cap (dirs \cup {boxes[b] : b \in BoxIds})
                                 \subseteq left
                          ELSE jobs[i].used \subseteq dirs
      BY DEF DirectoriesFollowSuccess
    <2>2. Followed(jobs[i])
      BY <2>1, AnsweredFacts
    <2>3. QED BY <2>2 DEF Followed, Remains
  <1>2. QED BY <1>1, WorkerInvariant, PTL
====
