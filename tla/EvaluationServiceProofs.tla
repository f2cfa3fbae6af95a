---------------------- MODULE EvaluationServiceProofs ----------------------
(***************************************************************************)
(* Invariants of EvaluationService, for every set of workers, submissions, *)
(* user tests and testcases and every bound on the tries.                  *)
(***************************************************************************)
EXTENDS EvaluationService, FiniteSetTheorems, WellFoundedInduction, TLAPS

-----------------------------------------------------------------------------
(* Lemmas on the operators of the model.                                   *)

LEMMA CompilationOpFields ==
  ASSUME NEW o, NEW a
  PROVE  /\ CompilationOp(o, a).type = "compilation" /\ CompilationOp(o, a).obj = o
         /\ CompilationOp(o, a).tc = NoTestcase /\ CompilationOp(o, a).archive = a
  BY DEF CompilationOp

LEMMA EvaluationOpFields ==
  ASSUME NEW o, NEW t, NEW a
  PROVE  /\ EvaluationOp(o, t, a).type = "evaluation" /\ EvaluationOp(o, t, a).obj = o
         /\ EvaluationOp(o, t, a).tc = t /\ EvaluationOp(o, t, a).archive = a
  BY DEF EvaluationOp

(* The kinds of operations.                                                *)
LEMMA OperationCases ==
  ASSUME NEW op
  PROVE  op \in Operation <=>
           \/ \E s \in Submission, a \in Archive : op = CompilationOp(s, a)
           \/ \E s \in Submission, t \in Testcase, a \in Archive :
                 op = EvaluationOp(s, t, a)
           \/ \E u \in UserTest : op = CompilationOp(u, FALSE)
           \/ \E u \in UserTest : op = EvaluationOp(u, NoTestcase, FALSE)
  <1> DEFINE A == {CompilationOp(s, a) : s \in Submission, a \in Archive}
             B == {EvaluationOp(s, t, a) :
                     s \in Submission, t \in Testcase, a \in Archive}
             C == {CompilationOp(u, FALSE) : u \in UserTest}
             D == {EvaluationOp(u, NoTestcase, FALSE) : u \in UserTest}
  <1>1. op \in A <=> \E s \in Submission, a \in Archive : op = CompilationOp(s, a)
    OBVIOUS
  <1>2. op \in B <=> \E s \in Submission, t \in Testcase, a \in Archive :
                       op = EvaluationOp(s, t, a)
    OBVIOUS
  <1>3. op \in C <=> \E u \in UserTest : op = CompilationOp(u, FALSE)
    BY Zenon
  <1>4. op \in D <=> \E u \in UserTest : op = EvaluationOp(u, NoTestcase, FALSE)
    BY Zenon
  <1>5. Operation = A \cup B \cup C \cup D
    BY DEF Operation
  <1> HIDE DEF A, B, C, D
  <1>6. QED BY Zenon, <1>1, <1>2, <1>3, <1>4, <1>5

(* The objects of operations, and the testcases of evaluations.            *)
LEMMA OperationFields ==
  ASSUME NEW op \in Operation
  PROVE  /\ op.obj \in Object /\ op.type \in Types /\ op.archive \in Archive
         /\ op.obj \in UserTest => op.archive = FALSE
         /\ op.type = "evaluation" /\ op.obj \in Submission => op.tc \in Testcase
  <1> DEFINE no == FALSE
  <1>1. no \in Archive /\ no = FALSE
    BY Zenon DEF Archive
  <1>2. \/ \E s \in Submission, a \in Archive : op = CompilationOp(s, a)
        \/ \E s \in Submission, t \in Testcase, a \in Archive :
              op = EvaluationOp(s, t, a)
        \/ \E u \in UserTest : op = CompilationOp(u, no)
        \/ \E u \in UserTest : op = EvaluationOp(u, NoTestcase, no)
    BY Zenon, OperationCases
  <1> HIDE DEF no
  <1>3. /\ op.obj \in Object /\ op.type \in Types /\ op.archive \in Archive
        /\ op.obj \in UserTest => op.archive = no
        /\ op.type = "evaluation" /\ op.obj \in Submission => op.tc \in Testcase
    BY <1>1, <1>2, CompilationOpFields, EvaluationOpFields,
       EvaluationServiceAssumption DEF Object, Types
  <1>4. QED BY Zenon, <1>1, <1>3

LEMMA SubmissionOperations ==
  ASSUME NEW s \in Submission, NEW a \in Archive
  PROVE  /\ CompilationOp(s, a) \in Operation
         /\ CompilationOp(s, a).obj = s
         /\ \A t \in Testcase : /\ EvaluationOp(s, t, a) \in Operation
                                /\ EvaluationOp(s, t, a).obj = s
  <1>1. CompilationOp(s, a) \in Operation
    BY Zenon, OperationCases
  <1>2. \A t \in Testcase : EvaluationOp(s, t, a) \in Operation
    BY Zenon, OperationCases
  <1>3. QED BY <1>1, <1>2, CompilationOpFields, EvaluationOpFields

LEMMA UserTestOperations ==
  ASSUME NEW u \in UserTest, NEW no, no = FALSE
  PROVE  /\ CompilationOp(u, no) \in Operation
         /\ CompilationOp(u, no).obj = u
         /\ EvaluationOp(u, NoTestcase, no) \in Operation
         /\ EvaluationOp(u, NoTestcase, no).obj = u
  <1>1. CompilationOp(u, no) \in Operation /\ EvaluationOp(u, NoTestcase, no) \in Operation
    BY Zenon, OperationCases
  <1>2. QED BY <1>1, CompilationOpFields, EvaluationOpFields

(* What may be asked of an object, with archive_sandbox or without.        *)
Pairs == {p \in Object \X Archive : p[1] \in UserTest => p[2] = FALSE}

(* submission_get_operations gives operations of the object.               *)
LEMMA WantedAreOperations ==
  ASSUME NEW pairs \in SUBSET Pairs, NEW rows
  PROVE  /\ Wanted(pairs, rows) \subseteq Operation
         /\ \A op \in Wanted(pairs, rows) : \E p \in pairs : op.obj = p[1]
  <1> SUFFICES ASSUME NEW p \in pairs, NEW op \in GetOperations(p[1], rows[p[1]], p[2])
               PROVE  op \in Operation /\ op.obj = p[1]
    BY DEF Wanted
  <1>1. p[1] \in Object /\ p[2] \in Archive /\ (p[1] \in UserTest => p[2] = FALSE)
    BY DEF Pairs
  <1>2. CASE p[1] \in Submission
    BY <1>1, <1>2, SubmissionOperations DEF GetOperations, InputsOf
  <1>3. CASE p[1] \in UserTest
    <2>1. p[1] \notin Submission /\ p[2] = FALSE
      BY <1>1, <1>3, EvaluationServiceAssumption
    <2>2. InputsOf(p[1]) = {NoTestcase}
      BY <2>1 DEF InputsOf
    <2>3. DEFINE o == p[1]  a == p[2]
    <2>4. /\ CompilationOp(o, a) \in Operation
          /\ CompilationOp(o, a).obj = o
          /\ EvaluationOp(o, NoTestcase, a) \in Operation
          /\ EvaluationOp(o, NoTestcase, a).obj = o
      BY <2>1, <1>3, UserTestOperations
    <2>5. QED BY <2>2, <2>4 DEF GetOperations
  <1>4. QED BY <1>1, <1>2, <1>3 DEF Object

LEMMA RelevantAreOperations ==
  ASSUME NEW s \in Submission, NEW level
  PROVE  /\ RelevantOperations(s, level) \subseteq Operation
         /\ \A op \in RelevantOperations(s, level) : op.obj = s
  <1>1. FALSE \in Archive
    BY DEF Archive
  <1>2. QED BY ZenonT(60), <1>1, SubmissionOperations DEF RelevantOperations

(* The image of a finite set.                                              *)
LEMMA ImagesAreFinite ==
  ASSUME NEW S, NEW T, NEW f \in [S -> T], IsFiniteSet(S),
         \A t \in T : \E s \in S : t = f[s]
  PROVE  IsFiniteSet(T) /\ Cardinality(T) <= Cardinality(S)
  <1>1. f \in Surjection(S, T)
    BY DEF Surjection
  <1>2. QED BY <1>1, FS_Surjection

(* Induction up to a bound, with a set for the property.                   *)
LEMMA InductionUpTo ==
  ASSUME NEW N \in Nat, NEW S, 0 \in S,
         \A n \in 1 .. N : n - 1 \in S => n \in S
  PROVE  \A n \in 0 .. N : n \in S
  <1> SUFFICES ASSUME NEW m \in 0 .. N, m \notin S PROVE FALSE
    OBVIOUS
  <1> DEFINE others == {n \in 0 .. N : n \notin S}
             less == OpToRel(<, Nat)
  <1>1. others \subseteq Nat /\ m \in others
    OBVIOUS
  <1>2. IsWellFoundedOn(less, Nat)
    BY NatLessThanWellFounded
  <1>3. \A i, j \in Nat : <<i, j>> \in less <=> i < j
    BY DEF OpToRel
  <1> HIDE DEF less
  <1>4. PICK k \in others : \A j \in others : ~ (<<j, k>> \in less)
    BY <1>1, <1>2, WFMin
  <1>5. k # 0 /\ k \in 1 .. N /\ k - 1 \in 0 .. N
    BY <1>4
  <1>6. k - 1 \notin others
    <2>1. <<k - 1, k>> \in less
      BY <1>3, <1>5
    <2>2. QED BY <1>4, <2>1
  <1>7. QED BY <1>4, <1>5, <1>6

(* The rows after the first n results of rs.                               *)
Writing(rs, n, rows) ==
  rows = [k \in 0 .. n |->
            IF k = 0 THEN db
            ELSE [rows[k - 1] EXCEPT ![rs[k].op.obj] = WriteRow(@, rs[k])]]

LEMMA RowsExist ==
  ASSUME NEW rs, NEW N \in Nat
  PROVE  \E rows : Writing(rs, N, rows)
  <1> DEFINE S == {n \in 0 .. N : \E rows : Writing(rs, n, rows)}
  <1>1. 0 \in S
    <2>1. Writing(rs, 0, [k \in 0 .. 0 |-> db])
      BY DEF Writing
    <2>2. QED BY <2>1
  <1>2. ASSUME NEW n \in 1 .. N, n - 1 \in S PROVE n \in S
    <2>1. PICK f : Writing(rs, n - 1, f)
      BY <1>2
    <2> DEFINE last == [f[n - 1] EXCEPT ![rs[n].op.obj] = WriteRow(@, rs[n])]
               g == [k \in 0 .. n |-> IF k = n THEN last ELSE f[k]]
    <2>2. f = [k \in 0 .. n - 1 |->
                 IF k = 0 THEN db
                 ELSE [f[k - 1] EXCEPT ![rs[k].op.obj] = WriteRow(@, rs[k])]]
      BY Zenon, <2>1 DEF Writing
    <2> DEFINE Step(x, k) == [x EXCEPT ![rs[k].op.obj] = WriteRow(@, rs[k])]
    <2>3. f = [k \in 0 .. n - 1 |-> IF k = 0 THEN db ELSE Step(f[k - 1], k)]
      BY Zenon, <2>2
    <2>4. last = Step(f[n - 1], n)
      BY Zenon
    <2> HIDE DEF Step, last
    <2>5. g = [k \in 0 .. n |-> IF k = 0 THEN db ELSE Step(g[k - 1], k)]
      <3> SUFFICES ASSUME NEW k \in 0 .. n
                   PROVE  g[k] = IF k = 0 THEN db ELSE Step(g[k - 1], k)
        OBVIOUS
      <3>1. CASE k = n
        BY <3>1, <2>4
      <3>2. CASE k # n
        BY <3>2, <2>3
      <3>3. QED BY <3>1, <3>2
    <2> HIDE DEF g
    <2>6. Writing(rs, n, g)
      BY Zenon, <2>5 DEF Writing, Step
    <2>7. QED BY <2>6
  <1> HIDE DEF S
  <1>3. N \in S
    BY <1>1, <1>2, InductionUpTo
  <1>4. QED BY <1>3 DEF S

(* What every write keeps, write_results keeps; G relates the number of    *)
(* results written to the rows.                                            *)
LEMMA RowsAfterKeeps ==
  ASSUME NEW rs, Len(rs) \in Nat, NEW G, <<0, db>> \in G,
         \A n \in 1 .. Len(rs) : \A rows :
           <<n - 1, rows>> \in G =>
             <<n, [rows EXCEPT ![rs[n].op.obj] = WriteRow(@, rs[n])]>> \in G
  PROVE  <<Len(rs), RowsAfter(rs)>> \in G
  <1> DEFINE N == Len(rs)
             rows == CHOOSE f : Writing(rs, N, f)
             S == {n \in 0 .. N : <<n, rows[n]>> \in G}
  <1>1. Writing(rs, N, rows)
    BY RowsExist
  <1>2. RowsAfter(rs) = rows[N]
    BY Zenon DEF RowsAfter, Writing
  <1> HIDE DEF rows
  <1>3. \A n \in 0 .. N :
          rows[n] = IF n = 0 THEN db
                    ELSE [rows[n - 1] EXCEPT ![rs[n].op.obj] = WriteRow(@, rs[n])]
    <2>1. rows = [k \in 0 .. N |->
                   IF k = 0 THEN db
                   ELSE [rows[k - 1] EXCEPT ![rs[k].op.obj] = WriteRow(@, rs[k])]]
      BY Zenon, <1>1 DEF Writing
    <2>2. QED BY Zenon, <2>1
  <1>4. 0 \in S
    <2>1. rows[0] = db
      <3>1. 0 \in 0 .. N
        OBVIOUS
      <3>2. QED BY Zenon, <3>1, <1>3
    <2>2. QED BY <2>1
  <1>5. ASSUME NEW n \in 1 .. N, n - 1 \in S PROVE n \in S
    <2>1. <<n - 1, rows[n - 1]>> \in G
      BY <1>5
    <2>2. rows[n] = [rows[n - 1] EXCEPT ![rs[n].op.obj] = WriteRow(@, rs[n])]
      <3>1. n \in 0 .. N /\ n # 0
        OBVIOUS
      <3>2. QED BY Zenon, <3>1, <1>3
    <2>3. <<n, rows[n]>> \in G
      BY Zenon, <2>1, <2>2
    <2>4. QED BY <2>3
  <1>6. N \in Nat
    OBVIOUS
  <1> HIDE DEF N, S
  <1>7. N \in S
    <2>1. \A n \in 0 .. N : n \in S
      BY <1>4, <1>5, <1>6, InductionUpTo
    <2>2. QED BY <1>6, <2>1
  <1>8. QED BY <1>2, <1>7 DEF N, S

-----------------------------------------------------------------------------
(* Types.  No variable keeps its type alone: a row keeps its own because a *)
(* compilation is never answered "tombstone" nor an evaluation "fail", and *)
(* what is flushed can be put in an order because it is finite.            *)
GoodResult ==
  {r \in Result : /\ r.op.type = "compilation" => r.outcome # "tombstone"
                  /\ r.op.type = "evaluation" => r.outcome # "fail"}

OperationsTyped ==
  queue \subseteq Operation /\ executing \subseteq Operation
    /\ requests \subseteq Operation /\ lost \subseteq Operation

ExecutorTyped ==
  /\ executor \in {"idle", "waiting", "acquiring"}
  /\ alias \in Worker \cup {NoWorker}
  /\ executor = "acquiring" => alias \in Worker

CallTyped(c) ==
  /\ c \in Call
  /\ IsFiniteSet(c.jobs)
  /\ c.answer = "done" => c.jobs \subseteq GoodResult

CallsTyped == IsFiniteSet(calls) /\ \A c \in calls : CallTyped(c)

CacheTyped ==
  /\ d \subseteq GoodResult /\ fd \subseteq GoodResult
  /\ IsFiniteSet(d) /\ IsFiniteSet(fd)

Rows == {rows \in [Object -> SubmissionResult] :
           \A u \in UserTest : rows[u] \in UserTestResult}

RestTyped ==
  /\ announced \subseteq Object /\ late \subseteq Object
  /\ writer \in {"idle", "flushed", "writing", "rows", "outcomes", "dead"}
  /\ deleted \subseteq Object
  /\ epoch \in [Object -> Epoch] /\ invalidated \subseteq Submission
  /\ faults \in [FaultKinds -> Nat]

Typed ==
  /\ Pool!TypeOK /\ OperationsTyped /\ ExecutorTyped /\ CallsTyped /\ CacheTyped
  /\ db \in Rows /\ RestTyped

(* A row that gets its evaluation outcome.                                 *)
LEMMA MarkEvaluatedTyped ==
  ASSUME NEW row \in SubmissionResult, NEW yes \in BOOLEAN, NEW tries \in Nat
  PROVE  LET new == [row EXCEPT !.evaluated = yes, !.evaluationTries = tries]
         IN  new \in SubmissionResult
             /\ (row \in UserTestResult => new \in UserTestResult)
  BY DEF SubmissionResult, UserTestResult

(* write_results_one_row of a good result leaves a good row.               *)
LEMMA WriteRowTyped ==
  ASSUME NEW r \in GoodResult, NEW row \in SubmissionResult,
         r.op.obj \in UserTest => row \in UserTestResult
  PROVE  /\ WriteRow(row, r) \in SubmissionResult
         /\ r.op.obj \in UserTest => WriteRow(row, r) \in UserTestResult
  <1>1. /\ r.op \in Operation /\ r.outcome \in {"ok", "fail", "error", "tombstone"}
        /\ r.op.type = "compilation" => r.outcome # "tombstone"
        /\ r.op.type = "evaluation" => r.outcome # "fail"
    BY DEF GoodResult, Result
  <1>2. /\ r.op.type \in Types /\ r.op.obj \in Submission \cup UserTest
        /\ r.op.type = "evaluation" /\ r.op.obj \in Submission => r.op.tc \in Testcase
    BY <1>1, OperationFields DEF Object
  <1>3. Blank \in SubmissionResult /\ Blank \in UserTestResult
    BY DEF Blank, SubmissionResult, UserTestResult
  <1>4. CASE r.op.type = "compilation" /\ r.outcome # "error"
    <2>1. WriteRow(row, r) = [Blank EXCEPT !.compilation = r.outcome]
      BY Zenon, <1>4 DEF WriteRow
    <2>2. r.outcome \in {"ok", "fail"}
      BY <1>1, <1>4
    <2>3. WriteRow(row, r) =
            [compilation |-> r.outcome, compilationTries |-> 0, evaluated |-> FALSE,
             evaluations |-> {}, evaluationTries |-> 0]
      BY Zenon, <2>1 DEF Blank
    <2>4. QED BY <2>2, <2>3 DEF SubmissionResult, UserTestResult
  <1>5. CASE r.op.type = "compilation" /\ r.outcome = "error"
    <2>1. WriteRow(row, r) = [row EXCEPT !.compilationTries = @ + 1]
      BY Zenon, <1>5 DEF WriteRow
    <2>2. QED BY <2>1 DEF SubmissionResult, UserTestResult
  <1>6. CASE r.op.type = "evaluation" /\ r.outcome = "ok" /\ r.op.obj \in Submission
    <2>1. r.op.obj \notin UserTest
      BY <1>6, EvaluationServiceAssumption
    <2>2. WriteRow(row, r) = [row EXCEPT !.evaluations = @ \cup {r.op.tc}]
      BY Zenon, <1>6, <2>1 DEF WriteRow
    <2>3. QED BY <1>2, <1>6, <2>1, <2>2 DEF SubmissionResult
  <1>7. CASE r.op.type = "evaluation" /\ r.outcome = "ok" /\ r.op.obj \in UserTest
    <2>1. r.op.obj \notin Submission
      BY <1>7, EvaluationServiceAssumption
    <2>2. WriteRow(row, r) = [row EXCEPT !.evaluated = TRUE, !.evaluationTries = 0]
      BY Zenon, <1>7, <2>1 DEF WriteRow
    <2>3. row \in SubmissionResult /\ row \in UserTestResult
      BY <1>7
    <2>4. QED BY <2>2, <2>3, MarkEvaluatedTyped
  <1>8. CASE r.op.type = "evaluation" /\ r.outcome = "error"
    <2>1. WriteRow(row, r) = [row EXCEPT !.evaluationTries = @ + 1]
      BY Zenon, <1>8 DEF WriteRow
    <2>2. QED BY <2>1 DEF SubmissionResult, UserTestResult
  <1>9. CASE r.op.type = "evaluation" /\ r.outcome = "tombstone"
    <2>1. WriteRow(row, r) = IF row.compilation = "tombstone" THEN Blank ELSE row
      BY Zenon, <1>9 DEF WriteRow
    <2>2. QED BY <1>3, <2>1
  <1>10. QED
    BY <1>1, <1>2, <1>4, <1>5, <1>6, <1>7, <1>8, <1>9 DEF Types

(* write_results leaves good rows, and those of objects without a result.  *)
LEMMA RowsAfterTyped ==
  ASSUME NEW rs, Len(rs) \in Nat, \A n \in 1 .. Len(rs) : rs[n] \in GoodResult,
         db \in Rows
  PROVE  /\ RowsAfter(rs) \in Rows
         /\ \A o \in Object : RowsAfter(rs)[o] # db[o] =>
              \E n \in 1 .. Len(rs) : rs[n].op.obj = o
  <1> DEFINE Untouched(rows) ==
               \A o \in Object : rows[o] # db[o] =>
                 \E n \in 1 .. Len(rs) : rs[n].op.obj = o
             G == {<<n, rows>> : n \in 0 .. Len(rs), rows \in {x \in Rows : Untouched(x)}}
  <1>1. <<0, db>> \in G
    OBVIOUS
  <1>2. ASSUME NEW n \in 1 .. Len(rs), NEW rows, <<n - 1, rows>> \in G
        PROVE  <<n, [rows EXCEPT ![rs[n].op.obj] = WriteRow(@, rs[n])]>> \in G
    <2> DEFINE o == rs[n].op.obj
               row == WriteRow(rows[o], rs[n])
               next == [rows EXCEPT ![o] = row]
    <2>1. rows \in Rows /\ Untouched(rows)
      BY <1>2
    <2>2. rs[n] \in GoodResult /\ o \in Object
      BY OperationFields DEF GoodResult, Result
    <2>3. rows[o] \in SubmissionResult /\ (o \in UserTest => rows[o] \in UserTestResult)
      BY <2>1, <2>2 DEF Rows
    <2>4. row \in SubmissionResult /\ (o \in UserTest => row \in UserTestResult)
      BY <2>2, <2>3, WriteRowTyped
    <2> HIDE DEF row
    <2>5. next \in Rows
      BY <2>1, <2>2, <2>4 DEF Rows, Object
    <2>6. Untouched(next)
      BY <2>1, <2>2 DEF Rows
    <2> HIDE DEF o, next, Untouched
    <2>7. <<n, next>> \in G
      BY <2>5, <2>6
    <2>8. next = [rows EXCEPT ![rs[n].op.obj] = WriteRow(@, rs[n])]
      BY Zenon DEF next, o, row
    <2>9. QED BY <2>7, <2>8
  <1> HIDE DEF G
  <1>3. <<Len(rs), RowsAfter(rs)>> \in G
    BY <1>1, <1>2, RowsAfterKeeps
  <1>4. QED BY <1>3 DEF G

LEMMA SetEvaluatedTyped ==
  ASSUME NEW row \in SubmissionResult, NEW yes \in BOOLEAN
  PROVE  LET new == [row EXCEPT !.evaluated = yes]
         IN  new \in SubmissionResult
             /\ (row \in UserTestResult => new \in UserTestResult)
  BY DEF SubmissionResult, UserTestResult

LEMMA MarkingRowsKeepsTypes ==
  ASSUME NEW rows \in Rows, NEW S
  PROVE  [o \in Object |-> IF o \in S THEN [rows[o] EXCEPT !.evaluated = TRUE]
                           ELSE rows[o]] \in Rows
  <1> DEFINE new == [o \in Object |-> IF o \in S THEN [rows[o] EXCEPT !.evaluated = TRUE]
                                      ELSE rows[o]]
  <1>1. ASSUME NEW o \in Object
        PROVE  new[o] \in SubmissionResult /\ (o \in UserTest => new[o] \in UserTestResult)
    <2>1. rows[o] \in SubmissionResult /\ (o \in UserTest => rows[o] \in UserTestResult)
      BY DEF Rows
    <2>2. CASE o \in S
      <3>1. new[o] = [rows[o] EXCEPT !.evaluated = TRUE]
        BY <2>2
      <3>2. TRUE \in BOOLEAN
        OBVIOUS
      <3>3. QED BY Zenon, <2>1, <3>1, <3>2, SetEvaluatedTyped
    <2>3. CASE o \notin S
      <3>1. new[o] = rows[o]
        BY <2>3
      <3>2. QED BY <2>1, <3>1
    <2>4. QED BY <2>2, <2>3
  <1>2. DOMAIN new = Object /\ new = [o \in Object |-> new[o]]
    OBVIOUS
  <1> HIDE DEF new
  <1>3. new \in Rows
    BY <1>1, <1>2 DEF Rows, Object
  <1>4. QED BY <1>3 DEF new

LEMMA FinalizedTyped ==
  ASSUME NEW rows \in Rows, NEW pairs
  PROVE  Finalized(pairs, rows) \in Rows
  <1> DEFINE S == {o \in Submission : /\ \E p \in pairs : p[1] = o
                                      /\ ToEvaluate(rows[o])
                                      /\ rows[o].evaluations = Testcase}
  <1>1. Finalized(pairs, rows) =
          [o \in Object |-> IF o \in S THEN [rows[o] EXCEPT !.evaluated = TRUE]
                            ELSE rows[o]]
    BY Zenon DEF Finalized
  <1> HIDE DEF S
  <1>2. QED BY <1>1, MarkingRowsKeepsTypes

(* The pairs operations are asked for.                                     *)
LEMMA FreshPairs ==
  ASSUME NEW X \in SUBSET Object
  PROVE  /\ {<<o, FALSE>> : o \in X} \subseteq Pairs
         /\ \A p \in {<<o, FALSE>> : o \in X} : p[1] \in X
  <1> DEFINE no == FALSE
             fresh == {<<o, no>> : o \in X}
  <1>1. no \in Archive /\ no = FALSE
    BY Zenon DEF Archive
  <1> HIDE DEF no
  <1>2. fresh \subseteq Pairs /\ \A p \in fresh : p[1] \in X
    BY <1>1 DEF Pairs
  <1>3. QED BY Zenon, <1>1, <1>2

LEMMA FreshPair ==
  ASSUME NEW o \in Object
  PROVE  {<<o, FALSE>>} \subseteq Pairs /\ \A p \in {<<o, FALSE>>} : p[1] = o
  <1> DEFINE no == FALSE
             fresh == {<<o, no>>}
  <1>1. no \in Archive /\ no = FALSE
    BY Zenon DEF Archive
  <1> HIDE DEF no
  <1>2. fresh \subseteq Pairs /\ \A p \in fresh : p[1] = o
    BY <1>1 DEF Pairs
  <1>3. QED BY Zenon, <1>1, <1>2

(* The operations new_submission or the sweeper wants are of its objects.  *)
LEMMA WantedFor ==
  ASSUME NEW o \in Object, NEW rows
  PROVE  /\ Wanted({<<o, FALSE>>}, rows) \subseteq Operation
         /\ \A op \in Wanted({<<o, FALSE>>}, rows) : op.obj = o
  <1> DEFINE pairs == {<<o, FALSE>>}
  <1>1. pairs \subseteq Pairs /\ \A p \in pairs : p[1] = o
    BY Zenon, FreshPair
  <1> HIDE DEF pairs
  <1>2. /\ Wanted(pairs, rows) \subseteq Operation
        /\ \A op \in Wanted(pairs, rows) : op.obj = o
    BY <1>1, WantedAreOperations
  <1>3. QED BY Zenon, <1>2 DEF pairs

LEMMA WantedForAll ==
  ASSUME NEW X \in SUBSET Object, NEW rows
  PROVE  /\ Wanted({<<o, FALSE>> : o \in X}, rows) \subseteq Operation
         /\ \A op \in Wanted({<<o, FALSE>> : o \in X}, rows) : op.obj \in X
  <1> DEFINE pairs == {<<o, FALSE>> : o \in X}
  <1>1. pairs \subseteq Pairs /\ \A p \in pairs : p[1] \in X
    BY Zenon, FreshPairs
  <1> HIDE DEF pairs
  <1>2. /\ Wanted(pairs, rows) \subseteq Operation
        /\ \A op \in Wanted(pairs, rows) : op.obj \in X
    BY <1>1, WantedAreOperations
  <1>3. QED BY Zenon, <1>2 DEF pairs

LEMMA AskedPair ==
  ASSUME NEW s \in Submission, NEW a \in ArchiveRequests
  PROVE  {<<s, a>>} \subseteq Pairs
  <1>1. s \in Object /\ s \notin UserTest
    BY EvaluationServiceAssumption DEF Object
  <1>2. a \in Archive
    BY DEF Archive
  <1> DEFINE p == <<s, a>>
  <1>3. p \in Object \X Archive /\ p[1] = s
    BY <1>1, <1>2
  <1> HIDE DEF p
  <1>4. p \in Pairs
    BY Zenon, <1>1, <1>3 DEF Pairs
  <1>5. QED BY <1>4 DEF p

LEMMA EndedPairsTyped ==
  ASSUME NEW rs \in SUBSET GoodResult
  PROVE  /\ EndedPairs(rs) \subseteq Pairs
         /\ \A p \in EndedPairs(rs) : \E r \in rs : p[1] = r.op.obj
  <1> DEFINE none == FALSE
  <1>1. none \in Archive
    BY DEF Archive
  <1>2. \A r \in rs : /\ r.op \in Operation /\ r.op.obj \in Object
                      /\ r.op.archive \in Archive
    BY OperationFields DEF GoodResult, Result
  <1>3. EndedPairs(rs) =
          {<<r.op.obj, none>> : r \in {q \in {x \in rs : x.op.obj \in Submission} :
                                         q.op.type = "compilation"}}
          \cup {<<r.op.obj, r.op.archive>> :
                  r \in {q \in {x \in rs : x.op.obj \in Submission} :
                           q.op.type = "evaluation" /\ db[q.op.obj].evaluated}}
          \cup {<<r.op.obj, none>> : r \in {q \in rs : q.op.obj \in UserTest}}
    BY DEF EndedPairs, EndedSubmissions, EndedUserTests
  <1>4. none = FALSE
    OBVIOUS
  <1> HIDE DEF none
  <1>5. ASSUME NEW p \in EndedPairs(rs)
        PROVE  \E r \in rs : \/ p = <<r.op.obj, none>>
                             \/ /\ p = <<r.op.obj, r.op.archive>>
                                /\ r.op.obj \in Submission
    BY <1>3
  <1>6. \A o \in Submission : o \notin UserTest
    BY EvaluationServiceAssumption
  <1>7. ASSUME NEW p \in EndedPairs(rs)
        PROVE  /\ p \in Object \X Archive /\ (p[1] \in UserTest => p[2] = none)
               /\ \E r \in rs : p[1] = r.op.obj
    BY <1>1, <1>2, <1>5, <1>6
  <1>8. QED BY <1>4, <1>7 DEF Pairs

LEMMA EnqueuedTyped ==
  ASSUME NEW ops \in SUBSET Operation, NEW q \in SUBSET Operation, NEW ex, NEW rev
  PROVE  Enqueued(ops, q, ex, rev) \subseteq Operation
  BY DEF Enqueued

-----------------------------------------------------------------------------
(* What each step does to the queues of operations.                        *)
LEMMA PutAgainTyped ==
  ASSUME OperationsTyped, NEW ops \in SUBSET Operation, PutAgain(ops)
  PROVE  queue' \subseteq Operation /\ lost' \subseteq Operation
  BY EnqueuedTyped DEF PutAgain, OperationsTyped

LEMMA MissingTyped ==
  MissingOperations \cup MissingUserTestOperations \subseteq Operation
  <1>1. /\ {<<u, FALSE>> : u \in UserTest \ deleted} \subseteq Pairs
        /\ {<<s, FALSE>> : s \in Submission \ deleted} \subseteq Pairs
    BY FreshPairs DEF Object
  <1>2. QED
    BY <1>1, WantedAreOperations DEF MissingOperations, MissingUserTestOperations

LEMMA OperationsKept == ASSUME Typed, [Next]_vars PROVE OperationsTyped'
  <1> OperationsTyped /\ Pool!TypeOK
    BY DEF Typed
  <1>1. ASSUME NEW s \in Submission, NewSubmission(s) PROVE OperationsTyped'
    <2>1. {<<s, FALSE>>} \subseteq Pairs
      BY FreshPair DEF Object
    <2>2. QED BY <1>1, <2>1, WantedAreOperations DEF NewSubmission, executorVars, OperationsTyped
  <1>2. ASSUME NEW u \in UserTest, NewUserTest(u) PROVE OperationsTyped'
    <2>1. {<<u, FALSE>>} \subseteq Pairs
      BY FreshPair DEF Object
    <2>2. QED BY <1>2, <2>1, WantedAreOperations DEF NewUserTest, executorVars, OperationsTyped
  <1>3. ASSUME NEW op \in Operation, Enqueue(op) PROVE OperationsTyped'
    BY <1>3, EnqueuedTyped DEF Enqueue, executorVars, OperationsTyped
  <1>4. CASE EnqueueLost
    BY <1>4, EnqueuedTyped DEF EnqueueLost, executorVars, OperationsTyped
  <1>5. CASE Sweep
    BY <1>5, MissingTyped, EnqueuedTyped
    DEF Sweep, executorVars, requestVars, OperationsTyped
  <1>6. CASE PopBatch
    BY <1>6 DEF PopBatch, executorVars, requestVars, OperationsTyped
  <1>7. CASE AcquireWorker
    BY <1>7 DEF AcquireWorker, executorVars, requestVars, OperationsTyped
  <1>8. CASE NothingToExecute
    BY <1>8 DEF NothingToExecute, executorVars, requestVars, OperationsTyped
  <1>9. CASE SendJobGroup
    BY <1>9 DEF SendJobGroup, executorVars, requestVars, OperationsTyped
  <1>10. CASE AcquireWorkerRaises
    BY <1>10 DEF AcquireWorkerRaises, executorVars, requestVars, OperationsTyped
  <1>11. ASSUME NEW c \in calls, WorkerFinishes(c) PROVE OperationsTyped'
    BY <1>11 DEF WorkerFinishes, executorVars, requestVars, OperationsTyped
  <1>12. ASSUME NEW c \in calls, WorkerFails(c) PROVE OperationsTyped'
    BY <1>12 DEF WorkerFails, executorVars, requestVars, OperationsTyped
  <1>13. ASSUME NEW c \in calls, ActionFinished(c) PROVE OperationsTyped'
    BY <1>13 DEF ActionFinished, executorVars, requestVars, OperationsTyped
  <1>14. CASE Flush
    BY <1>14 DEF Flush, executorVars, requestVars, OperationsTyped
  <1>15. CASE StartWriting
    BY <1>15 DEF StartWriting, executorVars, requestVars, OperationsTyped
  <1>16. CASE WriteResults
    <2>1. \A s \in Submission : CompilationOp(s, FALSE) \in Operation
      BY Zenon, SubmissionOperations DEF Archive
    <2>2. PICK found \in SUBSET Submission :
            queue' = Enqueued({CompilationOp(s, FALSE) : s \in found},
                              queue, executing, reverse)
      BY <1>16 DEF WriteResults
    <2>3. {CompilationOp(s, FALSE) : s \in found} \subseteq Operation
      BY <2>1
    <2>4. queue' \subseteq Operation
      BY <2>2, <2>3, EnqueuedTyped DEF OperationsTyped
    <2>5. QED BY <1>16, <2>4 DEF WriteResults, executorVars, requestVars, OperationsTyped
  <1>17. CASE SetEvaluationOutcomes
    BY <1>17 DEF SetEvaluationOutcomes, executorVars, requestVars, OperationsTyped
  <1>18. CASE EndOperations
    <2>1. EndedPairs(fd) \subseteq Pairs
      BY EndedPairsTyped DEF Typed, CacheTyped
    <2>2. queue' \subseteq Operation
      BY <1>18, <2>1, WantedAreOperations, EnqueuedTyped DEF EndOperations, OperationsTyped
    <2>3. QED BY <1>18, <2>2 DEF EndOperations, executorVars, requestVars, OperationsTyped
  <1>19. CASE EndOperationsRaises
    <2>1. PICK past \in SUBSET {r \in fd : r.op.obj \notin deleted} :
            queue' = Enqueued(Wanted(EndedPairs(past), db), queue, executing, reverse)
      BY <1>19 DEF EndOperationsRaises
    <2>2. EndedPairs(past) \subseteq Pairs
      BY EndedPairsTyped DEF Typed, CacheTyped
    <2>3. queue' \subseteq Operation
      BY <2>1, <2>2, WantedAreOperations, EnqueuedTyped DEF OperationsTyped
    <2>4. QED
      BY <1>19, <2>3 DEF EndOperationsRaises, executorVars, requestVars, OperationsTyped
  <1>20. ASSUME NEW s \in Submission, NEW l \in Levels, NEW a \in ArchiveRequests,
               InvalidateSubmission(s, l[1], l[2], a)
        PROVE  OperationsTyped'
    <2>1. \E row :
            queue' = Enqueued(Wanted({<<s, a>>}, [db EXCEPT ![s] = row]),
                              queue \ RelevantOperations(s, l[1]),
                              executing \ (RelevantOperations(s, l[1]) \ queue),
                              reverse)
      BY Zenon, <1>20 DEF InvalidateSubmission
    <2>2. {<<s, a>>} \subseteq Pairs
      BY AskedPair
    <2>3. queue' \subseteq Operation
      BY <2>1, <2>2, WantedAreOperations, EnqueuedTyped DEF OperationsTyped
    <2>4. executing' \subseteq executing
      BY <1>20 DEF InvalidateSubmission
    <2>5. QED BY <1>20, <2>3, <2>4 DEF InvalidateSubmission, requestVars, OperationsTyped
  <1>21. ASSUME NEW o \in Object, DeleteObject(o) PROVE OperationsTyped'
    BY <1>21 DEF DeleteObject, executorVars, requestVars, OperationsTyped
  <1>22. CASE CheckWorkersTimeout
    <2>1. PICK ws \in SUBSET Worker : PutAgain(Pool!NotIgnored(ws))
      BY <1>22 DEF CheckWorkersTimeout
    <2>2. Pool!NotIgnored(ws) \subseteq Operation
      BY DEF Pool!NotIgnored, Pool!TypeOK
    <2>3. QED
      BY <1>22, <2>1, <2>2, PutAgainTyped DEF CheckWorkersTimeout, executorVars, OperationsTyped
  <1>23. CASE CheckWorkersConnection
    <2>1. UNION {operations[w] : w \in Pool!Unconnected} \subseteq Operation
      BY DEF Pool!Unconnected, Pool!TypeOK
    <2>2. QED
      BY <1>23, <2>1, PutAgainTyped DEF CheckWorkersConnection, executorVars, OperationsTyped
  <1>24. ASSUME NEW w \in Worker, DisableWorker(w) PROVE OperationsTyped'
    <2>1. Pool!NotIgnored({w}) \subseteq Operation
      BY DEF Pool!NotIgnored, Pool!TypeOK
    <2>2. QED
      BY <1>24, <2>1, PutAgainTyped DEF DisableWorker, executorVars, OperationsTyped
  <1>25. ASSUME NEW w \in Worker, EnableWorker(w) PROVE OperationsTyped'
    BY <1>25 DEF EnableWorker, executorVars, requestVars, OperationsTyped
  <1>26. ASSUME NEW w \in Worker, Connect(w) PROVE OperationsTyped'
    BY <1>26 DEF Connect, executorVars, requestVars, OperationsTyped
  <1>27. ASSUME NEW w \in Worker, OnWorkerConnected(w) PROVE OperationsTyped'
    BY <1>27 DEF OnWorkerConnected, executorVars, requestVars, OperationsTyped
  <1>28. ASSUME NEW w \in Worker, Disconnect(w) PROVE OperationsTyped'
    BY <1>28 DEF Disconnect, executorVars, requestVars, OperationsTyped
  <1>29. CASE Crash
    BY <1>29 DEF Crash, executorVars, requestVars, OperationsTyped
  <1>30. CASE UNCHANGED vars
    BY <1>30 DEF vars, executorVars, requestVars, OperationsTyped
  <1>31. QED
    BY <1>1, <1>2, <1>3, <1>4, <1>5, <1>6, <1>7, <1>8, <1>9, <1>10,
       <1>11, <1>12, <1>13, <1>14, <1>15, <1>16, <1>17, <1>18, <1>19,
       <1>20, <1>21, <1>22, <1>23, <1>24, <1>25, <1>26, <1>27, <1>28,
       <1>29, <1>30 DEF Next

(* Where the loop of the executor is.                                      *)
LEMMA ExecutorKept == ASSUME ExecutorTyped, [Next]_vars PROVE ExecutorTyped'
  <1>1. ASSUME NEW s \in Submission, NewSubmission(s) PROVE ExecutorTyped'
    BY <1>1 DEF NewSubmission, executorVars, ExecutorTyped
  <1>2. ASSUME NEW u \in UserTest, NewUserTest(u) PROVE ExecutorTyped'
    BY <1>2 DEF NewUserTest, executorVars, ExecutorTyped
  <1>3. ASSUME NEW op \in Operation, Enqueue(op) PROVE ExecutorTyped'
    BY <1>3 DEF Enqueue, executorVars, ExecutorTyped
  <1>4. CASE EnqueueLost
    BY <1>4 DEF EnqueueLost, executorVars, ExecutorTyped
  <1>5. CASE Sweep
    BY <1>5 DEF Sweep, executorVars, ExecutorTyped
  <1>6. CASE PopBatch
    BY <1>6 DEF PopBatch, executorVars, ExecutorTyped
  <1>7. CASE AcquireWorker
    BY <1>7 DEF AcquireWorker, executorVars, ExecutorTyped
  <1>8. CASE NothingToExecute
    BY <1>8 DEF NothingToExecute, executorVars, ExecutorTyped
  <1>9. CASE SendJobGroup
    BY <1>9 DEF SendJobGroup, executorVars, ExecutorTyped
  <1>10. CASE AcquireWorkerRaises
    BY <1>10 DEF AcquireWorkerRaises, executorVars, ExecutorTyped
  <1>11. ASSUME NEW c \in calls, WorkerFinishes(c) PROVE ExecutorTyped'
    BY <1>11 DEF WorkerFinishes, executorVars, ExecutorTyped
  <1>12. ASSUME NEW c \in calls, WorkerFails(c) PROVE ExecutorTyped'
    BY <1>12 DEF WorkerFails, executorVars, ExecutorTyped
  <1>13. ASSUME NEW c \in calls, ActionFinished(c) PROVE ExecutorTyped'
    BY <1>13 DEF ActionFinished, executorVars, ExecutorTyped
  <1>14. CASE Flush
    BY <1>14 DEF Flush, executorVars, ExecutorTyped
  <1>15. CASE StartWriting
    BY <1>15 DEF StartWriting, executorVars, ExecutorTyped
  <1>16. CASE WriteResults
    BY <1>16 DEF WriteResults, executorVars, ExecutorTyped
  <1>17. CASE SetEvaluationOutcomes
    BY <1>17 DEF SetEvaluationOutcomes, executorVars, ExecutorTyped
  <1>18. CASE EndOperations
    BY <1>18 DEF EndOperations, executorVars, ExecutorTyped
  <1>19. CASE EndOperationsRaises
    BY <1>19 DEF EndOperationsRaises, executorVars, ExecutorTyped
  <1>20. ASSUME NEW s \in Submission, NEW l \in Levels, NEW a \in ArchiveRequests,
               InvalidateSubmission(s, l[1], l[2], a)
        PROVE  ExecutorTyped'
    BY <1>20 DEF InvalidateSubmission, executorVars, ExecutorTyped
  <1>21. ASSUME NEW o \in Object, DeleteObject(o) PROVE ExecutorTyped'
    BY <1>21 DEF DeleteObject, executorVars, ExecutorTyped
  <1>22. CASE CheckWorkersTimeout
    BY <1>22 DEF CheckWorkersTimeout, executorVars, ExecutorTyped
  <1>23. CASE CheckWorkersConnection
    BY <1>23 DEF CheckWorkersConnection, executorVars, ExecutorTyped
  <1>24. ASSUME NEW w \in Worker, DisableWorker(w) PROVE ExecutorTyped'
    BY <1>24 DEF DisableWorker, executorVars, ExecutorTyped
  <1>25. ASSUME NEW w \in Worker, EnableWorker(w) PROVE ExecutorTyped'
    BY <1>25 DEF EnableWorker, executorVars, ExecutorTyped
  <1>26. ASSUME NEW w \in Worker, Connect(w) PROVE ExecutorTyped'
    BY <1>26 DEF Connect, executorVars, ExecutorTyped
  <1>27. ASSUME NEW w \in Worker, OnWorkerConnected(w) PROVE ExecutorTyped'
    BY <1>27 DEF OnWorkerConnected, executorVars, ExecutorTyped
  <1>28. ASSUME NEW w \in Worker, Disconnect(w) PROVE ExecutorTyped'
    BY <1>28 DEF Disconnect, executorVars, ExecutorTyped
  <1>29. CASE Crash
    BY <1>29 DEF Crash, executorVars, ExecutorTyped
  <1>30. CASE UNCHANGED vars
    BY <1>30 DEF vars, executorVars, ExecutorTyped
  <1>31. QED
    BY <1>1, <1>2, <1>3, <1>4, <1>5, <1>6, <1>7, <1>8, <1>9, <1>10,
       <1>11, <1>12, <1>13, <1>14, <1>15, <1>16, <1>17, <1>18, <1>19,
       <1>20, <1>21, <1>22, <1>23, <1>24, <1>25, <1>26, <1>27, <1>28,
       <1>29, <1>30 DEF Next


(* The dictionaries of the pool.                                           *)
LEMMA ReleaseTyped ==
  ASSUME Pool!TypeOK, NEW ws \in SUBSET Worker, NEW disabling \in BOOLEAN,
         Pool!ReleaseWorkers(ws, disabling),
         connected' \in [Worker -> BOOLEAN], waking' \subseteq Worker
  PROVE  Pool!TypeOK'
  BY DEF Pool!ReleaseWorkers, Pool!TypeOK, Pool!Inactive, Pool!Disabled, Pool!Busy

LEMMA PoolTypesKept ==
  ASSUME Pool!TypeOK, OperationsTyped, CallsTyped, [Next]_vars
  PROVE  Pool!TypeOK'
  <1>1. ASSUME NEW s \in Submission, NewSubmission(s) PROVE Pool!TypeOK'
    BY <1>1 DEF NewSubmission, poolVars, Pool!TypeOK
  <1>2. ASSUME NEW u \in UserTest, NewUserTest(u) PROVE Pool!TypeOK'
    BY <1>2 DEF NewUserTest, poolVars, Pool!TypeOK
  <1>3. ASSUME NEW op \in Operation, Enqueue(op) PROVE Pool!TypeOK'
    BY <1>3 DEF Enqueue, poolVars, Pool!TypeOK
  <1>4. CASE EnqueueLost
    BY <1>4 DEF EnqueueLost, poolVars, Pool!TypeOK
  <1>5. CASE Sweep
    BY <1>5 DEF Sweep, poolVars, Pool!TypeOK
  <1>6. CASE PopBatch
    BY <1>6 DEF PopBatch, poolVars, Pool!TypeOK
  <1>7. CASE AcquireWorker
    <2>1. CASE Pool!AcquireNone
      BY <1>7, <2>1 DEF Pool!AcquireNone, Pool!TypeOK
    <2>2. ASSUME NEW w \in Worker, Pool!Acquire(w, executing) PROVE Pool!TypeOK'
      BY <2>2 DEF Pool!Acquire, Pool!TypeOK, Pool!Busy, OperationsTyped
    <2>3. QED BY <1>7, <2>1, <2>2 DEF AcquireWorker
  <1>8. CASE NothingToExecute
    BY <1>8 DEF NothingToExecute, poolVars, Pool!TypeOK
  <1>9. CASE SendJobGroup
    BY <1>9 DEF SendJobGroup, poolVars, Pool!TypeOK
  <1>10. CASE AcquireWorkerRaises
    BY <1>10 DEF AcquireWorkerRaises, poolVars, Pool!TypeOK
  <1>11. ASSUME NEW c \in calls, WorkerFinishes(c) PROVE Pool!TypeOK'
    BY <1>11 DEF WorkerFinishes, poolVars, Pool!TypeOK
  <1>12. ASSUME NEW c \in calls, WorkerFails(c) PROVE Pool!TypeOK'
    BY <1>12 DEF WorkerFails, poolVars, Pool!TypeOK
  <1>13. ASSUME NEW c \in calls, ActionFinished(c) PROVE Pool!TypeOK'
    <2>1. PICK w \in Worker : Pool!ReleaseWorker(w)
      BY <1>13 DEF ActionFinished, CallsTyped, CallTyped, Call
    <2>2. CASE status[w] = Pool!Busy
      <3>1. Pool!ReleaseWorkers({w}, FALSE) /\ UNCHANGED <<connected, waking>>
        BY <2>1, <2>2 DEF Pool!ReleaseWorker
      <3>2. {w} \in SUBSET Worker /\ FALSE \in BOOLEAN
        OBVIOUS
      <3>3. QED BY <3>1, <3>2, ReleaseTyped DEF Pool!TypeOK
    <2>3. CASE status[w] # Pool!Busy
      BY <2>1, <2>3 DEF Pool!ReleaseWorker, Pool!TypeOK
    <2>4. QED BY <2>2, <2>3
  <1>14. CASE Flush
    BY <1>14 DEF Flush, poolVars, Pool!TypeOK
  <1>15. CASE StartWriting
    BY <1>15 DEF StartWriting, poolVars, Pool!TypeOK
  <1>16. CASE WriteResults
    BY <1>16 DEF WriteResults, poolVars, Pool!TypeOK
  <1>17. CASE SetEvaluationOutcomes
    BY <1>17 DEF SetEvaluationOutcomes, poolVars, Pool!TypeOK
  <1>18. CASE EndOperations
    BY <1>18 DEF EndOperations, poolVars, Pool!TypeOK
  <1>19. CASE EndOperationsRaises
    BY <1>19 DEF EndOperationsRaises, poolVars, Pool!TypeOK
  <1>20. ASSUME NEW s \in Submission, NEW l \in Levels, NEW a \in ArchiveRequests,
               InvalidateSubmission(s, l[1], l[2], a)
        PROVE  Pool!TypeOK'
    <2>1. RelevantOperations(s, l[1]) \subseteq Operation
      BY RelevantAreOperations
    <2>2. toIgnore' = [w \in Worker |-> toIgnore[w] \cup
                         {op \in RelevantOperations(s, l[1]) : reverse[op] = w}]
      BY <1>20 DEF InvalidateSubmission
    <2>3. operations' \in [Worker -> SUBSET Operation]
      BY <1>20 DEF InvalidateSubmission, Pool!TypeOK, OperationsTyped
    <2>4. QED BY <1>20, <2>1, <2>2, <2>3 DEF InvalidateSubmission, Pool!TypeOK
  <1>21. ASSUME NEW o \in Object, DeleteObject(o) PROVE Pool!TypeOK'
    BY <1>21 DEF DeleteObject, poolVars, Pool!TypeOK
  <1>22. CASE CheckWorkersTimeout
    <2>1. PICK ws \in SUBSET Worker, down \in SUBSET Worker :
            Pool!CheckTimeouts(ws, down)
      BY <1>22 DEF CheckWorkersTimeout
    <2>2. Pool!ReleaseWorkers(ws, TRUE) /\ waking' = waking
          /\ connected' = [w \in Worker |-> w \notin down /\ connected[w]]
      BY <2>1 DEF Pool!CheckTimeouts
    <2>3. connected' \in [Worker -> BOOLEAN] /\ TRUE \in BOOLEAN
      BY <2>2
    <2>4. QED BY <2>2, <2>3, ReleaseTyped DEF Pool!TypeOK
  <1>23. CASE CheckWorkersConnection
    <2>1. /\ Pool!ReleaseWorkers(Pool!Unconnected, FALSE)
          /\ UNCHANGED <<connected, waking>>
      BY <1>23 DEF CheckWorkersConnection, Pool!CheckConnections
    <2>2. Pool!Unconnected \in SUBSET Worker /\ FALSE \in BOOLEAN
      BY DEF Pool!Unconnected
    <2>3. QED BY <2>1, <2>2, ReleaseTyped DEF Pool!TypeOK
  <1>24. ASSUME NEW w \in Worker, DisableWorker(w) PROVE Pool!TypeOK'
    <2>1. CASE status[w] = Pool!Inactive
      BY <1>24, <2>1 DEF DisableWorker, Pool!DisableWorker, Pool!TypeOK, Pool!Disabled
    <2>2. CASE status[w] # Pool!Inactive
      <3>1. Pool!ReleaseWorkers({w}, TRUE) /\ UNCHANGED <<connected, waking>>
        BY <1>24, <2>2 DEF DisableWorker, Pool!DisableWorker
      <3>2. {w} \in SUBSET Worker /\ TRUE \in BOOLEAN
        OBVIOUS
      <3>3. QED BY <3>1, <3>2, ReleaseTyped DEF Pool!TypeOK
    <2>3. QED BY <2>1, <2>2
  <1>25. ASSUME NEW w \in Worker, EnableWorker(w) PROVE Pool!TypeOK'
    BY <1>25 DEF EnableWorker, Pool!EnableWorker, Pool!TypeOK, Pool!Inactive
  <1>26. ASSUME NEW w \in Worker, Connect(w) PROVE Pool!TypeOK'
    BY <1>26 DEF Connect, Pool!Connect, Pool!TypeOK
  <1>27. ASSUME NEW w \in Worker, OnWorkerConnected(w) PROVE Pool!TypeOK'
    BY <1>27 DEF OnWorkerConnected, Pool!OnWorkerConnected, Pool!TypeOK
  <1>28. ASSUME NEW w \in Worker, Disconnect(w) PROVE Pool!TypeOK'
    BY <1>28 DEF Disconnect, Pool!Disconnect, Pool!TypeOK
  <1>29. CASE Crash
    BY <1>29 DEF Crash, Pool!Restart, Pool!TypeOK, Pool!Inactive
  <1>30. CASE UNCHANGED vars
    BY <1>30 DEF vars, poolVars, Pool!TypeOK
  <1>31. QED
    BY <1>1, <1>2, <1>3, <1>4, <1>5, <1>6, <1>7, <1>8, <1>9, <1>10,
       <1>11, <1>12, <1>13, <1>14, <1>15, <1>16, <1>17, <1>18, <1>19,
       <1>20, <1>21, <1>22, <1>23, <1>24, <1>25, <1>26, <1>27, <1>28,
       <1>29, <1>30 DEF Next

LEMMA FaultTyped ==
  ASSUME faults \in [FaultKinds -> Nat], NEW kind \in FaultKinds, Fault(kind)
  PROVE  faults' \in [FaultKinds -> Nat]
  BY DEF Fault

LEMMA RestKept == ASSUME RestTyped, [Next]_vars PROVE RestTyped'
  <1> USE DEF RestTyped
  <1>1. ASSUME NEW s \in Submission, NewSubmission(s) PROVE RestTyped'
    BY <1>1 DEF NewSubmission, Fault, requestVars, cacheVars, dbVars, Object
  <1>2. ASSUME NEW u \in UserTest, NewUserTest(u) PROVE RestTyped'
    BY <1>2 DEF NewUserTest, Fault, requestVars, cacheVars, dbVars, Object
  <1>3. ASSUME NEW op \in Operation, Enqueue(op) PROVE RestTyped'
    BY <1>3, OperationFields DEF Enqueue, Fault, requestVars, cacheVars, dbVars, Object
  <1>4. CASE EnqueueLost
    BY <1>4 DEF EnqueueLost, Fault, requestVars, cacheVars, dbVars, Object
  <1>5. CASE Sweep
    BY <1>5 DEF Sweep, Fault, requestVars, cacheVars, dbVars, Object
  <1>6. CASE PopBatch
    BY <1>6 DEF PopBatch, Fault, requestVars, cacheVars, dbVars, Object
  <1>7. CASE AcquireWorker
    BY <1>7 DEF AcquireWorker, Fault, requestVars, cacheVars, dbVars, Object
  <1>8. CASE NothingToExecute
    BY <1>8 DEF NothingToExecute, Fault, requestVars, cacheVars, dbVars, Object
  <1>9. CASE SendJobGroup
    BY <1>9 DEF SendJobGroup, Fault, requestVars, cacheVars, dbVars, Object
  <1>10. CASE AcquireWorkerRaises
    BY <1>10 DEF AcquireWorkerRaises, Fault, requestVars, cacheVars, dbVars, Object
  <1>11. ASSUME NEW c \in calls, WorkerFinishes(c) PROVE RestTyped'
    BY <1>11 DEF WorkerFinishes, Fault, requestVars, cacheVars, dbVars, Object
  <1>12. ASSUME NEW c \in calls, WorkerFails(c) PROVE RestTyped'
    <2>1. faults' \in [FaultKinds -> Nat]
      BY <1>12, FaultTyped DEF WorkerFails, FaultKinds
    <2>2. QED BY <1>12, <2>1 DEF WorkerFails, requestVars, cacheVars, dbVars
  <1>13. ASSUME NEW c \in calls, ActionFinished(c) PROVE RestTyped'
    BY <1>13 DEF ActionFinished, Fault, requestVars, cacheVars, dbVars, Object
  <1>14. CASE Flush
    BY <1>14 DEF Flush, Fault, requestVars, cacheVars, dbVars, Object
  <1>15. CASE StartWriting
    BY <1>15 DEF StartWriting, Fault, requestVars, cacheVars, dbVars, Object
  <1>16. CASE WriteResults
    BY <1>16 DEF WriteResults, Fault, requestVars, cacheVars, dbVars, Object
  <1>17. CASE SetEvaluationOutcomes
    BY <1>17 DEF SetEvaluationOutcomes, Fault, requestVars, cacheVars, dbVars, Object
  <1>18. CASE EndOperations
    BY <1>18 DEF EndOperations, Fault, requestVars, cacheVars, dbVars, Object
  <1>19. CASE EndOperationsRaises
    BY <1>19 DEF EndOperationsRaises, Fault, requestVars, cacheVars, dbVars, Object
  <1>20. ASSUME NEW s \in Submission, NEW l \in Levels, NEW a \in ArchiveRequests,
               InvalidateSubmission(s, l[1], l[2], a)
        PROVE  RestTyped'
    <2>1. \A t \in Types : epoch[s][t] + 1 \in Nat /\ epoch[s][t] \in Nat
      BY DEF Object, Epoch
    <2> DEFINE new == [t \in Types |-> IF t = "evaluation" \/ l[1] = "compilation"
                                       THEN epoch[s][t] + 1 ELSE epoch[s][t]]
    <2>2. epoch' = [epoch EXCEPT ![s] = new]
      BY <1>20 DEF InvalidateSubmission
    <2>3. new \in Epoch
      BY <2>1 DEF Epoch
    <2> HIDE DEF new
    <2>4. epoch' \in [Object -> Epoch]
      BY <2>2, <2>3
    <2>5. faults' \in [FaultKinds -> Nat]
      BY <1>20, FaultTyped DEF InvalidateSubmission, FaultKinds
    <2>6. QED
      BY <1>20, <2>4, <2>5 DEF InvalidateSubmission, requestVars, cacheVars
  <1>21. ASSUME NEW o \in Object, DeleteObject(o) PROVE RestTyped'
    <2>1. faults' \in [FaultKinds -> Nat]
      BY <1>21, FaultTyped DEF DeleteObject, FaultKinds
    <2>2. QED BY <1>21, <2>1 DEF DeleteObject, requestVars, cacheVars, dbVars
  <1>22. CASE CheckWorkersTimeout
    BY <1>22 DEF CheckWorkersTimeout, Fault, requestVars, cacheVars, dbVars, Object
  <1>23. CASE CheckWorkersConnection
    BY <1>23 DEF CheckWorkersConnection, Fault, requestVars, cacheVars, dbVars, Object
  <1>24. ASSUME NEW w \in Worker, DisableWorker(w) PROVE RestTyped'
    <2>1. faults' \in [FaultKinds -> Nat]
      BY <1>24, FaultTyped DEF DisableWorker, FaultKinds
    <2>2. QED BY <1>24, <2>1 DEF DisableWorker, requestVars, cacheVars, dbVars
  <1>25. ASSUME NEW w \in Worker, EnableWorker(w) PROVE RestTyped'
    BY <1>25 DEF EnableWorker, Fault, requestVars, cacheVars, dbVars, Object
  <1>26. ASSUME NEW w \in Worker, Connect(w) PROVE RestTyped'
    BY <1>26 DEF Connect, Fault, requestVars, cacheVars, dbVars, Object
  <1>27. ASSUME NEW w \in Worker, OnWorkerConnected(w) PROVE RestTyped'
    BY <1>27 DEF OnWorkerConnected, Fault, requestVars, cacheVars, dbVars, Object
  <1>28. ASSUME NEW w \in Worker, Disconnect(w) PROVE RestTyped'
    <2>1. faults' \in [FaultKinds -> Nat]
      BY <1>28, FaultTyped DEF Disconnect, FaultKinds
    <2>2. QED BY <1>28, <2>1 DEF Disconnect, requestVars, cacheVars, dbVars
  <1>29. CASE Crash
    <2>1. faults' \in [FaultKinds -> Nat]
      BY <1>29, FaultTyped DEF Crash, FaultKinds
    <2>2. QED BY <1>29, <2>1 DEF Crash, dbVars
  <1>30. CASE UNCHANGED vars
    BY <1>30 DEF vars, requestVars, cacheVars, dbVars
  <1>31. QED
    BY <1>1, <1>2, <1>3, <1>4, <1>5, <1>6, <1>7, <1>8, <1>9, <1>10,
       <1>11, <1>12, <1>13, <1>14, <1>15, <1>16, <1>17, <1>18, <1>19,
       <1>20, <1>21, <1>22, <1>23, <1>24, <1>25, <1>26, <1>27, <1>28,
       <1>29, <1>30 DEF Next

-----------------------------------------------------------------------------
(* The calls.                                                              *)
LEMMA OperationsAreFinite == IsFiniteSet(Operation)
  <1>1. IsFiniteSet(Archive)
    <2> DEFINE yes == TRUE
               no == FALSE
    <2>1. Archive \subseteq {yes} \cup {no}
      BY Zenon, EvaluationServiceAssumption DEF Archive
    <2> HIDE DEF yes, no
    <2>2. IsFiniteSet({yes} \cup {no})
      BY FS_Singleton, FS_AddElement
    <2>3. QED BY <2>1, <2>2, FS_Subset
  <1>2. IsFiniteSet(Submission \X Archive) /\ IsFiniteSet(Testcase \X Archive)
    BY <1>1, FS_Product, EvaluationServiceAssumption
  <1>3. IsFiniteSet(Submission \X (Testcase \X Archive))
    BY <1>2, FS_Product, EvaluationServiceAssumption
  <1> DEFINE A == {CompilationOp(s, a) : s \in Submission, a \in Archive}
             B == {EvaluationOp(s, t, a) :
                     s \in Submission, t \in Testcase, a \in Archive}
             C == {CompilationOp(u, FALSE) : u \in UserTest}
             D == {EvaluationOp(u, NoTestcase, FALSE) : u \in UserTest}
  <1>4. IsFiniteSet(A)
    <2> DEFINE f == [p \in Submission \X Archive |-> CompilationOp(p[1], p[2])]
    <2>1. f \in [Submission \X Archive -> A]
      OBVIOUS
    <2>2. ASSUME NEW t \in A PROVE \E p \in Submission \X Archive : t = f[p]
      <3>1. PICK s \in Submission, a \in Archive : t = CompilationOp(s, a)
        OBVIOUS
      <3>2. <<s, a>> \in Submission \X Archive /\ f[<<s, a>>] = CompilationOp(s, a)
        OBVIOUS
      <3>3. QED BY <3>1, <3>2
    <2> HIDE DEF f, A
    <2>3. QED BY <1>2, <2>1, <2>2, ImagesAreFinite
  <1>5. IsFiniteSet(B)
    <2> DEFINE S == Submission \X (Testcase \X Archive)
               f == [p \in S |-> EvaluationOp(p[1], p[2][1], p[2][2])]
    <2>1. f \in [S -> B]
      OBVIOUS
    <2>2. ASSUME NEW t \in B PROVE \E p \in S : t = f[p]
      <3>1. PICK s \in Submission, c \in Testcase, a \in Archive :
              t = EvaluationOp(s, c, a)
        OBVIOUS
      <3>2. <<s, <<c, a>>>> \in S /\ f[<<s, <<c, a>>>>] = EvaluationOp(s, c, a)
        OBVIOUS
      <3>3. QED BY <3>1, <3>2
    <2>3. IsFiniteSet(S)
      BY <1>3
    <2> HIDE DEF S, f, B
    <2>4. QED BY <2>1, <2>2, <2>3, ImagesAreFinite
  <1> DEFINE no == FALSE
  <1>6. IsFiniteSet(C)
    <2> DEFINE f == [u \in UserTest |-> CompilationOp(u, no)]
               T == {CompilationOp(u, no) : u \in UserTest}
    <2> HIDE DEF no
    <2>1. f \in [UserTest -> T] /\ \A t \in T : \E u \in UserTest : t = f[u]
      OBVIOUS
    <2> HIDE DEF f, T
    <2>2. IsFiniteSet(T)
      BY <2>1, ImagesAreFinite, EvaluationServiceAssumption
    <2>3. QED BY Zenon, <2>2 DEF T, no
  <1>7. IsFiniteSet(D)
    <2> DEFINE f == [u \in UserTest |-> EvaluationOp(u, NoTestcase, no)]
               T == {EvaluationOp(u, NoTestcase, no) : u \in UserTest}
    <2> HIDE DEF no
    <2>1. f \in [UserTest -> T] /\ \A t \in T : \E u \in UserTest : t = f[u]
      OBVIOUS
    <2> HIDE DEF f, T
    <2>2. IsFiniteSet(T)
      BY <2>1, ImagesAreFinite, EvaluationServiceAssumption
    <2>3. QED BY Zenon, <2>2 DEF T, no
  <1>8. Operation = A \cup B \cup C \cup D
    BY DEF Operation
  <1> HIDE DEF A, B, C, D
  <1>9. QED BY <1>4, <1>5, <1>6, <1>7, <1>8, FS_Union

(* A call gets an identifier no other call has.                            *)
LEMMA FreshIdentifier ==
  ASSUME IsFiniteSet(calls), \A c \in calls : c.id \in Nat
  PROVE  LET i == CHOOSE j \in 1 .. (Cardinality(calls) + 1) : \A c \in calls : c.id # j
         IN  i \in Nat \ {0} /\ \A c \in calls : c.id # i
  <1> DEFINE N == Cardinality(calls)
             ids == {c.id : c \in calls}
             f == [c \in calls |-> c.id]
  <1>1. N \in Nat
    BY FS_CardinalityType
  <1>2. f \in [calls -> ids] /\ \A t \in ids : \E c \in calls : t = f[c]
    OBVIOUS
  <1>3. IsFiniteSet(ids) /\ Cardinality(ids) <= N
    <2> HIDE DEF f, ids
    <2>1. QED BY <1>2, ImagesAreFinite
  <1>4. \E j \in 1 .. (N + 1) : j \notin ids
    <2>1. SUFFICES ASSUME 1 .. (N + 1) \subseteq ids PROVE FALSE
      OBVIOUS
    <2> HIDE DEF N, ids
    <2>2. Cardinality(1 .. (N + 1)) = N + 1
      BY <1>1, FS_Interval
    <2>3. Cardinality(1 .. (N + 1)) <= Cardinality(ids) /\ Cardinality(ids) \in Nat
      BY <1>3, <2>1, FS_Subset, FS_CardinalityType
    <2>4. QED BY <1>1, <1>3, <2>2, <2>3
  <1>5. \E j \in 1 .. (N + 1) : \A c \in calls : c.id # j
    BY <1>4
  <1>6. QED BY <1>1, <1>5

(* The answer to a job is good.                                            *)
LEMMA AnswersAreGood ==
  ASSUME NEW j \in Job, NEW outcome \in {"ok", "fail", "error", "tombstone"},
         outcome \in Outcomes(j)
  PROVE  [op |-> j.op, epoch |-> j.epoch, outcome |-> outcome] \in GoodResult
  <1>1. j.op \in Operation /\ j.epoch \in Nat
        /\ j.compilation \in {"none", "ok", "tombstone", "fail"}
    BY DEF Job
  <1>2. j.op.type \in {"compilation", "evaluation"}
    BY <1>1, OperationFields DEF Types
  <1>3. j.op.type = "compilation" => outcome # "tombstone"
    <2>1. SUFFICES ASSUME j.op.type = "compilation" PROVE outcome # "tombstone"
      OBVIOUS
    <2>2. Outcomes(j) = {"ok", "fail", "error"}
      BY Zenon, <2>1 DEF Outcomes
    <2>3. QED BY <2>2
  <1>4. j.op.type = "evaluation" => outcome # "fail"
    <2>1. SUFFICES ASSUME j.op.type = "evaluation" PROVE outcome # "fail"
      OBVIOUS
    <2>2. CASE j.compilation = "ok"
      <3>1. Outcomes(j) = {"ok", "error"}
        BY Zenon, <2>1, <2>2 DEF Outcomes
      <3>2. QED BY <3>1
    <2>3. CASE j.compilation = "tombstone"
      <3>1. Outcomes(j) = {"tombstone", "error"}
        BY Zenon, <2>1, <2>3 DEF Outcomes
      <3>2. QED BY <3>1
    <2>4. CASE j.compilation \in {"none", "fail"}
      <3>1. Outcomes(j) = {"error"}
        BY Zenon, <2>1, <2>4 DEF Outcomes
      <3>2. QED BY <3>1
    <2>5. QED BY <1>1, <2>2, <2>3, <2>4
  <1>5. QED BY <1>1, <1>3, <1>4 DEF GoodResult, Result

(* The fields of calls.                                                    *)
LEMMA CallFields ==
  ASSUME NEW c, CallTyped(c)
  PROVE  /\ c.worker \in Worker /\ c.id \in Nat \ {0} /\ c.answer \in {"pending", "error", "done"}
         /\ c = [worker |-> c.worker, id |-> c.id, answer |-> c.answer, jobs |-> c.jobs]
         /\ c.answer # "done" => c.jobs \subseteq Job
         /\ c.answer = "done" => c.jobs \subseteq GoodResult
  BY DEF CallTyped, Call

LEMMA FailedTyped ==
  ASSUME NEW c, CallTyped(c)
  PROVE  /\ CallTyped(Failed(c))
         /\ Failed(c).worker = c.worker /\ Failed(c).id = c.id
         /\ Failed(c).jobs = c.jobs
         /\ Failed(c).answer = IF c.answer = "pending" THEN "error" ELSE c.answer
  <1>1. CASE c.answer = "pending"
    <2>1. Failed(c) = [c EXCEPT !.answer = "error"]
      BY <1>1 DEF Failed
    <2>2. /\ Failed(c).worker = c.worker /\ Failed(c).id = c.id
          /\ Failed(c).jobs = c.jobs /\ Failed(c).answer = "error"
          /\ Failed(c) = [worker |-> c.worker, id |-> c.id, answer |-> "error",
                          jobs |-> c.jobs]
      BY <2>1, CallFields
    <2>3. Failed(c) \in Call
      BY <1>1, <2>2, CallFields DEF Call
    <2>4. QED BY <1>1, <2>2, <2>3 DEF CallTyped
  <1>2. CASE c.answer # "pending"
    BY <1>2 DEF Failed
  <1>3. QED BY <1>1, <1>2

LEMMA FailingTyped ==
  ASSUME CallsTyped, NEW ws, NEW new,
         new = {IF c.worker \in ws THEN Failed(c) ELSE c : c \in calls}
  PROVE  IsFiniteSet(new) /\ \A c \in new : CallTyped(c)
  <1> DEFINE f == [c \in calls |-> IF c.worker \in ws THEN Failed(c) ELSE c]
  <1>1. f \in [calls -> new] /\ \A t \in new : \E c \in calls : t = f[c]
    OBVIOUS
  <1>2. IsFiniteSet(new)
    <2> HIDE DEF f
    <2>1. QED BY <1>1, ImagesAreFinite DEF CallsTyped
  <1>3. QED BY <1>2, FailedTyped DEF CallsTyped

(* execute_job_group is called.                                            *)
LEMMA NewCallTyped ==
  ASSUME Typed, executor = "acquiring"
  PROVE  CallTyped(NewCall(alias, executing))
  <1> DEFINE jobs == JobsOf(executing)
             i == CHOOSE j \in 1 .. (Cardinality(calls) + 1) : \A c \in calls : c.id # j
             answer == IF connected[alias] /\ ~Working(alias) THEN "pending" ELSE "error"
  <1>1. NewCall(alias, executing) =
          [worker |-> alias, id |-> i, answer |-> answer, jobs |-> jobs]
    BY DEF NewCall
  <1>2. i \in Nat \ {0}
    BY FreshIdentifier, CallFields DEF Typed, CallsTyped
  <1>3. alias \in Worker
    BY DEF Typed, ExecutorTyped
  <1>4. answer \in {"pending", "error"}
    OBVIOUS
  <1>5. jobs \subseteq Job
    <2>1. ASSUME NEW op \in executing
          PROVE  [op |-> op, epoch |-> epoch[op.obj][op.type],
                  compilation |-> db[op.obj].compilation] \in Job
      <3>1. op \in Operation
        BY DEF Typed, OperationsTyped
      <3>2. op.obj \in Object /\ op.type \in Types
        BY <3>1, OperationFields
      <3>3. epoch[op.obj] \in [Types -> Nat]
        BY <3>2 DEF Typed, RestTyped, Epoch
      <3>4. epoch[op.obj][op.type] \in Nat
        BY <3>2, <3>3
      <3>5. db[op.obj] \in SubmissionResult
        BY <3>2 DEF Typed, Rows
      <3>6. db[op.obj].compilation \in {"none", "ok", "tombstone", "fail"}
        BY <3>5 DEF SubmissionResult
      <3>7. QED BY <3>1, <3>4, <3>6 DEF Job
    <2>2. QED BY <2>1 DEF JobsOf
  <1>6. IsFiniteSet(jobs)
    <2>1. IsFiniteSet(executing)
      BY OperationsAreFinite, FS_Subset DEF Typed, OperationsTyped
    <2> DEFINE f == [op \in executing |->
                       [op |-> op, epoch |-> epoch[op.obj][op.type],
                        compilation |-> db[op.obj].compilation]]
    <2>2. f \in [executing -> jobs] /\ \A t \in jobs : \E op \in executing : t = f[op]
      BY DEF JobsOf
    <2> HIDE DEF f, jobs
    <2>3. QED BY <2>1, <2>2, ImagesAreFinite
  <1> HIDE DEF jobs, i, answer
  <1>7. NewCall(alias, executing) \in Call
    BY <1>1, <1>2, <1>3, <1>4, <1>5 DEF Call
  <1>8. QED BY <1>1, <1>4, <1>6, <1>7 DEF CallTyped

(* execute_job_group returns: the answers, one for each job.               *)
Answers(jobs, outcome) ==
  {[op |-> j.op, epoch |-> j.epoch, outcome |-> outcome[j]] : j \in jobs}

LEMMA AnsweredTyped ==
  ASSUME NEW c, CallTyped(c), c.answer = "pending",
         NEW outcome \in [c.jobs -> {"ok", "fail", "error", "tombstone"}],
         \A j \in c.jobs : outcome[j] \in Outcomes(j),
         NEW new, new = [c EXCEPT !.answer = "done", !.jobs = Answers(c.jobs, outcome)]
  PROVE  /\ CallTyped(new)
         /\ new.worker = c.worker /\ new.id = c.id /\ new.answer = "done"
         /\ new.jobs = Answers(c.jobs, outcome)
  <1> DEFINE results == Answers(c.jobs, outcome)
  <1>1. new = [worker |-> c.worker, id |-> c.id, answer |-> "done", jobs |-> results]
    <2>1. PICK w, i, a, jobs :
            c = [worker |-> w, id |-> i, answer |-> a, jobs |-> jobs]
      BY CallFields
    <2>2. new = [c EXCEPT !.answer = "done", !.jobs = results]
      OBVIOUS
    <2> HIDE DEF results
    <2>3. QED BY <2>1, <2>2
  <1>2. c.jobs \subseteq Job /\ IsFiniteSet(c.jobs)
    BY CallFields DEF CallTyped
  <1>3. results \subseteq GoodResult
    BY <1>2, AnswersAreGood DEF Answers
  <1>4. IsFiniteSet(results)
    <2> DEFINE f == [j \in c.jobs |-> [op |-> j.op, epoch |-> j.epoch, outcome |-> outcome[j]]]
    <2>1. f \in [c.jobs -> results] /\ \A t \in results : \E j \in c.jobs : t = f[j]
      BY DEF Answers
    <2> HIDE DEF f, results
    <2>2. QED BY <1>2, <2>1, ImagesAreFinite
  <1>5. results \subseteq Result
    BY <1>3 DEF GoodResult
  <1>6. c.worker \in Worker /\ c.id \in Nat \ {0}
    BY CallFields
  <1> HIDE DEF results
  <1>7. new \in Call
    BY <1>1, <1>5, <1>6 DEF Call
  <1>8. QED BY <1>1, <1>3, <1>4, <1>7 DEF CallTyped, results


LEMMA CallsKept == ASSUME Typed, [Next]_vars PROVE CallsTyped'
  <1> CallsTyped
    BY DEF Typed
  <1> USE DEF CallsTyped
  <1>1. ASSUME NEW s \in Submission, NewSubmission(s) PROVE CallsTyped'
    BY <1>1 DEF NewSubmission, CallTyped
  <1>2. ASSUME NEW u \in UserTest, NewUserTest(u) PROVE CallsTyped'
    BY <1>2 DEF NewUserTest, CallTyped
  <1>3. ASSUME NEW op \in Operation, Enqueue(op) PROVE CallsTyped'
    BY <1>3 DEF Enqueue, CallTyped
  <1>4. CASE EnqueueLost
    BY <1>4 DEF EnqueueLost, CallTyped
  <1>5. CASE Sweep
    BY <1>5 DEF Sweep, CallTyped
  <1>6. CASE PopBatch
    BY <1>6 DEF PopBatch, CallTyped
  <1>7. CASE AcquireWorker
    BY <1>7 DEF AcquireWorker, CallTyped
  <1>8. CASE NothingToExecute
    BY <1>8 DEF NothingToExecute, CallTyped
  <1>9. CASE SendJobGroup
    <2>1. calls' = calls \cup {NewCall(alias, executing)}
      BY <1>9 DEF SendJobGroup
    <2>2. CallTyped(NewCall(alias, executing))
      BY <1>9, NewCallTyped DEF SendJobGroup
    <2>3. QED BY <2>1, <2>2, FS_AddElement DEF CallTyped
  <1>10. CASE AcquireWorkerRaises
    BY <1>10 DEF AcquireWorkerRaises, CallTyped
  <1>11. ASSUME NEW c \in calls, WorkerFinishes(c) PROVE CallsTyped'
    <2>1. PICK outcome \in [c.jobs -> {"ok", "fail", "error", "tombstone"}] :
            /\ \A j \in c.jobs : outcome[j] \in Outcomes(j)
            /\ calls' = (calls \ {c}) \cup
                 {[c EXCEPT !.answer = "done", !.jobs = Answers(c.jobs, outcome)]}
      BY <1>11 DEF WorkerFinishes, Answers
    <2> DEFINE new == [c EXCEPT !.answer = "done", !.jobs = Answers(c.jobs, outcome)]
    <2>2. CallTyped(new)
      BY <1>11, <2>1, AnsweredTyped DEF WorkerFinishes
    <2>3. calls' = (calls \ {c}) \cup {new}
      BY <2>1
    <2> HIDE DEF new
    <2>4. IsFiniteSet(calls')
      BY <2>3, FS_RemoveElement, FS_AddElement
    <2>5. QED BY <2>2, <2>3, <2>4 DEF CallTyped
  <1>12. ASSUME NEW c \in calls, WorkerFails(c) PROVE CallsTyped'
    <2>1. calls' = (calls \ {c}) \cup {Failed(c)}
      BY <1>12 DEF WorkerFails
    <2>2. CallTyped(Failed(c))
      BY FailedTyped
    <2>3. IsFiniteSet(calls')
      BY <2>1, FS_RemoveElement, FS_AddElement
    <2>4. QED BY <2>1, <2>2, <2>3 DEF CallTyped
  <1>13. ASSUME NEW c \in calls, ActionFinished(c) PROVE CallsTyped'
    <2>1. calls' = calls \ {c}
      BY <1>13 DEF ActionFinished
    <2>2. QED BY <2>1, FS_RemoveElement DEF CallTyped
  <1>14. CASE Flush
    BY <1>14 DEF Flush, CallTyped
  <1>15. CASE StartWriting
    BY <1>15 DEF StartWriting, CallTyped
  <1>16. CASE WriteResults
    BY <1>16 DEF WriteResults, CallTyped
  <1>17. CASE SetEvaluationOutcomes
    BY <1>17 DEF SetEvaluationOutcomes, CallTyped
  <1>18. CASE EndOperations
    BY <1>18 DEF EndOperations, CallTyped
  <1>19. CASE EndOperationsRaises
    BY <1>19 DEF EndOperationsRaises, CallTyped
  <1>20. ASSUME NEW s \in Submission, NEW l \in Levels, NEW a \in ArchiveRequests,
               InvalidateSubmission(s, l[1], l[2], a)
        PROVE  CallsTyped'
    BY <1>20 DEF InvalidateSubmission, CallTyped
  <1>21. ASSUME NEW o \in Object, DeleteObject(o) PROVE CallsTyped'
    BY <1>21 DEF DeleteObject, CallTyped
  <1>22. CASE CheckWorkersTimeout
    <2>1. PICK down : calls' = {IF c.worker \in down THEN Failed(c) ELSE c : c \in calls}
      BY <1>22 DEF CheckWorkersTimeout
    <2>2. QED BY <2>1, FailingTyped DEF CallTyped
  <1>23. CASE CheckWorkersConnection
    BY <1>23 DEF CheckWorkersConnection, CallTyped
  <1>24. ASSUME NEW w \in Worker, DisableWorker(w) PROVE CallsTyped'
    BY <1>24 DEF DisableWorker, CallTyped
  <1>25. ASSUME NEW w \in Worker, EnableWorker(w) PROVE CallsTyped'
    BY <1>25 DEF EnableWorker, CallTyped
  <1>26. ASSUME NEW w \in Worker, Connect(w) PROVE CallsTyped'
    BY <1>26 DEF Connect, CallTyped
  <1>27. ASSUME NEW w \in Worker, OnWorkerConnected(w) PROVE CallsTyped'
    BY <1>27 DEF OnWorkerConnected, CallTyped
  <1>28. ASSUME NEW w \in Worker, Disconnect(w) PROVE CallsTyped'
    <2>1. calls' = {IF c.worker \in {w} THEN Failed(c) ELSE c : c \in calls}
      BY <1>28 DEF Disconnect
    <2>2. QED BY ZenonT(60), <2>1, FailingTyped DEF CallTyped
  <1>29. CASE Crash
    BY <1>29, FS_EmptySet DEF Crash
  <1>30. CASE UNCHANGED vars
    BY <1>30 DEF vars, CallTyped
  <1>31. QED
    BY <1>1, <1>2, <1>3, <1>4, <1>5, <1>6, <1>7, <1>8, <1>9, <1>10,
       <1>11, <1>12, <1>13, <1>14, <1>15, <1>16, <1>17, <1>18, <1>19,
       <1>20, <1>21, <1>22, <1>23, <1>24, <1>25, <1>26, <1>27, <1>28,
       <1>29, <1>30 DEF Next

(* The cache and its copy being flushed.                                   *)
LEMMA ArrivalTyped ==
  ASSUME Typed, NEW c \in calls, ActionFinished(c)
  PROVE  d' \subseteq GoodResult /\ IsFiniteSet(d')
  <1> CallTyped(c) /\ d \subseteq GoodResult /\ IsFiniteSet(d)
    BY DEF Typed, CallsTyped, CacheTyped
  <1>1. CASE d' = d
    BY <1>1
  <1>2. CASE d' # d
    <2> DEFINE new == {r \in c.jobs : r.op \notin toIgnore[c.worker]}
               old == {r \in d : \A q \in new : q.op # r.op}
    <2>1. d' = old \cup new /\ c.answer = "done"
      BY <1>2 DEF ActionFinished, AddAll
    <2>2. new \subseteq GoodResult /\ IsFiniteSet(new)
      BY <2>1, FS_Subset DEF CallTyped
    <2>3. IsFiniteSet(old) /\ old \subseteq GoodResult
      BY FS_Subset
    <2> HIDE DEF old, new
    <2>4. QED BY <2>1, <2>2, <2>3, FS_Union
  <1>3. QED BY <1>1, <1>2

LEMMA CacheKept == ASSUME Typed, [Next]_vars PROVE CacheTyped'
  <1> CacheTyped
    BY DEF Typed
  <1> USE DEF CacheTyped
  <1>1. ASSUME NEW s \in Submission, NewSubmission(s) PROVE CacheTyped'
    BY <1>1 DEF NewSubmission, cacheVars
  <1>2. ASSUME NEW u \in UserTest, NewUserTest(u) PROVE CacheTyped'
    BY <1>2 DEF NewUserTest, cacheVars
  <1>3. ASSUME NEW op \in Operation, Enqueue(op) PROVE CacheTyped'
    BY <1>3 DEF Enqueue, cacheVars
  <1>4. CASE EnqueueLost
    BY <1>4 DEF EnqueueLost, cacheVars
  <1>5. CASE Sweep
    BY <1>5 DEF Sweep, cacheVars
  <1>6. CASE PopBatch
    BY <1>6 DEF PopBatch, cacheVars
  <1>7. CASE AcquireWorker
    BY <1>7 DEF AcquireWorker, cacheVars
  <1>8. CASE NothingToExecute
    BY <1>8 DEF NothingToExecute, cacheVars
  <1>9. CASE SendJobGroup
    BY <1>9 DEF SendJobGroup, cacheVars
  <1>10. CASE AcquireWorkerRaises
    BY <1>10 DEF AcquireWorkerRaises, cacheVars
  <1>11. ASSUME NEW c \in calls, WorkerFinishes(c) PROVE CacheTyped'
    BY <1>11 DEF WorkerFinishes, cacheVars
  <1>12. ASSUME NEW c \in calls, WorkerFails(c) PROVE CacheTyped'
    BY <1>12 DEF WorkerFails, cacheVars
  <1>13. ASSUME NEW c \in calls, ActionFinished(c) PROVE CacheTyped'
    <2>1. d' \subseteq GoodResult /\ IsFiniteSet(d')
      BY <1>13, ArrivalTyped
    <2>2. QED BY <1>13, <2>1 DEF ActionFinished
  <1>14. CASE Flush
    BY <1>14, FS_EmptySet DEF Flush
  <1>15. CASE StartWriting
    BY <1>15 DEF StartWriting, cacheVars
  <1>16. CASE WriteResults
    BY <1>16 DEF WriteResults, cacheVars
  <1>17. CASE SetEvaluationOutcomes
    BY <1>17 DEF SetEvaluationOutcomes, cacheVars
  <1>18. CASE EndOperations
    BY <1>18, FS_EmptySet DEF EndOperations
  <1>19. CASE EndOperationsRaises
    BY <1>19 DEF EndOperationsRaises, cacheVars
  <1>20. ASSUME NEW s \in Submission, NEW l \in Levels, NEW a \in ArchiveRequests,
               InvalidateSubmission(s, l[1], l[2], a)
        PROVE  CacheTyped'
    BY <1>20 DEF InvalidateSubmission, cacheVars
  <1>21. ASSUME NEW o \in Object, DeleteObject(o) PROVE CacheTyped'
    BY <1>21 DEF DeleteObject, cacheVars
  <1>22. CASE CheckWorkersTimeout
    BY <1>22 DEF CheckWorkersTimeout, cacheVars
  <1>23. CASE CheckWorkersConnection
    BY <1>23 DEF CheckWorkersConnection, cacheVars
  <1>24. ASSUME NEW w \in Worker, DisableWorker(w) PROVE CacheTyped'
    BY <1>24 DEF DisableWorker, cacheVars
  <1>25. ASSUME NEW w \in Worker, EnableWorker(w) PROVE CacheTyped'
    BY <1>25 DEF EnableWorker, cacheVars
  <1>26. ASSUME NEW w \in Worker, Connect(w) PROVE CacheTyped'
    BY <1>26 DEF Connect, cacheVars
  <1>27. ASSUME NEW w \in Worker, OnWorkerConnected(w) PROVE CacheTyped'
    BY <1>27 DEF OnWorkerConnected, cacheVars
  <1>28. ASSUME NEW w \in Worker, Disconnect(w) PROVE CacheTyped'
    BY <1>28 DEF Disconnect, cacheVars
  <1>29. CASE Crash
    BY <1>29, FS_EmptySet DEF Crash
  <1>30. CASE UNCHANGED vars
    BY <1>30 DEF vars, cacheVars
  <1>31. QED
    BY <1>1, <1>2, <1>3, <1>4, <1>5, <1>6, <1>7, <1>8, <1>9, <1>10,
       <1>11, <1>12, <1>13, <1>14, <1>15, <1>16, <1>17, <1>18, <1>19,
       <1>20, <1>21, <1>22, <1>23, <1>24, <1>25, <1>26, <1>27, <1>28,
       <1>29, <1>30 DEF Next

(* The rows.                                                               *)
LEMMA WriteResultsTyped ==
  ASSUME Typed, WriteResults
  PROVE  /\ db' \in Rows
         /\ \A o \in Object : db'[o] # db[o] =>
              o \notin deleted /\ \E r \in fd : r.op.obj = o
  <1> DEFINE S == {r \in fd : r.op.obj \notin deleted}
  <1>1. PICK rs \in SetToSeqs(S) : db' = RowsAfter(rs)
    BY DEF WriteResults
  <1>2. IsFiniteSet(S) /\ S \subseteq GoodResult
    BY FS_Subset DEF Typed, CacheTyped
  <1>3. Cardinality(S) \in Nat
    BY <1>2, FS_CardinalityType
  <1>4. rs \in [1 .. Cardinality(S) -> S]
    BY <1>1 DEF SetToSeqs
  <1>5. Len(rs) = Cardinality(S)
    BY <1>3, <1>4
  <1>6. Len(rs) \in Nat /\ \A n \in 1 .. Len(rs) : rs[n] \in S
    BY <1>3, <1>4, <1>5
  <1>7. db \in Rows
    BY DEF Typed
  <1>8. /\ db' \in Rows
        /\ \A o \in Object : db'[o] # db[o] => \E n \in 1 .. Len(rs) : rs[n].op.obj = o
    <2>1. \A n \in 1 .. Len(rs) : rs[n] \in GoodResult
      BY <1>2, <1>6
    <2> HIDE DEF S
    <2>2. QED BY <1>1, <1>6, <1>7, <2>1, RowsAfterTyped
  <1>9. QED BY <1>6, <1>8

LEMMA WithoutEvaluationsTyped ==
  ASSUME NEW row \in SubmissionResult, NEW ts
  PROVE  WithoutEvaluations(row, ts) \in SubmissionResult
  <1> DEFINE no == FALSE
             x == [row EXCEPT !.evaluationTries = 0, !.evaluations = @ \ ts]
  <1>1. x \in SubmissionResult
    BY DEF SubmissionResult
  <1>2. WithoutEvaluations(row, ts) = [x EXCEPT !.evaluated = no]
    BY DEF WithoutEvaluations, SubmissionResult
  <1>3. no \in BOOLEAN
    OBVIOUS
  <1> HIDE DEF no, x
  <1>4. QED BY <1>1, <1>2, <1>3, SetEvaluatedTyped

LEMMA RowsKept == ASSUME Typed, [Next]_vars PROVE (db \in Rows)'
  <1> db \in Rows
    BY DEF Typed
  <1>1. ASSUME NEW s \in Submission, NewSubmission(s) PROVE (db \in Rows)'
    BY <1>1, FinalizedTyped DEF NewSubmission
  <1>2. ASSUME NEW u \in UserTest, NewUserTest(u) PROVE (db \in Rows)'
    BY <1>2 DEF NewUserTest, dbVars
  <1>3. ASSUME NEW op \in Operation, Enqueue(op) PROVE (db \in Rows)'
    BY <1>3 DEF Enqueue, dbVars
  <1>4. CASE EnqueueLost
    BY <1>4 DEF EnqueueLost, dbVars
  <1>5. CASE Sweep
    BY <1>5 DEF Sweep, dbVars
  <1>6. CASE PopBatch
    BY <1>6 DEF PopBatch, dbVars
  <1>7. CASE AcquireWorker
    BY <1>7 DEF AcquireWorker, dbVars
  <1>8. CASE NothingToExecute
    BY <1>8 DEF NothingToExecute, dbVars
  <1>9. CASE SendJobGroup
    BY <1>9 DEF SendJobGroup, dbVars
  <1>10. CASE AcquireWorkerRaises
    BY <1>10 DEF AcquireWorkerRaises, dbVars
  <1>11. ASSUME NEW c \in calls, WorkerFinishes(c) PROVE (db \in Rows)'
    BY <1>11 DEF WorkerFinishes, dbVars
  <1>12. ASSUME NEW c \in calls, WorkerFails(c) PROVE (db \in Rows)'
    BY <1>12 DEF WorkerFails, dbVars
  <1>13. ASSUME NEW c \in calls, ActionFinished(c) PROVE (db \in Rows)'
    BY <1>13 DEF ActionFinished, dbVars
  <1>14. CASE Flush
    BY <1>14 DEF Flush, dbVars
  <1>15. CASE StartWriting
    BY <1>15 DEF StartWriting, dbVars
  <1>16. CASE WriteResults
    BY <1>16, WriteResultsTyped
  <1>17. CASE SetEvaluationOutcomes
    <2> DEFINE S == {o \in Submission \ deleted :
                       /\ \E r \in fd : r.op.type = "evaluation" /\ r.op.obj = o
                       /\ Cardinality(db[o].evaluations) = Cardinality(Testcase)}
    <2>1. db' = [o \in Object |->
                   IF o \in S THEN [db[o] EXCEPT !.evaluated = TRUE] ELSE db[o]]
      BY Zenon, <1>17 DEF SetEvaluationOutcomes
    <2> HIDE DEF S
    <2>2. QED BY <2>1, MarkingRowsKeepsTypes
  <1>18. CASE EndOperations
    BY <1>18, FinalizedTyped DEF EndOperations
  <1>19. CASE EndOperationsRaises
    BY <1>19, FinalizedTyped DEF EndOperationsRaises
  <1>20. ASSUME NEW s \in Submission, NEW l \in Levels, NEW a \in ArchiveRequests,
               InvalidateSubmission(s, l[1], l[2], a)
        PROVE  (db \in Rows)'
    <2> DEFINE row == IF l[1] = "compilation" THEN Blank
                      ELSE WithoutEvaluations(db[s], l[2])
    <2>1. db' = Finalized({<<s, a>>}, [db EXCEPT ![s] = row])
      BY <1>20 DEF InvalidateSubmission
    <2>2. row \in SubmissionResult
      <3>1. db[s] \in SubmissionResult
        BY DEF Rows, Object
      <3>2. WithoutEvaluations(db[s], l[2]) \in SubmissionResult
        BY <3>1, WithoutEvaluationsTyped
      <3>3. Blank \in SubmissionResult
        BY DEF Blank, SubmissionResult
      <3>4. QED BY <3>2, <3>3
    <2>3. s \notin UserTest
      BY EvaluationServiceAssumption
    <2> HIDE DEF row
    <2>4. [db EXCEPT ![s] = row] \in Rows
      BY <2>2, <2>3 DEF Rows, Object
    <2>5. QED BY <2>1, <2>4, FinalizedTyped
  <1>21. ASSUME NEW o \in Object, DeleteObject(o) PROVE (db \in Rows)'
    BY <1>21 DEF DeleteObject, dbVars
  <1>22. CASE CheckWorkersTimeout
    BY <1>22 DEF CheckWorkersTimeout, dbVars
  <1>23. CASE CheckWorkersConnection
    BY <1>23 DEF CheckWorkersConnection, dbVars
  <1>24. ASSUME NEW w \in Worker, DisableWorker(w) PROVE (db \in Rows)'
    BY <1>24 DEF DisableWorker, dbVars
  <1>25. ASSUME NEW w \in Worker, EnableWorker(w) PROVE (db \in Rows)'
    BY <1>25 DEF EnableWorker, dbVars
  <1>26. ASSUME NEW w \in Worker, Connect(w) PROVE (db \in Rows)'
    BY <1>26 DEF Connect, dbVars
  <1>27. ASSUME NEW w \in Worker, OnWorkerConnected(w) PROVE (db \in Rows)'
    BY <1>27 DEF OnWorkerConnected, dbVars
  <1>28. ASSUME NEW w \in Worker, Disconnect(w) PROVE (db \in Rows)'
    BY <1>28 DEF Disconnect, dbVars
  <1>29. CASE Crash
    BY <1>29 DEF Crash, dbVars
  <1>30. CASE UNCHANGED vars
    BY <1>30 DEF vars, dbVars
  <1>31. QED
    BY <1>1, <1>2, <1>3, <1>4, <1>5, <1>6, <1>7, <1>8, <1>9, <1>10,
       <1>11, <1>12, <1>13, <1>14, <1>15, <1>16, <1>17, <1>18, <1>19,
       <1>20, <1>21, <1>22, <1>23, <1>24, <1>25, <1>26, <1>27, <1>28,
       <1>29, <1>30 DEF Next

-----------------------------------------------------------------------------
LEMMA BlankExcept ==
  ASSUME NEW outcome
  PROVE  [Blank EXCEPT !.compilation = outcome] =
           [compilation |-> outcome, compilationTries |-> 0, evaluated |-> FALSE,
            evaluations |-> {}, evaluationTries |-> 0]
  <1>1. ASSUME NEW no
        PROVE  [[compilation |-> "none", compilationTries |-> 0, evaluated |-> no,
                 evaluations |-> {}, evaluationTries |-> 0] EXCEPT !.compilation = outcome] =
               [compilation |-> outcome, compilationTries |-> 0, evaluated |-> no,
                evaluations |-> {}, evaluationTries |-> 0]
    OBVIOUS
  <1>2. QED BY Zenon, <1>1 DEF Blank

LEMMA InitTyped == Init => Typed
  <1> SUFFICES ASSUME Init PROVE Typed
    OBVIOUS
  <1>1. Pool!TypeOK
    BY DEF Init, Pool!Init, Pool!TypeOK, Pool!Inactive
  <1>2. db \in Rows
    <2>1. PICK imported \in SUBSET Submission :
            db = [o \in Object |->
                    IF o \in imported THEN [Blank EXCEPT !.compilation = "tombstone"]
                    ELSE Blank]
      BY EvaluationServiceAssumption DEF Init
    <2>2. Blank \in SubmissionResult /\ Blank \in UserTestResult
      BY DEF Blank, SubmissionResult, UserTestResult
    <2> DEFINE x == [Blank EXCEPT !.compilation = "tombstone"]
    <2>3. x = [compilation |-> "tombstone", compilationTries |-> 0, evaluated |-> FALSE,
               evaluations |-> {}, evaluationTries |-> 0]
      BY BlankExcept
    <2> HIDE DEF x
    <2>4. x \in SubmissionResult
      BY <2>3 DEF SubmissionResult
    <2>5. \A u \in UserTest : u \notin imported
      BY EvaluationServiceAssumption
    <2>6. db = [o \in Object |-> IF o \in imported THEN x ELSE Blank]
      BY <2>1 DEF x
    <2>7. QED BY <2>2, <2>4, <2>5, <2>6 DEF Rows, Object
  <1>3. CallsTyped /\ CacheTyped
    BY FS_EmptySet DEF Init, CallsTyped, CacheTyped
  <1>4. RestTyped
    BY EvaluationServiceAssumption DEF Init, RestTyped, Epoch
  <1>5. QED
    BY <1>1, <1>2, <1>3, <1>4 DEF Init, Typed, OperationsTyped, ExecutorTyped

LEMMA NextTyped == Typed /\ [Next]_vars => Typed'
  BY OperationsKept, ExecutorKept, PoolTypesKept, CallsKept, CacheKept, RowsKept,
     RestKept DEF Typed

LEMMA AlwaysTyped == Spec => []Typed
  BY InitTyped, NextTyped, PTL DEF Spec

(* The variables keep their types whatever happens, in any order: a row of *)
(* a user test never gets evaluations nor a tombstone, and what a worker   *)
(* answers to a job is a result of the operation of that job.              *)
THEOREM EvaluationServiceTypeOK == Spec => []TypeOK
  <1>1. Typed => TypeOK
    BY DEF Typed, TypeOK, OperationsTyped, ExecutorTyped, CallsTyped, CallTyped,
       CacheTyped, GoodResult, Rows, RestTyped
  <1>2. QED BY <1>1, AlwaysTyped, PTL

-----------------------------------------------------------------------------
(* The pool.                                                               *)
(* No property alone is inductive: an ignore mark stays within its batch   *)
(* because the reverse map that places it is in sync with the batches, the *)
(* two stay in sync over an assignment because an idle worker holds        *)
(* nothing, and that needs the status and the start time to agree.         *)
IdleHoldNothing ==
  \A w \in Worker : status[w] # Pool!Busy => operations[w] = {}

PoolInv ==
  /\ Pool!TypeOK
  /\ Pool!ReverseInSync
  /\ Pool!IgnoreMarksBelongToBatch
  /\ Pool!TimedIffBusy
  /\ Pool!NoLostWakeup
  /\ IdleHoldNothing

(* The initial pool satisfies the invariant.                               *)
LEMMA InitPoolInv == Pool!Init => PoolInv
  BY NoWorkerAssumption
  DEF Pool!Init, PoolInv, Pool!TypeOK, Pool!ReverseInSync, Pool!IgnoreMarksBelongToBatch,
      Pool!TimedIffBusy, Pool!NoLostWakeup, IdleHoldNothing, Pool!FreeWorkers,
      Pool!Inactive, Pool!Disabled, Pool!Busy

(* release_worker keeps the invariant for whatever set of busy workers it  *)
(* frees, provided the connections and the pending callbacks evolve so     *)
(* that a connected worker left inactive is announced.                     *)
LEMMA ReleaseKeepsPoolInv ==
  ASSUME PoolInv,
         NEW ws \in SUBSET Worker,
         NEW disabling \in BOOLEAN,
         Pool!ReleaseWorkers(ws, disabling),
         connected' \in [Worker -> BOOLEAN],
         \A w \in Worker : connected'[w] => connected[w],
         waking' = waking
  PROVE  PoolInv'
  <1> USE DEF PoolInv
  <1>1. Pool!TypeOK'
    BY DEF Pool!TypeOK, Pool!ReleaseWorkers
  <1>2. Pool!ReverseInSync'
    <2> SUFFICES ASSUME NEW op \in Operation, NEW w \in Worker
                 PROVE  reverse'[op] = w <=> op \in operations'[w]
      BY <1>1 DEF Pool!ReverseInSync, Pool!TypeOK
    <2>1. CASE \E v \in ws : op \in operations[v]
      BY <2>1, NoWorkerAssumption DEF Pool!ReleaseWorkers, Pool!ReverseInSync, Pool!TypeOK
    <2>2. CASE ~ \E v \in ws : op \in operations[v]
      BY <2>2 DEF Pool!ReleaseWorkers, Pool!ReverseInSync, Pool!TypeOK
    <2>3. QED BY <2>1, <2>2
  <1>3. Pool!IgnoreMarksBelongToBatch'
    BY DEF Pool!IgnoreMarksBelongToBatch, Pool!ReleaseWorkers, Pool!TypeOK
  <1>4. Pool!TimedIffBusy'
    BY DEF Pool!TimedIffBusy, Pool!ReleaseWorkers, Pool!TypeOK, Pool!Inactive, Pool!Disabled, Pool!Busy
  <1>5. Pool!NoLostWakeup'
    BY DEF Pool!NoLostWakeup, Pool!FreeWorkers, Pool!ReleaseWorkers, Pool!TypeOK,
           Pool!Inactive, Pool!Disabled, Pool!Busy
  <1>6. IdleHoldNothing'
    BY DEF IdleHoldNothing, Pool!ReleaseWorkers, Pool!TypeOK, Pool!Inactive, Pool!Disabled, Pool!Busy
  <1>7. QED BY <1>1, <1>2, <1>3, <1>4, <1>5, <1>6

(* acquire_worker keeps the invariant when the batch is not in the pool.   *)
LEMMA AcquireKeepsPoolInv ==
  ASSUME PoolInv,
         NEW w \in Worker, NEW ops \in SUBSET Operation,
         \A op \in ops : ~Pool!InPool(op),
         Pool!Acquire(w, ops)
  PROVE  PoolInv'
  <1> USE DEF PoolInv, Pool!Acquire
  <1>1. Pool!TypeOK'
    BY DEF Pool!TypeOK
  <1>2. operations[w] = {} /\ status[w] = Pool!Inactive /\ w \in Worker
    BY DEF IdleHoldNothing, Pool!FreeWorkers, Pool!Inactive, Pool!Busy
  <1>3. Pool!ReverseInSync'
    BY <1>2, NoWorkerAssumption DEF Pool!ReverseInSync, Pool!InPool, Pool!TypeOK
  <1>4. Pool!IgnoreMarksBelongToBatch'
    BY <1>2 DEF Pool!IgnoreMarksBelongToBatch, Pool!TypeOK
  <1>5. Pool!TimedIffBusy'
    BY DEF Pool!TimedIffBusy, Pool!TypeOK
  <1>6. Pool!NoLostWakeup'
    BY DEF Pool!NoLostWakeup, Pool!FreeWorkers, Pool!TypeOK, Pool!Inactive, Pool!Busy
  <1>7. IdleHoldNothing'
    BY DEF IdleHoldNothing, Pool!TypeOK
  <1>8. QED BY <1>1, <1>3, <1>4, <1>5, <1>6, <1>7

(* Every call of the pool, and every change of a connection, keeps the     *)
(* invariant.                                                              *)
LEMMA NextKeepsPoolInv == PoolInv /\ [Pool!Next]_(Pool!vars) => PoolInv'
  <1> SUFFICES ASSUME PoolInv, [Pool!Next]_(Pool!vars) PROVE PoolInv'
    OBVIOUS
  <1> USE DEF PoolInv
  <1>1. ASSUME NEW w \in Worker, NEW ops \in SUBSET Operation,
               \A op \in ops : ~Pool!InPool(op), Pool!Acquire(w, ops)
        PROVE  PoolInv'
    BY <1>1, AcquireKeepsPoolInv
  <1>2. CASE Pool!AcquireNone
    BY <1>2 DEF Pool!AcquireNone, Pool!TypeOK, Pool!ReverseInSync, Pool!IgnoreMarksBelongToBatch,
                Pool!TimedIffBusy, Pool!NoLostWakeup, Pool!FreeWorkers, IdleHoldNothing
  <1>3. ASSUME NEW w \in Worker, Pool!ReleaseWorker(w)
        PROVE  PoolInv'
    <2>1. CASE status[w] = Pool!Busy
      BY <1>3, <2>1, ReleaseKeepsPoolInv DEF Pool!ReleaseWorker, Pool!TypeOK
    <2>2. CASE status[w] # Pool!Busy
      BY <1>3, <2>2 DEF Pool!ReleaseWorker, Pool!TypeOK, Pool!ReverseInSync,
         Pool!IgnoreMarksBelongToBatch, Pool!TimedIffBusy, Pool!NoLostWakeup, Pool!FreeWorkers,
         IdleHoldNothing
    <2>3. QED BY <2>1, <2>2
  <1>4. ASSUME NEW ops \in SUBSET Operation, Pool!IgnoreOperations(ops)
        PROVE  PoolInv'
    <2>1. Pool!TypeOK'
      BY <1>4 DEF Pool!IgnoreOperations, Pool!TypeOK
    <2>2. Pool!IgnoreMarksBelongToBatch'
      BY <1>4 DEF Pool!IgnoreOperations, Pool!IgnoreMarksBelongToBatch, Pool!ReverseInSync,
                  Pool!TypeOK
    <2>3. QED
      BY <1>4, <2>1, <2>2 DEF Pool!IgnoreOperations, Pool!ReverseInSync, Pool!TimedIffBusy,
         Pool!NoLostWakeup, Pool!FreeWorkers, IdleHoldNothing
  <1>5. ASSUME NEW ws \in SUBSET Worker, NEW down \in SUBSET ws,
               Pool!CheckTimeouts(ws, down)
        PROVE  PoolInv'
    BY <1>5, ReleaseKeepsPoolInv DEF Pool!CheckTimeouts, Pool!TypeOK
  <1>6. CASE Pool!CheckConnections
    BY <1>6, ReleaseKeepsPoolInv DEF Pool!CheckConnections, Pool!Unconnected, Pool!TypeOK
  <1>7. ASSUME NEW w \in Worker, Pool!DisableWorker(w)
        PROVE  PoolInv'
    <2>1. CASE status[w] = Pool!Inactive
      BY <1>7, <2>1 DEF Pool!DisableWorker, Pool!TypeOK, Pool!ReverseInSync,
         Pool!IgnoreMarksBelongToBatch, Pool!TimedIffBusy, Pool!NoLostWakeup, Pool!FreeWorkers,
         IdleHoldNothing, Pool!Inactive, Pool!Disabled, Pool!Busy
    <2>2. CASE status[w] # Pool!Inactive
      BY <1>7, <2>2, ReleaseKeepsPoolInv DEF Pool!DisableWorker, Pool!TypeOK
    <2>3. QED BY <2>1, <2>2
  <1>8. ASSUME NEW w \in Worker, Pool!EnableWorker(w)
        PROVE  PoolInv'
    BY <1>8 DEF Pool!EnableWorker, Pool!TypeOK, Pool!ReverseInSync, Pool!IgnoreMarksBelongToBatch,
       Pool!TimedIffBusy, Pool!NoLostWakeup, Pool!FreeWorkers, IdleHoldNothing,
       Pool!Inactive, Pool!Disabled, Pool!Busy
  <1>9. ASSUME NEW w \in Worker, Pool!Connect(w)
        PROVE  PoolInv'
    BY <1>9 DEF Pool!Connect, Pool!TypeOK, Pool!ReverseInSync, Pool!IgnoreMarksBelongToBatch,
       Pool!TimedIffBusy, Pool!NoLostWakeup, Pool!FreeWorkers, IdleHoldNothing
  <1>10. ASSUME NEW w \in Worker, Pool!OnWorkerConnected(w)
         PROVE  PoolInv'
    BY <1>10 DEF Pool!OnWorkerConnected, Pool!TypeOK, Pool!ReverseInSync,
       Pool!IgnoreMarksBelongToBatch, Pool!TimedIffBusy, Pool!NoLostWakeup, Pool!FreeWorkers,
       IdleHoldNothing
  <1>11. ASSUME NEW w \in Worker, Pool!Disconnect(w)
         PROVE  PoolInv'
    BY <1>11 DEF Pool!Disconnect, Pool!TypeOK, Pool!ReverseInSync, Pool!IgnoreMarksBelongToBatch,
       Pool!TimedIffBusy, Pool!NoLostWakeup, Pool!FreeWorkers, IdleHoldNothing
  <1>12. CASE Pool!Restart
    BY <1>12, NoWorkerAssumption DEF Pool!Restart, Pool!TypeOK, Pool!ReverseInSync,
       Pool!IgnoreMarksBelongToBatch, Pool!TimedIffBusy, Pool!NoLostWakeup, Pool!FreeWorkers,
       IdleHoldNothing, Pool!Inactive, Pool!Disabled, Pool!Busy
  <1>13. CASE UNCHANGED Pool!vars
    BY <1>13 DEF Pool!vars, Pool!TypeOK, Pool!ReverseInSync, Pool!IgnoreMarksBelongToBatch,
       Pool!TimedIffBusy, Pool!NoLostWakeup, Pool!FreeWorkers, IdleHoldNothing
  <1>14. QED
    BY <1>1, <1>2, <1>3, <1>4, <1>5, <1>6, <1>7, <1>8, <1>9, <1>10, <1>11,
       <1>12, <1>13 DEF Pool!Next

(* Whatever calls the pool gets, of EvaluationService or of another, it    *)
(* keeps its inductive invariant for ever.                                 *)
THEOREM PoolInvariant == Pool!Spec => []PoolInv
  BY InitPoolInv, NextKeepsPoolInv, PTL DEF Pool!Spec

(* The variables of the pool stay in their types.                          *)
THEOREM PoolTypeOK == Pool!Spec => []Pool!TypeOK
  <1>1. PoolInv => Pool!TypeOK
    BY DEF PoolInv
  <1>2. QED BY <1>1, PoolInvariant, PTL

(* Whatever the callers do, the reverse map and the batches agree (the     *)
(* purpose of _operation_lock).                                            *)
THEOREM PoolReverseInSync == Pool!Spec => []ReverseInSync
  <1>1. PoolInv => ReverseInSync
    BY DEF PoolInv, ReverseInSync, Pool!ReverseInSync
  <1>2. QED BY <1>1, PoolInvariant, PTL

(* A mark of invalidate_submission never outlives the batch it was made    *)
(* for, so it never discards a result of a later batch.                    *)
THEOREM PoolIgnoreMarks == Pool!Spec => []IgnoreMarksBelongToBatch
  <1>1. PoolInv => IgnoreMarksBelongToBatch
    BY DEF PoolInv, IgnoreMarksBelongToBatch, Pool!IgnoreMarksBelongToBatch
  <1>2. QED BY <1>1, PoolInvariant, PTL

(* The assertion of check_timeouts never fails, and no busy worker escapes *)
(* that check.                                                             *)
THEOREM PoolTimedIffBusy == Pool!Spec => []TimedIffBusy
  <1>1. PoolInv => TimedIffBusy
    BY DEF PoolInv, TimedIffBusy, Pool!TimedIffBusy, Busy, Pool!Busy
  <1>2. QED BY <1>1, PoolInvariant, PTL

(* The executor never sleeps on an unset event while a worker is free and  *)
(* no wake-up is due.                                                      *)
THEOREM PoolNoLostWakeup == Pool!Spec => []NoLostWakeup
  <1>1. PoolInv => NoLostWakeup
    BY DEF PoolInv, NoLostWakeup, Pool!NoLostWakeup, FreeWorkers, Pool!FreeWorkers,
           Inactive, Pool!Inactive
  <1>2. QED BY <1>1, PoolInvariant, PTL

LEMMA PoolInvFacts ==
  ASSUME PoolInv
  PROVE  /\ Pool!TypeOK /\ Pool!ReverseInSync
         /\ \A w \in Worker : toIgnore[w] \subseteq operations[w]
         /\ \A w \in Worker : status[w] # Pool!Busy => operations[w] = {}
         /\ \A w \in Worker : startTime[w] <=> status[w] = Pool!Busy
  BY DEF PoolInv, Pool!TypeOK, Pool!ReverseInSync, Pool!IgnoreMarksBelongToBatch,
     IdleHoldNothing, Pool!TimedIffBusy, Pool!Inactive, Pool!Disabled, Pool!Busy

LEMMA PoolInitially == Init => PoolInv
  BY InitPoolInv DEF Init

(* The list that execute gave the pool is its own, _currently_executing:   *)
(* once execute has raised, an invalidation would take operations out of   *)
(* the pool's list and leave them in its reverse map.  So what follows is  *)
(* of runs without that meeting: no invalidation, or no reason to raise.   *)
NoAliasing ==
  \A f \in Faults : f["invalidate"] = 0 \/ (f["database"] = 0 /\ f["delete"] = 0)

(* Nothing that execute may meet is gone from the database.                *)
NothingIsGone ==
  /\ \A op \in queue \cup executing \cup requests \cup lost : op.obj \notin deleted
  /\ \A w \in Worker : \A op \in operations[w] : op.obj \notin deleted
  /\ \A s \in Submission \cap deleted : db[s].compilation # "tombstone"
  /\ alias \in Worker => executor = "acquiring"

NeverRaises == faults["database"] = 0 /\ faults["delete"] = 0 /\ NothingIsGone

AliasIsSafe == faults["invalidate"] = 0 \/ NeverRaises

(* What waits for a worker is not with one.                                *)
WaitingApart ==
  /\ \A op \in queue : reverse[op] = NoWorker
  /\ executor = "waiting" =>
       \A op \in executing : reverse[op] = NoWorker /\ op \notin queue

SyncInv == Typed /\ PoolInv /\ WaitingApart /\ AliasIsSafe

(* EvaluationService calls the pool as WorkerPool allows it.               *)
LEMMA PoolStep ==
  ASSUME SyncInv, [Next]_vars
  PROVE  Pool!Next \/ UNCHANGED Pool!vars
  <1> USE DEF Pool!vars
  <1>1. ASSUME NEW s \in Submission, NewSubmission(s)
        PROVE  Pool!Next \/ UNCHANGED Pool!vars
    BY <1>1 DEF NewSubmission, poolVars
  <1>2. ASSUME NEW u \in UserTest, NewUserTest(u)
        PROVE  Pool!Next \/ UNCHANGED Pool!vars
    BY <1>2 DEF NewUserTest, poolVars
  <1>3. ASSUME NEW op \in Operation, Enqueue(op)
        PROVE  Pool!Next \/ UNCHANGED Pool!vars
    BY <1>3 DEF Enqueue, poolVars
  <1>4. CASE EnqueueLost
    BY <1>4 DEF EnqueueLost, poolVars
  <1>5. CASE Sweep
    BY <1>5 DEF Sweep, poolVars
  <1>6. CASE PopBatch
    BY <1>6 DEF PopBatch, poolVars
  <1>7. CASE AcquireWorker
    <2>1. executing \in SUBSET Operation
      BY DEF SyncInv, Typed, OperationsTyped
    <2>2. \A op \in executing : ~Pool!InPool(op)
      BY <1>7 DEF AcquireWorker, SyncInv, WaitingApart, Pool!InPool
    <2>3. QED BY <1>7, <2>1, <2>2 DEF AcquireWorker, Pool!Next
  <1>8. CASE NothingToExecute
    BY <1>8 DEF NothingToExecute, poolVars
  <1>9. CASE SendJobGroup
    BY <1>9 DEF SendJobGroup, poolVars
  <1>10. CASE AcquireWorkerRaises
    BY <1>10 DEF AcquireWorkerRaises, poolVars
  <1>11. ASSUME NEW c \in calls, WorkerFinishes(c)
        PROVE  Pool!Next \/ UNCHANGED Pool!vars
    BY <1>11 DEF WorkerFinishes, poolVars
  <1>12. ASSUME NEW c \in calls, WorkerFails(c)
        PROVE  Pool!Next \/ UNCHANGED Pool!vars
    BY <1>12 DEF WorkerFails, poolVars
  <1>13. ASSUME NEW c \in calls, ActionFinished(c)
        PROVE  Pool!Next \/ UNCHANGED Pool!vars
    <2>1. c.worker \in Worker /\ Pool!ReleaseWorker(c.worker)
      BY <1>13, CallFields DEF ActionFinished, SyncInv, Typed, CallsTyped
    <2>2. QED BY <2>1 DEF Pool!Next
  <1>14. CASE Flush
    BY <1>14 DEF Flush, poolVars
  <1>15. CASE StartWriting
    BY <1>15 DEF StartWriting, poolVars
  <1>16. CASE WriteResults
    BY <1>16 DEF WriteResults, poolVars
  <1>17. CASE SetEvaluationOutcomes
    BY <1>17 DEF SetEvaluationOutcomes, poolVars
  <1>18. CASE EndOperations
    BY <1>18 DEF EndOperations, poolVars
  <1>19. CASE EndOperationsRaises
    BY <1>19 DEF EndOperationsRaises, poolVars
  <1>20. ASSUME NEW s \in Submission, NEW l \in Levels, NEW a \in ArchiveRequests,
               InvalidateSubmission(s, l[1], l[2], a)
        PROVE  Pool!Next \/ UNCHANGED Pool!vars
    <2> DEFINE relevant == RelevantOperations(s, l[1])
    <2>1. relevant \in SUBSET Operation
      BY RelevantAreOperations
    <2>2. UNCHANGED operations
      <3>1. faults["invalidate"] > 0 /\ ExecutionLockFree
        BY <1>20 DEF InvalidateSubmission, Fault
      <3>2. faults["invalidate"] # 0
        BY <3>1 DEF SyncInv, Typed, RestTyped, FaultKinds
      <3>3. alias \notin Worker
        BY <3>1, <3>2
        DEF SyncInv, AliasIsSafe, NeverRaises, NothingIsGone, ExecutionLockFree
      <3>4. QED BY <1>20, <3>3 DEF InvalidateSubmission
    <2>3. Pool!IgnoreOperations(relevant)
      BY <1>20, <2>2 DEF InvalidateSubmission, Pool!IgnoreOperations
    <2> HIDE DEF relevant
    <2>4. QED BY <2>1, <2>3 DEF Pool!Next
  <1>21. ASSUME NEW o \in Object, DeleteObject(o)
        PROVE  Pool!Next \/ UNCHANGED Pool!vars
    BY <1>21 DEF DeleteObject, poolVars
  <1>22. CASE CheckWorkersTimeout
    BY <1>22 DEF CheckWorkersTimeout, Pool!Next
  <1>23. CASE CheckWorkersConnection
    BY <1>23 DEF CheckWorkersConnection, Pool!Next
  <1>24. ASSUME NEW w \in Worker, DisableWorker(w)
        PROVE  Pool!Next \/ UNCHANGED Pool!vars
    BY <1>24 DEF DisableWorker, Pool!Next
  <1>25. ASSUME NEW w \in Worker, EnableWorker(w)
        PROVE  Pool!Next \/ UNCHANGED Pool!vars
    BY <1>25 DEF EnableWorker, Pool!Next
  <1>26. ASSUME NEW w \in Worker, Connect(w)
        PROVE  Pool!Next \/ UNCHANGED Pool!vars
    BY <1>26 DEF Connect, Pool!Next
  <1>27. ASSUME NEW w \in Worker, OnWorkerConnected(w)
        PROVE  Pool!Next \/ UNCHANGED Pool!vars
    BY <1>27 DEF OnWorkerConnected, Pool!Next
  <1>28. ASSUME NEW w \in Worker, Disconnect(w)
        PROVE  Pool!Next \/ UNCHANGED Pool!vars
    BY <1>28 DEF Disconnect, Pool!Next
  <1>29. CASE Crash
    BY <1>29 DEF Crash, Pool!Next
  <1>30. CASE UNCHANGED vars
    BY <1>30 DEF vars, poolVars
  <1>31. QED
    BY <1>1, <1>2, <1>3, <1>4, <1>5, <1>6, <1>7, <1>8, <1>9, <1>10,
       <1>11, <1>12, <1>13, <1>14, <1>15, <1>16, <1>17, <1>18, <1>19,
       <1>20, <1>21, <1>22, <1>23, <1>24, <1>25, <1>26, <1>27, <1>28,
       <1>29, <1>30 DEF Next

(* What leaves the pool is free; nothing but execute brings anything in.   *)
LEMMA ReverseStep ==
  ASSUME SyncInv, [Next]_vars, ~AcquireWorker
  PROVE  \A op \in Operation : reverse'[op] \in {reverse[op], NoWorker}
  <1> reverse \in [Operation -> Worker \cup {NoWorker}]
    BY DEF SyncInv, Typed, Pool!TypeOK
  <1>1. ASSUME NEW s \in Submission, NewSubmission(s)
        PROVE  \A op \in Operation : reverse'[op] \in {reverse[op], NoWorker}
    BY <1>1 DEF NewSubmission, poolVars
  <1>2. ASSUME NEW u \in UserTest, NewUserTest(u)
        PROVE  \A op \in Operation : reverse'[op] \in {reverse[op], NoWorker}
    BY <1>2 DEF NewUserTest, poolVars
  <1>3. ASSUME NEW new \in Operation, Enqueue(new)
        PROVE  \A op \in Operation : reverse'[op] \in {reverse[op], NoWorker}
    BY <1>3 DEF Enqueue, poolVars
  <1>4. CASE EnqueueLost
    BY <1>4 DEF EnqueueLost, poolVars
  <1>5. CASE Sweep
    BY <1>5 DEF Sweep, poolVars
  <1>6. CASE PopBatch
    BY <1>6 DEF PopBatch, poolVars
  <1>7. CASE AcquireWorker
    BY <1>7
  <1>8. CASE NothingToExecute
    BY <1>8 DEF NothingToExecute, poolVars
  <1>9. CASE SendJobGroup
    BY <1>9 DEF SendJobGroup, poolVars
  <1>10. CASE AcquireWorkerRaises
    BY <1>10 DEF AcquireWorkerRaises, poolVars
  <1>11. ASSUME NEW c \in calls, WorkerFinishes(c)
        PROVE  \A op \in Operation : reverse'[op] \in {reverse[op], NoWorker}
    BY <1>11 DEF WorkerFinishes, poolVars
  <1>12. ASSUME NEW c \in calls, WorkerFails(c)
        PROVE  \A op \in Operation : reverse'[op] \in {reverse[op], NoWorker}
    BY <1>12 DEF WorkerFails, poolVars
  <1>13. ASSUME NEW c \in calls, ActionFinished(c)
        PROVE  \A op \in Operation : reverse'[op] \in {reverse[op], NoWorker}
    BY <1>13 DEF ActionFinished, Pool!ReleaseWorker, Pool!ReleaseWorkers
  <1>14. CASE Flush
    BY <1>14 DEF Flush, poolVars
  <1>15. CASE StartWriting
    BY <1>15 DEF StartWriting, poolVars
  <1>16. CASE WriteResults
    BY <1>16 DEF WriteResults, poolVars
  <1>17. CASE SetEvaluationOutcomes
    BY <1>17 DEF SetEvaluationOutcomes, poolVars
  <1>18. CASE EndOperations
    BY <1>18 DEF EndOperations, poolVars
  <1>19. CASE EndOperationsRaises
    BY <1>19 DEF EndOperationsRaises, poolVars
  <1>20. ASSUME NEW s \in Submission, NEW l \in Levels, NEW a \in ArchiveRequests,
               InvalidateSubmission(s, l[1], l[2], a)
        PROVE  \A op \in Operation : reverse'[op] \in {reverse[op], NoWorker}
    BY <1>20 DEF InvalidateSubmission, poolVars
  <1>21. ASSUME NEW o \in Object, DeleteObject(o)
        PROVE  \A op \in Operation : reverse'[op] \in {reverse[op], NoWorker}
    BY <1>21 DEF DeleteObject, poolVars
  <1>22. CASE CheckWorkersTimeout
    BY <1>22 DEF CheckWorkersTimeout, Pool!CheckTimeouts, Pool!ReleaseWorkers
  <1>23. CASE CheckWorkersConnection
    BY <1>23 DEF CheckWorkersConnection, Pool!CheckConnections, Pool!ReleaseWorkers
  <1>24. ASSUME NEW w \in Worker, DisableWorker(w)
        PROVE  \A op \in Operation : reverse'[op] \in {reverse[op], NoWorker}
    BY <1>24 DEF DisableWorker, Pool!DisableWorker, Pool!ReleaseWorkers
  <1>25. ASSUME NEW w \in Worker, EnableWorker(w)
        PROVE  \A op \in Operation : reverse'[op] \in {reverse[op], NoWorker}
    BY <1>25 DEF EnableWorker, Pool!EnableWorker
  <1>26. ASSUME NEW w \in Worker, Connect(w)
        PROVE  \A op \in Operation : reverse'[op] \in {reverse[op], NoWorker}
    BY <1>26 DEF Connect, Pool!Connect
  <1>27. ASSUME NEW w \in Worker, OnWorkerConnected(w)
        PROVE  \A op \in Operation : reverse'[op] \in {reverse[op], NoWorker}
    BY <1>27 DEF OnWorkerConnected, Pool!OnWorkerConnected
  <1>28. ASSUME NEW w \in Worker, Disconnect(w)
        PROVE  \A op \in Operation : reverse'[op] \in {reverse[op], NoWorker}
    BY <1>28 DEF Disconnect, Pool!Disconnect
  <1>29. CASE Crash
    BY <1>29 DEF Crash, Pool!Restart
  <1>30. CASE UNCHANGED vars
    BY <1>30 DEF vars, poolVars
  <1>31. QED
    BY <1>1, <1>2, <1>3, <1>4, <1>5, <1>6, <1>7, <1>8, <1>9, <1>10,
       <1>11, <1>12, <1>13, <1>14, <1>15, <1>16, <1>17, <1>18, <1>19,
       <1>20, <1>21, <1>22, <1>23, <1>24, <1>25, <1>26, <1>27, <1>28,
       <1>29, <1>30 DEF Next

-----------------------------------------------------------------------------
(* enqueue refuses what is anywhere else: with the executor, in the pool,  *)
(* in the cache.                                                           *)
LEMMA QueueStep ==
  ASSUME Typed, [Next]_vars
  PROVE  \A op \in queue' \ queue :
           reverse'[op] = NoWorker /\ op \notin executing' /\ ~Cached(op)
  <1>1. ASSUME NEW s \in Submission, NewSubmission(s)
        PROVE  \A op \in queue' \ queue :
                 reverse'[op] = NoWorker /\ op \notin executing' /\ ~Cached(op)
    BY <1>1 DEF NewSubmission
  <1>2. ASSUME NEW u \in UserTest, NewUserTest(u)
        PROVE  \A op \in queue' \ queue :
                 reverse'[op] = NoWorker /\ op \notin executing' /\ ~Cached(op)
    BY <1>2 DEF NewUserTest
  <1>3. ASSUME NEW new \in Operation, Enqueue(new)
        PROVE  \A op \in queue' \ queue :
                 reverse'[op] = NoWorker /\ op \notin executing' /\ ~Cached(op)
    BY <1>3 DEF Enqueue, poolVars, executorVars, Enqueued
  <1>4. CASE EnqueueLost
    BY <1>4 DEF EnqueueLost, poolVars, executorVars, Enqueued
  <1>5. CASE Sweep
    BY <1>5 DEF Sweep, poolVars, executorVars, Enqueued
  <1>6. CASE PopBatch
    BY <1>6 DEF PopBatch
  <1>7. CASE AcquireWorker
    BY <1>7 DEF AcquireWorker
  <1>8. CASE NothingToExecute
    BY <1>8 DEF NothingToExecute
  <1>9. CASE SendJobGroup
    BY <1>9 DEF SendJobGroup
  <1>10. CASE AcquireWorkerRaises
    BY <1>10 DEF AcquireWorkerRaises
  <1>11. ASSUME NEW c \in calls, WorkerFinishes(c)
        PROVE  \A op \in queue' \ queue :
                 reverse'[op] = NoWorker /\ op \notin executing' /\ ~Cached(op)
    BY <1>11 DEF WorkerFinishes
  <1>12. ASSUME NEW c \in calls, WorkerFails(c)
        PROVE  \A op \in queue' \ queue :
                 reverse'[op] = NoWorker /\ op \notin executing' /\ ~Cached(op)
    BY <1>12 DEF WorkerFails
  <1>13. ASSUME NEW c \in calls, ActionFinished(c)
        PROVE  \A op \in queue' \ queue :
                 reverse'[op] = NoWorker /\ op \notin executing' /\ ~Cached(op)
    BY <1>13 DEF ActionFinished
  <1>14. CASE Flush
    BY <1>14 DEF Flush
  <1>15. CASE StartWriting
    BY <1>15 DEF StartWriting
  <1>16. CASE WriteResults
    BY <1>16 DEF WriteResults, poolVars, executorVars, Enqueued
  <1>17. CASE SetEvaluationOutcomes
    BY <1>17 DEF SetEvaluationOutcomes
  <1>18. CASE EndOperations
    BY <1>18 DEF EndOperations, poolVars, executorVars, Enqueued
  <1>19. CASE EndOperationsRaises
    BY <1>19 DEF EndOperationsRaises, poolVars, executorVars, Enqueued
  <1>20. ASSUME NEW s \in Submission, NEW l \in Levels, NEW a \in ArchiveRequests,
               InvalidateSubmission(s, l[1], l[2], a)
        PROVE  \A op \in queue' \ queue :
                 reverse'[op] = NoWorker /\ op \notin executing' /\ ~Cached(op)
    BY <1>20 DEF InvalidateSubmission, Enqueued
  <1>21. ASSUME NEW o \in Object, DeleteObject(o)
        PROVE  \A op \in queue' \ queue :
                 reverse'[op] = NoWorker /\ op \notin executing' /\ ~Cached(op)
    BY <1>21 DEF DeleteObject
  <1>22. CASE CheckWorkersTimeout
    BY <1>22 DEF CheckWorkersTimeout, executorVars, PutAgain, Enqueued
  <1>23. CASE CheckWorkersConnection
    BY <1>23 DEF CheckWorkersConnection, executorVars, PutAgain, Enqueued
  <1>24. ASSUME NEW w \in Worker, DisableWorker(w)
        PROVE  \A op \in queue' \ queue :
                 reverse'[op] = NoWorker /\ op \notin executing' /\ ~Cached(op)
    BY <1>24 DEF DisableWorker, executorVars, PutAgain, Enqueued
  <1>25. ASSUME NEW w \in Worker, EnableWorker(w)
        PROVE  \A op \in queue' \ queue :
                 reverse'[op] = NoWorker /\ op \notin executing' /\ ~Cached(op)
    BY <1>25 DEF EnableWorker
  <1>26. ASSUME NEW w \in Worker, Connect(w)
        PROVE  \A op \in queue' \ queue :
                 reverse'[op] = NoWorker /\ op \notin executing' /\ ~Cached(op)
    BY <1>26 DEF Connect
  <1>27. ASSUME NEW w \in Worker, OnWorkerConnected(w)
        PROVE  \A op \in queue' \ queue :
                 reverse'[op] = NoWorker /\ op \notin executing' /\ ~Cached(op)
    BY <1>27 DEF OnWorkerConnected
  <1>28. ASSUME NEW w \in Worker, Disconnect(w)
        PROVE  \A op \in queue' \ queue :
                 reverse'[op] = NoWorker /\ op \notin executing' /\ ~Cached(op)
    BY <1>28 DEF Disconnect
  <1>29. CASE Crash
    BY <1>29 DEF Crash
  <1>30. CASE UNCHANGED vars
    BY <1>30 DEF vars, poolVars
  <1>31. QED
    BY <1>1, <1>2, <1>3, <1>4, <1>5, <1>6, <1>7, <1>8, <1>9, <1>10,
       <1>11, <1>12, <1>13, <1>14, <1>15, <1>16, <1>17, <1>18, <1>19,
       <1>20, <1>21, <1>22, <1>23, <1>24, <1>25, <1>26, <1>27, <1>28,
       <1>29, <1>30 DEF Next

(* The executor takes from the queue alone, and what it took it only loses.*)
LEMMA ExecutingStep ==
  ASSUME Typed, [Next]_vars
  PROVE  \/ /\ PopBatch
            /\ executing' \subseteq queue /\ queue' = queue \ executing'
            /\ executor = "idle" /\ UNCHANGED poolVars
         \/ /\ executing' \subseteq executing
            /\ executor' = "waiting" => executor = "waiting"
  <1> DEFINE Goal ==
        \/ /\ PopBatch
           /\ executing' \subseteq queue /\ queue' = queue \ executing'
           /\ executor = "idle" /\ UNCHANGED poolVars
        \/ /\ executing' \subseteq executing
           /\ executor' = "waiting" => executor = "waiting"
  <1>1. ASSUME NEW s \in Submission, NewSubmission(s) PROVE Goal
    BY <1>1 DEF NewSubmission, executorVars
  <1>2. ASSUME NEW u \in UserTest, NewUserTest(u) PROVE Goal
    BY <1>2 DEF NewUserTest, executorVars
  <1>3. ASSUME NEW op \in Operation, Enqueue(op) PROVE Goal
    BY <1>3 DEF Enqueue, executorVars
  <1>4. CASE EnqueueLost
    BY <1>4 DEF EnqueueLost, executorVars
  <1>5. CASE Sweep
    BY <1>5 DEF Sweep, executorVars
  <1>6. CASE PopBatch
    BY <1>6 DEF PopBatch, poolVars
  <1>7. CASE AcquireWorker
    BY <1>7 DEF AcquireWorker, executorVars
  <1>8. CASE NothingToExecute
    BY <1>8 DEF NothingToExecute, executorVars
  <1>9. CASE SendJobGroup
    BY <1>9 DEF SendJobGroup, executorVars
  <1>10. CASE AcquireWorkerRaises
    BY <1>10 DEF AcquireWorkerRaises, executorVars
  <1>11. ASSUME NEW c \in calls, WorkerFinishes(c) PROVE Goal
    BY <1>11 DEF WorkerFinishes, executorVars
  <1>12. ASSUME NEW c \in calls, WorkerFails(c) PROVE Goal
    BY <1>12 DEF WorkerFails, executorVars
  <1>13. ASSUME NEW c \in calls, ActionFinished(c) PROVE Goal
    BY <1>13 DEF ActionFinished, executorVars
  <1>14. CASE Flush
    BY <1>14 DEF Flush, executorVars
  <1>15. CASE StartWriting
    BY <1>15 DEF StartWriting, executorVars
  <1>16. CASE WriteResults
    BY <1>16 DEF WriteResults, executorVars
  <1>17. CASE SetEvaluationOutcomes
    BY <1>17 DEF SetEvaluationOutcomes, executorVars
  <1>18. CASE EndOperations
    BY <1>18 DEF EndOperations, executorVars
  <1>19. CASE EndOperationsRaises
    BY <1>19 DEF EndOperationsRaises, executorVars
  <1>20. ASSUME NEW s \in Submission, NEW l \in Levels, NEW a \in ArchiveRequests,
               InvalidateSubmission(s, l[1], l[2], a)
        PROVE  Goal
    BY <1>20 DEF InvalidateSubmission
  <1>21. ASSUME NEW o \in Object, DeleteObject(o) PROVE Goal
    BY <1>21 DEF DeleteObject, executorVars
  <1>22. CASE CheckWorkersTimeout
    BY <1>22 DEF CheckWorkersTimeout, executorVars
  <1>23. CASE CheckWorkersConnection
    BY <1>23 DEF CheckWorkersConnection, executorVars
  <1>24. ASSUME NEW w \in Worker, DisableWorker(w) PROVE Goal
    BY <1>24 DEF DisableWorker, executorVars
  <1>25. ASSUME NEW w \in Worker, EnableWorker(w) PROVE Goal
    BY <1>25 DEF EnableWorker, executorVars
  <1>26. ASSUME NEW w \in Worker, Connect(w) PROVE Goal
    BY <1>26 DEF Connect, executorVars
  <1>27. ASSUME NEW w \in Worker, OnWorkerConnected(w) PROVE Goal
    BY <1>27 DEF OnWorkerConnected, executorVars
  <1>28. ASSUME NEW w \in Worker, Disconnect(w) PROVE Goal
    BY <1>28 DEF Disconnect, executorVars
  <1>29. CASE Crash
    BY <1>29 DEF Crash, executorVars
  <1>30. CASE UNCHANGED vars
    BY <1>30 DEF vars, executorVars
  <1>31. QED
    BY <1>1, <1>2, <1>3, <1>4, <1>5, <1>6, <1>7, <1>8, <1>9, <1>10,
       <1>11, <1>12, <1>13, <1>14, <1>15, <1>16, <1>17, <1>18, <1>19,
       <1>20, <1>21, <1>22, <1>23, <1>24, <1>25, <1>26, <1>27, <1>28,
       <1>29, <1>30 DEF Next

LEMMA WaitingApartKept == ASSUME SyncInv, [Next]_vars PROVE WaitingApart'
  <1> Typed /\ WaitingApart /\ OperationsTyped
    BY DEF SyncInv, Typed
  <1>1. queue' \subseteq Operation /\ executing' \subseteq Operation
    BY OperationsKept DEF OperationsTyped
  <1>2. CASE PopBatch
    BY <1>1, <1>2, ExecutingStep DEF PopBatch, poolVars, WaitingApart, OperationsTyped
  <1>3. CASE AcquireWorker
    <2>1. UNCHANGED <<queue, executing>>
      BY <1>3 DEF AcquireWorker, executorVars
    <2>2. CASE Pool!AcquireNone /\ UNCHANGED executorVars
      BY <2>1, <2>2 DEF Pool!AcquireNone, executorVars, WaitingApart
    <2>3. ASSUME NEW w \in Worker, Pool!Acquire(w, executing), executor' = "acquiring"
          PROVE  WaitingApart'
      BY <1>1, <1>3, <2>1, <2>3 DEF AcquireWorker, Pool!Acquire, WaitingApart
    <2>4. QED BY <1>3, <2>2, <2>3 DEF AcquireWorker
  <1>4. CASE ~PopBatch /\ ~AcquireWorker
    <2>1. \A op \in Operation : reverse'[op] \in {reverse[op], NoWorker}
      BY <1>4, ReverseStep
    <2>2. /\ executing' \subseteq executing
          /\ executor' = "waiting" => executor = "waiting"
      BY <1>4, ExecutingStep
    <2>3. \A op \in queue' : reverse'[op] = NoWorker
      BY <1>1, <2>1, QueueStep DEF WaitingApart
    <2>4. ASSUME executor' = "waiting", NEW op \in executing'
          PROVE  reverse'[op] = NoWorker /\ op \notin queue'
      BY <1>1, <2>1, <2>2, <2>4, QueueStep DEF WaitingApart
    <2>5. QED BY <2>3, <2>4 DEF WaitingApart
  <1>5. QED BY <1>2, <1>3, <1>4

-----------------------------------------------------------------------------
(* The database: only rows of objects it holds are written.                *)
LEMMA FinalizedElsewhere ==
  ASSUME NEW pairs, NEW rows, NEW o \in Object, \A p \in pairs : p[1] # o
  PROVE  Finalized(pairs, rows)[o] = rows[o]
  BY DEF Finalized

LEMMA DeletedRowsStay ==
  ASSUME Typed, [Next]_vars
  PROVE  \A o \in Object \cap deleted : db'[o] = db[o]
  <1> DEFINE Goal == \A o \in Object \cap deleted : db'[o] = db[o]
  <1> db \in Rows /\ fd \subseteq GoodResult
    BY DEF Typed, CacheTyped
  <1>1. ASSUME NEW s \in Submission, NewSubmission(s) PROVE Goal
    <2> DEFINE pairs == {<<s, FALSE>>}
    <2>1. \A p \in pairs : p[1] = s
      BY Zenon, FreshPair DEF Object
    <2>2. db' = Finalized(pairs, db) /\ s \notin deleted
      BY <1>1 DEF NewSubmission
    <2> HIDE DEF pairs
    <2>3. QED BY <2>1, <2>2, FinalizedElsewhere
  <1>2. ASSUME NEW u \in UserTest, NewUserTest(u) PROVE Goal
    BY <1>2 DEF NewUserTest, dbVars
  <1>3. ASSUME NEW op \in Operation, Enqueue(op) PROVE Goal
    BY <1>3 DEF Enqueue, dbVars
  <1>4. CASE EnqueueLost
    BY <1>4 DEF EnqueueLost, dbVars
  <1>5. CASE Sweep
    BY <1>5 DEF Sweep, dbVars
  <1>6. CASE PopBatch
    BY <1>6 DEF PopBatch, dbVars
  <1>7. CASE AcquireWorker
    BY <1>7 DEF AcquireWorker, dbVars
  <1>8. CASE NothingToExecute
    BY <1>8 DEF NothingToExecute, dbVars
  <1>9. CASE SendJobGroup
    BY <1>9 DEF SendJobGroup, dbVars
  <1>10. CASE AcquireWorkerRaises
    BY <1>10 DEF AcquireWorkerRaises, dbVars
  <1>11. ASSUME NEW c \in calls, WorkerFinishes(c) PROVE Goal
    BY <1>11 DEF WorkerFinishes, dbVars
  <1>12. ASSUME NEW c \in calls, WorkerFails(c) PROVE Goal
    BY <1>12 DEF WorkerFails, dbVars
  <1>13. ASSUME NEW c \in calls, ActionFinished(c) PROVE Goal
    BY <1>13 DEF ActionFinished, dbVars
  <1>14. CASE Flush
    BY <1>14 DEF Flush, dbVars
  <1>15. CASE StartWriting
    BY <1>15 DEF StartWriting, dbVars
  <1>16. CASE WriteResults
    BY <1>16, WriteResultsTyped
  <1>17. CASE SetEvaluationOutcomes
    BY <1>17 DEF SetEvaluationOutcomes
  <1>18. CASE EndOperations
    <2>1. \A p \in EndedPairs(fd) : p[1] \notin deleted
      BY <1>18, EndedPairsTyped DEF EndOperations
    <2>2. QED BY <1>18, <2>1, FinalizedElsewhere DEF EndOperations
  <1>19. CASE EndOperationsRaises
    <2>1. PICK past \in SUBSET {r \in fd : r.op.obj \notin deleted} :
            db' = Finalized(EndedPairs(past), db)
      BY <1>19 DEF EndOperationsRaises
    <2>2. \A p \in EndedPairs(past) : p[1] \notin deleted
      BY EndedPairsTyped
    <2>3. QED BY <2>1, <2>2, FinalizedElsewhere
  <1>20. ASSUME NEW s \in Submission, NEW l \in Levels, NEW a \in ArchiveRequests,
               InvalidateSubmission(s, l[1], l[2], a)
        PROVE  Goal
    <2>1. PICK row : db' = Finalized({<<s, a>>}, [db EXCEPT ![s] = row])
      BY Zenon, <1>20 DEF InvalidateSubmission
    <2>2. s \notin deleted /\ \A p \in {<<s, a>>} : p[1] = s
      BY <1>20 DEF InvalidateSubmission
    <2> DEFINE rows == [db EXCEPT ![s] = row]
               pairs == {<<s, a>>}
    <2>3. \A o \in Object \cap deleted : rows[o] = db[o]
      BY <2>2 DEF Rows
    <2> HIDE DEF rows, pairs
    <2>4. \A o \in Object \cap deleted : Finalized(pairs, rows)[o] = rows[o]
      BY <2>2, FinalizedElsewhere DEF pairs
    <2>5. QED BY <2>1, <2>3, <2>4 DEF rows, pairs
  <1>21. ASSUME NEW o \in Object, DeleteObject(o) PROVE Goal
    BY <1>21 DEF DeleteObject, dbVars
  <1>22. CASE CheckWorkersTimeout
    BY <1>22 DEF CheckWorkersTimeout, dbVars
  <1>23. CASE CheckWorkersConnection
    BY <1>23 DEF CheckWorkersConnection, dbVars
  <1>24. ASSUME NEW w \in Worker, DisableWorker(w) PROVE Goal
    BY <1>24 DEF DisableWorker, dbVars
  <1>25. ASSUME NEW w \in Worker, EnableWorker(w) PROVE Goal
    BY <1>25 DEF EnableWorker, dbVars
  <1>26. ASSUME NEW w \in Worker, Connect(w) PROVE Goal
    BY <1>26 DEF Connect, dbVars
  <1>27. ASSUME NEW w \in Worker, OnWorkerConnected(w) PROVE Goal
    BY <1>27 DEF OnWorkerConnected, dbVars
  <1>28. ASSUME NEW w \in Worker, Disconnect(w) PROVE Goal
    BY <1>28 DEF Disconnect, dbVars
  <1>29. CASE Crash
    BY <1>29 DEF Crash, dbVars
  <1>30. CASE UNCHANGED vars
    BY <1>30 DEF vars, dbVars
  <1>31. QED
    BY <1>1, <1>2, <1>3, <1>4, <1>5, <1>6, <1>7, <1>8, <1>9, <1>10,
       <1>11, <1>12, <1>13, <1>14, <1>15, <1>16, <1>17, <1>18, <1>19,
       <1>20, <1>21, <1>22, <1>23, <1>24, <1>25, <1>26, <1>27, <1>28,
       <1>29, <1>30 DEF Next

(* What is put in the queue, or on the way there, is of an object the      *)
(* database holds, or comes back from the pool.                            *)
LEMMA AskedStep ==
  ASSUME Typed, [Next]_vars,
         \A s \in Submission \cap deleted : db[s].compilation # "tombstone"
  PROVE  \A op \in queue' \cup requests' \cup lost' :
           \/ op \in queue \cup requests \cup lost
           \/ op.obj \notin deleted
           \/ \E w \in Worker : op \in operations[w]
  <1> DEFINE Goal == \A op \in queue' \cup requests' \cup lost' :
                       \/ op \in queue \cup requests \cup lost
                       \/ op.obj \notin deleted
                       \/ \E w \in Worker : op \in operations[w]
  <1> db \in Rows /\ fd \subseteq GoodResult
    BY DEF Typed, CacheTyped
  <1>1. ASSUME NEW s \in Submission, NewSubmission(s) PROVE Goal
    <2>1. s \in Object /\ s \notin deleted
      BY <1>1 DEF NewSubmission, Object
    <2>2. \A op \in Wanted({<<s, FALSE>>}, db) : op.obj \notin deleted
      BY Zenon, <2>1, WantedFor
    <2>3. QED BY <1>1, <2>2 DEF NewSubmission
  <1>2. ASSUME NEW u \in UserTest, NewUserTest(u) PROVE Goal
    <2>1. u \in Object /\ u \notin deleted
      BY <1>2 DEF NewUserTest, Object
    <2>2. \A op \in Wanted({<<u, FALSE>>}, db) : op.obj \notin deleted
      BY Zenon, <2>1, WantedFor
    <2>3. QED BY <1>2, <2>2 DEF NewUserTest
  <1>3. ASSUME NEW op \in Operation, Enqueue(op) PROVE Goal
    BY <1>3 DEF Enqueue, Enqueued
  <1>4. CASE EnqueueLost
    BY <1>4 DEF EnqueueLost, Enqueued
  <1>5. CASE Sweep
    <2>1. /\ UserTest \ deleted \in SUBSET Object
          /\ Submission \ deleted \in SUBSET Object
      BY DEF Object
    <2>2. \A op \in MissingUserTestOperations : op.obj \in UserTest \ deleted
      BY Zenon, <2>1, WantedForAll DEF MissingUserTestOperations
    <2>3. \A op \in MissingOperations : op.obj \in Submission \ deleted
      BY Zenon, <2>1, WantedForAll DEF MissingOperations
    <2>4. QED BY <1>5, <2>2, <2>3 DEF Sweep, Enqueued, requestVars
  <1>6. CASE PopBatch
    BY <1>6 DEF PopBatch, requestVars
  <1>7. CASE AcquireWorker
    BY <1>7 DEF AcquireWorker, requestVars
  <1>8. CASE NothingToExecute
    BY <1>8 DEF NothingToExecute, requestVars
  <1>9. CASE SendJobGroup
    BY <1>9 DEF SendJobGroup, requestVars
  <1>10. CASE AcquireWorkerRaises
    BY <1>10 DEF AcquireWorkerRaises, requestVars
  <1>11. ASSUME NEW c \in calls, WorkerFinishes(c) PROVE Goal
    BY <1>11 DEF WorkerFinishes, requestVars
  <1>12. ASSUME NEW c \in calls, WorkerFails(c) PROVE Goal
    BY <1>12 DEF WorkerFails, requestVars
  <1>13. ASSUME NEW c \in calls, ActionFinished(c) PROVE Goal
    BY <1>13 DEF ActionFinished, requestVars
  <1>14. CASE Flush
    BY <1>14 DEF Flush, requestVars
  <1>15. CASE StartWriting
    BY <1>15 DEF StartWriting, requestVars
  <1>16. CASE WriteResults
    <2> DEFINE found == {s \in Submission : db[s].compilation = "tombstone"
                                             /\ db'[s].compilation = "none"}
    <2>1. queue' = Enqueued({CompilationOp(s, FALSE) : s \in found},
                            queue, executing, reverse)
      BY <1>16 DEF WriteResults
    <2>2. \A s \in found : s \notin deleted
      OBVIOUS
    <2> DEFINE no == FALSE
               new == {CompilationOp(s, no) : s \in found}
    <2> HIDE DEF found, no
    <2>3. \A op \in new : op.obj \notin deleted
      BY <2>2, CompilationOpFields
    <2> HIDE DEF new
    <2>4. queue' = Enqueued(new, queue, executing, reverse)
      BY Zenon, <2>1 DEF new, no
    <2>5. QED BY <1>16, <2>3, <2>4 DEF WriteResults, Enqueued, requestVars
  <1>17. CASE SetEvaluationOutcomes
    BY <1>17 DEF SetEvaluationOutcomes, requestVars
  <1>18. CASE EndOperations
    <2>1. /\ EndedPairs(fd) \subseteq Pairs
          /\ \A p \in EndedPairs(fd) : p[1] \notin deleted
      BY <1>18, EndedPairsTyped DEF EndOperations
    <2>2. \A op \in Wanted(EndedPairs(fd), db) : op.obj \notin deleted
      BY <2>1, WantedAreOperations
    <2>3. QED BY <1>18, <2>2 DEF EndOperations, Enqueued, requestVars
  <1>19. CASE EndOperationsRaises
    <2>1. PICK past \in SUBSET {r \in fd : r.op.obj \notin deleted} :
            queue' = Enqueued(Wanted(EndedPairs(past), db), queue, executing, reverse)
      BY <1>19 DEF EndOperationsRaises
    <2>2. /\ EndedPairs(past) \subseteq Pairs
          /\ \A p \in EndedPairs(past) : p[1] \notin deleted
      BY EndedPairsTyped
    <2>3. \A op \in Wanted(EndedPairs(past), db) : op.obj \notin deleted
      BY <2>2, WantedAreOperations
    <2>4. QED BY <1>19, <2>1, <2>3 DEF EndOperationsRaises, Enqueued, requestVars
  <1>20. ASSUME NEW s \in Submission, NEW l \in Levels, NEW a \in ArchiveRequests,
               InvalidateSubmission(s, l[1], l[2], a)
        PROVE  Goal
    <2>1. \E row :
            queue' = Enqueued(Wanted({<<s, a>>}, [db EXCEPT ![s] = row]),
                              queue \ RelevantOperations(s, l[1]),
                              executing \ (RelevantOperations(s, l[1]) \ queue),
                              reverse)
      BY Zenon, <1>20 DEF InvalidateSubmission
    <2>2. {<<s, a>>} \subseteq Pairs /\ \A p \in {<<s, a>>} : p[1] = s
      BY AskedPair
    <2>3. s \notin deleted
      BY <1>20 DEF InvalidateSubmission
    <2>4. \A row : \A op \in Wanted({<<s, a>>}, row) : op.obj \notin deleted
      BY <2>2, <2>3, WantedAreOperations
    <2>5. QED BY <1>20, <2>1, <2>4 DEF InvalidateSubmission, Enqueued, requestVars
  <1>21. ASSUME NEW o \in Object, DeleteObject(o) PROVE Goal
    BY <1>21 DEF DeleteObject, requestVars
  <1>22. CASE CheckWorkersTimeout
    <2>1. PICK ws \in SUBSET Worker : PutAgain(Pool!NotIgnored(ws))
      BY <1>22 DEF CheckWorkersTimeout
    <2>2. QED BY <1>22, <2>1 DEF CheckWorkersTimeout, PutAgain, Enqueued, Pool!NotIgnored
  <1>23. CASE CheckWorkersConnection
    BY <1>23 DEF CheckWorkersConnection, PutAgain, Enqueued, Pool!Unconnected
  <1>24. ASSUME NEW w \in Worker, DisableWorker(w) PROVE Goal
    BY <1>24 DEF DisableWorker, PutAgain, Enqueued, Pool!NotIgnored
  <1>25. ASSUME NEW w \in Worker, EnableWorker(w) PROVE Goal
    BY <1>25 DEF EnableWorker, requestVars
  <1>26. ASSUME NEW w \in Worker, Connect(w) PROVE Goal
    BY <1>26 DEF Connect, requestVars
  <1>27. ASSUME NEW w \in Worker, OnWorkerConnected(w) PROVE Goal
    BY <1>27 DEF OnWorkerConnected, requestVars
  <1>28. ASSUME NEW w \in Worker, Disconnect(w) PROVE Goal
    BY <1>28 DEF Disconnect, requestVars
  <1>29. CASE Crash
    BY <1>29 DEF Crash, requestVars
  <1>30. CASE UNCHANGED vars
    BY <1>30 DEF vars, requestVars
  <1>31. QED
    BY <1>1, <1>2, <1>3, <1>4, <1>5, <1>6, <1>7, <1>8, <1>9, <1>10,
       <1>11, <1>12, <1>13, <1>14, <1>15, <1>16, <1>17, <1>18, <1>19,
       <1>20, <1>21, <1>22, <1>23, <1>24, <1>25, <1>26, <1>27, <1>28,
       <1>29, <1>30 DEF Next


LEMMA BatchStep ==
  ASSUME Typed, [Next]_vars
  PROVE  \A w \in Worker : operations'[w] \subseteq operations[w] \cup executing
  <1> DEFINE Goal ==
               \A w \in Worker : operations'[w] \subseteq operations[w] \cup executing
  <1> operations \in [Worker -> SUBSET Operation]
    BY DEF Typed, Pool!TypeOK
  <1>1. ASSUME NEW s \in Submission, NewSubmission(s) PROVE Goal
    BY <1>1 DEF NewSubmission, poolVars
  <1>2. ASSUME NEW u \in UserTest, NewUserTest(u) PROVE Goal
    BY <1>2 DEF NewUserTest, poolVars
  <1>3. ASSUME NEW op \in Operation, Enqueue(op) PROVE Goal
    BY <1>3 DEF Enqueue, poolVars
  <1>4. CASE EnqueueLost
    BY <1>4 DEF EnqueueLost, poolVars
  <1>5. CASE Sweep
    BY <1>5 DEF Sweep, poolVars
  <1>6. CASE PopBatch
    BY <1>6 DEF PopBatch, poolVars
  <1>7. CASE AcquireWorker
    BY <1>7 DEF AcquireWorker, Pool!AcquireNone, Pool!Acquire
  <1>8. CASE NothingToExecute
    BY <1>8 DEF NothingToExecute, poolVars
  <1>9. CASE SendJobGroup
    BY <1>9 DEF SendJobGroup, poolVars
  <1>10. CASE AcquireWorkerRaises
    BY <1>10 DEF AcquireWorkerRaises, poolVars
  <1>11. ASSUME NEW c \in calls, WorkerFinishes(c) PROVE Goal
    BY <1>11 DEF WorkerFinishes, poolVars
  <1>12. ASSUME NEW c \in calls, WorkerFails(c) PROVE Goal
    BY <1>12 DEF WorkerFails, poolVars
  <1>13. ASSUME NEW c \in calls, ActionFinished(c) PROVE Goal
    BY <1>13 DEF ActionFinished, Pool!ReleaseWorker, Pool!ReleaseWorkers
  <1>14. CASE Flush
    BY <1>14 DEF Flush, poolVars
  <1>15. CASE StartWriting
    BY <1>15 DEF StartWriting, poolVars
  <1>16. CASE WriteResults
    BY <1>16 DEF WriteResults, poolVars
  <1>17. CASE SetEvaluationOutcomes
    BY <1>17 DEF SetEvaluationOutcomes, poolVars
  <1>18. CASE EndOperations
    BY <1>18 DEF EndOperations, poolVars
  <1>19. CASE EndOperationsRaises
    BY <1>19 DEF EndOperationsRaises, poolVars
  <1>20. ASSUME NEW s \in Submission, NEW l \in Levels, NEW a \in ArchiveRequests,
               InvalidateSubmission(s, l[1], l[2], a)
        PROVE  Goal
    BY <1>20 DEF InvalidateSubmission
  <1>21. ASSUME NEW o \in Object, DeleteObject(o) PROVE Goal
    BY <1>21 DEF DeleteObject, poolVars
  <1>22. CASE CheckWorkersTimeout
    BY <1>22 DEF CheckWorkersTimeout, Pool!CheckTimeouts, Pool!ReleaseWorkers
  <1>23. CASE CheckWorkersConnection
    BY <1>23 DEF CheckWorkersConnection, Pool!CheckConnections, Pool!ReleaseWorkers
  <1>24. ASSUME NEW w \in Worker, DisableWorker(w) PROVE Goal
    BY <1>24 DEF DisableWorker, Pool!DisableWorker, Pool!ReleaseWorkers
  <1>25. ASSUME NEW w \in Worker, EnableWorker(w) PROVE Goal
    BY <1>25 DEF EnableWorker, Pool!EnableWorker
  <1>26. ASSUME NEW w \in Worker, Connect(w) PROVE Goal
    BY <1>26 DEF Connect, Pool!Connect
  <1>27. ASSUME NEW w \in Worker, OnWorkerConnected(w) PROVE Goal
    BY <1>27 DEF OnWorkerConnected, Pool!OnWorkerConnected
  <1>28. ASSUME NEW w \in Worker, Disconnect(w) PROVE Goal
    BY <1>28 DEF Disconnect, Pool!Disconnect
  <1>29. CASE Crash
    BY <1>29 DEF Crash, Pool!Restart
  <1>30. CASE UNCHANGED vars
    BY <1>30 DEF vars, poolVars
  <1>31. QED
    BY <1>1, <1>2, <1>3, <1>4, <1>5, <1>6, <1>7, <1>8, <1>9, <1>10,
       <1>11, <1>12, <1>13, <1>14, <1>15, <1>16, <1>17, <1>18, <1>19,
       <1>20, <1>21, <1>22, <1>23, <1>24, <1>25, <1>26, <1>27, <1>28,
       <1>29, <1>30 DEF Next

(* The budgets of faults are only spent.                                   *)
LEMMA SpentFaults ==
  ASSUME faults \in [FaultKinds -> Nat], NEW kind \in FaultKinds, Fault(kind)
  PROVE  \A k \in FaultKinds : faults[k] = 0 => faults'[k] = 0
  BY DEF Fault

LEMMA FaultsStep ==
  ASSUME faults \in [FaultKinds -> Nat], [Next]_vars
  PROVE  \A k \in FaultKinds : faults[k] = 0 => faults'[k] = 0
  <1> DEFINE Goal == \A k \in FaultKinds : faults[k] = 0 => faults'[k] = 0
  <1> USE SpentFaults
  <1>1. ASSUME NEW s \in Submission, NewSubmission(s) PROVE Goal
    BY <1>1 DEF NewSubmission
  <1>2. ASSUME NEW u \in UserTest, NewUserTest(u) PROVE Goal
    BY <1>2 DEF NewUserTest
  <1>3. ASSUME NEW op \in Operation, Enqueue(op) PROVE Goal
    BY <1>3 DEF Enqueue
  <1>4. CASE EnqueueLost
    BY <1>4 DEF EnqueueLost
  <1>5. CASE Sweep
    BY <1>5 DEF Sweep
  <1>6. CASE PopBatch
    BY <1>6 DEF PopBatch
  <1>7. CASE AcquireWorker
    BY <1>7 DEF AcquireWorker
  <1>8. CASE NothingToExecute
    BY <1>8 DEF NothingToExecute
  <1>9. CASE SendJobGroup
    BY <1>9 DEF SendJobGroup
  <1>10. CASE AcquireWorkerRaises
    BY <1>10 DEF AcquireWorkerRaises, FaultKinds
  <1>11. ASSUME NEW c \in calls, WorkerFinishes(c) PROVE Goal
    BY <1>11 DEF WorkerFinishes
  <1>12. ASSUME NEW c \in calls, WorkerFails(c) PROVE Goal
    BY <1>12 DEF WorkerFails, FaultKinds
  <1>13. ASSUME NEW c \in calls, ActionFinished(c) PROVE Goal
    BY <1>13 DEF ActionFinished
  <1>14. CASE Flush
    BY <1>14 DEF Flush
  <1>15. CASE StartWriting
    BY <1>15 DEF StartWriting
  <1>16. CASE WriteResults
    BY <1>16 DEF WriteResults
  <1>17. CASE SetEvaluationOutcomes
    BY <1>17 DEF SetEvaluationOutcomes
  <1>18. CASE EndOperations
    BY <1>18 DEF EndOperations
  <1>19. CASE EndOperationsRaises
    BY <1>19 DEF EndOperationsRaises
  <1>20. ASSUME NEW s \in Submission, NEW l \in Levels, NEW a \in ArchiveRequests,
               InvalidateSubmission(s, l[1], l[2], a)
        PROVE  Goal
    BY <1>20 DEF InvalidateSubmission, FaultKinds
  <1>21. ASSUME NEW o \in Object, DeleteObject(o) PROVE Goal
    BY <1>21 DEF DeleteObject, FaultKinds
  <1>22. CASE CheckWorkersTimeout
    BY <1>22 DEF CheckWorkersTimeout, FaultKinds
  <1>23. CASE CheckWorkersConnection
    BY <1>23 DEF CheckWorkersConnection
  <1>24. ASSUME NEW w \in Worker, DisableWorker(w) PROVE Goal
    BY <1>24 DEF DisableWorker, FaultKinds
  <1>25. ASSUME NEW w \in Worker, EnableWorker(w) PROVE Goal
    BY <1>25 DEF EnableWorker
  <1>26. ASSUME NEW w \in Worker, Connect(w) PROVE Goal
    BY <1>26 DEF Connect
  <1>27. ASSUME NEW w \in Worker, OnWorkerConnected(w) PROVE Goal
    BY <1>27 DEF OnWorkerConnected
  <1>28. ASSUME NEW w \in Worker, Disconnect(w) PROVE Goal
    BY <1>28 DEF Disconnect, FaultKinds
  <1>29. CASE Crash
    BY <1>29 DEF Crash, FaultKinds
  <1>30. CASE UNCHANGED vars
    BY <1>30 DEF vars
  <1>31. QED
    BY <1>1, <1>2, <1>3, <1>4, <1>5, <1>6, <1>7, <1>8, <1>9, <1>10,
       <1>11, <1>12, <1>13, <1>14, <1>15, <1>16, <1>17, <1>18, <1>19,
       <1>20, <1>21, <1>22, <1>23, <1>24, <1>25, <1>26, <1>27, <1>28,
       <1>29, <1>30 DEF Next

LEMMA DeletedStep ==
  ASSUME faults \in [FaultKinds -> Nat], faults["delete"] = 0, [Next]_vars
  PROVE  deleted' = deleted
  <1>1. ASSUME NEW s \in Submission, NewSubmission(s)
        PROVE  deleted' = deleted
    BY <1>1 DEF NewSubmission, dbVars
  <1>2. ASSUME NEW u \in UserTest, NewUserTest(u) PROVE deleted' = deleted
    BY <1>2 DEF NewUserTest, dbVars
  <1>3. ASSUME NEW op \in Operation, Enqueue(op) PROVE deleted' = deleted
    BY <1>3 DEF Enqueue, dbVars
  <1>4. CASE EnqueueLost
    BY <1>4 DEF EnqueueLost, dbVars
  <1>5. CASE Sweep
    BY <1>5 DEF Sweep, dbVars
  <1>6. CASE PopBatch
    BY <1>6 DEF PopBatch, dbVars
  <1>7. CASE AcquireWorker
    BY <1>7 DEF AcquireWorker, dbVars
  <1>8. CASE NothingToExecute
    BY <1>8 DEF NothingToExecute, dbVars
  <1>9. CASE SendJobGroup
    BY <1>9 DEF SendJobGroup, dbVars
  <1>10. CASE AcquireWorkerRaises
    BY <1>10 DEF AcquireWorkerRaises, dbVars
  <1>11. ASSUME NEW c \in calls, WorkerFinishes(c) PROVE deleted' = deleted
    BY <1>11 DEF WorkerFinishes, dbVars
  <1>12. ASSUME NEW c \in calls, WorkerFails(c) PROVE deleted' = deleted
    BY <1>12 DEF WorkerFails, dbVars
  <1>13. ASSUME NEW c \in calls, ActionFinished(c) PROVE deleted' = deleted
    BY <1>13 DEF ActionFinished, dbVars
  <1>14. CASE Flush
    BY <1>14 DEF Flush, dbVars
  <1>15. CASE StartWriting
    BY <1>15 DEF StartWriting, dbVars
  <1>16. CASE WriteResults
    BY <1>16 DEF WriteResults, dbVars
  <1>17. CASE SetEvaluationOutcomes
    BY <1>17 DEF SetEvaluationOutcomes, dbVars
  <1>18. CASE EndOperations
    BY <1>18 DEF EndOperations, dbVars
  <1>19. CASE EndOperationsRaises
    BY <1>19 DEF EndOperationsRaises, dbVars
  <1>20. ASSUME NEW s \in Submission, NEW l \in Levels, NEW a \in ArchiveRequests,
               InvalidateSubmission(s, l[1], l[2], a)
        PROVE  deleted' = deleted
    BY <1>20 DEF InvalidateSubmission, dbVars
  <1>21. ASSUME NEW o \in Object, DeleteObject(o) PROVE deleted' = deleted
    BY <1>21 DEF DeleteObject, Fault
  <1>22. CASE CheckWorkersTimeout
    BY <1>22 DEF CheckWorkersTimeout, dbVars
  <1>23. CASE CheckWorkersConnection
    BY <1>23 DEF CheckWorkersConnection, dbVars
  <1>24. ASSUME NEW w \in Worker, DisableWorker(w) PROVE deleted' = deleted
    BY <1>24 DEF DisableWorker, dbVars
  <1>25. ASSUME NEW w \in Worker, EnableWorker(w) PROVE deleted' = deleted
    BY <1>25 DEF EnableWorker, dbVars
  <1>26. ASSUME NEW w \in Worker, Connect(w) PROVE deleted' = deleted
    BY <1>26 DEF Connect, dbVars
  <1>27. ASSUME NEW w \in Worker, OnWorkerConnected(w)
        PROVE  deleted' = deleted
    BY <1>27 DEF OnWorkerConnected, dbVars
  <1>28. ASSUME NEW w \in Worker, Disconnect(w) PROVE deleted' = deleted
    BY <1>28 DEF Disconnect, dbVars
  <1>29. CASE Crash
    BY <1>29 DEF Crash, dbVars
  <1>30. CASE UNCHANGED vars
    BY <1>30 DEF vars, dbVars
  <1>31. QED
    BY <1>1, <1>2, <1>3, <1>4, <1>5, <1>6, <1>7, <1>8, <1>9, <1>10,
       <1>11, <1>12, <1>13, <1>14, <1>15, <1>16, <1>17, <1>18, <1>19,
       <1>20, <1>21, <1>22, <1>23, <1>24, <1>25, <1>26, <1>27, <1>28,
       <1>29, <1>30 DEF Next

LEMMA AliasStep ==
  ASSUME SyncInv, NothingIsGone, faults["database"] = 0, [Next]_vars
  PROVE  alias' \in Worker => executor' = "acquiring"
  <1> DEFINE Goal == alias' \in Worker => executor' = "acquiring"
  <1> alias \in Worker => executor = "acquiring"
    BY DEF NothingIsGone
  <1>1. ASSUME NEW s \in Submission, NewSubmission(s) PROVE Goal
    BY <1>1 DEF NewSubmission, executorVars
  <1>2. ASSUME NEW u \in UserTest, NewUserTest(u) PROVE Goal
    BY <1>2 DEF NewUserTest, executorVars
  <1>3. ASSUME NEW op \in Operation, Enqueue(op) PROVE Goal
    BY <1>3 DEF Enqueue, executorVars
  <1>4. CASE EnqueueLost
    BY <1>4 DEF EnqueueLost, executorVars
  <1>5. CASE Sweep
    BY <1>5 DEF Sweep, executorVars
  <1>6. CASE PopBatch
    BY <1>6, NoWorkerAssumption DEF PopBatch
  <1>7. CASE AcquireWorker
    BY <1>7 DEF AcquireWorker, executorVars
  <1>8. CASE NothingToExecute
    BY <1>8 DEF NothingToExecute, executorVars
  <1>9. CASE SendJobGroup
    BY <1>9, NoWorkerAssumption DEF SendJobGroup
  <1>10. CASE AcquireWorkerRaises
    BY <1>10 DEF AcquireWorkerRaises, Fault, NothingIsGone
  <1>11. ASSUME NEW c \in calls, WorkerFinishes(c) PROVE Goal
    BY <1>11 DEF WorkerFinishes, executorVars
  <1>12. ASSUME NEW c \in calls, WorkerFails(c) PROVE Goal
    BY <1>12 DEF WorkerFails, executorVars
  <1>13. ASSUME NEW c \in calls, ActionFinished(c) PROVE Goal
    BY <1>13 DEF ActionFinished, executorVars
  <1>14. CASE Flush
    BY <1>14 DEF Flush, executorVars
  <1>15. CASE StartWriting
    BY <1>15 DEF StartWriting, executorVars
  <1>16. CASE WriteResults
    BY <1>16 DEF WriteResults, executorVars
  <1>17. CASE SetEvaluationOutcomes
    BY <1>17 DEF SetEvaluationOutcomes, executorVars
  <1>18. CASE EndOperations
    BY <1>18 DEF EndOperations, executorVars
  <1>19. CASE EndOperationsRaises
    BY <1>19 DEF EndOperationsRaises, executorVars
  <1>20. ASSUME NEW s \in Submission, NEW l \in Levels, NEW a \in ArchiveRequests,
               InvalidateSubmission(s, l[1], l[2], a)
        PROVE  Goal
    BY <1>20 DEF InvalidateSubmission, executorVars
  <1>21. ASSUME NEW o \in Object, DeleteObject(o) PROVE Goal
    BY <1>21 DEF DeleteObject, executorVars
  <1>22. CASE CheckWorkersTimeout
    BY <1>22 DEF CheckWorkersTimeout, executorVars
  <1>23. CASE CheckWorkersConnection
    BY <1>23 DEF CheckWorkersConnection, executorVars
  <1>24. ASSUME NEW w \in Worker, DisableWorker(w) PROVE Goal
    BY <1>24 DEF DisableWorker, executorVars
  <1>25. ASSUME NEW w \in Worker, EnableWorker(w) PROVE Goal
    BY <1>25 DEF EnableWorker, executorVars
  <1>26. ASSUME NEW w \in Worker, Connect(w) PROVE Goal
    BY <1>26 DEF Connect, executorVars
  <1>27. ASSUME NEW w \in Worker, OnWorkerConnected(w) PROVE Goal
    BY <1>27 DEF OnWorkerConnected, executorVars
  <1>28. ASSUME NEW w \in Worker, Disconnect(w) PROVE Goal
    BY <1>28 DEF Disconnect, executorVars
  <1>29. CASE Crash
    BY <1>29, NoWorkerAssumption DEF Crash
  <1>30. CASE UNCHANGED vars
    BY <1>30 DEF vars, executorVars
  <1>31. QED
    BY <1>1, <1>2, <1>3, <1>4, <1>5, <1>6, <1>7, <1>8, <1>9, <1>10,
       <1>11, <1>12, <1>13, <1>14, <1>15, <1>16, <1>17, <1>18, <1>19,
       <1>20, <1>21, <1>22, <1>23, <1>24, <1>25, <1>26, <1>27, <1>28,
       <1>29, <1>30 DEF Next

LEMMA NeverRaisesKept == ASSUME SyncInv, NeverRaises, [Next]_vars PROVE NeverRaises'
  <1> Typed /\ faults \in [FaultKinds -> Nat]
    BY DEF SyncInv, Typed, RestTyped
  <1> USE DEF NeverRaises
  <1>1. faults'["database"] = 0 /\ faults'["delete"] = 0
    BY FaultsStep DEF FaultKinds
  <1>2. deleted' = deleted
    BY DeletedStep
  <1>3. \A op \in queue' \cup requests' \cup lost' : op.obj \notin deleted
    BY AskedStep DEF NothingIsGone
  <1>4. \A op \in executing' : op.obj \notin deleted
    BY ExecutingStep DEF NothingIsGone
  <1>5. \A w \in Worker : \A op \in operations'[w] : op.obj \notin deleted
    BY BatchStep DEF NothingIsGone
  <1>6. \A s \in Submission \cap deleted : db'[s].compilation # "tombstone"
    BY DeletedRowsStay DEF NothingIsGone, Object
  <1>7. alias' \in Worker => executor' = "acquiring"
    BY AliasStep
  <1>8. NothingIsGone'
    BY <1>2, <1>3, <1>4, <1>5, <1>6, <1>7 DEF NothingIsGone
  <1>9. QED BY <1>1, <1>8

LEMMA AliasIsSafeKept == ASSUME SyncInv, [Next]_vars PROVE AliasIsSafe'
  <1>1. CASE faults["invalidate"] = 0
    BY <1>1, FaultsStep DEF SyncInv, Typed, RestTyped, AliasIsSafe, FaultKinds
  <1>2. CASE NeverRaises
    BY <1>2, NeverRaisesKept DEF AliasIsSafe
  <1>3. QED BY <1>1, <1>2 DEF SyncInv, AliasIsSafe

LEMMA NothingIsGoneInitially == Init => NothingIsGone
  <1> SUFFICES ASSUME Init PROVE NothingIsGone
    OBVIOUS
  <1>1. \A s \in Submission \cap deleted : db[s] = Blank
    BY DEF Init, Object
  <1>2. Blank.compilation # "tombstone"
    BY Zenon DEF Blank
  <1>3. QED
    BY <1>1, <1>2, NoWorkerAssumption DEF Init, Pool!Init, NothingIsGone

LEMMA SyncInitially == ASSUME NoAliasing PROVE Init => SyncInv
  <1> SUFFICES ASSUME Init PROVE SyncInv
    OBVIOUS
  <1>1. AliasIsSafe
    BY NothingIsGoneInitially DEF Init, NoAliasing, AliasIsSafe, NeverRaises
  <1>2. WaitingApart
    BY DEF Init, WaitingApart
  <1>3. QED BY <1>1, <1>2, InitTyped, PoolInitially DEF SyncInv

LEMMA SyncKept == SyncInv /\ [Next]_vars => SyncInv'
  <1> SUFFICES ASSUME SyncInv, [Next]_vars PROVE SyncInv'
    OBVIOUS
  <1>1. PoolInv'
    BY PoolStep, NextKeepsPoolInv DEF SyncInv
  <1>2. QED
    BY <1>1, NextTyped, WaitingApartKept, AliasIsSafeKept DEF SyncInv

LEMMA AlwaysSync == ASSUME NoAliasing PROVE Spec => []SyncInv
  BY SyncInitially, SyncKept, PTL DEF Spec

(* EvaluationService keeps the two dictionaries of the pool in agreement,  *)
(* whatever is timed out, disabled, disconnected, lost or killed.          *)
THEOREM EvaluationServicePoolInSync ==
  ASSUME NoAliasing PROVE Spec => []PoolInSync
  <1>1. SyncInv => PoolInSync
    BY PoolInvFacts DEF SyncInv, PoolInSync
  <1>2. QED BY <1>1, AlwaysSync, PTL

(* EvaluationService is a caller WorkerPool allows for: it never assigns   *)
(* what the pool has, and touches its dictionaries by its methods only.    *)
THEOREM EvaluationServicePoolSpec ==
  ASSUME NoAliasing PROVE Spec => PoolSpec
  <1>1. Init => Pool!Init
    BY DEF Init
  <1>2. SyncInv /\ [Next]_vars => [Pool!Next]_(Pool!vars)
    BY PoolStep
  <1>3. QED BY <1>1, <1>2, AlwaysSync, PTL DEF Spec, PoolSpec, Pool!Spec

-----------------------------------------------------------------------------
(* Answers.  A worker only becomes busy when execute takes it, and keeps   *)
(* its call until that is answered and frees it.                           *)
LEMMA BusyStep ==
  ASSUME Typed, [Next]_vars, NEW w \in Worker, status'[w] = Pool!Busy
  PROVE  \/ status[w] = Pool!Busy
         \/ AcquireWorker /\ executor' = "acquiring" /\ alias' = w
  <1> DEFINE Goal == \/ status[w] = Pool!Busy
                     \/ AcquireWorker /\ executor' = "acquiring" /\ alias' = w
  <1> status \in [Worker -> {Pool!Inactive, Pool!Disabled, Pool!Busy}]
    BY DEF Typed, Pool!TypeOK
  <1> Pool!Inactive # Pool!Busy /\ Pool!Disabled # Pool!Busy
    BY DEF Pool!Inactive, Pool!Disabled, Pool!Busy
  <1>1. ASSUME NEW s \in Submission, NewSubmission(s) PROVE Goal
    BY <1>1 DEF NewSubmission, poolVars
  <1>2. ASSUME NEW u \in UserTest, NewUserTest(u) PROVE Goal
    BY <1>2 DEF NewUserTest, poolVars
  <1>3. ASSUME NEW op \in Operation, Enqueue(op) PROVE Goal
    BY <1>3 DEF Enqueue, poolVars
  <1>4. CASE EnqueueLost
    BY <1>4 DEF EnqueueLost, poolVars
  <1>5. CASE Sweep
    BY <1>5 DEF Sweep, poolVars
  <1>6. CASE PopBatch
    BY <1>6 DEF PopBatch, poolVars
  <1>7. CASE AcquireWorker
    BY <1>7 DEF AcquireWorker, Pool!AcquireNone, Pool!Acquire
  <1>8. CASE NothingToExecute
    BY <1>8 DEF NothingToExecute, poolVars
  <1>9. CASE SendJobGroup
    BY <1>9 DEF SendJobGroup, poolVars
  <1>10. CASE AcquireWorkerRaises
    BY <1>10 DEF AcquireWorkerRaises, poolVars
  <1>11. ASSUME NEW c \in calls, WorkerFinishes(c) PROVE Goal
    BY <1>11 DEF WorkerFinishes, poolVars
  <1>12. ASSUME NEW c \in calls, WorkerFails(c) PROVE Goal
    BY <1>12 DEF WorkerFails, poolVars
  <1>13. ASSUME NEW c \in calls, ActionFinished(c) PROVE Goal
    BY <1>13 DEF ActionFinished, Pool!ReleaseWorker, Pool!ReleaseWorkers
  <1>14. CASE Flush
    BY <1>14 DEF Flush, poolVars
  <1>15. CASE StartWriting
    BY <1>15 DEF StartWriting, poolVars
  <1>16. CASE WriteResults
    BY <1>16 DEF WriteResults, poolVars
  <1>17. CASE SetEvaluationOutcomes
    BY <1>17 DEF SetEvaluationOutcomes, poolVars
  <1>18. CASE EndOperations
    BY <1>18 DEF EndOperations, poolVars
  <1>19. CASE EndOperationsRaises
    BY <1>19 DEF EndOperationsRaises, poolVars
  <1>20. ASSUME NEW s \in Submission, NEW l \in Levels, NEW a \in ArchiveRequests,
               InvalidateSubmission(s, l[1], l[2], a)
        PROVE  Goal
    BY <1>20 DEF InvalidateSubmission
  <1>21. ASSUME NEW o \in Object, DeleteObject(o) PROVE Goal
    BY <1>21 DEF DeleteObject, poolVars
  <1>22. CASE CheckWorkersTimeout
    BY <1>22 DEF CheckWorkersTimeout, Pool!CheckTimeouts, Pool!ReleaseWorkers
  <1>23. CASE CheckWorkersConnection
    BY <1>23 DEF CheckWorkersConnection, Pool!CheckConnections, Pool!ReleaseWorkers
  <1>24. ASSUME NEW v \in Worker, DisableWorker(v) PROVE Goal
    BY <1>24 DEF DisableWorker, Pool!DisableWorker, Pool!ReleaseWorkers
  <1>25. ASSUME NEW v \in Worker, EnableWorker(v) PROVE Goal
    BY <1>25 DEF EnableWorker, Pool!EnableWorker
  <1>26. ASSUME NEW v \in Worker, Connect(v) PROVE Goal
    BY <1>26 DEF Connect, Pool!Connect
  <1>27. ASSUME NEW v \in Worker, OnWorkerConnected(v) PROVE Goal
    BY <1>27 DEF OnWorkerConnected, Pool!OnWorkerConnected
  <1>28. ASSUME NEW v \in Worker, Disconnect(v) PROVE Goal
    BY <1>28 DEF Disconnect, Pool!Disconnect
  <1>29. CASE Crash
    BY <1>29 DEF Crash, Pool!Restart
  <1>30. CASE UNCHANGED vars
    BY <1>30 DEF vars, poolVars
  <1>31. QED
    BY <1>1, <1>2, <1>3, <1>4, <1>5, <1>6, <1>7, <1>8, <1>9, <1>10,
       <1>11, <1>12, <1>13, <1>14, <1>15, <1>16, <1>17, <1>18, <1>19,
       <1>20, <1>21, <1>22, <1>23, <1>24, <1>25, <1>26, <1>27, <1>28,
       <1>29, <1>30 DEF Next

(* The call of a worker stays, answered or not, until its callback has run.*)
LEMMA CallStep ==
  ASSUME Typed, [Next]_vars, NEW c \in calls
  PROVE  \/ \E b \in calls' : b.worker = c.worker
         \/ ActionFinished(c) \/ Crash
  <1> DEFINE Goal == \/ \E b \in calls' : b.worker = c.worker
                     \/ ActionFinished(c) \/ Crash
  <1> CallTyped(c)
    BY DEF Typed, CallsTyped
  <1>1. ASSUME NEW s \in Submission, NewSubmission(s) PROVE Goal
    BY <1>1 DEF NewSubmission
  <1>2. ASSUME NEW u \in UserTest, NewUserTest(u) PROVE Goal
    BY <1>2 DEF NewUserTest
  <1>3. ASSUME NEW op \in Operation, Enqueue(op) PROVE Goal
    BY <1>3 DEF Enqueue
  <1>4. CASE EnqueueLost
    BY <1>4 DEF EnqueueLost
  <1>5. CASE Sweep
    BY <1>5 DEF Sweep
  <1>6. CASE PopBatch
    BY <1>6 DEF PopBatch
  <1>7. CASE AcquireWorker
    BY <1>7 DEF AcquireWorker
  <1>8. CASE NothingToExecute
    BY <1>8 DEF NothingToExecute
  <1>9. CASE SendJobGroup
    BY <1>9 DEF SendJobGroup
  <1>10. CASE AcquireWorkerRaises
    BY <1>10 DEF AcquireWorkerRaises
  <1>11. ASSUME NEW b \in calls, WorkerFinishes(b) PROVE Goal
    <2>1. CASE b # c
      BY <1>11, <2>1 DEF WorkerFinishes
    <2>2. CASE b = c
      <3>1. PICK outcome \in [c.jobs -> {"ok", "fail", "error", "tombstone"}] :
              /\ \A j \in c.jobs : outcome[j] \in Outcomes(j)
              /\ calls' = (calls \ {c}) \cup
                   {[c EXCEPT !.answer = "done", !.jobs = Answers(c.jobs, outcome)]}
        BY <1>11, <2>2 DEF WorkerFinishes, Answers
      <3> DEFINE new == [c EXCEPT !.answer = "done", !.jobs = Answers(c.jobs, outcome)]
      <3>2. c.answer = "pending"
        BY <1>11, <2>2 DEF WorkerFinishes
      <3>3. new \in calls'
        BY <3>1
      <3>4. PICK x : x = new
        OBVIOUS
      <3> HIDE DEF new
      <3>5. x.worker = c.worker
        BY ZenonT(60), <3>1, <3>2, <3>4, AnsweredTyped DEF new
      <3>6. QED BY <3>3, <3>4, <3>5
    <2>3. QED BY <2>1, <2>2
  <1>12. ASSUME NEW b \in calls, WorkerFails(b) PROVE Goal
    BY <1>12, FailedTyped DEF WorkerFails
  <1>13. ASSUME NEW b \in calls, ActionFinished(b) PROVE Goal
    BY <1>13 DEF ActionFinished
  <1>14. CASE Flush
    BY <1>14 DEF Flush
  <1>15. CASE StartWriting
    BY <1>15 DEF StartWriting
  <1>16. CASE WriteResults
    BY <1>16 DEF WriteResults
  <1>17. CASE SetEvaluationOutcomes
    BY <1>17 DEF SetEvaluationOutcomes
  <1>18. CASE EndOperations
    BY <1>18 DEF EndOperations
  <1>19. CASE EndOperationsRaises
    BY <1>19 DEF EndOperationsRaises
  <1>20. ASSUME NEW s \in Submission, NEW l \in Levels, NEW a \in ArchiveRequests,
               InvalidateSubmission(s, l[1], l[2], a)
        PROVE  Goal
    BY <1>20 DEF InvalidateSubmission
  <1>21. ASSUME NEW o \in Object, DeleteObject(o) PROVE Goal
    BY <1>21 DEF DeleteObject
  <1>22. CASE CheckWorkersTimeout
    <2>1. PICK down : calls' = {IF b.worker \in down THEN Failed(b) ELSE b : b \in calls}
      BY <1>22 DEF CheckWorkersTimeout
    <2>2. (IF c.worker \in down THEN Failed(c) ELSE c) \in calls'
      BY <2>1
    <2>3. QED BY <2>2, FailedTyped
  <1>23. CASE CheckWorkersConnection
    BY <1>23 DEF CheckWorkersConnection
  <1>24. ASSUME NEW w \in Worker, DisableWorker(w) PROVE Goal
    BY <1>24 DEF DisableWorker
  <1>25. ASSUME NEW w \in Worker, EnableWorker(w) PROVE Goal
    BY <1>25 DEF EnableWorker
  <1>26. ASSUME NEW w \in Worker, Connect(w) PROVE Goal
    BY <1>26 DEF Connect
  <1>27. ASSUME NEW w \in Worker, OnWorkerConnected(w) PROVE Goal
    BY <1>27 DEF OnWorkerConnected
  <1>28. ASSUME NEW w \in Worker, Disconnect(w) PROVE Goal
    <2>1. (IF c.worker = w THEN Failed(c) ELSE c) \in calls'
      BY <1>28 DEF Disconnect
    <2>2. QED BY <2>1, FailedTyped
  <1>29. CASE Crash
    BY <1>29 DEF Crash
  <1>30. CASE UNCHANGED vars
    BY <1>30 DEF vars
  <1>31. QED
    BY <1>1, <1>2, <1>3, <1>4, <1>5, <1>6, <1>7, <1>8, <1>9, <1>10,
       <1>11, <1>12, <1>13, <1>14, <1>15, <1>16, <1>17, <1>18, <1>19,
       <1>20, <1>21, <1>22, <1>23, <1>24, <1>25, <1>26, <1>27, <1>28,
       <1>29, <1>30 DEF Next

(* The executor sends the call of the worker it took, if nothing raises.   *)
LEMMA AcquiringStep ==
  ASSUME SyncInv, NeverRaises, [Next]_vars, executor = "acquiring"
  PROVE  \/ executor' = "acquiring" /\ alias' = alias
         \/ \E c \in calls' : c.worker = alias
         \/ Crash
  <1> DEFINE Goal == \/ executor' = "acquiring" /\ alias' = alias
                     \/ \E c \in calls' : c.worker = alias
                     \/ Crash
  <1>1. ASSUME NEW s \in Submission, NewSubmission(s) PROVE Goal
    BY <1>1 DEF NewSubmission, executorVars
  <1>2. ASSUME NEW u \in UserTest, NewUserTest(u) PROVE Goal
    BY <1>2 DEF NewUserTest, executorVars
  <1>3. ASSUME NEW op \in Operation, Enqueue(op) PROVE Goal
    BY <1>3 DEF Enqueue, executorVars
  <1>4. CASE EnqueueLost
    BY <1>4 DEF EnqueueLost, executorVars
  <1>5. CASE Sweep
    BY <1>5 DEF Sweep, executorVars
  <1>6. CASE PopBatch
    BY <1>6 DEF PopBatch, executorVars
  <1>7. CASE AcquireWorker
    BY <1>7 DEF AcquireWorker, executorVars
  <1>8. CASE NothingToExecute
    BY <1>8 DEF NothingToExecute, executorVars
  <1>9. CASE SendJobGroup
    <2>1. NewCall(alias, executing).worker = alias
      BY DEF NewCall
    <2>2. QED BY <1>9, <2>1 DEF SendJobGroup
  <1>10. CASE AcquireWorkerRaises
    BY <1>10 DEF AcquireWorkerRaises, NeverRaises, NothingIsGone, Fault
  <1>11. ASSUME NEW c \in calls, WorkerFinishes(c) PROVE Goal
    BY <1>11 DEF WorkerFinishes, executorVars
  <1>12. ASSUME NEW c \in calls, WorkerFails(c) PROVE Goal
    BY <1>12 DEF WorkerFails, executorVars
  <1>13. ASSUME NEW c \in calls, ActionFinished(c) PROVE Goal
    BY <1>13 DEF ActionFinished, executorVars
  <1>14. CASE Flush
    BY <1>14 DEF Flush, executorVars
  <1>15. CASE StartWriting
    BY <1>15 DEF StartWriting, executorVars
  <1>16. CASE WriteResults
    BY <1>16 DEF WriteResults, executorVars
  <1>17. CASE SetEvaluationOutcomes
    BY <1>17 DEF SetEvaluationOutcomes, executorVars
  <1>18. CASE EndOperations
    BY <1>18 DEF EndOperations, executorVars
  <1>19. CASE EndOperationsRaises
    BY <1>19 DEF EndOperationsRaises, executorVars
  <1>20. ASSUME NEW s \in Submission, NEW l \in Levels, NEW a \in ArchiveRequests,
               InvalidateSubmission(s, l[1], l[2], a)
        PROVE  Goal
    BY <1>20 DEF InvalidateSubmission, executorVars
  <1>21. ASSUME NEW o \in Object, DeleteObject(o) PROVE Goal
    BY <1>21 DEF DeleteObject, executorVars
  <1>22. CASE CheckWorkersTimeout
    BY <1>22 DEF CheckWorkersTimeout, executorVars
  <1>23. CASE CheckWorkersConnection
    BY <1>23 DEF CheckWorkersConnection, executorVars
  <1>24. ASSUME NEW w \in Worker, DisableWorker(w) PROVE Goal
    BY <1>24 DEF DisableWorker, executorVars
  <1>25. ASSUME NEW w \in Worker, EnableWorker(w) PROVE Goal
    BY <1>25 DEF EnableWorker, executorVars
  <1>26. ASSUME NEW w \in Worker, Connect(w) PROVE Goal
    BY <1>26 DEF Connect, executorVars
  <1>27. ASSUME NEW w \in Worker, OnWorkerConnected(w) PROVE Goal
    BY <1>27 DEF OnWorkerConnected, executorVars
  <1>28. ASSUME NEW w \in Worker, Disconnect(w) PROVE Goal
    BY <1>28 DEF Disconnect, executorVars
  <1>29. CASE Crash
    BY <1>29 DEF Crash, executorVars
  <1>30. CASE UNCHANGED vars
    BY <1>30 DEF vars, executorVars
  <1>31. QED
    BY <1>1, <1>2, <1>3, <1>4, <1>5, <1>6, <1>7, <1>8, <1>9, <1>10,
       <1>11, <1>12, <1>13, <1>14, <1>15, <1>16, <1>17, <1>18, <1>19,
       <1>20, <1>21, <1>22, <1>23, <1>24, <1>25, <1>26, <1>27, <1>28,
       <1>29, <1>30 DEF Next

LEMMA BusyOwesAnswerKept ==
  ASSUME SyncInv, NeverRaises, BusyOwesAnswer, [Next]_vars
  PROVE  BusyOwesAnswer'
  <1> Typed
    BY DEF SyncInv
  <1> SUFFICES ASSUME NEW w \in Worker, status'[w] = Pool!Busy
               PROVE  \/ \E c \in calls' : c.worker = w
                      \/ executor' = "acquiring" /\ alias' = w
    BY DEF BusyOwesAnswer, Stuck
  <1>1. CASE AcquireWorker /\ executor' = "acquiring" /\ alias' = w
    BY <1>1
  <1>2. CASE status[w] = Pool!Busy
    <2>1. ~Crash
      BY DEF Crash, Pool!Restart, Pool!Busy, Pool!Inactive
    <2>2. CASE executor = "acquiring" /\ alias = w
      BY <2>1, <2>2, AcquiringStep
    <2>3. ASSUME NEW c \in calls, c.worker = w
          PROVE  \E b \in calls' : b.worker = w
      <3>1. ~ActionFinished(c)
        BY <1>2, <2>3 DEF ActionFinished, Pool!ReleaseWorker, Pool!ReleaseWorkers,
           Pool!Busy, Pool!Inactive
      <3>2. QED BY <2>1, <2>3, <3>1, CallStep
    <2>4. QED BY <1>2, <2>2, <2>3 DEF BusyOwesAnswer, Stuck
  <1>3. QED BY <1>1, <1>2, BusyStep

(* Nothing makes execute raise.                                            *)
ExecuteSucceeds == \A f \in Faults : f["database"] = 0 /\ f["delete"] = 0

(* As long as execute never raises, every busy worker owes an answer,      *)
(* whatever is timed out, disabled, enabled again, disconnected, restarted *)
(* or invalidated meanwhile: nobody has to wait for WORKER_TIMEOUT.        *)
THEOREM EvaluationServiceBusyOwesAnswer ==
  ASSUME ExecuteSucceeds PROVE Spec => []BusyOwesAnswer
  <1> DEFINE Inv == SyncInv /\ NeverRaises /\ BusyOwesAnswer
  <1>1. Init => Inv
    <2>1. NoAliasing
      BY DEF NoAliasing, ExecuteSucceeds
    <2>2. Init => SyncInv
      BY <2>1, SyncInitially
    <2>3. Init => NeverRaises
      BY NothingIsGoneInitially DEF Init, NeverRaises, ExecuteSucceeds
    <2>4. Init => BusyOwesAnswer
      BY DEF Init, Pool!Init, BusyOwesAnswer, Stuck, Pool!Busy, Pool!Inactive
    <2>5. QED BY <2>2, <2>3, <2>4
  <1>2. Inv /\ [Next]_vars => Inv'
    BY SyncKept, NeverRaisesKept, BusyOwesAnswerKept
  <1>3. Inv => BusyOwesAnswer
    OBVIOUS
  <1> HIDE DEF Inv
  <1>4. QED BY <1>1, <1>2, <1>3, PTL DEF Spec

-----------------------------------------------------------------------------
(* Workers keep their batch until they answer: none is found late, lost or *)
(* disabled.  (One that execute left without a call may time out.)         *)
NobodyLeaves ==
  \A f \in Faults : f["timeout"] = 0 /\ f["disable"] = 0 /\ f["disconnect"] = 0

StaysConnected ==
  /\ faults["timeout"] = 0 /\ faults["disable"] = 0 /\ faults["disconnect"] = 0
  /\ \A w \in Worker : status[w] = Pool!Busy => connected[w]

(* A busy worker has one call at most, about operations of its batch, and  *)
(* a worker that is not busy has none.                                     *)
OneCallEach ==
  /\ \A c \in calls : /\ status[c.worker] = Pool!Busy
                      /\ \A j \in c.jobs : j.op \in operations[c.worker]
  /\ \A b, c \in calls : b.worker = c.worker => b = c
  /\ executor = "acquiring" =>
       /\ status[alias] = Pool!Busy /\ operations[alias] = executing
       /\ \A c \in calls : c.worker # alias

(* What is in the cache is nowhere else.                                   *)
CachedApart ==
  /\ \A r \in d \cup fd : /\ reverse[r.op] = NoWorker /\ r.op \notin queue
                          /\ executor = "waiting" => r.op \notin executing
  /\ \A q \in d, r \in fd : q.op # r.op

PlaceInv == SyncInv /\ StaysConnected /\ OneCallEach /\ CachedApart

(* A job is about data nobody invalidated since, or its result is ignored. *)
JobsAreFresh ==
  \A c \in calls : \A j \in c.jobs :
    j.op \notin toIgnore[c.worker] => j.epoch = epoch[j.op.obj][j.op.type]

LEMMA ConnectedStep ==
  ASSUME Typed, [Next]_vars, NEW w \in Worker, ~connected'[w]
  PROVE  ~connected[w] \/ status'[w] # Pool!Busy \/ Fault("disconnect")
  <1> DEFINE Goal == ~connected[w] \/ status'[w] # Pool!Busy \/ Fault("disconnect")
  <1> connected \in [Worker -> BOOLEAN]
    BY DEF Typed, Pool!TypeOK
  <1>1. ASSUME NEW s \in Submission, NewSubmission(s) PROVE Goal
    BY <1>1 DEF NewSubmission, poolVars
  <1>2. ASSUME NEW u \in UserTest, NewUserTest(u) PROVE Goal
    BY <1>2 DEF NewUserTest, poolVars
  <1>3. ASSUME NEW op \in Operation, Enqueue(op) PROVE Goal
    BY <1>3 DEF Enqueue, poolVars
  <1>4. CASE EnqueueLost
    BY <1>4 DEF EnqueueLost, poolVars
  <1>5. CASE Sweep
    BY <1>5 DEF Sweep, poolVars
  <1>6. CASE PopBatch
    BY <1>6 DEF PopBatch, poolVars
  <1>7. CASE AcquireWorker
    BY <1>7 DEF AcquireWorker, Pool!AcquireNone, Pool!Acquire
  <1>8. CASE NothingToExecute
    BY <1>8 DEF NothingToExecute, poolVars
  <1>9. CASE SendJobGroup
    BY <1>9 DEF SendJobGroup, poolVars
  <1>10. CASE AcquireWorkerRaises
    BY <1>10 DEF AcquireWorkerRaises, poolVars
  <1>11. ASSUME NEW c \in calls, WorkerFinishes(c) PROVE Goal
    BY <1>11 DEF WorkerFinishes, poolVars
  <1>12. ASSUME NEW c \in calls, WorkerFails(c) PROVE Goal
    BY <1>12 DEF WorkerFails, poolVars
  <1>13. ASSUME NEW c \in calls, ActionFinished(c) PROVE Goal
    BY <1>13 DEF ActionFinished, Pool!ReleaseWorker
  <1>14. CASE Flush
    BY <1>14 DEF Flush, poolVars
  <1>15. CASE StartWriting
    BY <1>15 DEF StartWriting, poolVars
  <1>16. CASE WriteResults
    BY <1>16 DEF WriteResults, poolVars
  <1>17. CASE SetEvaluationOutcomes
    BY <1>17 DEF SetEvaluationOutcomes, poolVars
  <1>18. CASE EndOperations
    BY <1>18 DEF EndOperations, poolVars
  <1>19. CASE EndOperationsRaises
    BY <1>19 DEF EndOperationsRaises, poolVars
  <1>20. ASSUME NEW s \in Submission, NEW l \in Levels, NEW a \in ArchiveRequests,
               InvalidateSubmission(s, l[1], l[2], a)
        PROVE  Goal
    BY <1>20 DEF InvalidateSubmission
  <1>21. ASSUME NEW o \in Object, DeleteObject(o) PROVE Goal
    BY <1>21 DEF DeleteObject, poolVars
  <1>22. CASE CheckWorkersTimeout
    BY <1>22 DEF CheckWorkersTimeout, Pool!CheckTimeouts, Pool!ReleaseWorkers,
       Pool!Busy, Pool!Disabled, Pool!Inactive
  <1>23. CASE CheckWorkersConnection
    BY <1>23 DEF CheckWorkersConnection, Pool!CheckConnections
  <1>24. ASSUME NEW v \in Worker, DisableWorker(v) PROVE Goal
    BY <1>24 DEF DisableWorker, Pool!DisableWorker
  <1>25. ASSUME NEW v \in Worker, EnableWorker(v) PROVE Goal
    BY <1>25 DEF EnableWorker, Pool!EnableWorker
  <1>26. ASSUME NEW v \in Worker, Connect(v) PROVE Goal
    BY <1>26 DEF Connect, Pool!Connect
  <1>27. ASSUME NEW v \in Worker, OnWorkerConnected(v) PROVE Goal
    BY <1>27 DEF OnWorkerConnected, Pool!OnWorkerConnected
  <1>28. ASSUME NEW v \in Worker, Disconnect(v) PROVE Goal
    BY <1>28 DEF Disconnect
  <1>29. CASE Crash
    BY <1>29 DEF Crash, Pool!Restart, Pool!Inactive, Pool!Busy
  <1>30. CASE UNCHANGED vars
    BY <1>30 DEF vars, poolVars
  <1>31. QED
    BY <1>1, <1>2, <1>3, <1>4, <1>5, <1>6, <1>7, <1>8, <1>9, <1>10,
       <1>11, <1>12, <1>13, <1>14, <1>15, <1>16, <1>17, <1>18, <1>19,
       <1>20, <1>21, <1>22, <1>23, <1>24, <1>25, <1>26, <1>27, <1>28,
       <1>29, <1>30 DEF Next

LEMMA StaysConnectedKept ==
  ASSUME Typed, StaysConnected, [Next]_vars PROVE StaysConnected'
  <1>1. /\ faults' ["timeout"] = 0 /\ faults' ["disable"] = 0
        /\ faults' ["disconnect"] = 0
    BY FaultsStep DEF Typed, RestTyped, StaysConnected, FaultKinds
  <1>2. ~Fault("disconnect")
    BY DEF Fault, StaysConnected
  <1>3. ASSUME NEW w \in Worker, status'[w] = Pool!Busy PROVE connected'[w]
    <2>1. CASE status[w] = Pool!Busy
      BY <1>2, <1>3, <2>1, ConnectedStep DEF StaysConnected
    <2>2. CASE AcquireWorker /\ executor' = "acquiring" /\ alias' = w /\ status[w] # Pool!Busy
      BY <1>3, <2>2, ConnectedStep, <1>2 DEF AcquireWorker, Pool!Acquire, Pool!FreeWorkers,
         Pool!AcquireNone
    <2>3. QED BY <1>3, <2>1, <2>2, BusyStep
  <1>4. QED BY <1>1, <1>3 DEF StaysConnected

(* A worker whose answer is due keeps its batch and its marks.             *)
Due(w) == (\E c \in calls : c.worker = w) \/ (executor = "acquiring" /\ alias = w)

LEMMA BatchStays ==
  ASSUME SyncInv, StaysConnected, [Next]_vars, ~Crash,
         NEW w \in Worker, status[w] = Pool!Busy, Due(w),
         \A c \in calls : c.worker = w => ~ActionFinished(c)
  PROVE  /\ status'[w] = Pool!Busy /\ operations'[w] = operations[w]
         /\ toIgnore[w] \subseteq toIgnore'[w]
  <1> DEFINE Goal == /\ status'[w] = Pool!Busy /\ operations'[w] = operations[w]
                     /\ toIgnore[w] \subseteq toIgnore'[w]
  <1> Pool!TypeOK /\ Typed /\ faults \in [FaultKinds -> Nat]
    BY DEF SyncInv, Typed, RestTyped
  <1> ~Stuck(w)
    BY DEF Stuck, Due
  <1> ~Fault("disable") /\ ~Fault("timeout") /\ ~Fault("disconnect")
    BY DEF Fault, StaysConnected
  <1> Pool!Inactive # Pool!Busy /\ Pool!Disabled # Pool!Busy
    BY DEF Pool!Inactive, Pool!Disabled, Pool!Busy
  <1> USE DEF Pool!TypeOK
  <1>1. ASSUME NEW s \in Submission, NewSubmission(s) PROVE Goal
    BY <1>1 DEF NewSubmission, poolVars
  <1>2. ASSUME NEW u \in UserTest, NewUserTest(u) PROVE Goal
    BY <1>2 DEF NewUserTest, poolVars
  <1>3. ASSUME NEW op \in Operation, Enqueue(op) PROVE Goal
    BY <1>3 DEF Enqueue, poolVars
  <1>4. CASE EnqueueLost
    BY <1>4 DEF EnqueueLost, poolVars
  <1>5. CASE Sweep
    BY <1>5 DEF Sweep, poolVars
  <1>6. CASE PopBatch
    BY <1>6 DEF PopBatch, poolVars
  <1>7. CASE AcquireWorker
    BY <1>7 DEF AcquireWorker, Pool!AcquireNone, Pool!Acquire, Pool!FreeWorkers
  <1>8. CASE NothingToExecute
    BY <1>8 DEF NothingToExecute, poolVars
  <1>9. CASE SendJobGroup
    BY <1>9 DEF SendJobGroup, poolVars
  <1>10. CASE AcquireWorkerRaises
    BY <1>10 DEF AcquireWorkerRaises, poolVars
  <1>11. ASSUME NEW c \in calls, WorkerFinishes(c) PROVE Goal
    BY <1>11 DEF WorkerFinishes, poolVars
  <1>12. ASSUME NEW c \in calls, WorkerFails(c) PROVE Goal
    BY <1>12 DEF WorkerFails, poolVars
  <1>13. ASSUME NEW c \in calls, ActionFinished(c) PROVE Goal
    BY SMTT(60), <1>13 DEF ActionFinished, Pool!ReleaseWorker, Pool!ReleaseWorkers
  <1>14. CASE Flush
    BY <1>14 DEF Flush, poolVars
  <1>15. CASE StartWriting
    BY <1>15 DEF StartWriting, poolVars
  <1>16. CASE WriteResults
    BY <1>16 DEF WriteResults, poolVars
  <1>17. CASE SetEvaluationOutcomes
    BY <1>17 DEF SetEvaluationOutcomes, poolVars
  <1>18. CASE EndOperations
    BY <1>18 DEF EndOperations, poolVars
  <1>19. CASE EndOperationsRaises
    BY <1>19 DEF EndOperationsRaises, poolVars
  <1>20. ASSUME NEW s \in Submission, NEW l \in Levels, NEW a \in ArchiveRequests,
               InvalidateSubmission(s, l[1], l[2], a)
        PROVE  Goal
    <2>1. operations' = operations
      <3>1. faults["invalidate"] # 0 /\ ExecutionLockFree
        BY <1>20 DEF InvalidateSubmission, Fault, FaultKinds
      <3>2. alias \notin Worker
        BY <3>1 DEF SyncInv, AliasIsSafe, NeverRaises, NothingIsGone, ExecutionLockFree
      <3>3. QED BY <1>20, <3>2 DEF InvalidateSubmission
    <2>2. QED BY <1>20, <2>1 DEF InvalidateSubmission
  <1>21. ASSUME NEW o \in Object, DeleteObject(o) PROVE Goal
    BY <1>21 DEF DeleteObject, poolVars
  <1>22. CASE CheckWorkersTimeout
    <2>1. PICK ws \in SUBSET Worker, down \in SUBSET Worker :
            Pool!CheckTimeouts(ws, down) /\ \A v \in ws : Stuck(v)
      BY <1>22 DEF CheckWorkersTimeout
    <2>2. w \notin ws
      BY <2>1
    <2>3. QED BY <2>1, <2>2 DEF Pool!CheckTimeouts, Pool!ReleaseWorkers
  <1>23. CASE CheckWorkersConnection
    <2>1. w \notin Pool!Unconnected
      BY DEF Pool!Unconnected, StaysConnected
    <2>2. QED
      BY <1>23, <2>1 DEF CheckWorkersConnection, Pool!CheckConnections, Pool!ReleaseWorkers
  <1>24. ASSUME NEW v \in Worker, DisableWorker(v) PROVE Goal
    BY <1>24 DEF DisableWorker
  <1>25. ASSUME NEW v \in Worker, EnableWorker(v) PROVE Goal
    BY <1>25 DEF EnableWorker, Pool!EnableWorker
  <1>26. ASSUME NEW v \in Worker, Connect(v) PROVE Goal
    BY <1>26 DEF Connect, Pool!Connect
  <1>27. ASSUME NEW v \in Worker, OnWorkerConnected(v) PROVE Goal
    BY <1>27 DEF OnWorkerConnected, Pool!OnWorkerConnected
  <1>28. ASSUME NEW v \in Worker, Disconnect(v) PROVE Goal
    BY <1>28 DEF Disconnect
  <1>29. CASE Crash
    BY <1>29
  <1>30. CASE UNCHANGED vars
    BY <1>30 DEF vars, poolVars
  <1>31. QED
    BY <1>1, <1>2, <1>3, <1>4, <1>5, <1>6, <1>7, <1>8, <1>9, <1>10,
       <1>11, <1>12, <1>13, <1>14, <1>15, <1>16, <1>17, <1>18, <1>19,
       <1>20, <1>21, <1>22, <1>23, <1>24, <1>25, <1>26, <1>27, <1>28,
       <1>29, <1>30 DEF Next

(* What an evaluation will say or says: that the program can be run.       *)
Promises(c, j) ==
  IF c.answer = "done" THEN j.outcome = "ok" ELSE j.compilation = "ok"

OneEach(rs) == \A q, r \in rs : q.op = r.op => q = r

(* A call is a new one or what became of an earlier one, on the same jobs. *)
BecomesOf(b, c) ==
  /\ b.worker = c.worker
  /\ \A j \in b.jobs : \E i \in c.jobs :
       /\ j.op = i.op /\ j.epoch = i.epoch
       /\ j.op.type = "evaluation" /\ Promises(b, j) => Promises(c, i)
  /\ OneEach(c.jobs) => OneEach(b.jobs)

(* An evaluation succeeds only with executables.                           *)
LEMMA OnlyCompiledSucceeds ==
  ASSUME NEW j \in Job, j.op.type = "evaluation", "ok" \in Outcomes(j)
  PROVE  j.compilation = "ok"
  <1>1. j.compilation \in {"none", "ok", "tombstone", "fail"}
    BY DEF Job
  <1>2. ASSUME j.compilation = "tombstone" PROVE FALSE
    <2>1. Outcomes(j) = {"tombstone", "error"}
      BY Zenon, <1>2 DEF Outcomes
    <2>2. QED BY <2>1
  <1>3. ASSUME j.compilation \in {"none", "fail"} PROVE FALSE
    <2>1. Outcomes(j) = {"error"}
      BY Zenon, <1>3 DEF Outcomes
    <2>2. QED BY <2>1
  <1>4. QED BY <1>1, <1>2, <1>3

LEMMA CallOrigins ==
  ASSUME Typed, [Next]_vars
  PROVE  \E f : /\ \A c \in calls : BecomesOf(f[c], c)
                /\ \A b \in calls' :
                     \/ \E c \in calls : b = f[c]
                     \/ SendJobGroup /\ b = NewCall(alias, executing)
  <1> DEFINE Origin(f) == /\ \A c \in calls : BecomesOf(f[c], c)
                          /\ \A b \in calls' :
                               \/ \E c \in calls : b = f[c]
                               \/ SendJobGroup /\ b = NewCall(alias, executing)
             Goal == \E f : Origin(f)
             same == [c \in calls |-> c]
  <1> \A c \in calls : CallTyped(c)
    BY DEF Typed, CallsTyped
  <1>a. \A c \in calls : BecomesOf(same[c], c)
    BY DEF BecomesOf
  <1>b. ASSUME calls' \subseteq calls PROVE Goal
    <2>1. Origin(same)
      BY <1>a, <1>b
    <2>2. QED BY <2>1
  <1>c. ASSUME NEW ws, calls' = {IF c.worker \in ws THEN Failed(c) ELSE c : c \in calls}
        PROVE  Goal
    <2> DEFINE f == [c \in calls |-> IF c.worker \in ws THEN Failed(c) ELSE c]
    <2>1. \A c \in calls : BecomesOf(f[c], c)
      BY FailedTyped DEF BecomesOf, Promises
    <2>2. \A b \in calls' : \E c \in calls : b = f[c]
      BY <1>c
    <2> HIDE DEF f
    <2>3. Origin(f)
      BY <2>1, <2>2
    <2>4. QED BY <2>3
  <1>1. ASSUME NEW s \in Submission, NewSubmission(s) PROVE Goal
    BY <1>1, <1>b DEF NewSubmission
  <1>2. ASSUME NEW u \in UserTest, NewUserTest(u) PROVE Goal
    BY <1>2, <1>b DEF NewUserTest
  <1>3. ASSUME NEW op \in Operation, Enqueue(op) PROVE Goal
    BY <1>3, <1>b DEF Enqueue
  <1>4. CASE EnqueueLost
    BY <1>4, <1>b DEF EnqueueLost
  <1>5. CASE Sweep
    BY <1>5, <1>b DEF Sweep
  <1>6. CASE PopBatch
    BY <1>6, <1>b DEF PopBatch
  <1>7. CASE AcquireWorker
    BY <1>7, <1>b DEF AcquireWorker
  <1>8. CASE NothingToExecute
    BY <1>8, <1>b DEF NothingToExecute
  <1>9. CASE SendJobGroup
    <2>1. Origin(same)
      BY <1>9, <1>a DEF SendJobGroup
    <2>2. QED BY <2>1
  <1>10. CASE AcquireWorkerRaises
    BY <1>10, <1>b DEF AcquireWorkerRaises
  <1>11. ASSUME NEW c \in calls, WorkerFinishes(c) PROVE Goal
    <2>1. PICK outcome \in [c.jobs -> {"ok", "fail", "error", "tombstone"}] :
            /\ \A j \in c.jobs : outcome[j] \in Outcomes(j)
            /\ calls' = (calls \ {c}) \cup
                 {[c EXCEPT !.answer = "done", !.jobs = Answers(c.jobs, outcome)]}
      BY <1>11 DEF WorkerFinishes, Answers
    <2>2. PICK results : results = Answers(c.jobs, outcome)
      OBVIOUS
    <2>n. PICK new : new = [c EXCEPT !.answer = "done", !.jobs = results]
      OBVIOUS
    <2>c. calls' = (calls \ {c}) \cup {new}
      BY <2>1, <2>2, <2>n
    <2>3. c.answer = "pending"
      BY <1>11 DEF WorkerFinishes
    <2>4. /\ new.worker = c.worker /\ new.jobs = Answers(c.jobs, outcome)
          /\ new.answer = "done"
      <3>1. PICK w, i, a, jobs : c = [worker |-> w, id |-> i, answer |-> a, jobs |-> jobs]
        BY CallFields
      <3>2. QED BY <2>2, <2>n, <3>1
    <2>5. BecomesOf(new, c)
      <3>1. ASSUME NEW j \in new.jobs
            PROVE  \E i \in c.jobs :
                     /\ j.op = i.op /\ j.epoch = i.epoch
                     /\ j.op.type = "evaluation" /\ Promises(new, j) => Promises(c, i)
        <4>1. PICK i \in c.jobs :
                j = [op |-> i.op, epoch |-> i.epoch, outcome |-> outcome[i]]
          BY <2>4 DEF Answers
        <4>2. i \in Job
          BY <2>3, CallFields
        <4>3. j.op.type = "evaluation" /\ outcome[i] = "ok" => i.compilation = "ok"
          BY <2>1, <4>1, <4>2, OnlyCompiledSucceeds
        <4>4. j.op = i.op /\ j.epoch = i.epoch /\ j.outcome = outcome[i]
          BY <4>1
        <4>5. QED BY <2>3, <2>4, <4>3, <4>4 DEF Promises
      <3>2. OneEach(c.jobs) => OneEach(new.jobs)
        BY <2>4 DEF OneEach, Answers
      <3>3. QED BY <2>4, <3>1, <3>2 DEF BecomesOf
    <2> DEFINE f == [b \in calls |-> IF b = c THEN new ELSE b]
    <2>6. \A b \in calls : BecomesOf(f[b], b)
      BY <2>5 DEF BecomesOf
    <2>7. \A b \in calls' : \E a \in calls : b = f[a]
      BY <2>c
    <2> HIDE DEF f
    <2>8. Origin(f)
      BY <2>6, <2>7
    <2>9. QED BY <2>8
  <1>12. ASSUME NEW c \in calls, WorkerFails(c) PROVE Goal
    <2> DEFINE f == [b \in calls |-> IF b = c THEN Failed(c) ELSE b]
    <2>1. \A b \in calls : BecomesOf(f[b], b)
      BY FailedTyped DEF BecomesOf, Promises
    <2>2. \A b \in calls' : \E a \in calls : b = f[a]
      BY <1>12 DEF WorkerFails
    <2> HIDE DEF f
    <2>3. Origin(f)
      BY <2>1, <2>2
    <2>4. QED BY <2>3
  <1>13. ASSUME NEW c \in calls, ActionFinished(c) PROVE Goal
    BY <1>13, <1>b DEF ActionFinished
  <1>14. CASE Flush
    BY <1>14, <1>b DEF Flush
  <1>15. CASE StartWriting
    BY <1>15, <1>b DEF StartWriting
  <1>16. CASE WriteResults
    BY <1>16, <1>b DEF WriteResults
  <1>17. CASE SetEvaluationOutcomes
    BY <1>17, <1>b DEF SetEvaluationOutcomes
  <1>18. CASE EndOperations
    BY <1>18, <1>b DEF EndOperations
  <1>19. CASE EndOperationsRaises
    BY <1>19, <1>b DEF EndOperationsRaises
  <1>20. ASSUME NEW s \in Submission, NEW l \in Levels, NEW a \in ArchiveRequests,
               InvalidateSubmission(s, l[1], l[2], a)
        PROVE  Goal
    BY <1>20, <1>b DEF InvalidateSubmission
  <1>21. ASSUME NEW o \in Object, DeleteObject(o) PROVE Goal
    BY <1>21, <1>b DEF DeleteObject
  <1>22. CASE CheckWorkersTimeout
    <2>1. PICK down : calls' = {IF b.worker \in down THEN Failed(b) ELSE b : b \in calls}
      BY <1>22 DEF CheckWorkersTimeout
    <2>2. QED BY <2>1, <1>c
  <1>23. CASE CheckWorkersConnection
    BY <1>23, <1>b DEF CheckWorkersConnection
  <1>24. ASSUME NEW w \in Worker, DisableWorker(w) PROVE Goal
    BY <1>24, <1>b DEF DisableWorker
  <1>25. ASSUME NEW w \in Worker, EnableWorker(w) PROVE Goal
    BY <1>25, <1>b DEF EnableWorker
  <1>26. ASSUME NEW w \in Worker, Connect(w) PROVE Goal
    BY <1>26, <1>b DEF Connect
  <1>27. ASSUME NEW w \in Worker, OnWorkerConnected(w) PROVE Goal
    BY <1>27, <1>b DEF OnWorkerConnected
  <1>28. ASSUME NEW w \in Worker, Disconnect(w) PROVE Goal
    <2>1. calls' = {IF c.worker \in {w} THEN Failed(c) ELSE c : c \in calls}
      BY <1>28 DEF Disconnect
    <2>2. QED BY <2>1, <1>c
  <1>29. CASE Crash
    BY <1>29, <1>b DEF Crash
  <1>30. CASE UNCHANGED vars
    BY <1>30, <1>b DEF vars
  <1>31. QED
    BY <1>1, <1>2, <1>3, <1>4, <1>5, <1>6, <1>7, <1>8, <1>9, <1>10,
       <1>11, <1>12, <1>13, <1>14, <1>15, <1>16, <1>17, <1>18, <1>19,
       <1>20, <1>21, <1>22, <1>23, <1>24, <1>25, <1>26, <1>27, <1>28,
       <1>29, <1>30 DEF Next


LEMMA AcquiringFrom ==
  ASSUME Typed, [Next]_vars, executor' = "acquiring"
  PROVE  \/ /\ AcquireWorker /\ UNCHANGED <<calls, executing>>
            /\ alias' \in Worker /\ Pool!Acquire(alias', executing)
         \/ /\ executor = "acquiring" /\ UNCHANGED <<executing, alias>>
            /\ ~SendJobGroup
  <1> DEFINE Goal ==
        \/ /\ AcquireWorker /\ UNCHANGED <<calls, executing>>
           /\ alias' \in Worker /\ Pool!Acquire(alias', executing)
        \/ /\ executor = "acquiring" /\ UNCHANGED <<executing, alias>>
           /\ ~SendJobGroup
  <1>a. ~SendJobGroup
    BY DEF SendJobGroup
  <1>1. ASSUME NEW s \in Submission, NewSubmission(s) PROVE Goal
    BY <1>1, <1>a DEF NewSubmission, executorVars
  <1>2. ASSUME NEW u \in UserTest, NewUserTest(u) PROVE Goal
    BY <1>2, <1>a DEF NewUserTest, executorVars
  <1>3. ASSUME NEW op \in Operation, Enqueue(op) PROVE Goal
    BY <1>3, <1>a DEF Enqueue, executorVars
  <1>4. CASE EnqueueLost
    BY <1>4, <1>a DEF EnqueueLost, executorVars
  <1>5. CASE Sweep
    BY <1>5, <1>a DEF Sweep, executorVars
  <1>6. CASE PopBatch
    BY <1>6 DEF PopBatch
  <1>7. CASE AcquireWorker
    BY <1>7, <1>a DEF AcquireWorker, executorVars
  <1>8. CASE NothingToExecute
    BY <1>8 DEF NothingToExecute
  <1>9. CASE SendJobGroup
    BY <1>9, <1>a
  <1>10. CASE AcquireWorkerRaises
    BY <1>10 DEF AcquireWorkerRaises
  <1>11. ASSUME NEW c \in calls, WorkerFinishes(c) PROVE Goal
    BY <1>11, <1>a DEF WorkerFinishes, executorVars
  <1>12. ASSUME NEW c \in calls, WorkerFails(c) PROVE Goal
    BY <1>12, <1>a DEF WorkerFails, executorVars
  <1>13. ASSUME NEW c \in calls, ActionFinished(c) PROVE Goal
    BY <1>13, <1>a DEF ActionFinished, executorVars
  <1>14. CASE Flush
    BY <1>14, <1>a DEF Flush, executorVars
  <1>15. CASE StartWriting
    BY <1>15, <1>a DEF StartWriting, executorVars
  <1>16. CASE WriteResults
    BY <1>16, <1>a DEF WriteResults, executorVars
  <1>17. CASE SetEvaluationOutcomes
    BY <1>17, <1>a DEF SetEvaluationOutcomes, executorVars
  <1>18. CASE EndOperations
    BY <1>18, <1>a DEF EndOperations, executorVars
  <1>19. CASE EndOperationsRaises
    BY <1>19, <1>a DEF EndOperationsRaises, executorVars
  <1>20. ASSUME NEW s \in Submission, NEW l \in Levels, NEW a \in ArchiveRequests,
               InvalidateSubmission(s, l[1], l[2], a)
        PROVE  Goal
    BY <1>20 DEF InvalidateSubmission, ExecutionLockFree
  <1>21. ASSUME NEW o \in Object, DeleteObject(o) PROVE Goal
    BY <1>21, <1>a DEF DeleteObject, executorVars
  <1>22. CASE CheckWorkersTimeout
    BY <1>22, <1>a DEF CheckWorkersTimeout, executorVars
  <1>23. CASE CheckWorkersConnection
    BY <1>23, <1>a DEF CheckWorkersConnection, executorVars
  <1>24. ASSUME NEW w \in Worker, DisableWorker(w) PROVE Goal
    BY <1>24, <1>a DEF DisableWorker, executorVars
  <1>25. ASSUME NEW w \in Worker, EnableWorker(w) PROVE Goal
    BY <1>25, <1>a DEF EnableWorker, executorVars
  <1>26. ASSUME NEW w \in Worker, Connect(w) PROVE Goal
    BY <1>26, <1>a DEF Connect, executorVars
  <1>27. ASSUME NEW w \in Worker, OnWorkerConnected(w) PROVE Goal
    BY <1>27, <1>a DEF OnWorkerConnected, executorVars
  <1>28. ASSUME NEW w \in Worker, Disconnect(w) PROVE Goal
    BY <1>28, <1>a DEF Disconnect, executorVars
  <1>29. CASE Crash
    BY <1>29 DEF Crash
  <1>30. CASE UNCHANGED vars
    BY <1>30, <1>a DEF vars, executorVars
  <1>31. QED
    BY <1>1, <1>2, <1>3, <1>4, <1>5, <1>6, <1>7, <1>8, <1>9, <1>10,
       <1>11, <1>12, <1>13, <1>14, <1>15, <1>16, <1>17, <1>18, <1>19,
       <1>20, <1>21, <1>22, <1>23, <1>24, <1>25, <1>26, <1>27, <1>28,
       <1>29, <1>30 DEF Next

(* The callback of a call removes it and no other.                         *)
LEMMA FinishedCallIsGone ==
  ASSUME OneCallEach, NEW c \in calls, ActionFinished(c), NEW b \in calls'
  PROVE  b.worker # c.worker
  BY DEF OneCallEach, ActionFinished

LEMMA OneCallEachKept ==
  ASSUME SyncInv, StaysConnected, OneCallEach, [Next]_vars
  PROVE  OneCallEach'
  <1> Typed
    BY DEF SyncInv
  <1>a. PICK f : /\ \A c \in calls : BecomesOf(f[c], c)
                 /\ \A b \in calls' : \/ \E c \in calls : b = f[c]
                                      \/ SendJobGroup /\ b = NewCall(alias, executing)
    BY CallOrigins
  <1>b. NewCall(alias, executing).worker = alias
        /\ NewCall(alias, executing).jobs = JobsOf(executing)
    BY DEF NewCall
  <1>c. \A c \in calls : c.worker \in Worker
    BY CallFields DEF Typed, CallsTyped
  <1>d. executor = "acquiring" => alias \in Worker
    BY DEF Typed, ExecutorTyped
  <1>1. ASSUME NEW b \in calls'
        PROVE  /\ status'[b.worker] = Pool!Busy
               /\ \A j \in b.jobs : j.op \in operations'[b.worker]
    <2>1. CASE SendJobGroup /\ b = NewCall(alias, executing)
      <3>1. /\ status[alias] = Pool!Busy /\ operations[alias] = executing
            /\ UNCHANGED <<status, operations>>
        BY <2>1 DEF SendJobGroup, poolVars, OneCallEach
      <3>2. \A j \in JobsOf(executing) : j.op \in executing
        BY DEF JobsOf
      <3>3. QED BY <1>b, <2>1, <3>1, <3>2
    <2>2. ASSUME NEW c \in calls, b = f[c]
          PROVE  /\ status'[b.worker] = Pool!Busy
                 /\ \A j \in b.jobs : j.op \in operations'[b.worker]
      <3>1. BecomesOf(b, c)
        BY <1>a, <2>2
      <3>2. /\ status[c.worker] = Pool!Busy /\ Due(c.worker)
            /\ \A j \in c.jobs : j.op \in operations[c.worker]
        BY DEF OneCallEach, Due
      <3>3. ~Crash
        BY DEF Crash
      <3>4. \A x \in calls : x.worker = c.worker => ~ActionFinished(x)
        BY <3>1, FinishedCallIsGone DEF BecomesOf
      <3>5. status'[c.worker] = Pool!Busy /\ operations'[c.worker] = operations[c.worker]
        BY <1>c, <3>2, <3>3, <3>4, BatchStays
      <3>6. QED BY <3>1, <3>2, <3>5 DEF BecomesOf
    <2>3. QED BY <1>a, <2>1, <2>2
  <1>2. ASSUME NEW a \in calls', NEW b \in calls', a.worker = b.worker PROVE a = b
    <2>1. ASSUME NEW c \in calls, SendJobGroup PROVE f[c].worker # alias
      BY <1>a, <2>1 DEF OneCallEach, SendJobGroup, BecomesOf
    <2>2. ASSUME NEW c \in calls, NEW e \in calls, f[c].worker = f[e].worker
          PROVE  f[c] = f[e]
      BY <1>a, <2>2 DEF OneCallEach, BecomesOf
    <2>3. QED BY <1>a, <1>b, <1>2, <2>1, <2>2
  <1>3. ASSUME executor' = "acquiring"
        PROVE  /\ status'[alias'] = Pool!Busy /\ operations'[alias'] = executing'
               /\ \A c \in calls' : c.worker # alias'
    <2>1. ASSUME AcquireWorker, UNCHANGED <<calls, executing>>, alias' \in Worker,
                 Pool!Acquire(alias', executing)
          PROVE  /\ status'[alias'] = Pool!Busy /\ operations'[alias'] = executing'
                 /\ \A c \in calls' : c.worker # alias'
      <3>1. PICK w \in Worker : w = alias'
        BY <2>1
      <3>2. status \in [Worker -> {Pool!Inactive, Pool!Disabled, Pool!Busy}]
            /\ operations \in [Worker -> SUBSET Operation]
        BY DEF Typed, Pool!TypeOK
      <3>3. Pool!Acquire(w, executing) /\ status[w] # Pool!Busy
        BY <2>1, <3>1 DEF Pool!Acquire, Pool!FreeWorkers, Pool!Inactive, Pool!Busy
      <3>4. status'[w] = Pool!Busy /\ operations'[w] = executing
        BY <3>2, <3>3 DEF Pool!Acquire
      <3>5. \A c \in calls : c.worker # w
        BY <3>3 DEF OneCallEach
      <3>6. QED BY <2>1, <3>1, <3>4, <3>5
    <2>2. CASE executor = "acquiring" /\ UNCHANGED <<executing, alias>> /\ ~SendJobGroup
      <3>1. /\ status[alias] = Pool!Busy /\ operations[alias] = executing
            /\ alias \in Worker /\ Due(alias) /\ \A c \in calls : c.worker # alias
        BY <1>d, <2>2 DEF OneCallEach, Due
      <3>2. ~Crash
        BY <1>3 DEF Crash
      <3>3. status'[alias] = Pool!Busy /\ operations'[alias] = operations[alias]
        BY <3>1, <3>2, BatchStays
      <3>4. \A b \in calls' : b.worker # alias
        BY <1>a, <2>2, <3>1 DEF BecomesOf
      <3>5. QED BY <2>2, <3>1, <3>3, <3>4
    <2>3. QED BY <1>3, <2>1, <2>2, AcquiringFrom
  <1>4. QED BY <1>1, <1>2, <1>3 DEF OneCallEach

(* Results reach the cache from the batch of a worker that is freed, and   *)
(* leave it by the flush alone.                                            *)
LEMMA CacheStep ==
  ASSUME Typed, [Next]_vars
  PROVE  \/ \E c \in calls :
              /\ ActionFinished(c) /\ UNCHANGED <<queue, executing, executor, fd>>
              /\ \A r \in d' \ d : /\ r \in c.jobs /\ r.op \notin toIgnore[c.worker]
                                   /\ status[c.worker] = Pool!Busy
         \/ d' = {} /\ fd' \subseteq d \cup fd
         \/ d' = d /\ fd' \subseteq fd
  <1> DEFINE Goal ==
        \/ \E c \in calls :
             /\ ActionFinished(c) /\ UNCHANGED <<queue, executing, executor, fd>>
             /\ \A r \in d' \ d : /\ r \in c.jobs /\ r.op \notin toIgnore[c.worker]
                                  /\ status[c.worker] = Pool!Busy
        \/ d' = {} /\ fd' \subseteq d \cup fd
        \/ d' = d /\ fd' \subseteq fd
  <1>1. ASSUME NEW s \in Submission, NewSubmission(s) PROVE Goal
    BY <1>1 DEF NewSubmission, cacheVars
  <1>2. ASSUME NEW u \in UserTest, NewUserTest(u) PROVE Goal
    BY <1>2 DEF NewUserTest, cacheVars
  <1>3. ASSUME NEW op \in Operation, Enqueue(op) PROVE Goal
    BY <1>3 DEF Enqueue, cacheVars
  <1>4. CASE EnqueueLost
    BY <1>4 DEF EnqueueLost, cacheVars
  <1>5. CASE Sweep
    BY <1>5 DEF Sweep, cacheVars
  <1>6. CASE PopBatch
    BY <1>6 DEF PopBatch, cacheVars
  <1>7. CASE AcquireWorker
    BY <1>7 DEF AcquireWorker, cacheVars
  <1>8. CASE NothingToExecute
    BY <1>8 DEF NothingToExecute, cacheVars
  <1>9. CASE SendJobGroup
    BY <1>9 DEF SendJobGroup, cacheVars
  <1>10. CASE AcquireWorkerRaises
    BY <1>10 DEF AcquireWorkerRaises, cacheVars
  <1>11. ASSUME NEW c \in calls, WorkerFinishes(c) PROVE Goal
    BY <1>11 DEF WorkerFinishes, cacheVars
  <1>12. ASSUME NEW c \in calls, WorkerFails(c) PROVE Goal
    BY <1>12 DEF WorkerFails, cacheVars
  <1>13. ASSUME NEW c \in calls, ActionFinished(c) PROVE Goal
    <2>1. \A r \in d' \ d : /\ r \in c.jobs /\ r.op \notin toIgnore[c.worker]
                         /\ status[c.worker] = Pool!Busy
      BY <1>13 DEF ActionFinished, AddAll
    <2>2. UNCHANGED <<queue, executing, executor, fd>>
      BY <1>13 DEF ActionFinished, executorVars
    <2>3. QED BY <1>13, <2>1, <2>2
  <1>14. CASE Flush
    BY <1>14 DEF Flush
  <1>15. CASE StartWriting
    BY <1>15 DEF StartWriting, cacheVars
  <1>16. CASE WriteResults
    BY <1>16 DEF WriteResults, cacheVars
  <1>17. CASE SetEvaluationOutcomes
    BY <1>17 DEF SetEvaluationOutcomes, cacheVars
  <1>18. CASE EndOperations
    BY <1>18 DEF EndOperations
  <1>19. CASE EndOperationsRaises
    BY <1>19 DEF EndOperationsRaises, cacheVars
  <1>20. ASSUME NEW s \in Submission, NEW l \in Levels, NEW a \in ArchiveRequests,
               InvalidateSubmission(s, l[1], l[2], a)
        PROVE  Goal
    BY <1>20 DEF InvalidateSubmission, cacheVars
  <1>21. ASSUME NEW o \in Object, DeleteObject(o) PROVE Goal
    BY <1>21 DEF DeleteObject, cacheVars
  <1>22. CASE CheckWorkersTimeout
    BY <1>22 DEF CheckWorkersTimeout, cacheVars
  <1>23. CASE CheckWorkersConnection
    BY <1>23 DEF CheckWorkersConnection, cacheVars
  <1>24. ASSUME NEW w \in Worker, DisableWorker(w) PROVE Goal
    BY <1>24 DEF DisableWorker, cacheVars
  <1>25. ASSUME NEW w \in Worker, EnableWorker(w) PROVE Goal
    BY <1>25 DEF EnableWorker, cacheVars
  <1>26. ASSUME NEW w \in Worker, Connect(w) PROVE Goal
    BY <1>26 DEF Connect, cacheVars
  <1>27. ASSUME NEW w \in Worker, OnWorkerConnected(w) PROVE Goal
    BY <1>27 DEF OnWorkerConnected, cacheVars
  <1>28. ASSUME NEW w \in Worker, Disconnect(w) PROVE Goal
    BY <1>28 DEF Disconnect, cacheVars
  <1>29. CASE Crash
    BY <1>29 DEF Crash
  <1>30. CASE UNCHANGED vars
    BY <1>30 DEF vars, cacheVars
  <1>31. QED
    BY <1>1, <1>2, <1>3, <1>4, <1>5, <1>6, <1>7, <1>8, <1>9, <1>10,
       <1>11, <1>12, <1>13, <1>14, <1>15, <1>16, <1>17, <1>18, <1>19,
       <1>20, <1>21, <1>22, <1>23, <1>24, <1>25, <1>26, <1>27, <1>28,
       <1>29, <1>30 DEF Next

LEMMA ResultsOfBatch ==
  ASSUME SyncInv, OneCallEach, NEW c \in calls, NEW r \in c.jobs
  PROVE  /\ r.op \in Operation /\ c.worker \in Worker
         /\ reverse[r.op] = c.worker /\ r.op \in operations[c.worker]
  <1>1. c.worker \in Worker /\ r.op \in operations[c.worker]
    BY CallFields DEF OneCallEach, SyncInv, Typed, CallsTyped
  <1>2. Pool!TypeOK /\ Pool!ReverseInSync /\ operations \in [Worker -> SUBSET Operation]
    BY PoolInvFacts DEF SyncInv, Pool!TypeOK
  <1>3. QED BY <1>1, <1>2 DEF Pool!ReverseInSync, Pool!TypeOK

LEMMA CachedApartKept ==
  ASSUME SyncInv, OneCallEach, CachedApart, [Next]_vars
  PROVE  CachedApart'
  <1> Typed /\ WaitingApart
    BY DEF SyncInv
  <1>a. \A r \in d \cup fd : r.op \in Operation
    BY DEF Typed, CacheTyped, GoodResult, Result
  <1>b. \A w \in Worker : w # NoWorker
    BY NoWorkerAssumption
  <1>1. ASSUME NEW c \in calls, ActionFinished(c),
               UNCHANGED <<queue, executing, executor, fd>>,
               \A r \in d' \ d : r \in c.jobs /\ status[c.worker] = Pool!Busy
        PROVE  CachedApart'
    <2>1. reverse \in [Operation -> Worker \cup {NoWorker}]
      BY DEF Typed, Pool!TypeOK
    <2>2. ASSUME NEW r \in d' \ d
          PROVE  /\ reverse'[r.op] = NoWorker /\ r.op \notin queue
                 /\ executor = "waiting" => r.op \notin executing
                 /\ \A q \in fd : r.op # q.op
      <3>1. /\ r.op \in Operation /\ c.worker \in Worker
            /\ reverse[r.op] = c.worker /\ r.op \in operations[c.worker]
        BY <1>1, ResultsOfBatch
      <3>2. Pool!ReleaseWorkers({c.worker}, FALSE)
        BY <1>1, <2>2 DEF ActionFinished, Pool!ReleaseWorker
      <3>3. reverse'[r.op] = NoWorker
        BY <3>1, <3>2 DEF Pool!ReleaseWorkers
      <3>4. QED BY <1>b, <3>1, <3>3 DEF WaitingApart, CachedApart
    <2>3. ASSUME NEW r \in d \cup fd PROVE reverse'[r.op] = NoWorker
      <3>1. reverse[r.op] = NoWorker /\ r.op \in Operation
        BY <1>a DEF CachedApart
      <3>2. QED
        BY <1>1, <2>1, <3>1 DEF ActionFinished, Pool!ReleaseWorker, Pool!ReleaseWorkers
    <2>4. QED BY <1>1, <2>2, <2>3 DEF CachedApart
  <1>2. CASE d' \subseteq d \cup fd /\ fd' \subseteq d \cup fd
    <2>1. ASSUME NEW r \in d \cup fd
          PROVE  reverse'[r.op] = NoWorker
      <3>1. reverse[r.op] = NoWorker /\ r.op \in Operation
        BY <1>a DEF CachedApart
      <3>2. CASE AcquireWorker
        <4>1. r.op \notin executing
          BY <3>2 DEF AcquireWorker, CachedApart
        <4>2. CASE Pool!AcquireNone
          BY <3>1, <4>2 DEF Pool!AcquireNone
        <4>3. ASSUME NEW w \in Worker, Pool!Acquire(w, executing)
              PROVE  reverse'[r.op] = NoWorker
          BY <3>1, <4>1, <4>3 DEF Pool!Acquire
        <4>4. QED BY <3>2, <4>2, <4>3 DEF AcquireWorker
      <3>3. CASE ~AcquireWorker
        BY <3>1, <3>3, ReverseStep
      <3>4. QED BY <3>2, <3>3
    <2>2. ASSUME NEW r \in d \cup fd
          PROVE  r.op \notin queue' /\ (executor' = "waiting" => r.op \notin executing')
      <3>1. r.op \notin queue'
        BY QueueStep DEF CachedApart, Cached
      <3>2. executor' = "waiting" => r.op \notin executing'
        BY ExecutingStep DEF CachedApart
      <3>3. QED BY <3>1, <3>2
    <2>3. (d' = {} \/ (d' = d /\ fd' \subseteq fd)) => \A q \in d', r \in fd' : q.op # r.op
      BY DEF CachedApart
    <2>4. CASE d' = {} \/ (d' = d /\ fd' \subseteq fd)
      BY <1>2, <2>1, <2>2, <2>3, <2>4 DEF CachedApart
    <2>5. ASSUME NEW c \in calls, ActionFinished(c),
                 UNCHANGED <<queue, executing, executor, fd>>,
                 \A r \in d' \ d : r \in c.jobs /\ status[c.worker] = Pool!Busy
          PROVE  CachedApart'
      BY <1>1, <2>5
    <2>6. QED BY <2>4, <2>5, CacheStep
  <1>3. QED BY <1>1, <1>2, CacheStep

LEMMA PlaceInvKept == PlaceInv /\ [Next]_vars => PlaceInv'
  BY SyncKept, StaysConnectedKept, OneCallEachKept, CachedApartKept DEF PlaceInv, SyncInv

LEMMA PlaceInvInitially == ASSUME NobodyLeaves, NoAliasing PROVE Init => PlaceInv
  <1> SUFFICES ASSUME Init PROVE PlaceInv
    OBVIOUS
  <1>1. StaysConnected
    BY DEF Init, Pool!Init, StaysConnected, NobodyLeaves, Pool!Inactive, Pool!Busy
  <1>2. OneCallEach /\ CachedApart
    BY DEF Init, OneCallEach, CachedApart
  <1>3. QED BY <1>1, <1>2, SyncInitially DEF PlaceInv

LEMMA AlwaysPlaceInv == ASSUME NobodyLeaves, NoAliasing PROVE Spec => []PlaceInv
  BY PlaceInvInitially, PlaceInvKept, PTL DEF Spec

(* The promise of post_finish_lock: as long as workers keep their batches  *)
(* until they answer, an operation is never in two of the queue, the       *)
(* executor, the pool and the two caches, whatever is lost in a crash,     *)
(* invalidated or deleted.                                                 *)
THEOREM EvaluationServiceOnePlace ==
  ASSUME NobodyLeaves, NoAliasing PROVE Spec => []OnePlace
  <1>1. PlaceInv => OnePlace
    <2> SUFFICES ASSUME PlaceInv, NEW op \in Operation
                 PROVE  Cardinality({p \in {"queue", "executor", "pool", "d", "fd"} :
                          CASE p = "queue" -> op \in queue
                            [] p = "executor" -> op \in executing /\ executor = "waiting"
                            [] p = "pool" -> Pool!InPool(op)
                            [] p = "d" -> \E r \in d : r.op = op
                            [] p = "fd" -> \E r \in fd : r.op = op}) <= 1
      BY Zenon DEF OnePlace
    <2> DEFINE Place == {"queue", "executor", "pool", "d", "fd"}
               In(p) == CASE p = "queue" -> op \in queue
                          [] p = "executor" -> op \in executing /\ executor = "waiting"
                          [] p = "pool" -> Pool!InPool(op)
                          [] p = "d" -> \E r \in d : r.op = op
                          [] p = "fd" -> \E r \in fd : r.op = op
               S == {p \in Place : In(p)}
    <2>1. /\ In("queue") => op \in queue
          /\ In("executor") => op \in executing /\ executor = "waiting"
          /\ In("pool") => reverse[op] # NoWorker
          /\ In("d") => \E r \in d : r.op = op
          /\ In("fd") => \E r \in fd : r.op = op
      BY DEF Pool!InPool
    <2> HIDE DEF In
    <2>2. ASSUME NEW p \in S, NEW q \in S PROVE p = q
      BY <2>1 DEF PlaceInv, SyncInv, WaitingApart, CachedApart
    <2>3. S = {} \/ \E p : S = {p}
      <3> HIDE DEF S
      <3>1. QED BY <2>2
    <2> HIDE DEF S
    <2>4. Cardinality(S) <= 1
      <3>1. CASE S = {}
        BY <3>1, FS_EmptySet
      <3>2. ASSUME NEW p, S = {p} PROVE Cardinality(S) <= 1
        <4>1. Cardinality({p}) = 1
          BY FS_Singleton
        <4>2. QED BY <3>2, <4>1
      <3>3. QED BY <2>3, <3>1, <3>2
    <2>5. QED BY <2>4 DEF S, In
  <1>2. QED BY <1>1, AlwaysPlaceInv, PTL

-----------------------------------------------------------------------------
(* No administrator asks for archived sandboxes: get_relevant_operations   *)
(* does not name the operations that archive theirs.                       *)
NothingArchived == ArchiveRequests \subseteq {FALSE}

(* Only invalidate_submission makes results out of date.                   *)
LEMMA EpochStep ==
  ASSUME [Next]_vars
  PROVE  \/ UNCHANGED epoch
         \/ \E s \in Submission, l \in Levels, a \in ArchiveRequests :
              InvalidateSubmission(s, l[1], l[2], a)
  <1> DEFINE Goal == \/ UNCHANGED epoch
                     \/ \E s \in Submission, l \in Levels, a \in ArchiveRequests :
                          InvalidateSubmission(s, l[1], l[2], a)
  <1>1. ASSUME NEW s \in Submission, NewSubmission(s) PROVE Goal
    BY <1>1 DEF NewSubmission, dbVars
  <1>2. ASSUME NEW u \in UserTest, NewUserTest(u) PROVE Goal
    BY <1>2 DEF NewUserTest, dbVars
  <1>3. ASSUME NEW op \in Operation, Enqueue(op) PROVE Goal
    BY <1>3 DEF Enqueue, dbVars
  <1>4. CASE EnqueueLost
    BY <1>4 DEF EnqueueLost, dbVars
  <1>5. CASE Sweep
    BY <1>5 DEF Sweep, dbVars
  <1>6. CASE PopBatch
    BY <1>6 DEF PopBatch, dbVars
  <1>7. CASE AcquireWorker
    BY <1>7 DEF AcquireWorker, dbVars
  <1>8. CASE NothingToExecute
    BY <1>8 DEF NothingToExecute, dbVars
  <1>9. CASE SendJobGroup
    BY <1>9 DEF SendJobGroup, dbVars
  <1>10. CASE AcquireWorkerRaises
    BY <1>10 DEF AcquireWorkerRaises, dbVars
  <1>11. ASSUME NEW c \in calls, WorkerFinishes(c) PROVE Goal
    BY <1>11 DEF WorkerFinishes, dbVars
  <1>12. ASSUME NEW c \in calls, WorkerFails(c) PROVE Goal
    BY <1>12 DEF WorkerFails, dbVars
  <1>13. ASSUME NEW c \in calls, ActionFinished(c) PROVE Goal
    BY <1>13 DEF ActionFinished, dbVars
  <1>14. CASE Flush
    BY <1>14 DEF Flush, dbVars
  <1>15. CASE StartWriting
    BY <1>15 DEF StartWriting, dbVars
  <1>16. CASE WriteResults
    BY <1>16 DEF WriteResults, dbVars
  <1>17. CASE SetEvaluationOutcomes
    BY <1>17 DEF SetEvaluationOutcomes, dbVars
  <1>18. CASE EndOperations
    BY <1>18 DEF EndOperations, dbVars
  <1>19. CASE EndOperationsRaises
    BY <1>19 DEF EndOperationsRaises, dbVars
  <1>20. ASSUME NEW s \in Submission, NEW l \in Levels, NEW a \in ArchiveRequests,
               InvalidateSubmission(s, l[1], l[2], a)
        PROVE  Goal
    BY <1>20
  <1>21. ASSUME NEW o \in Object, DeleteObject(o) PROVE Goal
    BY <1>21 DEF DeleteObject, dbVars
  <1>22. CASE CheckWorkersTimeout
    BY <1>22 DEF CheckWorkersTimeout, dbVars
  <1>23. CASE CheckWorkersConnection
    BY <1>23 DEF CheckWorkersConnection, dbVars
  <1>24. ASSUME NEW w \in Worker, DisableWorker(w) PROVE Goal
    BY <1>24 DEF DisableWorker, dbVars
  <1>25. ASSUME NEW w \in Worker, EnableWorker(w) PROVE Goal
    BY <1>25 DEF EnableWorker, dbVars
  <1>26. ASSUME NEW w \in Worker, Connect(w) PROVE Goal
    BY <1>26 DEF Connect, dbVars
  <1>27. ASSUME NEW w \in Worker, OnWorkerConnected(w) PROVE Goal
    BY <1>27 DEF OnWorkerConnected, dbVars
  <1>28. ASSUME NEW w \in Worker, Disconnect(w) PROVE Goal
    BY <1>28 DEF Disconnect, dbVars
  <1>29. CASE Crash
    BY <1>29 DEF Crash, dbVars
  <1>30. CASE UNCHANGED vars
    BY <1>30 DEF vars, dbVars
  <1>31. QED
    BY <1>1, <1>2, <1>3, <1>4, <1>5, <1>6, <1>7, <1>8, <1>9, <1>10,
       <1>11, <1>12, <1>13, <1>14, <1>15, <1>16, <1>17, <1>18, <1>19,
       <1>20, <1>21, <1>22, <1>23, <1>24, <1>25, <1>26, <1>27, <1>28,
       <1>29, <1>30 DEF Next

(* get_relevant_operations names every operation the level is about.       *)
LEMMA RelevantOfLevel ==
  ASSUME NothingArchived, NEW op \in Operation, op.obj \in Submission,
         NEW level, op.type = "evaluation" \/ level = "compilation"
  PROVE  op \in RelevantOperations(op.obj, level)
  <1> DEFINE no == FALSE
  <1>1. \A a \in Archive : a = no
    BY Zenon DEF Archive, NothingArchived
  <1>2. no \in Archive
    BY Zenon DEF Archive
  <1>3. \/ \E s \in Submission, a \in Archive : op = CompilationOp(s, a)
        \/ \E s \in Submission, t \in Testcase, a \in Archive :
              op = EvaluationOp(s, t, a)
        \/ \E u \in UserTest : op = CompilationOp(u, no)
        \/ \E u \in UserTest : op = EvaluationOp(u, NoTestcase, no)
    BY Zenon, OperationCases
  <1>4. \A s : RelevantOperations(s, level) =
               {EvaluationOp(s, t, no) : t \in Testcase}
                 \cup (IF level = "compilation" THEN {CompilationOp(s, no)} ELSE {})
    BY Zenon DEF RelevantOperations
  <1> HIDE DEF no
  <1>5. QED
    BY <1>1, <1>3, <1>4, CompilationOpFields, EvaluationOpFields,
       EvaluationServiceAssumption

(* Its results are ignored when the workers that make them answer.         *)
LEMMA InvalidationMarks ==
  ASSUME PlaceInv, NothingArchived, NEW s \in Submission, NEW l \in Levels,
         NEW a \in ArchiveRequests, InvalidateSubmission(s, l[1], l[2], a),
         NEW c \in calls, NEW j \in c.jobs,
         epoch'[j.op.obj][j.op.type] # epoch[j.op.obj][j.op.type]
  PROVE  j.op \in toIgnore'[c.worker]
  <1>1. j.op \in Operation /\ c.worker \in Worker /\ reverse[j.op] = c.worker
    BY ResultsOfBatch DEF PlaceInv
  <1>2. j.op.obj \in Object /\ j.op.type \in Types
    BY <1>1, OperationFields
  <1>3. epoch \in [Object -> [Types -> Nat]]
    BY DEF PlaceInv, SyncInv, Typed, RestTyped, Epoch
  <1>4. j.op.obj = s /\ (j.op.type = "evaluation" \/ l[1] = "compilation")
    <2>1. epoch' = [epoch EXCEPT ![s] =
                      [t \in Types |-> IF t = "evaluation" \/ l[1] = "compilation"
                                       THEN @[t] + 1 ELSE @[t]]]
      BY DEF InvalidateSubmission
    <2>2. QED BY <1>2, <1>3, <2>1 DEF Object
  <1>5. j.op \in RelevantOperations(s, l[1])
    BY <1>1, <1>4, RelevantOfLevel
  <1>6. toIgnore'[c.worker] = toIgnore[c.worker]
          \cup {op \in RelevantOperations(s, l[1]) : reverse[op] = c.worker}
    BY <1>1 DEF InvalidateSubmission
  <1>7. QED BY <1>1, <1>5, <1>6

LEMMA JobsAreFreshKept ==
  ASSUME PlaceInv, NothingArchived, JobsAreFresh, [Next]_vars
  PROVE  JobsAreFresh'
  <1> SyncInv /\ Typed /\ StaysConnected /\ OneCallEach
    BY DEF PlaceInv, SyncInv
  <1>1. PICK f : /\ \A c \in calls : BecomesOf(f[c], c)
                 /\ \A b \in calls' : \/ \E c \in calls : b = f[c]
                                      \/ SendJobGroup /\ b = NewCall(alias, executing)
    BY CallOrigins
  <1> SUFFICES ASSUME NEW b \in calls', NEW j \in b.jobs, j.op \notin toIgnore'[b.worker]
               PROVE  j.epoch = epoch'[j.op.obj][j.op.type]
    BY DEF JobsAreFresh
  <1>2. CASE SendJobGroup /\ b = NewCall(alias, executing)
    <2>1. epoch' = epoch
      BY <1>2 DEF SendJobGroup, dbVars
    <2>2. j \in JobsOf(executing)
      BY <1>2 DEF NewCall
    <2>3. j.epoch = epoch[j.op.obj][j.op.type]
      BY <2>2 DEF JobsOf
    <2>4. QED BY <2>1, <2>3
  <1>3. ASSUME NEW c \in calls, b = f[c]
        PROVE  j.epoch = epoch'[j.op.obj][j.op.type]
    <2>1. BecomesOf(b, c)
      BY <1>1, <1>3
    <2>2. PICK i \in c.jobs : j.op = i.op /\ j.epoch = i.epoch
      BY <2>1 DEF BecomesOf
    <2>3. status[c.worker] = Pool!Busy /\ Due(c.worker) /\ c.worker \in Worker
      BY CallFields DEF OneCallEach, Due, Typed, CallsTyped
    <2>4. ~Crash
      BY DEF Crash
    <2>5. \A x \in calls : x.worker = c.worker => ~ActionFinished(x)
      BY <2>1, FinishedCallIsGone DEF BecomesOf
    <2>6. toIgnore[c.worker] \subseteq toIgnore'[c.worker]
      BY <2>3, <2>4, <2>5, BatchStays
    <2>7. i.epoch = epoch[i.op.obj][i.op.type]
      BY <2>1, <2>2, <2>6 DEF JobsAreFresh, BecomesOf
    <2>8. epoch'[i.op.obj][i.op.type] = epoch[i.op.obj][i.op.type]
      BY <2>1, <2>2, EpochStep, InvalidationMarks DEF BecomesOf
    <2>9. QED BY <2>2, <2>7, <2>8
  <1>4. QED BY <1>1, <1>2, <1>3

(* No result of data that was invalidated since its job was sent reaches   *)
(* the cache: the marks of ignore_operation are made in time, and last     *)
(* until the worker answers, as long as workers keep their batches and     *)
(* nobody asks for archived sandboxes.                                     *)
THEOREM EvaluationServiceFreshOnArrival ==
  ASSUME NobodyLeaves, NoAliasing, NothingArchived
  PROVE  Spec => FreshOnArrival
  <1> DEFINE Inv == PlaceInv /\ JobsAreFresh
  <1>1. Init => Inv
    BY PlaceInvInitially DEF Init, JobsAreFresh
  <1>2. Inv /\ [Next]_vars => Inv'
    BY PlaceInvKept, JobsAreFreshKept
  <1>3. Inv /\ [Next]_vars =>
          [\A r \in d' \ d : r.epoch = epoch[r.op.obj][r.op.type]]_vars
    <2> SUFFICES ASSUME Inv, [Next]_vars, NEW r \in d' \ d
                 PROVE  r.epoch = epoch[r.op.obj][r.op.type]
      OBVIOUS
    <2>1. Typed
      BY DEF PlaceInv, SyncInv
    <2>2. QED BY <2>1, CacheStep DEF JobsAreFresh
  <1> HIDE DEF Inv
  <1>4. QED BY <1>1, <1>2, <1>3, PTL DEF Spec, FreshOnArrival

-----------------------------------------------------------------------------
(* What becomes of an object nobody announced late or invalidated, while   *)
(* workers keep their batches.  The results that are still to be written,  *)
(* and the operations that are on their way from the queue to the database.*)
Unwritten == IF writer \in {"flushed", "writing"} THEN d \cup fd ELSE d

InFlight(op) ==
  \/ op \in queue \cup lost
  \/ executor = "waiting" /\ op \in executing
  \/ reverse[op] # NoWorker
  \/ \E r \in Unwritten : r.op = op

Undisturbed == Object \ Disturbed

Underway(o, t) == {op \in Operation : op.obj = o /\ op.type = t /\ InFlight(op)}

OneResultEach == OneEach(d) /\ OneEach(fd) /\ \A c \in calls : OneEach(c.jobs)

RequestsArePlain == \A op \in requests : op.archive = FALSE

(* What the pool gave back while write_results runs is not being written.  *)
LostApart == writer = "writing" => \A r \in fd : r.op \notin lost

(* Nobody asked to archive its sandboxes.                                  *)
NotArchived ==
  \A op \in Operation :
    op.obj \in Undisturbed /\ (InFlight(op) \/ \E r \in fd : r.op = op) =>
      op.archive = FALSE

(* It is compiled only until it has an outcome ...                         *)
CompiledOnce ==
  \A op \in Operation :
    op.obj \in Undisturbed /\ op.type = "compilation" /\ InFlight(op) =>
      db[op.obj].compilation = "none"

(* ... and evaluated, if at all, with the executables that gave.           *)
CompiledFirst ==
  /\ \A c \in calls : \A j \in c.jobs :
       j.op.obj \in Undisturbed /\ j.op.type = "evaluation" /\ Promises(c, j) =>
         db[j.op.obj].compilation = "ok"
  /\ \A r \in Unwritten :
       r.op.obj \in Undisturbed /\ r.op.type = "evaluation" /\ r.outcome = "ok" =>
         db[r.op.obj].compilation = "ok"

RowsInOrder ==
  \A o \in Undisturbed :
    /\ db[o].evaluated \/ db[o].evaluations # {} => db[o].compilation = "ok"
    /\ db[o].evaluated /\ o \in Submission => db[o].evaluations = Testcase

(* The tries a row has behind it and those under way.                      *)
TriesLeft ==
  \A o \in Undisturbed :
    /\ db[o].compilationTries + Cardinality(Underway(o, "compilation"))
         <= MAX_COMPILATION_TRIES
    /\ db[o].evaluationTries + Cardinality(Underway(o, "evaluation"))
         < MAX_EVALUATION_TRIES + Cardinality(InputsOf(o))

JudgedInv ==
  /\ PlaceInv /\ OneResultEach /\ RequestsArePlain /\ LostApart
  /\ NotArchived /\ CompiledOnce /\ CompiledFirst /\ RowsInOrder

(* What the row of its object asks of an operation.                        *)
Wants(op, row) ==
  \/ op.type = "compilation" /\ ToCompile(row)
  \/ /\ op.type = "evaluation" /\ ToEvaluate(row)
     /\ op.tc \in InputsOf(op.obj) \ row.evaluations

LEMMA WantedCases ==
  ASSUME NEW pairs, NEW rows, NEW op \in Wanted(pairs, rows)
  PROVE  \E p \in pairs : /\ op.obj = p[1] /\ op.archive = p[2]
                          /\ Wants(op, rows[op.obj])
  <1>1. PICK p \in pairs : op \in GetOperations(p[1], rows[p[1]], p[2])
    BY DEF Wanted
  <1>2. PICK o, a, row : o = p[1] /\ a = p[2] /\ row = rows[p[1]]
    OBVIOUS
  <1>3. op \in GetOperations(o, row, a)
    BY <1>1, <1>2
  <1>4. \/ ToCompile(row) /\ op = CompilationOp(o, a)
        \/ /\ ToEvaluate(row)
           /\ \E x \in InputsOf(o) \ row.evaluations : op = EvaluationOp(o, x, a)
    BY <1>3 DEF GetOperations
  <1>5. op.obj = o /\ op.archive = a /\ Wants(op, row)
    BY <1>4, CompilationOpFields, EvaluationOpFields DEF Wants
  <1>6. QED BY <1>2, <1>5

LEMMA FreshArchives ==
  ASSUME NEW X
  PROVE  \A p \in {<<o, FALSE>> : o \in X} : p[2] = FALSE
  <1> DEFINE no == FALSE
             fresh == {<<o, no>> : o \in X}
  <1>1. no = FALSE
    OBVIOUS
  <1> HIDE DEF no
  <1>2. \A p \in fresh : p[2] = no
    OBVIOUS
  <1>3. QED BY Zenon, <1>1, <1>2

(* Disturbed only grows, and new_submission asks for no archive.           *)
LEMMA DisturbedStep ==
  ASSUME Typed, [Next]_vars
  PROVE  /\ late \subseteq late' /\ invalidated \subseteq invalidated'
         /\ Disturbed \subseteq Disturbed'
         /\ \A op \in requests' : op \in requests \/ op.archive = FALSE
  <1> DEFINE Goal == /\ late \subseteq late' /\ invalidated \subseteq invalidated'
                     /\ Disturbed \subseteq Disturbed'
                     /\ \A op \in requests' : op \in requests \/ op.archive = FALSE
  <1> USE DEF Disturbed
  <1>a. ASSUME NEW o
        PROVE  \A op \in Wanted({<<o, FALSE>>}, db) : op.archive = FALSE
    <2> DEFINE pairs == {<<x, FALSE>> : x \in {o}}
    <2>1. \A p \in pairs : p[2] = FALSE
      BY Zenon, FreshArchives
    <2>2. pairs = {<<o, FALSE>>}
      OBVIOUS
    <2> HIDE DEF pairs
    <2>3. \A op \in Wanted(pairs, db) : \E p \in pairs : op.archive = p[2]
      BY WantedCases
    <2>4. \A op \in Wanted(pairs, db) : op.archive = FALSE
      BY Zenon, <2>1, <2>3
    <2>5. QED BY Zenon, <2>2, <2>4
  <1>1. ASSUME NEW s \in Submission, NewSubmission(s) PROVE Goal
    <2>1. \A op \in Wanted({<<s, FALSE>>}, db) : op.archive = FALSE
      BY Zenon, <1>a
    <2>2. /\ requests' = requests \cup Wanted({<<s, FALSE>>}, db)
          /\ UNCHANGED <<late, invalidated>>
      BY <1>1 DEF NewSubmission
    <2>3. QED BY Zenon, <2>1, <2>2
  <1>2. ASSUME NEW u \in UserTest, NewUserTest(u) PROVE Goal
    <2>1. \A op \in Wanted({<<u, FALSE>>}, db) : op.archive = FALSE
      BY Zenon, <1>a
    <2>2. /\ requests' = requests \cup Wanted({<<u, FALSE>>}, db)
          /\ UNCHANGED <<late, invalidated>>
      BY <1>2 DEF NewUserTest, dbVars
    <2>3. QED BY Zenon, <2>1, <2>2
  <1>3. ASSUME NEW op \in Operation, Enqueue(op) PROVE Goal
    BY <1>3 DEF Enqueue, requestVars, dbVars
  <1>4. CASE EnqueueLost
    BY <1>4 DEF EnqueueLost, requestVars, dbVars
  <1>5. CASE Sweep
    BY <1>5 DEF Sweep, requestVars, dbVars
  <1>6. CASE PopBatch
    BY <1>6 DEF PopBatch, requestVars, dbVars
  <1>7. CASE AcquireWorker
    BY <1>7 DEF AcquireWorker, requestVars, dbVars
  <1>8. CASE NothingToExecute
    BY <1>8 DEF NothingToExecute, requestVars, dbVars
  <1>9. CASE SendJobGroup
    BY <1>9 DEF SendJobGroup, requestVars, dbVars
  <1>10. CASE AcquireWorkerRaises
    BY <1>10 DEF AcquireWorkerRaises, requestVars, dbVars
  <1>11. ASSUME NEW c \in calls, WorkerFinishes(c) PROVE Goal
    BY <1>11 DEF WorkerFinishes, requestVars, dbVars
  <1>12. ASSUME NEW c \in calls, WorkerFails(c) PROVE Goal
    BY <1>12 DEF WorkerFails, requestVars, dbVars
  <1>13. ASSUME NEW c \in calls, ActionFinished(c) PROVE Goal
    BY <1>13 DEF ActionFinished, requestVars, dbVars
  <1>14. CASE Flush
    BY <1>14 DEF Flush, requestVars, dbVars
  <1>15. CASE StartWriting
    BY <1>15 DEF StartWriting, requestVars, dbVars
  <1>16. CASE WriteResults
    BY <1>16 DEF WriteResults, requestVars, dbVars
  <1>17. CASE SetEvaluationOutcomes
    BY <1>17 DEF SetEvaluationOutcomes, requestVars, dbVars
  <1>18. CASE EndOperations
    BY <1>18 DEF EndOperations, requestVars, dbVars
  <1>19. CASE EndOperationsRaises
    BY <1>19 DEF EndOperationsRaises, requestVars, dbVars
  <1>20. ASSUME NEW s \in Submission, NEW l \in Levels, NEW a \in ArchiveRequests,
               InvalidateSubmission(s, l[1], l[2], a)
        PROVE  Goal
    BY <1>20 DEF InvalidateSubmission, requestVars, dbVars
  <1>21. ASSUME NEW o \in Object, DeleteObject(o) PROVE Goal
    BY <1>21 DEF DeleteObject, requestVars, dbVars
  <1>22. CASE CheckWorkersTimeout
    BY <1>22 DEF CheckWorkersTimeout, dbVars
  <1>23. CASE CheckWorkersConnection
    BY <1>23 DEF CheckWorkersConnection, requestVars, dbVars
  <1>24. ASSUME NEW w \in Worker, DisableWorker(w) PROVE Goal
    BY <1>24 DEF DisableWorker, requestVars, dbVars
  <1>25. ASSUME NEW w \in Worker, EnableWorker(w) PROVE Goal
    BY <1>25 DEF EnableWorker, requestVars, dbVars
  <1>26. ASSUME NEW w \in Worker, Connect(w) PROVE Goal
    BY <1>26 DEF Connect, requestVars, dbVars
  <1>27. ASSUME NEW w \in Worker, OnWorkerConnected(w) PROVE Goal
    BY <1>27 DEF OnWorkerConnected, requestVars, dbVars
  <1>28. ASSUME NEW w \in Worker, Disconnect(w) PROVE Goal
    BY <1>28 DEF Disconnect, requestVars, dbVars
  <1>29. CASE Crash
    BY <1>29 DEF Crash, requestVars, dbVars
  <1>30. CASE UNCHANGED vars
    BY <1>30 DEF vars, requestVars, dbVars
  <1>31. QED
    BY <1>1, <1>2, <1>3, <1>4, <1>5, <1>6, <1>7, <1>8, <1>9, <1>10,
       <1>11, <1>12, <1>13, <1>14, <1>15, <1>16, <1>17, <1>18, <1>19,
       <1>20, <1>21, <1>22, <1>23, <1>24, <1>25, <1>26, <1>27, <1>28,
       <1>29, <1>30 DEF Next

(* What waits for the lock came from the pool.                             *)
LEMMA LostStep ==
  ASSUME Typed, [Next]_vars
  PROVE  \A op \in lost' : op \in lost \/ \E w \in Worker : op \in operations[w]
  <1> DEFINE Goal == \A op \in lost' : op \in lost \/ \E w \in Worker : op \in operations[w]
  <1>1. ASSUME NEW s \in Submission, NewSubmission(s) PROVE Goal
    BY <1>1 DEF NewSubmission, requestVars
  <1>2. ASSUME NEW u \in UserTest, NewUserTest(u) PROVE Goal
    BY <1>2 DEF NewUserTest, requestVars
  <1>3. ASSUME NEW op \in Operation, Enqueue(op) PROVE Goal
    BY <1>3 DEF Enqueue, requestVars
  <1>4. CASE EnqueueLost
    BY <1>4 DEF EnqueueLost, requestVars
  <1>5. CASE Sweep
    BY <1>5 DEF Sweep, requestVars
  <1>6. CASE PopBatch
    BY <1>6 DEF PopBatch, requestVars
  <1>7. CASE AcquireWorker
    BY <1>7 DEF AcquireWorker, requestVars
  <1>8. CASE NothingToExecute
    BY <1>8 DEF NothingToExecute, requestVars
  <1>9. CASE SendJobGroup
    BY <1>9 DEF SendJobGroup, requestVars
  <1>10. CASE AcquireWorkerRaises
    BY <1>10 DEF AcquireWorkerRaises, requestVars
  <1>11. ASSUME NEW c \in calls, WorkerFinishes(c) PROVE Goal
    BY <1>11 DEF WorkerFinishes, requestVars
  <1>12. ASSUME NEW c \in calls, WorkerFails(c) PROVE Goal
    BY <1>12 DEF WorkerFails, requestVars
  <1>13. ASSUME NEW c \in calls, ActionFinished(c) PROVE Goal
    BY <1>13 DEF ActionFinished, requestVars
  <1>14. CASE Flush
    BY <1>14 DEF Flush, requestVars
  <1>15. CASE StartWriting
    BY <1>15 DEF StartWriting, requestVars
  <1>16. CASE WriteResults
    BY <1>16 DEF WriteResults, requestVars
  <1>17. CASE SetEvaluationOutcomes
    BY <1>17 DEF SetEvaluationOutcomes, requestVars
  <1>18. CASE EndOperations
    BY <1>18 DEF EndOperations, requestVars
  <1>19. CASE EndOperationsRaises
    BY <1>19 DEF EndOperationsRaises, requestVars
  <1>20. ASSUME NEW s \in Submission, NEW l \in Levels, NEW a \in ArchiveRequests,
               InvalidateSubmission(s, l[1], l[2], a)
        PROVE  Goal
    BY <1>20 DEF InvalidateSubmission, requestVars
  <1>21. ASSUME NEW o \in Object, DeleteObject(o) PROVE Goal
    BY <1>21 DEF DeleteObject, requestVars
  <1>22. CASE CheckWorkersTimeout
    <2>1. PICK ws \in SUBSET Worker : PutAgain(Pool!NotIgnored(ws))
      BY <1>22 DEF CheckWorkersTimeout
    <2>2. QED BY <2>1 DEF PutAgain, Pool!NotIgnored
  <1>23. CASE CheckWorkersConnection
    BY <1>23 DEF CheckWorkersConnection, PutAgain, Pool!Unconnected
  <1>24. ASSUME NEW w \in Worker, DisableWorker(w) PROVE Goal
    BY <1>24 DEF DisableWorker, PutAgain, Pool!NotIgnored
  <1>25. ASSUME NEW w \in Worker, EnableWorker(w) PROVE Goal
    BY <1>25 DEF EnableWorker, requestVars
  <1>26. ASSUME NEW w \in Worker, Connect(w) PROVE Goal
    BY <1>26 DEF Connect, requestVars
  <1>27. ASSUME NEW w \in Worker, OnWorkerConnected(w) PROVE Goal
    BY <1>27 DEF OnWorkerConnected, requestVars
  <1>28. ASSUME NEW w \in Worker, Disconnect(w) PROVE Goal
    BY <1>28 DEF Disconnect, requestVars
  <1>29. CASE Crash
    BY <1>29 DEF Crash, requestVars
  <1>30. CASE UNCHANGED vars
    BY <1>30 DEF vars, requestVars
  <1>31. QED
    BY <1>1, <1>2, <1>3, <1>4, <1>5, <1>6, <1>7, <1>8, <1>9, <1>10,
       <1>11, <1>12, <1>13, <1>14, <1>15, <1>16, <1>17, <1>18, <1>19,
       <1>20, <1>21, <1>22, <1>23, <1>24, <1>25, <1>26, <1>27, <1>28,
       <1>29, <1>30 DEF Next

(* What is to be written came from a worker, and is written once.          *)
LEMMA WriterStep ==
  ASSUME Typed, [Next]_vars
  PROVE  /\ \A r \in Unwritten' :
              \/ r \in Unwritten
              \/ \E c \in calls : /\ ActionFinished(c) /\ r \in c.jobs
                                  /\ c.answer = "done" /\ r \in d' \ d
         /\ writer' = "writing" => /\ fd' = fd
                                   /\ writer = "writing" \/ lost' = {}
         /\ WriteResults => Unwritten' = d /\ Unwritten = d \cup fd
  <1> DEFINE Goal ==
         /\ \A r \in Unwritten' :
              \/ r \in Unwritten
              \/ \E c \in calls : /\ ActionFinished(c) /\ r \in c.jobs
                                  /\ c.answer = "done" /\ r \in d' \ d
         /\ writer' = "writing" => /\ fd' = fd
                                   /\ writer = "writing" \/ lost' = {}
         /\ WriteResults => Unwritten' = d /\ Unwritten = d \cup fd
  <1>a. ASSUME UNCHANGED cacheVars, ~WriteResults PROVE Goal
    BY <1>a DEF Unwritten, cacheVars
  <1>1. ASSUME NEW s \in Submission, NewSubmission(s) PROVE Goal
    <2>1. UNCHANGED cacheVars
      BY <1>1 DEF NewSubmission, cacheVars
    <2>2. CASE WriteResults
      BY <1>1, <2>1, <2>2 DEF WriteResults, cacheVars
    <2>3. QED BY <1>a, <2>1, <2>2
  <1>2. ASSUME NEW u \in UserTest, NewUserTest(u) PROVE Goal
    <2>1. UNCHANGED cacheVars
      BY <1>2 DEF NewUserTest, cacheVars
    <2>2. CASE WriteResults
      BY <1>2, <2>1, <2>2 DEF WriteResults, cacheVars
    <2>3. QED BY <1>a, <2>1, <2>2
  <1>3. ASSUME NEW op \in Operation, Enqueue(op) PROVE Goal
    <2>1. UNCHANGED cacheVars
      BY <1>3 DEF Enqueue, cacheVars
    <2>2. CASE WriteResults
      BY <1>3, <2>1, <2>2 DEF WriteResults, cacheVars
    <2>3. QED BY <1>a, <2>1, <2>2
  <1>4. CASE EnqueueLost
    <2>1. UNCHANGED cacheVars
      BY <1>4 DEF EnqueueLost, cacheVars
    <2>2. CASE WriteResults
      BY <1>4, <2>1, <2>2 DEF WriteResults, cacheVars
    <2>3. QED BY <1>a, <2>1, <2>2
  <1>5. CASE Sweep
    <2>1. UNCHANGED cacheVars
      BY <1>5 DEF Sweep, cacheVars
    <2>2. CASE WriteResults
      BY <1>5, <2>1, <2>2 DEF WriteResults, cacheVars
    <2>3. QED BY <1>a, <2>1, <2>2
  <1>6. CASE PopBatch
    <2>1. UNCHANGED cacheVars
      BY <1>6 DEF PopBatch, cacheVars
    <2>2. CASE WriteResults
      BY <1>6, <2>1, <2>2 DEF WriteResults, cacheVars
    <2>3. QED BY <1>a, <2>1, <2>2
  <1>7. CASE AcquireWorker
    <2>1. UNCHANGED cacheVars
      BY <1>7 DEF AcquireWorker, cacheVars
    <2>2. CASE WriteResults
      BY <1>7, <2>1, <2>2 DEF WriteResults, cacheVars
    <2>3. QED BY <1>a, <2>1, <2>2
  <1>8. CASE NothingToExecute
    <2>1. UNCHANGED cacheVars
      BY <1>8 DEF NothingToExecute, cacheVars
    <2>2. CASE WriteResults
      BY <1>8, <2>1, <2>2 DEF WriteResults, cacheVars
    <2>3. QED BY <1>a, <2>1, <2>2
  <1>9. CASE SendJobGroup
    <2>1. UNCHANGED cacheVars
      BY <1>9 DEF SendJobGroup, cacheVars
    <2>2. CASE WriteResults
      BY <1>9, <2>1, <2>2 DEF WriteResults, cacheVars
    <2>3. QED BY <1>a, <2>1, <2>2
  <1>10. CASE AcquireWorkerRaises
    <2>1. UNCHANGED cacheVars
      BY <1>10 DEF AcquireWorkerRaises, cacheVars
    <2>2. CASE WriteResults
      BY <1>10, <2>1, <2>2 DEF WriteResults, cacheVars
    <2>3. QED BY <1>a, <2>1, <2>2
  <1>11. ASSUME NEW c \in calls, WorkerFinishes(c) PROVE Goal
    <2>1. UNCHANGED cacheVars
      BY <1>11 DEF WorkerFinishes, cacheVars
    <2>2. CASE WriteResults
      BY <1>11, <2>1, <2>2 DEF WriteResults, cacheVars
    <2>3. QED BY <1>a, <2>1, <2>2
  <1>12. ASSUME NEW c \in calls, WorkerFails(c) PROVE Goal
    <2>1. UNCHANGED cacheVars
      BY <1>12 DEF WorkerFails, cacheVars
    <2>2. CASE WriteResults
      BY <1>12, <2>1, <2>2 DEF WriteResults, cacheVars
    <2>3. QED BY <1>a, <2>1, <2>2
  <1>13. ASSUME NEW c \in calls, ActionFinished(c) PROVE Goal
    BY <1>13 DEF ActionFinished, AddAll, Unwritten, LockFree, WriteResults
  <1>14. CASE Flush
    BY <1>14 DEF Flush, Unwritten, WriteResults, requestVars
  <1>15. CASE StartWriting
    BY <1>15 DEF StartWriting, Unwritten, WriteResults, requestVars
  <1>16. CASE WriteResults
    BY <1>16 DEF WriteResults, Unwritten
  <1>17. CASE SetEvaluationOutcomes
    BY <1>17 DEF SetEvaluationOutcomes, Unwritten, WriteResults, requestVars
  <1>18. CASE EndOperations
    BY <1>18 DEF EndOperations, Unwritten, WriteResults, requestVars
  <1>19. CASE EndOperationsRaises
    BY <1>19 DEF EndOperationsRaises, Unwritten, WriteResults, requestVars
  <1>20. ASSUME NEW s \in Submission, NEW l \in Levels, NEW a \in ArchiveRequests,
               InvalidateSubmission(s, l[1], l[2], a)
        PROVE  Goal
    <2>1. UNCHANGED cacheVars
      BY <1>20 DEF InvalidateSubmission, cacheVars
    <2>2. CASE WriteResults
      BY <1>20, <2>1, <2>2 DEF WriteResults, cacheVars
    <2>3. QED BY <1>a, <2>1, <2>2
  <1>21. ASSUME NEW o \in Object, DeleteObject(o) PROVE Goal
    <2>1. UNCHANGED cacheVars
      BY <1>21 DEF DeleteObject, cacheVars
    <2>2. CASE WriteResults
      BY <1>21, <2>1, <2>2 DEF WriteResults, cacheVars
    <2>3. QED BY <1>a, <2>1, <2>2
  <1>22. CASE CheckWorkersTimeout
    <2>1. UNCHANGED cacheVars
      BY <1>22 DEF CheckWorkersTimeout, cacheVars
    <2>2. CASE WriteResults
      BY <1>22, <2>1, <2>2 DEF WriteResults, cacheVars
    <2>3. QED BY <1>a, <2>1, <2>2
  <1>23. CASE CheckWorkersConnection
    <2>1. UNCHANGED cacheVars
      BY <1>23 DEF CheckWorkersConnection, cacheVars
    <2>2. CASE WriteResults
      BY <1>23, <2>1, <2>2 DEF WriteResults, cacheVars
    <2>3. QED BY <1>a, <2>1, <2>2
  <1>24. ASSUME NEW w \in Worker, DisableWorker(w) PROVE Goal
    <2>1. UNCHANGED cacheVars
      BY <1>24 DEF DisableWorker, cacheVars
    <2>2. CASE WriteResults
      BY <1>24, <2>1, <2>2 DEF WriteResults, cacheVars
    <2>3. QED BY <1>a, <2>1, <2>2
  <1>25. ASSUME NEW w \in Worker, EnableWorker(w) PROVE Goal
    <2>1. UNCHANGED cacheVars
      BY <1>25 DEF EnableWorker, cacheVars
    <2>2. CASE WriteResults
      BY <1>25, <2>1, <2>2 DEF WriteResults, cacheVars
    <2>3. QED BY <1>a, <2>1, <2>2
  <1>26. ASSUME NEW w \in Worker, Connect(w) PROVE Goal
    <2>1. UNCHANGED cacheVars
      BY <1>26 DEF Connect, cacheVars
    <2>2. CASE WriteResults
      BY <1>26, <2>1, <2>2 DEF WriteResults, cacheVars
    <2>3. QED BY <1>a, <2>1, <2>2
  <1>27. ASSUME NEW w \in Worker, OnWorkerConnected(w) PROVE Goal
    <2>1. UNCHANGED cacheVars
      BY <1>27 DEF OnWorkerConnected, cacheVars
    <2>2. CASE WriteResults
      BY <1>27, <2>1, <2>2 DEF WriteResults, cacheVars
    <2>3. QED BY <1>a, <2>1, <2>2
  <1>28. ASSUME NEW w \in Worker, Disconnect(w) PROVE Goal
    <2>1. UNCHANGED cacheVars
      BY <1>28 DEF Disconnect, cacheVars
    <2>2. CASE WriteResults
      BY <1>28, <2>1, <2>2 DEF WriteResults, cacheVars
    <2>3. QED BY <1>a, <2>1, <2>2
  <1>29. CASE Crash
    BY <1>29 DEF Crash, Unwritten, WriteResults
  <1>30. CASE UNCHANGED vars
    <2>1. UNCHANGED cacheVars
      BY <1>30 DEF vars
    <2>2. CASE WriteResults
      BY <2>1, <2>2 DEF WriteResults, cacheVars
    <2>3. QED BY <1>a, <2>1, <2>2
  <1>31. QED
    BY <1>1, <1>2, <1>3, <1>4, <1>5, <1>6, <1>7, <1>8, <1>9, <1>10,
       <1>11, <1>12, <1>13, <1>14, <1>15, <1>16, <1>17, <1>18, <1>19,
       <1>20, <1>21, <1>22, <1>23, <1>24, <1>25, <1>26, <1>27, <1>28,
       <1>29, <1>30 DEF Next

(* Nobody but an administrator asks to archive what was not archived.      *)
LEMMA EndedArchives ==
  ASSUME NEW rs, NEW p \in EndedPairs(rs)
  PROVE  p[2] = FALSE \/ \E r \in rs : r.op.obj = p[1] /\ r.op.archive = p[2]
  <1> DEFINE none == FALSE
  <1>1. EndedPairs(rs) =
          {<<r.op.obj, none>> : r \in {q \in {x \in rs : x.op.obj \in Submission} :
                                         q.op.type = "compilation"}}
          \cup {<<r.op.obj, r.op.archive>> :
                  r \in {q \in {x \in rs : x.op.obj \in Submission} :
                           q.op.type = "evaluation" /\ db[q.op.obj].evaluated}}
          \cup {<<r.op.obj, none>> : r \in {q \in rs : q.op.obj \in UserTest}}
    BY DEF EndedPairs, EndedSubmissions, EndedUserTests
  <1>2. none = FALSE
    OBVIOUS
  <1> HIDE DEF none
  <1>3. \E r \in rs : p = <<r.op.obj, none>> \/ p = <<r.op.obj, r.op.archive>>
    BY <1>1
  <1>4. p[2] = none \/ \E r \in rs : r.op.obj = p[1] /\ r.op.archive = p[2]
    BY <1>3
  <1>5. QED BY Zenon, <1>2, <1>4

Asked(op) ==
  /\ Wants(op, db[op.obj])
  /\ op.archive = FALSE \/ \E r \in fd : r.op.obj = op.obj /\ r.op.archive = op.archive

(* write_results found that its object has no executables.                 *)
Found(op) ==
  /\ op.type = "compilation" /\ op.archive = FALSE
  /\ db[op.obj].compilation = "tombstone" /\ db'[op.obj].compilation = "none"

LEMMA FreshAreAsked ==
  ASSUME NEW X, NEW op \in Wanted({<<o, FALSE>> : o \in X}, db)
  PROVE  Asked(op)
  <1> DEFINE pairs == {<<o, FALSE>> : o \in X}
  <1>1. \A p \in pairs : p[2] = FALSE
    BY Zenon, FreshArchives
  <1> HIDE DEF pairs
  <1>2. op \in Wanted(pairs, db)
    BY Zenon DEF pairs
  <1>3. \E p \in pairs : op.archive = p[2] /\ Wants(op, db[op.obj])
    BY <1>2, WantedCases
  <1>4. QED BY Zenon, <1>1, <1>3 DEF Asked

LEMMA EndedAreAsked ==
  ASSUME NEW rs \in SUBSET fd, NEW op \in Wanted(EndedPairs(rs), db)
  PROVE  Asked(op)
  <1>1. PICK p \in EndedPairs(rs) :
          op.obj = p[1] /\ op.archive = p[2] /\ Wants(op, db[op.obj])
    BY WantedCases
  <1>2. QED BY ZenonT(60), <1>1, EndedArchives DEF Asked

(* What arrives in the queue, or waits for the lock.                       *)
LEMMA GrowthStep ==
  ASSUME Typed, RequestsArePlain, [Next]_vars
  PROVE  \A op \in queue' \cup lost' :
           \/ op \in queue \cup lost
           \/ \E w \in Worker : op \in operations[w]
           \/ op.obj \in late'
           \/ op.obj \in invalidated'
           \/ ~WriteResults /\ Asked(op)
           \/ WriteResults /\ Found(op)
  <1> DEFINE Goal ==
         \A op \in queue' \cup lost' :
           \/ op \in queue \cup lost
           \/ \E w \in Worker : op \in operations[w]
           \/ op.obj \in late'
           \/ op.obj \in invalidated'
           \/ ~WriteResults /\ Asked(op)
           \/ WriteResults /\ Found(op)
  <1>1. ASSUME NEW s \in Submission, NewSubmission(s) PROVE Goal
    BY <1>1 DEF NewSubmission, requestVars
  <1>2. ASSUME NEW u \in UserTest, NewUserTest(u) PROVE Goal
    BY <1>2 DEF NewUserTest, requestVars
  <1>3. ASSUME NEW op \in Operation, Enqueue(op) PROVE Goal
    <2>1. ASSUME op \in queue' \ queue PROVE op.obj \in late' \/ Asked(op)
      <3>1. CASE AlreadyDone(op)
        BY <1>3, <2>1, <3>1 DEF Enqueue
      <3>2. CASE ~AlreadyDone(op)
        <4> DEFINE pairs == {<<op.obj, op.archive>>}
        <4>1. op \in Wanted(pairs, db)
          BY <3>2 DEF AlreadyDone
        <4> HIDE DEF pairs
        <4>2. Wants(op, db[op.obj])
          BY Zenon, <4>1, WantedCases
        <4>3. op.archive = FALSE
          BY <1>3 DEF Enqueue, RequestsArePlain
        <4>4. QED BY <4>2, <4>3 DEF Asked
      <3>3. QED BY <3>1, <3>2
    <2>2. ~WriteResults
      BY <1>3 DEF Enqueue, LockFree, WriteResults
    <2>3. queue' \subseteq queue \cup {op} /\ UNCHANGED lost
      BY <1>3 DEF Enqueue, Enqueued
    <2>4. QED BY <2>1, <2>2, <2>3
  <1>4. CASE EnqueueLost
    BY <1>4 DEF EnqueueLost, Enqueued
  <1>5. CASE Sweep
    <2>1. \A op \in MissingUserTestOperations \cup MissingOperations : Asked(op)
      BY Zenon, FreshAreAsked DEF MissingUserTestOperations, MissingOperations
    <2>2. ~WriteResults
      BY <1>5 DEF Sweep, LockFree, WriteResults
    <2>3. QED BY <1>5, <2>1, <2>2 DEF Sweep, Enqueued, requestVars
  <1>6. CASE PopBatch
    BY <1>6 DEF PopBatch, requestVars
  <1>7. CASE AcquireWorker
    BY <1>7 DEF AcquireWorker, requestVars
  <1>8. CASE NothingToExecute
    BY <1>8 DEF NothingToExecute, requestVars
  <1>9. CASE SendJobGroup
    BY <1>9 DEF SendJobGroup, requestVars
  <1>10. CASE AcquireWorkerRaises
    BY <1>10 DEF AcquireWorkerRaises, requestVars
  <1>11. ASSUME NEW c \in calls, WorkerFinishes(c) PROVE Goal
    BY <1>11 DEF WorkerFinishes, requestVars
  <1>12. ASSUME NEW c \in calls, WorkerFails(c) PROVE Goal
    BY <1>12 DEF WorkerFails, requestVars
  <1>13. ASSUME NEW c \in calls, ActionFinished(c) PROVE Goal
    BY <1>13 DEF ActionFinished, requestVars
  <1>14. CASE Flush
    BY <1>14 DEF Flush, requestVars
  <1>15. CASE StartWriting
    BY <1>15 DEF StartWriting, requestVars
  <1>16. CASE WriteResults
    <2> DEFINE found == {s \in Submission : db[s].compilation = "tombstone"
                                             /\ db'[s].compilation = "none"}
    <2>1. queue' = Enqueued({CompilationOp(s, FALSE) : s \in found},
                            queue, executing, reverse)
      BY <1>16 DEF WriteResults
    <2> DEFINE no == FALSE
               new == {CompilationOp(s, no) : s \in found}
    <2>2. no = FALSE
      OBVIOUS
    <2> HIDE DEF no
    <2>3. \A op \in new : /\ op.type = "compilation" /\ op.archive = no
                          /\ db[op.obj].compilation = "tombstone"
                          /\ db'[op.obj].compilation = "none"
      BY CompilationOpFields
    <2> HIDE DEF new, found
    <2>4. \A op \in new : Found(op)
      BY Zenon, <2>2, <2>3 DEF Found
    <2>5. queue' = Enqueued(new, queue, executing, reverse)
      BY Zenon, <2>1, <2>2 DEF new
    <2>6. UNCHANGED lost
      BY <1>16 DEF WriteResults, requestVars
    <2>7. QED BY <1>16, <2>4, <2>5, <2>6 DEF Enqueued
  <1>17. CASE SetEvaluationOutcomes
    BY <1>17 DEF SetEvaluationOutcomes, requestVars
  <1>18. CASE EndOperations
    <2>1. \A op \in Wanted(EndedPairs(fd), db) : Asked(op)
      BY EndedAreAsked
    <2>2. ~WriteResults
      BY <1>18 DEF EndOperations, WriteResults
    <2>3. QED BY <1>18, <2>1, <2>2 DEF EndOperations, Enqueued, requestVars
  <1>19. CASE EndOperationsRaises
    <2>1. PICK past \in SUBSET {r \in fd : r.op.obj \notin deleted} :
            queue' = Enqueued(Wanted(EndedPairs(past), db), queue, executing, reverse)
      BY <1>19 DEF EndOperationsRaises
    <2>2. \A op \in Wanted(EndedPairs(past), db) : Asked(op)
      BY EndedAreAsked
    <2>3. ~WriteResults
      BY <1>19 DEF EndOperationsRaises, WriteResults
    <2>4. QED BY <1>19, <2>1, <2>2, <2>3 DEF EndOperationsRaises, Enqueued, requestVars
  <1>20. ASSUME NEW s \in Submission, NEW l \in Levels, NEW a \in ArchiveRequests,
               InvalidateSubmission(s, l[1], l[2], a)
        PROVE  Goal
    <2>1. \E row :
            queue' = Enqueued(Wanted({<<s, a>>}, [db EXCEPT ![s] = row]),
                              queue \ RelevantOperations(s, l[1]),
                              executing \ (RelevantOperations(s, l[1]) \ queue),
                              reverse)
      BY Zenon, <1>20 DEF InvalidateSubmission
    <2>2. {<<s, a>>} \subseteq Pairs /\ \A p \in {<<s, a>>} : p[1] = s
      BY AskedPair
    <2>3. s \in invalidated'
      BY <1>20 DEF InvalidateSubmission
    <2>4. \A row : \A op \in Wanted({<<s, a>>}, row) : op.obj = s
      BY <2>2, WantedAreOperations
    <2>5. UNCHANGED lost
      BY <1>20 DEF InvalidateSubmission, requestVars
    <2>6. QED BY <2>1, <2>3, <2>4, <2>5 DEF Enqueued
  <1>21. ASSUME NEW o \in Object, DeleteObject(o) PROVE Goal
    BY <1>21 DEF DeleteObject, requestVars
  <1>22. CASE CheckWorkersTimeout
    <2>1. PICK ws \in SUBSET Worker : PutAgain(Pool!NotIgnored(ws))
      BY <1>22 DEF CheckWorkersTimeout
    <2>2. QED BY <2>1 DEF PutAgain, Enqueued, Pool!NotIgnored
  <1>23. CASE CheckWorkersConnection
    BY <1>23 DEF CheckWorkersConnection, PutAgain, Enqueued, Pool!Unconnected
  <1>24. ASSUME NEW w \in Worker, DisableWorker(w) PROVE Goal
    BY <1>24 DEF DisableWorker, PutAgain, Enqueued, Pool!NotIgnored
  <1>25. ASSUME NEW w \in Worker, EnableWorker(w) PROVE Goal
    BY <1>25 DEF EnableWorker, requestVars
  <1>26. ASSUME NEW w \in Worker, Connect(w) PROVE Goal
    BY <1>26 DEF Connect, requestVars
  <1>27. ASSUME NEW w \in Worker, OnWorkerConnected(w) PROVE Goal
    BY <1>27 DEF OnWorkerConnected, requestVars
  <1>28. ASSUME NEW w \in Worker, Disconnect(w) PROVE Goal
    BY <1>28 DEF Disconnect, requestVars
  <1>29. CASE Crash
    BY <1>29 DEF Crash, requestVars
  <1>30. CASE UNCHANGED vars
    BY <1>30 DEF vars, requestVars
  <1>31. QED
    BY <1>1, <1>2, <1>3, <1>4, <1>5, <1>6, <1>7, <1>8, <1>9, <1>10,
       <1>11, <1>12, <1>13, <1>14, <1>15, <1>16, <1>17, <1>18, <1>19,
       <1>20, <1>21, <1>22, <1>23, <1>24, <1>25, <1>26, <1>27, <1>28,
       <1>29, <1>30 DEF Next

(* What happens to the row of an object nobody invalidates.                *)
Marked(o) ==
  /\ ~WriteResults /\ o \in Submission /\ db[o].evaluations = Testcase
  /\ db'[o] = [db[o] EXCEPT !.evaluated = TRUE]

LEMMA FinalizedMarks ==
  ASSUME ~WriteResults, NEW pairs, NEW o \in Object, db' = Finalized(pairs, db)
  PROVE  db'[o] = db[o] \/ Marked(o)
  BY DEF Finalized, Marked

LEMMA RowStep ==
  ASSUME Typed, [Next]_vars
  PROVE  \A o \in Undisturbed' :
           \/ db'[o] = db[o]
           \/ Marked(o)
           \/ WriteResults /\ o \notin deleted
  <1> DEFINE Goal == \A o \in Undisturbed' :
                       \/ db'[o] = db[o]
                       \/ Marked(o)
                       \/ WriteResults /\ o \notin deleted
  <1> \A o \in Undisturbed' : o \in Object
    BY DEF Undisturbed
  <1>1. ASSUME NEW s \in Submission, NewSubmission(s) PROVE Goal
    <2>1. ~WriteResults
      BY <1>1 DEF NewSubmission, WriteResults, cacheVars
    <2>2. PICK pairs : db' = Finalized(pairs, db)
      BY <1>1 DEF NewSubmission
    <2>3. QED BY <2>1, <2>2, FinalizedMarks
  <1>2. ASSUME NEW u \in UserTest, NewUserTest(u) PROVE Goal
    BY <1>2 DEF NewUserTest, dbVars
  <1>3. ASSUME NEW op \in Operation, Enqueue(op) PROVE Goal
    BY <1>3 DEF Enqueue, dbVars
  <1>4. CASE EnqueueLost
    BY <1>4 DEF EnqueueLost, dbVars
  <1>5. CASE Sweep
    BY <1>5 DEF Sweep, dbVars
  <1>6. CASE PopBatch
    BY <1>6 DEF PopBatch, dbVars
  <1>7. CASE AcquireWorker
    BY <1>7 DEF AcquireWorker, dbVars
  <1>8. CASE NothingToExecute
    BY <1>8 DEF NothingToExecute, dbVars
  <1>9. CASE SendJobGroup
    BY <1>9 DEF SendJobGroup, dbVars
  <1>10. CASE AcquireWorkerRaises
    BY <1>10 DEF AcquireWorkerRaises, dbVars
  <1>11. ASSUME NEW c \in calls, WorkerFinishes(c) PROVE Goal
    BY <1>11 DEF WorkerFinishes, dbVars
  <1>12. ASSUME NEW c \in calls, WorkerFails(c) PROVE Goal
    BY <1>12 DEF WorkerFails, dbVars
  <1>13. ASSUME NEW c \in calls, ActionFinished(c) PROVE Goal
    BY <1>13 DEF ActionFinished, dbVars
  <1>14. CASE Flush
    BY <1>14 DEF Flush, dbVars
  <1>15. CASE StartWriting
    BY <1>15 DEF StartWriting, dbVars
  <1>16. CASE WriteResults
    BY <1>16, WriteResultsTyped
  <1>17. CASE SetEvaluationOutcomes
    <2>1. ~WriteResults
      BY <1>17 DEF SetEvaluationOutcomes, WriteResults
    <2> SUFFICES ASSUME NEW o \in Undisturbed', db'[o] # db[o] PROVE Marked(o)
      BY <2>1
    <2>2. /\ o \in Submission
          /\ Cardinality(db[o].evaluations) = Cardinality(Testcase)
          /\ db'[o] = [db[o] EXCEPT !.evaluated = TRUE]
      BY <1>17 DEF SetEvaluationOutcomes
    <2>3. db[o].evaluations \in SUBSET Testcase
      BY DEF Typed, Rows, SubmissionResult
    <2>4. db[o].evaluations = Testcase
      BY <2>2, <2>3, FS_Subset, EvaluationServiceAssumption
    <2>5. QED BY <2>1, <2>2, <2>4 DEF Marked
  <1>18. CASE EndOperations
    <2>1. ~WriteResults
      BY <1>18 DEF EndOperations, WriteResults
    <2>2. PICK pairs : db' = Finalized(pairs, db)
      BY <1>18 DEF EndOperations
    <2>3. QED BY <2>1, <2>2, FinalizedMarks
  <1>19. CASE EndOperationsRaises
    <2>1. ~WriteResults
      BY <1>19 DEF EndOperationsRaises, WriteResults
    <2>2. PICK pairs : db' = Finalized(pairs, db)
      BY <1>19 DEF EndOperationsRaises
    <2>3. QED BY <2>1, <2>2, FinalizedMarks
  <1>20. ASSUME NEW s \in Submission, NEW l \in Levels, NEW a \in ArchiveRequests,
               InvalidateSubmission(s, l[1], l[2], a)
        PROVE  Goal
    <2>1. \A o \in Undisturbed' : o # s
      BY <1>20 DEF InvalidateSubmission, Undisturbed, Disturbed
    <2>2. PICK row : db' = Finalized({<<s, a>>}, [db EXCEPT ![s] = row])
      BY Zenon, <1>20 DEF InvalidateSubmission
    <2>3. \A p \in {<<s, a>>} : p[1] = s
      BY AskedPair
    <2> DEFINE rows == [db EXCEPT ![s] = row]
    <2>4. \A o \in Object : o # s => rows[o] = db[o]
      BY DEF Typed, Rows
    <2>5. db' = Finalized({<<s, a>>}, rows)
      BY Zenon, <2>2
    <2> HIDE DEF rows
    <2>6. QED BY <2>1, <2>3, <2>4, <2>5, FinalizedElsewhere
  <1>21. ASSUME NEW o \in Object, DeleteObject(o) PROVE Goal
    BY <1>21 DEF DeleteObject, dbVars
  <1>22. CASE CheckWorkersTimeout
    BY <1>22 DEF CheckWorkersTimeout, dbVars
  <1>23. CASE CheckWorkersConnection
    BY <1>23 DEF CheckWorkersConnection, dbVars
  <1>24. ASSUME NEW w \in Worker, DisableWorker(w) PROVE Goal
    BY <1>24 DEF DisableWorker, dbVars
  <1>25. ASSUME NEW w \in Worker, EnableWorker(w) PROVE Goal
    BY <1>25 DEF EnableWorker, dbVars
  <1>26. ASSUME NEW w \in Worker, Connect(w) PROVE Goal
    BY <1>26 DEF Connect, dbVars
  <1>27. ASSUME NEW w \in Worker, OnWorkerConnected(w) PROVE Goal
    BY <1>27 DEF OnWorkerConnected, dbVars
  <1>28. ASSUME NEW w \in Worker, Disconnect(w) PROVE Goal
    BY <1>28 DEF Disconnect, dbVars
  <1>29. CASE Crash
    BY <1>29 DEF Crash, dbVars
  <1>30. CASE UNCHANGED vars
    BY <1>30 DEF vars, dbVars
  <1>31. QED
    BY <1>1, <1>2, <1>3, <1>4, <1>5, <1>6, <1>7, <1>8, <1>9, <1>10,
       <1>11, <1>12, <1>13, <1>14, <1>15, <1>16, <1>17, <1>18, <1>19,
       <1>20, <1>21, <1>22, <1>23, <1>24, <1>25, <1>26, <1>27, <1>28,
       <1>29, <1>30 DEF Next

(* The way of an operation from the queue to the database.                 *)
LEMMA FlightStep ==
  ASSUME PlaceInv, RequestsArePlain, [Next]_vars,
         NEW op \in Operation, op.obj \in Undisturbed', InFlight(op)'
  PROVE  \/ InFlight(op)
         \/ ~WriteResults /\ Asked(op)
         \/ WriteResults /\ Found(op)
  <1> SyncInv /\ Typed /\ OneCallEach
    BY DEF PlaceInv, SyncInv
  <1>a. \A w \in Worker : w # NoWorker
    BY NoWorkerAssumption
  <1>b. Pool!TypeOK /\ Pool!ReverseInSync
    BY PoolInvFacts DEF SyncInv
  <1>c. op.obj \notin late' /\ op.obj \notin invalidated'
    BY DEF Undisturbed, Disturbed
  <1>1. CASE op \in queue' \cup lost'
    <2>1. \/ op \in queue \cup lost
          \/ \E w \in Worker : op \in operations[w]
          \/ ~WriteResults /\ Asked(op)
          \/ WriteResults /\ Found(op)
      BY <1>c, <1>1, GrowthStep
    <2>2. ASSUME NEW w \in Worker, op \in operations[w] PROVE InFlight(op)
      BY <1>a, <1>b, <2>2 DEF Pool!ReverseInSync, Pool!TypeOK, InFlight
    <2>3. op \in queue \cup lost => InFlight(op)
      BY DEF InFlight
    <2>4. QED BY <2>1, <2>2, <2>3
  <1>2. CASE executor' = "waiting" /\ op \in executing'
    BY <1>2, ExecutingStep DEF InFlight
  <1>3. CASE reverse'[op] # NoWorker
    <2>1. CASE AcquireWorker
      <3>1. executor = "waiting" /\ reverse \in [Operation -> Worker \cup {NoWorker}]
        BY <2>1 DEF AcquireWorker, Typed, Pool!TypeOK
      <3>2. CASE Pool!AcquireNone
        BY <1>3, <3>2 DEF Pool!AcquireNone, InFlight
      <3>3. ASSUME NEW w \in Worker, Pool!Acquire(w, executing) PROVE InFlight(op)
        BY <1>3, <3>1, <3>3 DEF Pool!Acquire, InFlight
      <3>4. QED BY <2>1, <3>2, <3>3 DEF AcquireWorker
    <2>2. CASE ~AcquireWorker
      BY <1>3, <2>2, ReverseStep DEF InFlight
    <2>3. QED BY <2>1, <2>2
  <1>4. ASSUME NEW r \in Unwritten', r.op = op PROVE InFlight(op)
    <2>1. CASE r \in Unwritten
      BY <1>4, <2>1 DEF InFlight
    <2>2. ASSUME NEW c \in calls, r \in c.jobs PROVE InFlight(op)
      <3>1. reverse[r.op] = c.worker /\ c.worker \in Worker
        BY <2>2, ResultsOfBatch
      <3>2. QED BY <1>a, <1>4, <3>1 DEF InFlight
    <2>3. QED BY <2>1, <2>2, WriterStep
  <1>5. QED BY <1>1, <1>2, <1>3, <1>4 DEF InFlight

(* What was written is on its way no more.                                 *)
LEMMA WrittenLeaves ==
  ASSUME PlaceInv, LostApart, WriteResults, [Next]_vars, NEW r \in fd
  PROVE  ~InFlight(r.op)'
  <1> Typed /\ SyncInv /\ CachedApart
    BY DEF PlaceInv, SyncInv
  <1>1. /\ reverse[r.op] = NoWorker /\ r.op \notin queue /\ r.op \notin lost
        /\ executor = "waiting" => r.op \notin executing
        /\ \A q \in d : q.op # r.op
    BY DEF CachedApart, LostApart, WriteResults
  <1>2. /\ UNCHANGED <<reverse, executing, executor, lost, d>>
        /\ writer' = "rows"
    BY DEF WriteResults, poolVars, executorVars, requestVars
  <1>3. r.op \notin queue'
    BY <1>1, QueueStep DEF Cached
  <1>4. Unwritten' = d
    BY WriterStep
  <1>5. QED BY <1>1, <1>2, <1>3, <1>4 DEF InFlight

-----------------------------------------------------------------------------
(* What write_results makes of a row.                                      *)
Written(o, t) ==
  {op \in Operation : op.obj = o /\ op.type = t /\ \E r \in fd : r.op = op}

CompilationFollows(o, before, after) ==
  \/ after.compilation = before.compilation
  \/ /\ before.compilation = "tombstone" /\ after.compilation = "none"
     /\ after.compilationTries = 0
  \/ /\ before.compilation = "none" /\ after.compilation \in {"ok", "fail"}
     /\ Written(o, "compilation") # {}

EvaluationFollows(o, before, after) ==
  IF before.compilation = "ok"
  THEN /\ before.evaluations \subseteq after.evaluations
       /\ before.evaluated => after.evaluated
       /\ o \in Submission => after.evaluated = before.evaluated
  ELSE after.evaluated = FALSE /\ after.evaluations = {}

Follows(o, before, after) ==
  CompilationFollows(o, before, after) /\ EvaluationFollows(o, before, after)

(* What the invariants say of a result that is being written.              *)
InTime(r) ==
  /\ r.op.type = "compilation" => db[r.op.obj].compilation = "none"
  /\ r.op.type = "evaluation" /\ r.outcome = "ok" =>
       db[r.op.obj].compilation = "ok"

LEMMA RowFollows ==
  ASSUME NEW r \in GoodResult, r \in fd, NEW o, r.op.obj = o, InTime(r),
         NEW row \in SubmissionResult, o \in UserTest => row \in UserTestResult,
         Follows(o, db[o], row)
  PROVE  /\ Follows(o, db[o], WriteRow(row, r))
         /\ \/ WriteRow(row, r).compilationTries <= row.compilationTries
            \/ /\ r.op.type = "compilation"
               /\ WriteRow(row, r).compilationTries = row.compilationTries + 1
         /\ \/ WriteRow(row, r).evaluationTries <= row.evaluationTries
            \/ /\ r.op.type = "evaluation"
               /\ WriteRow(row, r).evaluationTries = row.evaluationTries + 1
  <1> PICK new : new = WriteRow(row, r)
    OBVIOUS
  <1>1. /\ r.op \in Operation /\ r.outcome \in {"ok", "fail", "error", "tombstone"}
        /\ r.op.type = "compilation" => r.outcome # "tombstone"
        /\ r.op.type = "evaluation" => r.outcome # "fail"
    BY DEF GoodResult, Result
  <1>2. /\ r.op.type \in Types /\ r.op.obj \in Submission \cup UserTest
    BY <1>1, OperationFields DEF Object
  <1>3. row.compilationTries \in Nat /\ row.evaluationTries \in Nat
    BY DEF SubmissionResult
  <1>4. CASE r.op.type = "compilation" /\ r.outcome # "error"
    <2>1. new = [Blank EXCEPT !.compilation = r.outcome]
      BY Zenon, <1>4 DEF WriteRow
    <2>2. new = [compilation |-> r.outcome, compilationTries |-> 0, evaluated |-> FALSE,
                 evaluations |-> {}, evaluationTries |-> 0]
      BY Zenon, <2>1 DEF Blank
    <2>3. db[o].compilation = "none" /\ r.outcome \in {"ok", "fail"}
      BY <1>1, <1>4 DEF InTime
    <2>4. r.op \in Written(o, "compilation")
      BY <1>1, <1>4 DEF Written
    <2>5. /\ new.compilation = r.outcome /\ new.compilationTries = 0
          /\ new.evaluations = {} /\ new.evaluationTries = 0
      BY <2>2
    <2>6. new.evaluated = FALSE
      BY <2>2
    <2>7. Follows(o, db[o], new)
      BY <2>3, <2>4, <2>5, <2>6 DEF Follows, CompilationFollows, EvaluationFollows
    <2>8. QED BY <1>3, <2>5, <2>7
  <1>5. CASE r.op.type = "compilation" /\ r.outcome = "error"
    <2>1. new = [row EXCEPT !.compilationTries = @ + 1]
      BY Zenon, <1>5 DEF WriteRow
    <2>2. /\ new.compilation = row.compilation
          /\ new.compilationTries = row.compilationTries + 1
          /\ new.evaluated = row.evaluated
          /\ new.evaluations = row.evaluations
          /\ new.evaluationTries = row.evaluationTries
      BY <2>1 DEF SubmissionResult
    <2>3. db[o].compilation = "none"
      BY <1>5 DEF InTime
    <2>4. QED
      BY <1>3, <1>5, <2>2, <2>3 DEF Follows, CompilationFollows, EvaluationFollows
  <1>6. CASE r.op.type = "evaluation" /\ r.outcome = "ok" /\ r.op.obj \in Submission
    <2>1. r.op.obj \notin UserTest
      BY <1>6, EvaluationServiceAssumption
    <2>2. new = [row EXCEPT !.evaluations = @ \cup {r.op.tc}]
      BY Zenon, <1>6, <2>1 DEF WriteRow
    <2>3. /\ new.compilation = row.compilation
          /\ new.compilationTries = row.compilationTries
          /\ new.evaluated = row.evaluated
          /\ new.evaluations = row.evaluations \cup {r.op.tc}
          /\ new.evaluationTries = row.evaluationTries
      BY <2>2 DEF SubmissionResult
    <2>4. db[o].compilation = "ok"
      BY <1>6 DEF InTime
    <2>5. QED
      BY <1>3, <1>6, <2>3, <2>4 DEF Follows, CompilationFollows, EvaluationFollows
  <1>7. CASE r.op.type = "evaluation" /\ r.outcome = "ok" /\ r.op.obj \in UserTest
    <2>1. r.op.obj \notin Submission
      BY <1>7, EvaluationServiceAssumption
    <2>2. new = [row EXCEPT !.evaluated = TRUE, !.evaluationTries = 0]
      BY Zenon, <1>7, <2>1 DEF WriteRow
    <2>3. /\ new.compilation = row.compilation
          /\ new.compilationTries = row.compilationTries
          /\ new.evaluated = TRUE
          /\ new.evaluations = row.evaluations
          /\ new.evaluationTries = 0
      BY <2>2 DEF SubmissionResult
    <2>4. db[o].compilation = "ok"
      BY <1>7 DEF InTime
    <2>5. QED
      BY <1>3, <1>7, <2>1, <2>3, <2>4
         DEF Follows, CompilationFollows, EvaluationFollows
  <1>8. CASE r.op.type = "evaluation" /\ r.outcome = "error"
    <2>1. new = [row EXCEPT !.evaluationTries = @ + 1]
      BY Zenon, <1>8 DEF WriteRow
    <2>2. /\ new.compilation = row.compilation
          /\ new.compilationTries = row.compilationTries
          /\ new.evaluated = row.evaluated
          /\ new.evaluations = row.evaluations
          /\ new.evaluationTries = row.evaluationTries + 1
      BY <2>1 DEF SubmissionResult
    <2>3. QED
      BY <1>3, <1>8, <2>2 DEF Follows, CompilationFollows, EvaluationFollows
  <1>9. CASE r.op.type = "evaluation" /\ r.outcome = "tombstone"
    <2>1. new = IF row.compilation = "tombstone" THEN Blank ELSE row
      BY Zenon, <1>9 DEF WriteRow
    <2>2. CASE row.compilation = "tombstone"
      <3>1. new = Blank
        BY <2>1, <2>2
      <3>2. /\ new.compilation = "none" /\ new.compilationTries = 0
            /\ new.evaluations = {} /\ new.evaluationTries = 0
        BY <3>1 DEF Blank
      <3>3. new.evaluated = FALSE
        BY <3>1 DEF Blank
      <3>4. db[o].compilation = "tombstone"
        BY <2>2 DEF Follows, CompilationFollows
      <3>5. Follows(o, db[o], new)
        BY <3>2, <3>3, <3>4 DEF Follows, CompilationFollows, EvaluationFollows
      <3>6. QED BY <1>3, <3>2, <3>5
    <2>3. CASE row.compilation # "tombstone"
      <3>1. new = row
        BY <2>1, <2>3
      <3>2. QED BY <1>3, <3>1
    <2>4. QED BY <2>2, <2>3
  <1>10. QED
    BY <1>1, <1>2, <1>4, <1>5, <1>6, <1>7, <1>8, <1>9 DEF Types

(* The operations of a row among the first n results that are written.     *)
Done(rs, n, o, t) == {op \in Written(o, t) : \E i \in 1 .. n : rs[i].op = op}

LEMMA OperationSets ==
  ASSUME NEW S \in SUBSET Operation
  PROVE  IsFiniteSet(S) /\ Cardinality(S) \in Nat
  BY OperationsAreFinite, FS_Subset, FS_CardinalityType

LEMMA SmallerSets ==
  ASSUME NEW S \in SUBSET Operation, NEW T \in SUBSET S
  PROVE  Cardinality(T) <= Cardinality(S)
  BY OperationSets, FS_Subset

LEMMA DoneGrows ==
  ASSUME Typed, OneEach(fd), NEW N \in Nat, NEW rs \in [1 .. N -> fd],
         \A i, j \in 1 .. N : i # j => rs[i] # rs[j], NEW n \in 1 .. N
  PROVE  /\ \A o, t : Cardinality(Done(rs, n - 1, o, t)) <= Cardinality(Done(rs, n, o, t))
         /\ Cardinality(Done(rs, n, rs[n].op.obj, rs[n].op.type))
              = Cardinality(Done(rs, n - 1, rs[n].op.obj, rs[n].op.type)) + 1
  <1>1. n - 1 \in Nat /\ \A i \in 1 .. (n - 1) : i \in 1 .. n /\ i \in 1 .. N /\ i # n
    OBVIOUS
  <1>2. \A o, t : Done(rs, n, o, t) \in SUBSET Operation
    BY DEF Done, Written
  <1>3. \A o, t : Done(rs, n - 1, o, t) \in SUBSET Done(rs, n, o, t)
    BY <1>1 DEF Done
  <1>4. PICK r : r = rs[n]
    OBVIOUS
  <1>5. r \in fd /\ r.op \in Operation
    BY <1>4 DEF Typed, CacheTyped, GoodResult, Result
  <1>6. r.op \in Written(r.op.obj, r.op.type)
    BY <1>5 DEF Written
  <1>7. \A i \in 1 .. (n - 1) : rs[i].op # r.op
    <2> SUFFICES ASSUME NEW i \in 1 .. (n - 1), rs[i].op = r.op PROVE FALSE
      OBVIOUS
    <2>1. i \in 1 .. N /\ i # n
      BY <1>1
    <2>2. rs[i] \in fd /\ rs[i] # r
      BY <1>4, <2>1
    <2>3. QED BY <1>5, <2>2 DEF OneEach
  <1>8. PICK before : before = Done(rs, n - 1, r.op.obj, r.op.type)
    OBVIOUS
  <1>9. r.op \notin before
    BY <1>7, <1>8 DEF Done
  <1>10. \A i \in 1 .. n : i = n \/ i \in 1 .. (n - 1)
    BY <1>1
  <1>11. n \in 1 .. n
    BY <1>1
  <1>12. Done(rs, n, r.op.obj, r.op.type) = before \cup {r.op}
    BY <1>1, <1>4, <1>6, <1>8, <1>10, <1>11 DEF Done
  <1>13. IsFiniteSet(before)
    BY <1>2, <1>3, <1>8, OperationSets
  <1>14. Cardinality(before \cup {r.op}) = Cardinality(before) + 1
    BY <1>9, <1>13, FS_AddElement
  <1>15. \A o, t : Cardinality(Done(rs, n - 1, o, t)) <= Cardinality(Done(rs, n, o, t))
    BY <1>2, <1>3, SmallerSets
  <1>16. QED BY <1>4, <1>8, <1>12, <1>14, <1>15

(* A row after the first n results.                                        *)
RowSoFar(rs, n, o, row) ==
  /\ row \in SubmissionResult
  /\ o \in UserTest => row \in UserTestResult
  /\ Follows(o, db[o], row)
  /\ row.compilationTries
       <= db[o].compilationTries + Cardinality(Done(rs, n, o, "compilation"))
  /\ row.evaluationTries
       <= db[o].evaluationTries + Cardinality(Done(rs, n, o, "evaluation"))

LEMMA AtMostSum ==
  ASSUME NEW b \in Nat, NEW old \in Nat, NEW new \in Nat, NEW c \in Nat, NEW x \in Nat,
         old <= b + c, c <= x,
         new <= old \/ (new = old + 1 /\ x = c + 1)
  PROVE  new <= b + x
  OBVIOUS

LEMMA RowSoFarGrows ==
  ASSUME Typed, OneEach(fd), NEW N \in Nat, NEW rs \in [1 .. N -> fd],
         \A i, j \in 1 .. N : i # j => rs[i] # rs[j], NEW n \in 1 .. N,
         NEW o \in Object, NEW row, RowSoFar(rs, n - 1, o, row)
  PROVE  /\ RowSoFar(rs, n, o, row)
         /\ rs[n].op.obj = o /\ InTime(rs[n]) =>
              RowSoFar(rs, n, o, WriteRow(row, rs[n]))
  <1>1. PICK c, e, x, y :
          /\ c = Cardinality(Done(rs, n - 1, o, "compilation"))
          /\ e = Cardinality(Done(rs, n - 1, o, "evaluation"))
          /\ x = Cardinality(Done(rs, n, o, "compilation"))
          /\ y = Cardinality(Done(rs, n, o, "evaluation"))
    OBVIOUS
  <1>2. c \in Nat /\ e \in Nat /\ x \in Nat /\ y \in Nat
    <2>1. \A k, t : Done(rs, k, o, t) \in SUBSET Operation
      BY DEF Done, Written
    <2>2. QED BY <1>1, <2>1, OperationSets
  <1>3. c <= x /\ e <= y
    BY <1>1, DoneGrows
  <1>4. PICK b : b = db[o]
    OBVIOUS
  <1>5. b \in SubmissionResult
    BY <1>4 DEF Typed, Rows
  <1>6. b.compilationTries \in Nat /\ b.evaluationTries \in Nat
    BY <1>5 DEF SubmissionResult
  <1>7. /\ row \in SubmissionResult
        /\ o \in UserTest => row \in UserTestResult
        /\ Follows(o, b, row)
        /\ row.compilationTries <= b.compilationTries + c
        /\ row.evaluationTries <= b.evaluationTries + e
    BY <1>1, <1>4 DEF RowSoFar
  <1>8. row.compilationTries \in Nat /\ row.evaluationTries \in Nat
    BY <1>7 DEF SubmissionResult
  <1>9. RowSoFar(rs, n, o, row)
    <2>1. row.compilationTries <= b.compilationTries + x
      BY <1>2, <1>3, <1>6, <1>7, <1>8, AtMostSum
    <2>2. row.evaluationTries <= b.evaluationTries + y
      BY <1>2, <1>3, <1>6, <1>7, <1>8, AtMostSum
    <2>3. QED BY <1>1, <1>4, <1>7, <2>1, <2>2 DEF RowSoFar
  <1>10. ASSUME rs[n].op.obj = o, InTime(rs[n])
         PROVE  RowSoFar(rs, n, o, WriteRow(row, rs[n]))
    <2>1. PICK r, new : r = rs[n] /\ new = WriteRow(row, r)
      OBVIOUS
    <2>2. r \in fd /\ r \in GoodResult /\ r.op.obj = o /\ InTime(r)
      BY <1>10, <2>1 DEF Typed, CacheTyped
    <2>3. new \in SubmissionResult /\ (o \in UserTest => new \in UserTestResult)
      BY <1>7, <2>1, <2>2, WriteRowTyped
    <2>4. new.compilationTries \in Nat /\ new.evaluationTries \in Nat
      BY <2>3 DEF SubmissionResult
    <2>5. /\ Follows(o, b, new)
          /\ \/ new.compilationTries <= row.compilationTries
             \/ /\ r.op.type = "compilation"
                /\ new.compilationTries = row.compilationTries + 1
          /\ \/ new.evaluationTries <= row.evaluationTries
             \/ /\ r.op.type = "evaluation"
                /\ new.evaluationTries = row.evaluationTries + 1
      BY <1>4, <1>7, <2>1, <2>2, RowFollows
    <2>6. Cardinality(Done(rs, n, o, r.op.type))
            = Cardinality(Done(rs, n - 1, o, r.op.type)) + 1
      BY <2>1, <2>2, DoneGrows
    <2>7. /\ r.op.type = "compilation" => x = c + 1
          /\ r.op.type = "evaluation" => y = e + 1
      BY <1>1, <2>6
    <2>8. new.compilationTries <= b.compilationTries + x
      BY <1>2, <1>3, <1>6, <1>7, <1>8, <2>4, <2>5, <2>7, AtMostSum
    <2>9. new.evaluationTries <= b.evaluationTries + y
      BY <1>2, <1>3, <1>6, <1>7, <1>8, <2>4, <2>5, <2>7, AtMostSum
    <2>10. RowSoFar(rs, n, o, new)
      BY <1>1, <1>4, <2>3, <2>5, <2>8, <2>9 DEF RowSoFar
    <2>11. QED BY <2>1, <2>10
  <1>11. QED BY <1>9, <1>10

LEMMA RowsFollow ==
  ASSUME Typed, WriteResults, OneEach(fd), NEW o \in Object,
         \A r \in fd : r.op.obj = o => InTime(r),
         db[o].compilation # "ok" =>
           db[o].evaluated = FALSE /\ db[o].evaluations = {}
  PROVE  /\ Follows(o, db[o], db'[o])
         /\ db'[o].compilationTries
              <= db[o].compilationTries + Cardinality(Written(o, "compilation"))
         /\ db'[o].evaluationTries
              <= db[o].evaluationTries + Cardinality(Written(o, "evaluation"))
  <1>1. PICK S : S = {r \in fd : r.op.obj \notin deleted}
    OBVIOUS
  <1>2. PICK rs \in SetToSeqs(S) : db' = RowsAfter(rs)
    BY <1>1 DEF WriteResults
  <1>3. IsFiniteSet(S) /\ S \subseteq fd /\ fd \subseteq GoodResult
    BY <1>1, FS_Subset DEF Typed, CacheTyped
  <1>4. PICK N : N = Cardinality(S)
    OBVIOUS
  <1>5. N \in Nat
    BY <1>3, <1>4, FS_CardinalityType
  <1>6. /\ rs \in [1 .. N -> S]
        /\ \A i, j \in 1 .. N : i # j => rs[i] # rs[j]
    BY <1>2, <1>4 DEF SetToSeqs
  <1>7. Len(rs) = N /\ rs \in [1 .. N -> fd]
    BY <1>3, <1>5, <1>6
  <1>8. db \in Rows /\ db' \in Rows
    BY WriteResultsTyped DEF Typed
  <1> DEFINE G == {p \in (0 .. N) \X Rows : RowSoFar(rs, p[1], o, p[2][o])}
  <1>9. <<0, db>> \in G
    <2>1. db[o] \in SubmissionResult /\ (o \in UserTest => db[o] \in UserTestResult)
      BY <1>8 DEF Rows
    <2>2. Follows(o, db[o], db[o])
      BY DEF Follows, CompilationFollows, EvaluationFollows
    <2>3. \A t : Cardinality(Done(rs, 0, o, t)) = 0
      <3>1. \A t : Done(rs, 0, o, t) = {}
        BY DEF Done
      <3>2. QED BY <3>1, FS_EmptySet
    <2>4. db[o].compilationTries \in Nat /\ db[o].evaluationTries \in Nat
      BY <2>1 DEF SubmissionResult
    <2>5. RowSoFar(rs, 0, o, db[o])
      BY <2>1, <2>2, <2>3, <2>4 DEF RowSoFar
    <2>6. <<0, db>> \in (0 .. N) \X Rows
      BY <1>5, <1>8
    <2>7. QED BY <2>5, <2>6
  <1>10. ASSUME NEW n \in 1 .. N, NEW rows, <<n - 1, rows>> \in G
         PROVE  <<n, [rows EXCEPT ![rs[n].op.obj] = WriteRow(@, rs[n])]>> \in G
    <2>1. rows \in Rows /\ RowSoFar(rs, n - 1, o, rows[o])
      BY <1>10
    <2>2. PICK r, k, row : r = rs[n] /\ k = r.op.obj /\ row = WriteRow(rows[k], r)
      OBVIOUS
    <2>3. r \in fd /\ r \in GoodResult /\ k \in Object
      <3>1. r \in fd /\ r \in GoodResult
        BY <1>3, <1>7, <2>2
      <3>2. r.op \in Operation
        BY <3>1 DEF GoodResult, Result
      <3>3. QED BY <2>2, <3>1, <3>2, OperationFields
    <2>4. rows[k] \in SubmissionResult /\ (k \in UserTest => rows[k] \in UserTestResult)
      BY <2>1, <2>3 DEF Rows
    <2>5. row \in SubmissionResult /\ (k \in UserTest => row \in UserTestResult)
      BY <2>2, <2>3, <2>4, WriteRowTyped
    <2>6. PICK next : next = [rows EXCEPT ![k] = row]
      OBVIOUS
    <2>7. next \in Rows
      BY <2>1, <2>3, <2>5, <2>6 DEF Rows, Object
    <2>8. /\ RowSoFar(rs, n, o, rows[o])
          /\ rs[n].op.obj = o /\ InTime(rs[n]) =>
               RowSoFar(rs, n, o, WriteRow(rows[o], rs[n]))
      BY <1>5, <1>6, <1>7, <2>1, RowSoFarGrows
    <2>9. RowSoFar(rs, n, o, next[o])
      <3>1. CASE k = o
        <4>1. next[o] = WriteRow(rows[o], rs[n])
          BY <2>1, <2>2, <2>6, <3>1 DEF Rows
        <4>2. InTime(rs[n]) /\ rs[n].op.obj = o
          BY <2>2, <2>3, <3>1
        <4>3. QED BY <2>8, <4>1, <4>2
      <3>2. CASE k # o
        <4>1. next[o] = rows[o]
          BY <2>1, <2>6, <3>2 DEF Rows
        <4>2. QED BY <2>8, <4>1
      <3>3. QED BY <3>1, <3>2
    <2>10. <<n, next>> \in (0 .. N) \X Rows
      BY <2>7
    <2>11. <<n, next>> \in G
      BY <2>9, <2>10
    <2>12. next = [rows EXCEPT ![rs[n].op.obj] = WriteRow(@, rs[n])]
      BY Zenon, <2>2, <2>6
    <2>13. QED BY Zenon, <2>11, <2>12
  <1> HIDE DEF G
  <1>11. <<N, db'>> \in G
    BY <1>2, <1>5, <1>7, <1>9, <1>10, RowsAfterKeeps
  <1>12. RowSoFar(rs, N, o, db'[o])
    BY <1>11 DEF G
  <1>13. PICK b, row : b = db[o] /\ row = db'[o]
    OBVIOUS
  <1>14. b \in SubmissionResult /\ row \in SubmissionResult
    BY <1>8, <1>13 DEF Rows
  <1>15. /\ b.compilationTries \in Nat /\ b.evaluationTries \in Nat
         /\ row.compilationTries \in Nat /\ row.evaluationTries \in Nat
    BY <1>14 DEF SubmissionResult
  <1>16. \A t : /\ Cardinality(Done(rs, N, o, t)) \in Nat
                /\ Cardinality(Written(o, t)) \in Nat
                /\ Cardinality(Done(rs, N, o, t)) <= Cardinality(Written(o, t))
    <2>1. \A t : Written(o, t) \in SUBSET Operation
      BY DEF Written
    <2>2. \A t : Done(rs, N, o, t) \in SUBSET Written(o, t)
      BY DEF Done
    <2>3. \A t : Done(rs, N, o, t) \in SUBSET Operation
      BY <2>1, <2>2
    <2>4. QED BY <2>1, <2>2, <2>3, OperationSets, SmallerSets
  <1>17. /\ Follows(o, b, row)
         /\ row.compilationTries
              <= b.compilationTries + Cardinality(Done(rs, N, o, "compilation"))
         /\ row.evaluationTries
              <= b.evaluationTries + Cardinality(Done(rs, N, o, "evaluation"))
    BY <1>12, <1>13 DEF RowSoFar
  <1>18. row.compilationTries
           <= b.compilationTries + Cardinality(Written(o, "compilation"))
    BY <1>15, <1>16, <1>17, AtMostSum
  <1>19. row.evaluationTries
           <= b.evaluationTries + Cardinality(Written(o, "evaluation"))
    BY <1>15, <1>16, <1>17, AtMostSum
  <1>20. QED BY <1>13, <1>17, <1>18, <1>19

(* A row only moves forward: compiled, if at all, then evaluated.          *)
RowMoves(o) ==
  /\ \/ db'[o].compilation = db[o].compilation
     \/ WriteResults /\ CompilationFollows(o, db[o], db'[o])
  /\ db[o].evaluated => db'[o].evaluated
  /\ db'[o].evaluated => db[o].compilation = "ok"
  /\ db'[o].evaluated \/ db'[o].evaluations # {} => db'[o].compilation = "ok"
  /\ db'[o].evaluated /\ o \in Submission => db'[o].evaluations = Testcase
  /\ \/ /\ db'[o].compilationTries = db[o].compilationTries
        /\ db'[o].evaluationTries = db[o].evaluationTries
     \/ /\ WriteResults
        /\ db'[o].compilationTries
             <= db[o].compilationTries + Cardinality(Written(o, "compilation"))
        /\ db'[o].evaluationTries
             <= db[o].evaluationTries + Cardinality(Written(o, "evaluation"))

LEMMA WrittenInTime ==
  ASSUME JudgedInv, WriteResults, NEW r \in fd, r.op.obj \in Undisturbed
  PROVE  InTime(r)
  <1>1. r \in Unwritten
    BY DEF WriteResults, Unwritten
  <1>2. r.op \in Operation
    BY DEF JudgedInv, PlaceInv, SyncInv, Typed, CacheTyped, GoodResult, Result
  <1>3. InFlight(r.op)
    BY <1>1 DEF InFlight
  <1>4. QED BY <1>1, <1>2, <1>3 DEF JudgedInv, CompiledOnce, CompiledFirst, InTime

LEMMA RowMovesForward ==
  ASSUME JudgedInv, [Next]_vars, NEW o \in Undisturbed'
  PROVE  RowMoves(o)
  <1> Typed /\ OneEach(fd)
    BY DEF JudgedInv, PlaceInv, SyncInv, OneResultEach
  <1>1. o \in Undisturbed /\ o \in Object
    BY DisturbedStep DEF Undisturbed
  <1>2. /\ db[o].evaluated \/ db[o].evaluations # {} => db[o].compilation = "ok"
        /\ db[o].evaluated /\ o \in Submission => db[o].evaluations = Testcase
    BY <1>1 DEF JudgedInv, RowsInOrder
  <1>3. db[o] \in SubmissionResult
    BY <1>1 DEF Typed, Rows
  <1>4. CASE db'[o] = db[o]
    BY <1>2, <1>4 DEF RowMoves
  <1>5. CASE Marked(o)
    <2>1. db[o].compilation = "ok"
      BY <1>2, <1>5, EvaluationServiceAssumption DEF Marked
    <2>2. PICK b, a : b = db[o] /\ a = db'[o]
      OBVIOUS
    <2>3. a = [b EXCEPT !.evaluated = TRUE] /\ b.evaluations = Testcase
      BY <1>5, <2>2 DEF Marked
    <2>4. /\ a.compilation = b.compilation /\ a.evaluations = b.evaluations
          /\ a.compilationTries = b.compilationTries
          /\ a.evaluationTries = b.evaluationTries
      BY <1>3, <2>2, <2>3 DEF SubmissionResult
    <2>5. a.evaluated
      BY <1>3, <2>2, <2>3 DEF SubmissionResult
    <2>6. QED BY <2>1, <2>2, <2>3, <2>4, <2>5 DEF RowMoves
  <1>6. CASE WriteResults
    <2>1. \A r \in fd : r.op.obj = o => InTime(r)
      BY <1>1, <1>6, WrittenInTime
    <2>2. db[o].compilation # "ok" =>
            db[o].evaluated = FALSE /\ db[o].evaluations = {}
      BY <1>2, <1>3 DEF SubmissionResult
    <2>3. /\ Follows(o, db[o], db'[o])
          /\ db'[o].compilationTries
               <= db[o].compilationTries + Cardinality(Written(o, "compilation"))
          /\ db'[o].evaluationTries
               <= db[o].evaluationTries + Cardinality(Written(o, "evaluation"))
      BY <1>1, <1>6, <2>1, <2>2, RowsFollow
    <2>4. db'[o].evaluations \subseteq Testcase
      BY <1>1, <1>6, WriteResultsTyped DEF Rows, SubmissionResult
    <2>5. /\ db[o].evaluated => db'[o].evaluated
          /\ db'[o].evaluated => db[o].compilation = "ok"
          /\ db'[o].evaluated \/ db'[o].evaluations # {} => db'[o].compilation = "ok"
          /\ db'[o].evaluated /\ o \in Submission => db'[o].evaluations = Testcase
      BY <1>2, <2>2, <2>3, <2>4 DEF Follows, CompilationFollows, EvaluationFollows
    <2>6. QED BY <1>6, <2>3, <2>5 DEF RowMoves, Follows
  <1>7. QED BY <1>4, <1>5, <1>6, RowStep

(* Two results of one operation are one; the invariants of the caches.     *)
LEMMA OneResultEachKept == ASSUME JudgedInv, [Next]_vars PROVE OneResultEach'
  <1> SyncInv /\ Typed /\ OneCallEach /\ CachedApart /\ OneResultEach
    BY DEF JudgedInv, PlaceInv, SyncInv
  <1>a. \A w \in Worker : w # NoWorker
    BY NoWorkerAssumption
  <1>1. OneEach(d') /\ OneEach(fd')
    <2>1. ASSUME NEW c \in calls, fd' = fd, \A r \in d' \ d : r \in c.jobs
          PROVE  OneEach(d') /\ OneEach(fd')
      <3>1. \A r \in d' \ d : reverse[r.op] # NoWorker
        BY <1>a, <2>1, ResultsOfBatch
      <3>2. \A q \in d : reverse[q.op] = NoWorker
        BY DEF CachedApart
      <3>3. OneEach(c.jobs) /\ OneEach(d) /\ OneEach(fd)
        BY DEF OneResultEach
      <3>4. QED BY <2>1, <3>1, <3>2, <3>3 DEF OneEach
    <2>2. CASE d' = {} /\ fd' \subseteq d \cup fd
      BY <2>2 DEF OneEach, OneResultEach, CachedApart
    <2>3. CASE d' = d /\ fd' \subseteq fd
      BY <2>3 DEF OneEach, OneResultEach
    <2>4. QED BY <2>1, <2>2, <2>3, CacheStep
  <1>2. ASSUME NEW b \in calls' PROVE OneEach(b.jobs)
    <2>1. PICK f : /\ \A c \in calls : BecomesOf(f[c], c)
                   /\ \A x \in calls' :
                        \/ \E c \in calls : x = f[c]
                        \/ SendJobGroup /\ x = NewCall(alias, executing)
      BY CallOrigins
    <2>2. ASSUME NEW c \in calls, b = f[c] PROVE OneEach(b.jobs)
      BY <2>1, <2>2 DEF BecomesOf, OneResultEach
    <2>3. CASE b = NewCall(alias, executing)
      <3>1. b.jobs = JobsOf(executing)
        BY <2>3 DEF NewCall
      <3>2. QED BY <3>1 DEF JobsOf, OneEach
    <2>4. QED BY <2>1, <2>2, <2>3
  <1>3. QED BY <1>1, <1>2 DEF OneResultEach, OneEach

LEMMA RequestsArePlainKept ==
  ASSUME JudgedInv, [Next]_vars PROVE RequestsArePlain'
  BY DisturbedStep DEF JudgedInv, PlaceInv, SyncInv, RequestsArePlain

LEMMA LostApartKept == ASSUME JudgedInv, [Next]_vars PROVE LostApart'
  <1> SyncInv /\ Typed /\ CachedApart /\ LostApart
    BY DEF JudgedInv, PlaceInv, SyncInv
  <1>1. \A r \in fd : reverse[r.op] = NoWorker /\ r.op \in Operation
    BY DEF CachedApart, Typed, CacheTyped, GoodResult, Result
  <1>2. \A w \in Worker : \A r \in fd : r.op \notin operations[w]
    BY <1>1, PoolInvFacts, NoWorkerAssumption DEF SyncInv, Pool!ReverseInSync, Pool!TypeOK
  <1>3. writer' = "writing" => fd' = fd /\ (writer = "writing" \/ lost' = {})
    BY WriterStep
  <1>4. \A op \in lost' : op \in lost \/ \E w \in Worker : op \in operations[w]
    BY LostStep
  <1>5. QED BY <1>2, <1>3, <1>4 DEF LostApart

LEMMA NotArchivedKept == ASSUME JudgedInv, [Next]_vars PROVE NotArchived'
  <1> Typed /\ NotArchived /\ PlaceInv /\ RequestsArePlain
    BY DEF JudgedInv, PlaceInv, SyncInv
  <1>a. \A r \in d \cup fd : r.op \in Operation
    BY DEF Typed, CacheTyped, GoodResult, Result
  <1> SUFFICES ASSUME NEW op \in Operation, op.obj \in Undisturbed',
                      InFlight(op)' \/ \E r \in fd' : r.op = op
               PROVE  op.archive = FALSE
    BY DEF NotArchived
  <1>1. op.obj \in Undisturbed
    BY DisturbedStep DEF Undisturbed
  <1>2. CASE InFlight(op)'
    <2>1. CASE InFlight(op)
      BY <1>1, <2>1 DEF NotArchived
    <2>2. CASE Asked(op)
      BY <1>a, <1>1, <2>2 DEF Asked, NotArchived
    <2>3. CASE Found(op)
      BY <2>3 DEF Found
    <2>4. QED BY <1>2, <2>1, <2>2, <2>3, FlightStep
  <1>3. ASSUME NEW r \in fd', r.op = op PROVE op.archive = FALSE
    <2>1. r \in d \cup fd
      BY CacheStep
    <2>2. r \in d => InFlight(op)
      BY <1>3 DEF Unwritten, InFlight
    <2>3. QED BY <1>1, <1>3, <2>1, <2>2 DEF NotArchived
  <1>4. QED BY <1>2, <1>3

(* An object has one compilation that does not archive, and one evaluation *)
(* of the kind for each of its inputs.                                     *)
LEMMA PlainOperations ==
  ASSUME NEW op \in Operation, op.archive = FALSE
  PROVE  /\ op.type = "compilation" => op = CompilationOp(op.obj, FALSE)
         /\ op.type = "evaluation" =>
              \E t \in InputsOf(op.obj) : op = EvaluationOp(op.obj, t, FALSE)
  <1> PICK no : no = FALSE
    OBVIOUS
  <1>1. \/ \E s \in Submission, a \in Archive : op = CompilationOp(s, a)
        \/ \E s \in Submission, t \in Testcase, a \in Archive :
              op = EvaluationOp(s, t, a)
        \/ \E u \in UserTest : op = CompilationOp(u, no)
        \/ \E u \in UserTest : op = EvaluationOp(u, NoTestcase, no)
    BY Zenon, OperationCases
  <1>2. op.archive = no
    OBVIOUS
  <1>3. /\ op.type = "compilation" => op = CompilationOp(op.obj, no)
        /\ op.type = "evaluation" =>
             \E t \in InputsOf(op.obj) : op = EvaluationOp(op.obj, t, no)
    BY <1>1, <1>2, CompilationOpFields, EvaluationOpFields,
       EvaluationServiceAssumption DEF InputsOf
  <1>4. QED BY Zenon, <1>3

LEMMA CompiledOnceKept == ASSUME JudgedInv, [Next]_vars PROVE CompiledOnce'
  <1> Typed /\ NotArchived /\ CompiledOnce /\ LostApart /\ PlaceInv
        /\ RequestsArePlain
    BY DEF JudgedInv, PlaceInv, SyncInv
  <1> SUFFICES ASSUME NEW op \in Operation, op.obj \in Undisturbed',
                      op.type = "compilation", InFlight(op)'
               PROVE  db'[op.obj].compilation = "none"
    BY DEF CompiledOnce
  <1>1. op.obj \in Undisturbed
    BY DisturbedStep DEF Undisturbed
  <1>2. RowMoves(op.obj)
    BY RowMovesForward
  <1>3. CASE InFlight(op)
    <2>1. db[op.obj].compilation = "none" /\ op.archive = FALSE
      BY <1>1, <1>3 DEF CompiledOnce, NotArchived
    <2>2. ASSUME WriteResults, Written(op.obj, "compilation") # {} PROVE FALSE
      <3>1. PICK p \in Operation : p.obj = op.obj /\ p.type = "compilation"
                                   /\ \E r \in fd : r.op = p
        BY <2>2 DEF Written
      <3>2. p.archive = FALSE
        BY <1>1, <3>1 DEF NotArchived
      <3>3. p = CompilationOp(p.obj, FALSE)
        BY <3>1, <3>2, PlainOperations
      <3>4. op = CompilationOp(op.obj, FALSE)
        BY <2>1, PlainOperations
      <3>5. p = op
        BY Zenon, <3>1, <3>3, <3>4
      <3>6. QED BY <2>2, <3>1, <3>5, WrittenLeaves
    <2>3. QED BY <1>2, <2>1, <2>2 DEF RowMoves, CompilationFollows
  <1>4. CASE ~WriteResults /\ Asked(op)
    BY <1>2, <1>4 DEF Asked, Wants, ToCompile, RowMoves
  <1>5. CASE WriteResults /\ Found(op)
    BY <1>5 DEF Found
  <1>6. QED BY <1>3, <1>4, <1>5, FlightStep

LEMMA CompiledFirstKept == ASSUME JudgedInv, [Next]_vars PROVE CompiledFirst'
  <1> Typed /\ CompiledFirst
    BY DEF JudgedInv, PlaceInv, SyncInv
  <1>a. \A o \in Undisturbed' : o \in Undisturbed
    BY DisturbedStep DEF Undisturbed
  <1>b. ASSUME NEW o \in Undisturbed', db[o].compilation = "ok"
        PROVE  db'[o].compilation = "ok"
    BY <1>b, RowMovesForward DEF RowMoves, CompilationFollows
  <1>1. ASSUME NEW b \in calls', NEW j \in b.jobs, j.op.obj \in Undisturbed',
               j.op.type = "evaluation", Promises(b, j)
        PROVE  db[j.op.obj].compilation = "ok"
    <2>1. PICK f : /\ \A c \in calls : BecomesOf(f[c], c)
                   /\ \A x \in calls' :
                        \/ \E c \in calls : x = f[c]
                        \/ SendJobGroup /\ x = NewCall(alias, executing)
      BY CallOrigins
    <2>2. ASSUME NEW c \in calls, b = f[c] PROVE db[j.op.obj].compilation = "ok"
      <3>1. PICK i \in c.jobs : j.op = i.op /\ Promises(c, i)
        BY <1>1, <2>1, <2>2 DEF BecomesOf
      <3>2. QED BY <1>a, <1>1, <3>1 DEF CompiledFirst
    <2>3. CASE b = NewCall(alias, executing)
      <3>1. b.jobs = JobsOf(executing) /\ b.answer \in {"pending", "error"}
        BY <2>3 DEF NewCall
      <3>2. j.compilation = "ok"
        BY <1>1, <3>1 DEF Promises
      <3>3. QED BY <3>1, <3>2 DEF JobsOf
    <2>4. QED BY <2>1, <2>2, <2>3
  <1>2. ASSUME NEW r \in Unwritten', r.op.obj \in Undisturbed',
               r.op.type = "evaluation", r.outcome = "ok"
        PROVE  db[r.op.obj].compilation = "ok"
    BY <1>a, <1>2, WriterStep DEF CompiledFirst, Promises
  <1>3. QED BY <1>b, <1>1, <1>2 DEF CompiledFirst, Promises

LEMMA RowsInOrderKept == ASSUME JudgedInv, [Next]_vars PROVE RowsInOrder'
  BY RowMovesForward DEF RowMoves, RowsInOrder

LEMMA JudgedInvKept == JudgedInv /\ [Next]_vars => JudgedInv'
  BY PlaceInvKept, OneResultEachKept, RequestsArePlainKept, LostApartKept,
     NotArchivedKept, CompiledOnceKept, CompiledFirstKept, RowsInOrderKept
  DEF JudgedInv

LEMMA JudgedInvInitially == ASSUME NobodyLeaves, NoAliasing PROVE Init => JudgedInv
  <1> SUFFICES ASSUME Init PROVE JudgedInv
    OBVIOUS
  <1>1. PlaceInv
    BY PlaceInvInitially
  <1>2. \A op \in Operation : ~InFlight(op)
    BY DEF Init, InFlight, Unwritten, Pool!Init
  <1>3. \A o \in Object : db[o].evaluated = FALSE /\ db[o].evaluations = {}
    BY DEF Init, Blank
  <1>4. OneResultEach /\ RequestsArePlain /\ LostApart /\ CompiledFirst
    BY DEF Init, OneResultEach, OneEach, RequestsArePlain, LostApart,
           CompiledFirst, Unwritten
  <1>5. NotArchived /\ CompiledOnce
    BY <1>2 DEF Init, NotArchived, CompiledOnce
  <1>6. RowsInOrder
    BY <1>3 DEF RowsInOrder, Undisturbed
  <1>7. QED BY <1>1, <1>4, <1>5, <1>6 DEF JudgedInv

(* A submission that nobody announces late or invalidates has an outcome   *)
(* only with a good compilation and an evaluation on every testcase,       *)
(* whatever is swept, tried again, lost in a crash or deleted, and         *)
(* whichever others are invalidated, as long as workers keep their batch.  *)
THEOREM EvaluationServiceEvaluatedIsComplete ==
  ASSUME NobodyLeaves, NoAliasing PROVE Spec => []EvaluatedIsComplete
  <1>1. Init => JudgedInv
    BY JudgedInvInitially
  <1>2. JudgedInv /\ [Next]_vars => JudgedInv'
    BY JudgedInvKept
  <1>3. JudgedInv => EvaluatedIsComplete
    BY DEF JudgedInv, RowsInOrder, Undisturbed, EvaluatedIsComplete
  <1>4. QED BY <1>1, <1>2, <1>3, PTL DEF Spec

-----------------------------------------------------------------------------
(* The tries.  A worker's failure is counted when its result is written,   *)
(* and leaves room for as many as may still be under way.                  *)
LEMMA UnderwaySets ==
  ASSUME NEW o, NEW t
  PROVE  /\ Underway(o, t) \in SUBSET Operation /\ Written(o, t) \in SUBSET Operation
         /\ Underway(o, t)' \in SUBSET Operation
  BY DEF Underway, Written

(* All that may be under way at once, of an object nobody archives.        *)
PlainOf(S, o, t) ==
  /\ S \in SUBSET Operation
  /\ \A op \in S : op.obj = o /\ op.type = t /\ op.archive = FALSE

LEMMA PlainAtMost ==
  ASSUME NEW S, NEW o \in Object
  PROVE  /\ PlainOf(S, o, "compilation") => Cardinality(S) <= 1
         /\ PlainOf(S, o, "evaluation") => Cardinality(S) <= Cardinality(InputsOf(o))
         /\ Cardinality(InputsOf(o)) \in Nat /\ Cardinality(InputsOf(o)) >= 1
  <1> DEFINE plain == CompilationOp(o, FALSE)
             run(t) == EvaluationOp(o, t, FALSE)
             runs == {run(t) : t \in InputsOf(o)}
  <1>1. IsFiniteSet(InputsOf(o)) /\ InputsOf(o) # {}
    BY FS_Singleton, EvaluationServiceAssumption DEF InputsOf
  <1>2. Cardinality(InputsOf(o)) \in Nat /\ Cardinality(InputsOf(o)) >= 1
    BY <1>1, FS_CardinalityType, FS_EmptySet
  <1>3. ASSUME PlainOf(S, o, "compilation") PROVE Cardinality(S) <= 1
    <2>1. \A op \in S : op = plain
      BY Zenon, <1>3, PlainOperations DEF PlainOf
    <2> HIDE DEF plain
    <2>2. S \in SUBSET {plain}
      BY <2>1
    <2>3. IsFiniteSet({plain}) /\ Cardinality({plain}) = 1
      BY FS_Singleton
    <2>4. Cardinality(S) <= Cardinality({plain})
      BY <2>2, <2>3, FS_Subset
    <2>5. QED BY <2>3, <2>4
  <1>4. ASSUME PlainOf(S, o, "evaluation")
        PROVE  Cardinality(S) <= Cardinality(InputsOf(o))
    <2>1. S \in SUBSET runs
      <3> SUFFICES ASSUME NEW op \in S PROVE op \in runs
        OBVIOUS
      <3>1. op \in Operation /\ op.obj = o /\ op.type = "evaluation" /\ op.archive = FALSE
        BY <1>4 DEF PlainOf
      <3>2. PICK t \in InputsOf(op.obj) : op = EvaluationOp(op.obj, t, FALSE)
        BY <3>1, PlainOperations
      <3>3. t \in InputsOf(o) /\ op = run(t)
        BY Zenon, <3>1, <3>2
      <3> HIDE DEF run
      <3>4. QED BY <3>3
    <2>2. IsFiniteSet(runs) /\ Cardinality(runs) <= Cardinality(InputsOf(o))
      <3> DEFINE f == [t \in InputsOf(o) |-> run(t)]
      <3>1. f \in [InputsOf(o) -> runs]
        OBVIOUS
      <3>2. \A x \in runs : \E t \in InputsOf(o) : x = f[t]
        OBVIOUS
      <3> HIDE DEF f, runs
      <3>3. QED BY <1>1, <3>1, <3>2, ImagesAreFinite
    <2> HIDE DEF runs
    <2>3. IsFiniteSet(S) /\ Cardinality(S) <= Cardinality(runs)
      BY <2>1, <2>2, FS_Subset
    <2>4. Cardinality(S) \in Nat /\ Cardinality(runs) \in Nat
      BY <2>2, <2>3, FS_CardinalityType
    <2>5. QED BY <1>2, <2>2, <2>3, <2>4
  <1>5. QED BY <1>2, <1>3, <1>4

(* What is written is under way no more, and nothing else comes instead.   *)
LEMMA UnderwayStep ==
  ASSUME JudgedInv, [Next]_vars, NEW o \in Undisturbed', NEW t
  PROVE  \/ \E op \in Underway(o, t)' : \/ ~WriteResults /\ Asked(op)
                                        \/ WriteResults /\ Found(op)
         \/ /\ ~WriteResults
            /\ Cardinality(Underway(o, t)') <= Cardinality(Underway(o, t))
         \/ /\ WriteResults
            /\ Cardinality(Underway(o, t)') + Cardinality(Written(o, t))
                 <= Cardinality(Underway(o, t))
  <1> PlaceInv /\ RequestsArePlain /\ LostApart
    BY DEF JudgedInv
  <1> SUFFICES ASSUME \A op \in Underway(o, t)' :
                        ~(~WriteResults /\ Asked(op)) /\ ~(WriteResults /\ Found(op))
               PROVE  \/ /\ ~WriteResults
                         /\ Cardinality(Underway(o, t)') <= Cardinality(Underway(o, t))
                      \/ /\ WriteResults
                         /\ Cardinality(Underway(o, t)') + Cardinality(Written(o, t))
                              <= Cardinality(Underway(o, t))
    OBVIOUS
  <1>1. Underway(o, t)' \subseteq Underway(o, t)
    <2> SUFFICES ASSUME NEW op \in Underway(o, t)' PROVE op \in Underway(o, t)
      OBVIOUS
    <2>1. op \in Operation /\ op.obj = o /\ op.type = t /\ InFlight(op)'
      BY DEF Underway
    <2>2. InFlight(op)
      BY <2>1, FlightStep
    <2>3. QED BY <2>1, <2>2 DEF Underway
  <1>2. Cardinality(Underway(o, t)') <= Cardinality(Underway(o, t))
    BY <1>1, UnderwaySets, SmallerSets
  <1>3. CASE WriteResults
    <2>1. Written(o, t) \subseteq Underway(o, t)
      <3>1. \A r \in fd : r \in Unwritten
        BY <1>3 DEF WriteResults, Unwritten
      <3>2. QED BY <3>1 DEF Written, Underway, InFlight
    <2>2. Underway(o, t)' \cap Written(o, t) = {}
      BY <1>3, WrittenLeaves DEF Underway, Written
    <2>3. PICK U, V, W : U = Underway(o, t)' /\ V = Written(o, t) /\ W = Underway(o, t)
      OBVIOUS
    <2>4. /\ U \in SUBSET Operation /\ V \in SUBSET Operation /\ W \in SUBSET Operation
          /\ U \cap V = {} /\ U \cup V \subseteq W /\ U \cup V \in SUBSET Operation
      BY <1>1, <2>1, <2>2, <2>3, UnderwaySets
    <2>5. /\ IsFiniteSet(U) /\ Cardinality(U) \in Nat
          /\ IsFiniteSet(V) /\ Cardinality(V) \in Nat
      BY <2>4, OperationSets
    <2>6. Cardinality(U \cup V) = Cardinality(U) + Cardinality(V)
      <3>1. Cardinality(U \cap V) = 0
        BY <2>4, FS_EmptySet
      <3>2. Cardinality(U \cup V)
              = Cardinality(U) + Cardinality(V) - Cardinality(U \cap V)
        BY <2>5, FS_Union
      <3>3. QED BY <2>5, <3>1, <3>2
    <2>7. Cardinality(U \cup V) <= Cardinality(W)
      BY <2>4, SmallerSets
    <2>8. QED BY <1>3, <2>3, <2>6, <2>7
  <1>4. QED BY <1>2, <1>3

LEMMA TriesShift ==
  ASSUME NEW b \in Nat, NEW a \in Nat, NEW u \in Nat, NEW v \in Nat, NEW w \in Nat,
         NEW m \in Nat,
         a = b \/ a <= b + w,
         (a = b /\ v <= u) \/ v + w <= u
  PROVE  /\ b + u <= m => a + v <= m
         /\ b + u < m => a + v < m
  OBVIOUS

LEMMA TriesLeftKept == ASSUME JudgedInv, TriesLeft, [Next]_vars PROVE TriesLeft'
  <1> SUFFICES ASSUME NEW o \in Undisturbed'
               PROVE  /\ db'[o].compilationTries + Cardinality(Underway(o, "compilation")')
                           <= MAX_COMPILATION_TRIES
                      /\ db'[o].evaluationTries + Cardinality(Underway(o, "evaluation")')
                           < MAX_EVALUATION_TRIES + Cardinality(InputsOf(o))
    BY DEF TriesLeft
  <1> Typed
    BY DEF JudgedInv, PlaceInv, SyncInv
  <1>1. o \in Undisturbed /\ o \in Object
    BY DisturbedStep DEF Undisturbed
  <1>2. PICK b, a : b = db[o] /\ a = db'[o]
    OBVIOUS
  <1>3. b \in SubmissionResult /\ a \in SubmissionResult
    <2>1. db \in Rows /\ db' \in Rows
      BY NextTyped DEF Typed
    <2>2. QED BY <1>1, <1>2, <2>1 DEF Rows
  <1>4. /\ b.compilationTries \in Nat /\ b.evaluationTries \in Nat
        /\ a.compilationTries \in Nat /\ a.evaluationTries \in Nat
    BY <1>3 DEF SubmissionResult
  <1>5. RowMoves(o)
    BY RowMovesForward
  <1>6. PICK n : n = Cardinality(InputsOf(o))
    OBVIOUS
  <1>7. \A t : PlainOf(Underway(o, t)', o, t)
    BY NotArchivedKept DEF Underway, NotArchived, PlainOf
  <1>8. /\ n \in Nat /\ n >= 1
        /\ Cardinality(Underway(o, "compilation")') <= 1
        /\ Cardinality(Underway(o, "evaluation")') <= n
    BY <1>1, <1>6, <1>7, PlainAtMost
  <1>9. /\ MAX_COMPILATION_TRIES \in Nat /\ MAX_COMPILATION_TRIES >= 1
        /\ MAX_EVALUATION_TRIES \in Nat
        /\ MAX_EVALUATION_TRIES + n \in Nat
    BY <1>8, EvaluationServiceAssumption
  <1>10. \A t : /\ Cardinality(Underway(o, t)) \in Nat
                /\ Cardinality(Underway(o, t)') \in Nat
                /\ Cardinality(Written(o, t)) \in Nat
    BY UnderwaySets, OperationSets
  <1>11. a.compilationTries + Cardinality(Underway(o, "compilation")')
           <= MAX_COMPILATION_TRIES
    <2>1. PICK u, v, w : /\ u = Cardinality(Underway(o, "compilation"))
                         /\ v = Cardinality(Underway(o, "compilation")')
                         /\ w = Cardinality(Written(o, "compilation"))
      OBVIOUS
    <2>2. b.compilationTries + u <= MAX_COMPILATION_TRIES
      BY <1>1, <1>2, <2>1 DEF TriesLeft
    <2>3. \/ a.compilationTries = b.compilationTries
          \/ WriteResults /\ a.compilationTries <= b.compilationTries + w
      BY <1>2, <1>5, <2>1 DEF RowMoves
    <2>4. u \in Nat /\ v \in Nat /\ w \in Nat /\ v <= 1
      BY <1>8, <1>10, <2>1
    <2>5. ASSUME NEW op \in Underway(o, "compilation")', ~WriteResults, Asked(op)
          PROVE  a.compilationTries + v <= MAX_COMPILATION_TRIES
      <3>1. op.obj = o /\ op.type = "compilation"
        BY DEF Underway
      <3>2. b.compilationTries < MAX_COMPILATION_TRIES
        BY <1>2, <2>5, <3>1 DEF Asked, Wants, ToCompile
      <3>3. QED BY <1>4, <1>9, <2>3, <2>4, <2>5, <3>2
    <2>6. ASSUME NEW op \in Underway(o, "compilation")', Found(op)
          PROVE  a.compilationTries + v <= MAX_COMPILATION_TRIES
      <3>1. op.obj = o
        BY DEF Underway
      <3>2. b.compilation = "tombstone" /\ a.compilation = "none"
        BY <1>2, <2>6, <3>1 DEF Found
      <3>3. a.compilationTries = 0
        BY <1>2, <1>5, <3>2 DEF RowMoves, CompilationFollows
      <3>4. QED BY <1>9, <2>4, <3>3
    <2>7. CASE ~WriteResults /\ v <= u
      BY <1>4, <1>9, <2>1, <2>2, <2>3, <2>4, <2>7, TriesShift
    <2>8. CASE WriteResults /\ v + w <= u
      BY <1>4, <1>9, <2>1, <2>2, <2>3, <2>4, <2>8, TriesShift
    <2>9. QED BY <2>1, <2>5, <2>6, <2>7, <2>8, UnderwayStep
  <1>12. a.evaluationTries + Cardinality(Underway(o, "evaluation")')
           < MAX_EVALUATION_TRIES + n
    <2>1. PICK u, v, w : /\ u = Cardinality(Underway(o, "evaluation"))
                         /\ v = Cardinality(Underway(o, "evaluation")')
                         /\ w = Cardinality(Written(o, "evaluation"))
      OBVIOUS
    <2>2. b.evaluationTries + u < MAX_EVALUATION_TRIES + n
      BY <1>1, <1>2, <1>6, <2>1 DEF TriesLeft
    <2>3. \/ a.evaluationTries = b.evaluationTries
          \/ WriteResults /\ a.evaluationTries <= b.evaluationTries + w
      BY <1>2, <1>5, <2>1 DEF RowMoves
    <2>4. u \in Nat /\ v \in Nat /\ w \in Nat /\ v <= n
      BY <1>8, <1>10, <2>1
    <2>5. ASSUME NEW op \in Underway(o, "evaluation")', ~WriteResults, Asked(op)
          PROVE  a.evaluationTries + v < MAX_EVALUATION_TRIES + n
      <3>1. op.obj = o /\ op.type = "evaluation"
        BY DEF Underway
      <3>2. b.evaluationTries < MAX_EVALUATION_TRIES
        BY <1>2, <2>5, <3>1 DEF Asked, Wants, ToEvaluate
      <3>3. QED BY <1>4, <1>8, <1>9, <2>3, <2>4, <2>5, <3>2
    <2>6. \A op \in Underway(o, "evaluation")' : ~Found(op)
      BY DEF Underway, Found
    <2>7. CASE ~WriteResults /\ v <= u
      BY <1>4, <1>8, <1>9, <2>1, <2>2, <2>3, <2>4, <2>7, TriesShift
    <2>8. CASE WriteResults /\ v + w <= u
      BY <1>4, <1>8, <1>9, <2>1, <2>2, <2>3, <2>4, <2>8, TriesShift
    <2>9. QED BY <2>1, <2>5, <2>6, <2>7, <2>8, UnderwayStep
  <1>13. QED BY <1>2, <1>6, <1>11, <1>12

LEMMA TriesLeftInitially == Init => TriesLeft
  <1> SUFFICES ASSUME Init, NEW o \in Undisturbed
               PROVE  /\ db[o].compilationTries + Cardinality(Underway(o, "compilation"))
                           <= MAX_COMPILATION_TRIES
                      /\ db[o].evaluationTries + Cardinality(Underway(o, "evaluation"))
                           < MAX_EVALUATION_TRIES + Cardinality(InputsOf(o))
    BY DEF TriesLeft
  <1>1. \A t : Cardinality(Underway(o, t)) = 0
    <2>1. \A op \in Operation : ~InFlight(op)
      BY DEF Init, InFlight, Unwritten, Pool!Init
    <2>2. \A t : Underway(o, t) = {}
      BY <2>1 DEF Underway
    <2>3. QED BY <2>2, FS_EmptySet
  <1>2. db[o].compilationTries = 0 /\ db[o].evaluationTries = 0
    BY DEF Init, Blank, Undisturbed
  <1>3. Cardinality(InputsOf(o)) \in Nat /\ Cardinality(InputsOf(o)) >= 1
    BY PlainAtMost DEF Undisturbed
  <1>4. MAX_COMPILATION_TRIES \in Nat /\ MAX_EVALUATION_TRIES \in Nat
    BY EvaluationServiceAssumption
  <1>5. QED BY <1>1, <1>2, <1>3, <1>4

(* As long as workers keep their batch, an object is compiled no more      *)
(* often than the limit allows, and evaluated no more often but for those  *)
(* of its other testcases that were under way, across failures, sweeps,    *)
(* crashes and invalidations of other objects.                             *)
THEOREM EvaluationServiceTriesAreBounded ==
  ASSUME NobodyLeaves, NoAliasing PROVE Spec => []TriesAreBounded
  <1>1. Init => JudgedInv /\ TriesLeft
    BY JudgedInvInitially, TriesLeftInitially
  <1>2. JudgedInv /\ TriesLeft /\ [Next]_vars => (JudgedInv /\ TriesLeft)'
    BY JudgedInvKept, TriesLeftKept
  <1>3. JudgedInv /\ TriesLeft => TriesAreBounded
    <2> SUFFICES ASSUME JudgedInv, TriesLeft, NEW o \in Object \ Disturbed
                 PROVE  /\ db[o].compilationTries <= MAX_COMPILATION_TRIES
                        /\ db[o].evaluationTries
                             < MAX_EVALUATION_TRIES + Cardinality(InputsOf(o))
      BY DEF TriesAreBounded
    <2>1. db[o] \in SubmissionResult
      BY DEF JudgedInv, PlaceInv, SyncInv, Typed, Rows
    <2>2. db[o].compilationTries \in Nat /\ db[o].evaluationTries \in Nat
      BY <2>1 DEF SubmissionResult
    <2>3. \A t : Cardinality(Underway(o, t)) \in Nat
      BY UnderwaySets, OperationSets
    <2>4. Cardinality(InputsOf(o)) \in Nat
      BY PlainAtMost
    <2>5. MAX_COMPILATION_TRIES \in Nat /\ MAX_EVALUATION_TRIES \in Nat
      BY EvaluationServiceAssumption
    <2>6. /\ db[o].compilationTries + Cardinality(Underway(o, "compilation"))
               <= MAX_COMPILATION_TRIES
          /\ db[o].evaluationTries + Cardinality(Underway(o, "evaluation"))
               < MAX_EVALUATION_TRIES + Cardinality(InputsOf(o))
      BY DEF TriesLeft, Undisturbed
    <2>7. QED BY <2>2, <2>3, <2>4, <2>5, <2>6
  <1>4. QED BY <1>1, <1>2, <1>3, PTL DEF Spec

(* What get_status shows of a row in order.                                *)
LEMMA StatusCases ==
  ASSUME NEW row \in SubmissionResult, row.evaluated => row.compilation = "ok"
  PROVE  /\ row.compilation = "none" => Status(row) = "COMPILING"
         /\ row.compilation = "tombstone" => Status(row) = "IMPORTED"
         /\ row.compilation = "fail" => Status(row) = "COMPILATION_FAILED"
         /\ row.compilation = "ok" /\ ~row.evaluated => Status(row) = "EVALUATING"
         /\ row.compilation = "ok" /\ row.evaluated => Status(row) = "EVALUATED"
  BY DEF Status, CompilationSucceeded

(* As long as workers keep their batch, EvaluationService implements       *)
(* SubmissionStatus: what a contestant sees of an object nobody announces  *)
(* late or invalidates goes from compiling to evaluating to evaluated, and *)
(* never back.                                                             *)
THEOREM EvaluationServiceStatusSpec ==
  ASSUME NobodyLeaves, NoAliasing PROVE Spec => StatusSpec
  <1>1. Init => JudgedInv
    BY JudgedInvInitially
  <1>2. JudgedInv /\ [Next]_vars => JudgedInv'
    BY JudgedInvKept
  <1>3. Init => Seen!Init
    <2> SUFFICES ASSUME Init PROVE Seen!Init
      OBVIOUS
    <2>1. \A o \in Object :
            /\ ~db[o].evaluated
            /\ \/ o \in Tombstones /\ db[o].compilation = "tombstone"
               \/ db[o].compilation = "none"
      BY DEF Init, Blank
    <2>2. \A o \in Object : \/ o \in Tombstones /\ Status(db[o]) = "IMPORTED"
                            \/ Status(db[o]) = "COMPILING"
      <3>1. \A o \in Object : db[o] \in SubmissionResult
        BY InitTyped DEF Typed, Rows
      <3>2. QED BY <2>1, <3>1, StatusCases
    <2>3. Disturbed = {}
      BY DEF Init, Disturbed
    <2>4. QED BY <2>2, <2>3 DEF Seen!Init
  <1>4. JudgedInv /\ [Next]_vars => Seen!Next
    <2> SUFFICES ASSUME JudgedInv, [Next]_vars PROVE Seen!Next
      OBVIOUS
    <2> Typed
      BY DEF JudgedInv, PlaceInv, SyncInv
    <2>1. db \in Rows /\ db' \in Rows /\ Disturbed' \subseteq Object
      BY NextTyped DEF Typed, RestTyped, Disturbed, Object
    <2>2. \A o \in Object : Status(db'[o]) \in Seen!Phase
      <3>1. \A o \in Object : db'[o] \in SubmissionResult
        BY <2>1 DEF Rows
      <3>2. QED BY <3>1 DEF Status, CompilationSucceeded, SubmissionResult, Seen!Phase
    <2>3. Disturbed \subseteq Disturbed'
      BY DisturbedStep
    <2>4. ASSUME NEW o \in Object, o \notin Disturbed'
          PROVE  \/ Status(db[o]) = "IMPORTED" /\ Status(db'[o]) = "COMPILING"
                 \/ /\ Status(db[o]) = "COMPILING"
                    /\ Status(db'[o]) \in {"COMPILATION_FAILED", "EVALUATING"}
                 \/ Status(db[o]) = "EVALUATING" /\ Status(db'[o]) = "EVALUATED"
                 \/ Status(db'[o]) = Status(db[o])
      <3>1. o \in Undisturbed' /\ o \in Undisturbed
        BY <2>3, <2>4 DEF Undisturbed
      <3>2. PICK b, a : b = db[o] /\ a = db'[o]
        OBVIOUS
      <3>3. b \in SubmissionResult /\ a \in SubmissionResult
        BY <2>1, <3>2 DEF Rows
      <3>4. /\ b.evaluated => b.compilation = "ok"
            /\ a.evaluated => a.compilation = "ok"
            /\ a.evaluated => b.compilation = "ok"
            /\ b.evaluated => a.evaluated
            /\ \/ a.compilation = b.compilation
               \/ b.compilation = "tombstone" /\ a.compilation = "none"
               \/ b.compilation = "none" /\ a.compilation \in {"ok", "fail"}
        BY <3>1, <3>2, RowMovesForward
           DEF RowMoves, CompilationFollows, JudgedInv, RowsInOrder
      <3>5. /\ b.compilation \in {"none", "ok", "tombstone", "fail"}
            /\ a.compilation \in {"none", "ok", "tombstone", "fail"}
        BY <3>3 DEF SubmissionResult
      <3>6. QED BY <3>2, <3>3, <3>4, <3>5, StatusCases
    <2>5. QED
      BY <2>1, <2>2, <2>3, <2>4
      DEF Seen!Next, Seen!TombstoneIsFound, Seen!CompilationEnds, Seen!EvaluationEnds
  <1>5. QED BY <1>1, <1>2, <1>3, <1>4, PTL DEF Spec, StatusSpec, Seen!Spec
=============================================================================
