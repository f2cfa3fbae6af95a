CONSTANTS
  Worker = {w1, w2}
  Submission = {s1}
  UserTest = {u1}
  Testcase = {t1, t2}
  NoWorker = NoWorker
  NoTestcase = NoTestcase
  MAX_COMPILATION_TRIES = 2
  MAX_EVALUATION_TRIES = 2
  MAX_OPERATIONS_PER_BATCH = 25
  Contents <- OneOfEach
  Tombstones = {s1}
  Announcing = {s1, u1}
  ArchiveRequests = {FALSE}
  Faults <- Judging
SPECIFICATION Spec
SYMMETRY Symmetry
CHECK_DEADLOCK FALSE
INVARIANT OnePlace
INVARIANT PoolInSync
PROPERTY FreshOnArrival
INVARIANT EvaluatedIsComplete
INVARIANT TriesAreBounded
PROPERTY StatusSpec
