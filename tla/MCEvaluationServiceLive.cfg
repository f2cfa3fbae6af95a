CONSTANTS
  Worker = {w1, w2}
  Submission = {s1}
  UserTest = {u1}
  Testcase = {t1}
  NoWorker = NoWorker
  NoTestcase = NoTestcase
  MAX_COMPILATION_TRIES = 2
  MAX_EVALUATION_TRIES = 2
  MAX_OPERATIONS_PER_BATCH = 25
  Contents <- OneOfEach
  Tombstones = {}
  Announcing = {}
  ArchiveRequests = {FALSE}
  Faults <- Recoverable
SPECIFICATION FairSpec
CHECK_DEADLOCK FALSE
INVARIANT BusyOwesAnswer
PROPERTY EventuallySettled
PROPERTY PoolSpec
