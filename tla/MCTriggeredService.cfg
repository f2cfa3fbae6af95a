CONSTANTS
  MaxExecutors = 2
  Operation = {1, 2, 3, 4, 5, 6}
  Priority = {1, 2, 3}
  Timestamp = {1, 2}
  BatchLimit = 2
  Scenarios <- DeepAndWide
SPECIFICATION FairSpec
CHECK_DEADLOCK FALSE
INVARIANT QueueVerified
PROPERTY QueueSpec
PROPERTY EverythingDone
