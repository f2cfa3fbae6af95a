SPECIFICATION Spec
CONSTANTS
  None = None
  Call = {c1, c2}
  NoCall = NoCall
  TimeLimit = 3
  Groups <- MCGroups
  Logs <- MCLogs
  Shard = 1
  RangeSize = 2
  MaxFaults = 1
INVARIANT JobContract
INVARIANT FaultsAreNoVerdicts
INVARIANT BoxesAreOwn
INVARIANT DirectoriesFollowSuccess
PROPERTY EveryGroupEnds
CHECK_DEADLOCK FALSE
