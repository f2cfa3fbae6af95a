CONSTANTS
  Call = {c1, c2}
  c1 = c1
  c2 = c2
  MaxConnections = 3
  Scenarios <- Mixed
SPECIFICATION FairSpec
CHECK_DEADLOCK FALSE
INVARIANT PendingIsUnderway
PROPERTY ResultsAreFinal
PROPERTY EveryCallEnds
PROPERTY Reconnects
