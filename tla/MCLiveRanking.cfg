CONSTANTS
  User = {u1, u2, u3}
  MaxScore = 1
  MaxTime = 4
  MaxVersion = 2
  CacheSize = 2
SPECIFICATION Spec
SYMMETRY Symmetry
CHECK_DEADLOCK FALSE
INVARIANT PageIsCurrent
INVARIANT RanksAreExact
