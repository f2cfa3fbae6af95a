CONSTANTS
  t1 = t1  t2 = t2
  Task = {t1, t2}
  Request = {r1, r2}
  None = None
  Horizon = 7
  Scenarios <- Everything
SPECIFICATION Spec
INVARIANT LimitsHold
INVARIANT TokensAreEarned
INVARIANT TokensAvailableIsRight
INVARIANT PhaseBoundaries
PROPERTY PhaseOnlyAdvances
SYMMETRY Symmetry
CHECK_DEADLOCK FALSE
