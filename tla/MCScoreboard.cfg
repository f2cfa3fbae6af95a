CONSTANTS
  Submission = {s1}
  Dataset = {d1, d2}
  Autojudged = {d2}
  NoOperation = NoOperation
  MaxRight = 2
  Faults <- Disturbances
SPECIFICATION FairSpec
CHECK_DEADLOCK FALSE
INVARIANT NothingRefused
PROPERTY CatchesUpWhenCalm
