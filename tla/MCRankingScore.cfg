CONSTANTS
  s1 = s1
  s2 = s2
  s3 = s3
  Submission <- Submissions
  SubmittedAt <- Times
  Key = {1, 2, 3, 4, 5}
  Of <- SubmissionOf
  Time <- ChangeTime
  Content <- Contents
  NoScore = NoScore
  NoSubmission = NoSubmission
  Truncating <- TruncatingInstance
SPECIFICATION Spec
CHECK_DEADLOCK FALSE
INVARIANT HistoryIsExact
INVARIANT NoOrphans
