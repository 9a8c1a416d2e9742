SPECIFICATION Spec
CONSTANTS
  None = None
  Calls = {1, 2, 3}
  MaxRetries = 1
  Answers <- SmallAnswers
  Limits <- SmallLimits
INVARIANTS
  TranscriptIsBranch ResultFollowsCall NothingForgotten RecoveryEnds
  PromptsDoNotThrow QueuedIsShownAndDelivered
\* The session stops when the bounds leave its callers nothing to do.
CHECK_DEADLOCK FALSE
