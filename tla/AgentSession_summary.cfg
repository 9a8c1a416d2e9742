\* A conversation is compacted twice, the second time in the middle of its first turn.
SPECIFICATION Spec
CONSTANTS
  None = None
  Calls = {1, 2, 3}
  MaxRetries = 0
  Answers <- PlainAnswers
  Limits <- TwiceLimits
INVARIANT SummaryIsCarriedOn
\* The session stops when the bounds leave its callers nothing to do.
CHECK_DEADLOCK FALSE
