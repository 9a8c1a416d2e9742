SPECIFICATION Spec
CONSTANTS
  None = None
  Calls = {1, 2, 3}
  Ops = {"prompt", "compact", "navigate", "append"}
  Modes = {"one-at-a-time", "all"}
  WriteKinds = {"custom"}
  Limits <- SmallLimits
INVARIANTS
  WritesAreOrderly HarnessSettles RequestSeesBranch MessagesAccountedFor
  ReopensAtLeaf
\* The harness stops when the bounds leave its callers nothing to do.
CHECK_DEADLOCK FALSE
