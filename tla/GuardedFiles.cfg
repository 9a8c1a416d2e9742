SPECIFICATION Spec
CONSTANTS
  Call = {1, 2, 3}
  NoCall = 0
  Path = {"alias", "real", "other"}
  Target <- SmallTarget
  i = i
  j = j
  Instance = {i, j}
  NoOne = NoOne
  Torn = Torn
  MaxTokens = 3
  MaxChanges = 2
  MaxCrashes = 1
  p = p
  q = q
  Process = {p, q}
  Field = {"theme", "model"}
  Missing = Missing
  Broken = Broken
  MaxSets = 3
  MaxReloads = 1
  MaxFailures = 1
  MaxExits = 1
SYMMETRY Symmetry
INVARIANTS
  MutationsTakeTurns CredentialsKept SettingsKept
\* The components stop when the bounds leave their callers nothing to do.
CHECK_DEADLOCK FALSE
