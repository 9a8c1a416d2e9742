SPECIFICATION Spec
CONSTANTS
  MaxLines = 2
  MaxBytes = 2
  MaxChunk = 3
  MaxToolOutput = 10
  MaxExecutorOutput = 8
  NoFile = NoFile
  Running = Running
  Thrown = Thrown
  Keys <- TerminalKeys
  MaxKeys = 3
INVARIANTS
  SnapshotIsOfTheWhole CutOutputIsInTheFile KeysArrive
PROPERTY NothingWaitsForMore
\* A command ends, and the user may stop pressing keys.
CHECK_DEADLOCK FALSE
