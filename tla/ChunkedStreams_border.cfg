SPECIFICATION Spec
CONSTANTS
  MaxLines = 2
  MaxBytes = 2
  MaxChunk = 3
  MaxToolOutput = 3
  MaxExecutorOutput = 3
  NoFile = NoFile
  Running = Running
  Thrown = Thrown
  Keys <- WezTermKeys
  MaxKeys = 2
INVARIANT KeysArriveAtAnyBorder
CHECK_DEADLOCK FALSE
