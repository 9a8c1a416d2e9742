\* Two runs with every way to lose a message, to leave a call unanswered or to fail:
\* three messages, or two of them and up to three tool calls in one answer.
SPECIFICATION Spec
CONSTANTS
  MaxIds = 3
  MaxRuns = 2
  MaxToolTurns = 1
  MaxCalls = 3
  SteeringModes = {"all", "one-at-a-time"}
  FollowUpModes = {"all", "one-at-a-time"}
  ToolExecution = "parallel"
  MayThrow = TRUE
CONSTRAINT Bounds
INVARIANTS
  TypeOK
  IdleIsSettled
  RequestSeesTranscript
  RequestEndsWithInput
  ResultsFollowCalls
  UnansweredOnlyIfInterrupted
  OneRequestAfterAbort
  EachMessageOnce
PROPERTY DeliverySpec
\* The agent stops when the bounds leave its callers nothing to do.
CHECK_DEADLOCK FALSE
