\* A listener throws on an event of one of two concurrent tools.
SPECIFICATION FairSpec
CONSTANTS
  MaxIds = 1
  MaxRuns = 1
  MaxToolTurns = 1
  MaxCalls = 2
  SteeringModes = {"one-at-a-time"}
  FollowUpModes = {"one-at-a-time"}
  ToolExecution = "parallel"
  MayThrow = TRUE
PROPERTY AgentEndIsFinal
CHECK_DEADLOCK FALSE
