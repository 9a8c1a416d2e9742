\* Nothing throws and steering messages are taken one at a time.
SPECIFICATION FairSpec
CONSTANTS
  MaxIds = 3
  MaxRuns = 2
  MaxToolTurns = 1
  MaxCalls = 1
  SteeringModes = {"one-at-a-time"}
  FollowUpModes = {"all", "one-at-a-time"}
  ToolExecution = "parallel"
  MayThrow = FALSE
INVARIANT OneSteeringPerRequest
PROPERTIES
  RunSettles
  SteeringReachesRun
  DeliveryFairSpec
CHECK_DEADLOCK FALSE
