SPECIFICATION Spec
CONSTANTS
  MaxIds = 3
  Programs <- SmallPrograms
  MaxTimeouts = 1
INVARIANTS
  SessionsAreHandedOver EveryCommandIsAnswered CollectedIsTheRun
\* The client may stop calling, and the process exit.
CHECK_DEADLOCK FALSE
