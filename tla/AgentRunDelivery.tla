-------------------------- MODULE AgentRunDelivery --------------------------
(* The Agent keeps the promises of PromptDelivery: the lanes are its two   *)
(* queues, "taken" is what the loop has drained and not yet injected.      *)
EXTENDS AgentRun

Delivery == INSTANCE PromptDelivery WITH
  MayLose   <- MayThrow,
  next      <- nextId,
  waiting   <- [l \in {"steer", "followUp"} |->
                  IF l = "steer" THEN Ids(steeringQueue) ELSE Ids(followUpQueue)],
  taken     <- Ids(hand),
  delivered <- TranscriptIds,
  gone      <- cleared \union lost

(* Every behaviour of the agent is one of PromptDelivery: no message is    *)
(* delivered twice, out of its turn, or dropped silently.                  *)
DeliverySpec == Delivery!Spec

(* And what a run has drained it does deliver (or the run fails). *)
DeliveryFairSpec == Delivery!FairSpec
=============================================================================
