----------------------------- MODULE MCAgentRun -----------------------------
(* AgentRun on a small instance: up to three tool calls in an answer, or a *)
(* third message, but not both in one behaviour.                           *)
EXTENDS AgentRunDelivery

Bounds ==
  nextId > 3 =>
    \A p \in DOMAIN messages : messages[p].role = "assistant" => messages[p].calls = 0
=============================================================================
