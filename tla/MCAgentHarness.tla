--------------------------- MODULE MCAgentHarness ---------------------------
(* AgentHarness on small instances: three calls one after another, with a  *)
(* write and a failure or with a message; two calls, or one, with two or   *)
(* three of a message, a write, a failure and a round of tools; one with   *)
(* two messages queued; and two calls that may overlap.  "rounds" is the   *)
(* number of answers that call tools, beside the last of a prompt.         *)
EXTENDS AgentHarness

Limit(patient, calls, messages, writes, rounds, failing) ==
  [patient |-> patient, calls |-> calls, messages |-> messages, writes |-> writes,
   rounds |-> rounds, faults |-> failing]

SmallLimits == {Limit(TRUE, 3, 0, 1, 0, 1), Limit(TRUE, 3, 1, 0, 0, 0),
                Limit(TRUE, 2, 1, 0, 1, 1), Limit(TRUE, 2, 0, 1, 1, 1),
                Limit(TRUE, 2, 1, 1, 0, 1), Limit(TRUE, 1, 1, 1, 1, 1),
                Limit(TRUE, 2, 1, 1, 1, 0), Limit(TRUE, 2, 0, 2, 1, 0),
                Limit(TRUE, 1, 1, 2, 1, 0), Limit(TRUE, 1, 2, 0, 1, 1),
                Limit(FALSE, 2, 1, 0, 1, 0), Limit(FALSE, 2, 0, 1, 1, 0)}
=============================================================================
