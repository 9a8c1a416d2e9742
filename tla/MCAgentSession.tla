--------------------------- MODULE MCAgentSession ---------------------------
(* AgentSession on small instances: a compaction by hand before, during    *)
(* and after a prompt, with a message queued or a shell result, and with   *)
(* a prompt after it; four answers to one prompt; an abort; callers who do *)
(* not wait; and two compactions by hand, so that the second one finds the *)
(* summary of the first.                                                   *)
EXTENDS AgentSession

Answer1(stop, large) == [stop |-> stop, large |-> large]
SmallAnswers ==
  {Answer1(s, FALSE) : s \in Stops} \union {Answer1("stop", TRUE), Answer1("aborted", TRUE)}

Limit(patient, calls, compacts, answers, queued, bash, aborts) ==
  [patient |-> patient, calls |-> calls, compacts |-> compacts, answers |-> answers,
   queued |-> queued, bash |-> bash, aborts |-> aborts]

SmallLimits == {Limit(TRUE, 2, 1, 2, 1, 0, 0), Limit(TRUE, 1, 0, 4, 1, 0, 0),
                Limit(TRUE, 2, 1, 2, 0, 1, 0),
                Limit(TRUE, 2, 0, 2, 1, 0, 1),
                Limit(FALSE, 2, 0, 1, 0, 1, 0), Limit(FALSE, 2, 0, 2, 0, 0, 0),
                Limit(TRUE, 3, 2, 1, 0, 2, 0), Limit(TRUE, 3, 1, 2, 0, 0, 0)}

\* A prompt and two compactions by hand, a shell result before each.
PlainAnswers == {Answer1("stop", FALSE)}
TwiceLimits == {Limit(TRUE, 3, 2, 1, 0, 2, 0)}
=============================================================================
