------------------------------ MODULE AgentRun ------------------------------
(***************************************************************************)
(* The Agent class (packages/agent/src/agent.ts) driving the agent loop    *)
(* (packages/agent/src/agent-loop.ts): one run at a time, a transcript,    *)
(* two queues of messages waiting to be injected, and a batch of tool      *)
(* calls per assistant message, executed one by one or concurrently.       *)
(*                                                                         *)
(* A step of the module runs from one "await" of the code to the next, so  *)
(* everything the rest of the program may do while a listener, a hook, the *)
(* provider or a tool is awaited (queue a message, abort, clear a queue)   *)
(* is interleaved between two steps.  Contents of messages are left out: a *)
(* user message is its number, an assistant message its turn, the number   *)
(* of tool calls it asks for and whether it failed.                        *)
(***************************************************************************)
EXTENDS SequencesExt

CONSTANTS
  MaxIds,          \* bound: user messages ever handed to the agent
  MaxRuns,         \* bound: runs ever started
  MaxToolTurns,    \* bound: the model asks for tools in the first turns only
  MaxCalls,        \* bound: tool calls in one assistant message
  SteeringModes,   \* the modes the steering queue may be switched between
  FollowUpModes,   \* the modes the follow-up queue may be switched between
  ToolExecution,   \* "parallel" or "sequential" (AgentOptions.toolExecution)
  MayThrow         \* TRUE when listeners, hooks or the stream function throw

QueueMode == {"all", "one-at-a-time"}

ASSUME BoundsAssumption ==
  /\ MaxIds \in Nat /\ MaxRuns \in Nat /\ MaxToolTurns \in Nat /\ MaxCalls \in Nat

ASSUME ConfigAssumption ==
  /\ SteeringModes \subseteq QueueMode /\ FollowUpModes \subseteq QueueMode
  /\ ToolExecution \in {"parallel", "sequential"}
  /\ MayThrow \in BOOLEAN

VARIABLES
  (* AgentState *)
  messages,          \* the transcript, state.messages
  streamingMessage,  \* the message between its message_start and message_end
  pendingToolCalls,  \* the ids of the tool calls being executed
  isStreaming,
  (* the two PendingMessageQueues *)
  steeringQueue, followUpQueue,
  (* ActiveRun *)
  activeRun,         \* the number of the active run, 0 when there is none
  aborted,           \* its abort signal
  runs,              \* how many runs were started
  (* locals of runLoop and of executeToolCalls *)
  pc,                \* what the loop is awaiting
  context,           \* currentContext.messages
  hand,              \* the prompts or pendingMessages not yet injected
  skipPoll,          \* skipInitialSteeringPoll
  hasMoreToolCalls,
  turn,              \* the number of the last LLM request
  calls,             \* how many tool calls the current answer asks for
  batchMode,         \* how executeToolCalls runs them
  callState,         \* the state of each call of the batch
  terminating,       \* the calls whose result says terminate
  orphans,           \* tool executions whose run has already failed
  (* what happened so far, read by properties only *)
  lastEvent,         \* the last event handed to the listeners, and its run
  nextId,            \* the number of the next user message
  cleared,           \* messages removed by clear*Queue() or reset()
  lost,              \* messages a failing run had drained and never injected
  afterAbort,        \* LLM requests this run made with an aborted signal
  steered,           \* steering messages injected since the last LLM request
  interrupted        \* turns during which the run was aborted or failed

state    == <<messages, streamingMessage, pendingToolCalls, isStreaming>>
queues   == <<steeringQueue, followUpQueue>>
run      == <<activeRun, aborted, runs>>
batch    == <<calls, batchMode, callState, terminating>>
loop     == <<context, hand, skipPoll, hasMoreToolCalls, turn>>
history  == <<nextId, cleared, lost, afterAbort, steered, interrupted>>
vars     == <<state, queues, run, pc, loop, batch, orphans, lastEvent, history>>

-----------------------------------------------------------------------------
(* Messages, tool calls and events.                                        *)

Lane      == {"prompt", "steer", "followUp"}
CallIndex == 1 .. MaxCalls
CallState == {"waiting", "started", "prepared", "running", "ended", "sent"}
ToolId    == [turn : Nat, call : CallIndex]
EventType == {"none", "agent_start", "message_start", "message_end",
              "tool_execution_start", "tool_execution_end", "turn_end", "agent_end"}

UserMessage == [role : {"user"}, id : Nat, lane : Lane]
AssistantMessage ==
  [role : {"assistant"}, turn : Nat, calls : 0 .. MaxCalls,
   stop : {"partial", "ok", "error", "aborted"}]
ToolResultMessage == [role : {"toolResult"}, turn : Nat, call : CallIndex]
AgentMessage == UserMessage \union AssistantMessage \union ToolResultMessage
NoMessage == [role |-> "none"]

User(n, lane)      == [role |-> "user", id |-> n, lane |-> lane]
Assistant(t, n, s) == [role |-> "assistant", turn |-> t, calls |-> n, stop |-> s]
ToolResult(t, i)   == [role |-> "toolResult", turn |-> t, call |-> i]
Event(r, type)     == [run |-> r, type |-> type]

(* handleRunFailure's message belongs to no LLM request. *)
FailureMessage == Assistant(0, 0, IF aborted THEN "aborted" ELSE "error")

Emit(type) == lastEvent' = Event(activeRun, type)

Ids(queue) == {queue[p].id : p \in DOMAIN queue}

UserPositions == {p \in DOMAIN messages : messages[p].role = "user"}
TranscriptIds == {messages[p].id : p \in UserPositions}

(* PendingMessageQueue.drain takes one message or all, as its mode says. *)
DrainSizes(queue, modes) ==
  IF queue = <<>> THEN {0}
  ELSE {n \in {1, Len(queue)} : \/ n = 1 /\ "one-at-a-time" \in modes
                                \/ n = Len(queue) /\ "all" \in modes}
(* Mutants: the newest message first; one message too many removed. *)
DrainedBackwards(queue, n) == Reverse(SubSeq(queue, 1, n))
Drained(queue, n) == SubSeq(queue, 1, n)
RemainingTooFew(queue, n) == SubSeq(queue, n + 2, Len(queue))
Remaining(queue, n) == SubSeq(queue, n + 1, Len(queue))

(* What reset() and finishRun() do to the state of a run.                  *)
(* Mutant: the executing calls are left in pendingToolCalls.               *)
ClearRunStateKeepsCalls ==
  /\ isStreaming' = FALSE
  /\ streamingMessage' = NoMessage
  /\ UNCHANGED pendingToolCalls
ClearRunState ==
  /\ isStreaming' = FALSE
  /\ streamingMessage' = NoMessage
  /\ pendingToolCalls' = {}

-----------------------------------------------------------------------------
Init ==
  /\ messages = <<>> /\ streamingMessage = NoMessage
  /\ pendingToolCalls = {} /\ isStreaming = FALSE
  /\ steeringQueue = <<>> /\ followUpQueue = <<>>
  /\ activeRun = 0 /\ aborted = FALSE /\ runs = 0
  /\ pc = "idle" /\ context = <<>> /\ hand = <<>> /\ skipPoll = FALSE
  /\ hasMoreToolCalls = FALSE /\ turn = 0
  /\ calls = 0 /\ batchMode = "parallel"
  /\ callState = [i \in CallIndex |-> "waiting"] /\ terminating = {}
  /\ orphans = {}
  /\ lastEvent = Event(0, "none") /\ nextId = 1 /\ cleared = {} /\ lost = {}
  /\ afterAbort = 0 /\ steered = 0 /\ interrupted = {}

-----------------------------------------------------------------------------
(* The Agent's public operations.                                          *)

(* runWithLifecycle, up to the await of agent_start's listeners.  "given"  *)
(* are the prompts of runAgentLoop, which starts with them in its context; *)
(* runAgentLoopContinue has none.                                          *)
StartRun(given, skip) ==
  /\ activeRun = 0
  /\ runs < MaxRuns
  /\ runs' = runs + 1
  /\ activeRun' = runs + 1
  /\ aborted' = FALSE
  /\ isStreaming' = TRUE
  /\ streamingMessage' = NoMessage
  /\ context' = messages \o given
  /\ hand' = given
  /\ skipPoll' = skip
  /\ afterAbort' = 0
  /\ lastEvent' = Event(runs + 1, "agent_start")
  /\ pc' = "prompts"
  /\ UNCHANGED <<messages, pendingToolCalls, hasMoreToolCalls, turn, batch, orphans,
                 cleared, lost, steered, interrupted>>

(* prompt(message); while a run is active it throws and changes nothing. *)
Prompt ==
  /\ nextId <= MaxIds
  /\ nextId' = nextId + 1
  /\ StartRun(<<User(nextId, "prompt")>>, FALSE)
  /\ UNCHANGED queues

AtAssistant == messages # <<>> /\ Last(messages).role = "assistant"

(* continue() from an assistant message: the queued steering messages, or  *)
(* else the queued follow-ups, become the prompts of the run.              *)
(* Mutant: the first poll of the run takes a steering message again.       *)
ContinueWithSteeringTwice ==
  /\ AtAssistant
  /\ steeringQueue # <<>>
  /\ \E n \in DrainSizes(steeringQueue, SteeringModes) :
       /\ StartRun(Drained(steeringQueue, n), FALSE)
       /\ steeringQueue' = Remaining(steeringQueue, n)
  /\ UNCHANGED <<followUpQueue, nextId>>
ContinueWithSteering ==
  /\ AtAssistant
  /\ steeringQueue # <<>>
  /\ \E n \in DrainSizes(steeringQueue, SteeringModes) :
       /\ StartRun(Drained(steeringQueue, n), TRUE)
       /\ steeringQueue' = Remaining(steeringQueue, n)
  /\ UNCHANGED <<followUpQueue, nextId>>

ContinueWithFollowUp ==
  /\ AtAssistant
  /\ steeringQueue = <<>>
  /\ followUpQueue # <<>>
  /\ \E n \in DrainSizes(followUpQueue, FollowUpModes) :
       /\ StartRun(Drained(followUpQueue, n), FALSE)
       /\ followUpQueue' = Remaining(followUpQueue, n)
  /\ UNCHANGED <<steeringQueue, nextId>>

(* continue() from a user message or a tool result. *)
ContinueTranscript ==
  /\ messages # <<>>
  /\ ~AtAssistant
  /\ StartRun(<<>>, FALSE)
  /\ UNCHANGED <<queues, nextId>>

(* steer() and followUp() are allowed at any time.                         *)
Steer ==
  /\ nextId <= MaxIds
  /\ nextId' = nextId + 1
  /\ steeringQueue' = Append(steeringQueue, User(nextId, "steer"))
  /\ UNCHANGED <<state, followUpQueue, run, pc, loop, batch, orphans, lastEvent,
                 cleared, lost, afterAbort, steered, interrupted>>

FollowUp ==
  /\ nextId <= MaxIds
  /\ nextId' = nextId + 1
  /\ followUpQueue' = Append(followUpQueue, User(nextId, "followUp"))
  /\ UNCHANGED <<state, steeringQueue, run, pc, loop, batch, orphans, lastEvent,
                 cleared, lost, afterAbort, steered, interrupted>>

(* clearSteeringQueue() and clearFollowUpQueue(); clearAllQueues() is both. *)
ClearSteeringQueue ==
  /\ steeringQueue # <<>>
  /\ cleared' = cleared \union Ids(steeringQueue)
  /\ steeringQueue' = <<>>
  /\ UNCHANGED <<state, followUpQueue, run, pc, loop, batch, orphans, lastEvent,
                 nextId, lost, afterAbort, steered, interrupted>>

ClearFollowUpQueue ==
  /\ followUpQueue # <<>>
  /\ cleared' = cleared \union Ids(followUpQueue)
  /\ followUpQueue' = <<>>
  /\ UNCHANGED <<state, steeringQueue, run, pc, loop, batch, orphans, lastEvent,
                 nextId, lost, afterAbort, steered, interrupted>>

(* reset().  It does not look at activeRun; its callers use it when idle.  *)
Reset ==
  /\ activeRun = 0
  /\ messages # <<>>
  /\ ClearRunState
  /\ messages' = <<>>
  /\ steeringQueue' = <<>>
  /\ followUpQueue' = <<>>
  /\ cleared' = cleared \union Ids(steeringQueue) \union Ids(followUpQueue)
                        \union TranscriptIds
  /\ UNCHANGED <<run, pc, loop, batch, orphans, lastEvent, nextId, lost, afterAbort, steered, interrupted>>

Abort ==
  /\ activeRun # 0
  /\ ~aborted
  /\ aborted' = TRUE
  /\ interrupted' = interrupted \union {turn}
  /\ UNCHANGED <<state, queues, activeRun, runs, pc, loop, batch, orphans, lastEvent,
                 nextId, cleared, lost, afterAbort, steered>>

(* What the owner of the agent does to state.messages between two runs:    *)
(* AgentSession appends a custom message, or drops the error it is about   *)
(* to retry.                                                               *)
OwnerAppends ==
  /\ activeRun = 0
  /\ nextId <= MaxIds
  /\ nextId' = nextId + 1
  /\ messages' = Append(messages, User(nextId, "prompt"))
  /\ UNCHANGED <<streamingMessage, pendingToolCalls, isStreaming, queues, run, pc, loop,
                 batch, orphans, lastEvent, cleared, lost, afterAbort, steered, interrupted>>

OwnerDropsError ==
  /\ activeRun = 0
  /\ AtAssistant
  /\ Last(messages).stop = "error"
  /\ messages' = Front(messages)
  /\ UNCHANGED <<streamingMessage, pendingToolCalls, isStreaming, queues, run, pc, loop,
                 batch, orphans, lastEvent, history>>

-----------------------------------------------------------------------------
(* runLoop: injecting messages and polling the queues.                     *)

(* message_start of the next prompt ("prompts") or pending message         *)
(* ("inner", the top of the inner loop).                                   *)
(* Mutant: an aborted run stops injecting, and does not stop.              *)
InjectStartUnlessAborted ==
  /\ pc \in {"prompts", "inner"}
  /\ hand # <<>> /\ ~aborted
  /\ streamingMessage' = Head(hand)
  /\ pc' = IF pc = "prompts" THEN "promptShown" ELSE "innerShown"
  /\ Emit("message_start")
  /\ UNCHANGED <<messages, pendingToolCalls, isStreaming, queues, run, loop, batch,
                 orphans, history>>
InjectStart ==
  /\ pc \in {"prompts", "inner"}
  /\ hand # <<>>
  /\ streamingMessage' = Head(hand)
  /\ pc' = IF pc = "prompts" THEN "promptShown" ELSE "innerShown"
  /\ Emit("message_start")
  /\ UNCHANGED <<messages, pendingToolCalls, isStreaming, queues, run, loop, batch,
                 orphans, history>>

(* Its message_end: the transcript gets it; a pending message joins the    *)
(* context too, where the prompts already are.                             *)
InjectEnd ==
  /\ pc \in {"promptShown", "innerShown"}
  /\ streamingMessage' = NoMessage
  /\ messages' = Append(messages, Head(hand))
  /\ context' = IF pc = "innerShown" THEN Append(context, Head(hand)) ELSE context
  /\ hand' = Tail(hand)
  /\ pc' = IF pc = "promptShown" THEN "prompts" ELSE "inner"
  /\ steered' = IF Head(hand).lane = "steer" THEN steered + 1 ELSE steered
  /\ Emit("message_end")
  /\ UNCHANGED <<pendingToolCalls, isStreaming, queues, run, skipPoll, hasMoreToolCalls,
                 turn, batch, orphans, nextId, cleared, lost, afterAbort, interrupted>>

(* The poll before the first turn. *)
InitialPoll ==
  /\ pc = "prompts"
  /\ hand = <<>>
  /\ \E n \in IF skipPoll THEN {0} ELSE DrainSizes(steeringQueue, SteeringModes) :
       /\ hand' = Drained(steeringQueue, n)
       /\ steeringQueue' = Remaining(steeringQueue, n)
  /\ skipPoll' = FALSE
  /\ hasMoreToolCalls' = TRUE
  /\ pc' = "inner"
  /\ UNCHANGED <<state, followUpQueue, run, context, turn, batch, orphans, lastEvent, history>>

(* The poll after each turn, and the test of the inner loop.               *)
(* Mutant: the queue is polled only between turns with tools.              *)
SteeringPollBetweenTools ==
  /\ pc = "poll"
  /\ \E n \in IF hasMoreToolCalls THEN DrainSizes(steeringQueue, SteeringModes) ELSE {0} :
       /\ hand' = Drained(steeringQueue, n)
       /\ steeringQueue' = Remaining(steeringQueue, n)
  /\ pc' = IF hasMoreToolCalls \/ hand' # <<>> THEN "inner" ELSE "followUp"
  /\ UNCHANGED <<state, followUpQueue, run, context, skipPoll, hasMoreToolCalls, turn,
                 batch, orphans, lastEvent, history>>
SteeringPoll ==
  /\ pc = "poll"
  /\ \E n \in DrainSizes(steeringQueue, SteeringModes) :
       /\ hand' = Drained(steeringQueue, n)
       /\ steeringQueue' = Remaining(steeringQueue, n)
  /\ pc' = IF hasMoreToolCalls \/ hand' # <<>> THEN "inner" ELSE "followUp"
  /\ UNCHANGED <<state, followUpQueue, run, context, skipPoll, hasMoreToolCalls, turn,
                 batch, orphans, lastEvent, history>>

(* Follow-ups are polled where the agent would stop; it stops if there are *)
(* none.                                                                   *)
FollowUpPoll ==
  /\ pc = "followUp"
  /\ \E n \in DrainSizes(followUpQueue, FollowUpModes) :
       /\ hand' = Drained(followUpQueue, n)
       /\ followUpQueue' = Remaining(followUpQueue, n)
  /\ hasMoreToolCalls' = (hand' # <<>>)
  /\ pc' = IF hand' # <<>> THEN "inner" ELSE "agentEnd"
  /\ IF hand' # <<>> THEN UNCHANGED lastEvent ELSE Emit("agent_end")
  /\ UNCHANGED <<state, steeringQueue, run, context, skipPoll, turn, batch, orphans, history>>

-----------------------------------------------------------------------------
(* streamAssistantResponse.                                                *)

(* The request is sent and its first event (or its only one) arrives: the  *)
(* partial message is put at the end of the context.                       *)
StreamStart ==
  /\ pc = "inner"
  /\ hand = <<>>
  /\ turn' = turn + 1
  /\ context' = Append(context, Assistant(turn + 1, 0, "partial"))
  /\ streamingMessage' = Assistant(turn + 1, 0, "partial")
  /\ afterAbort' = IF aborted THEN afterAbort + 1 ELSE afterAbort
  /\ steered' = 0
  /\ pc' = "streaming"
  /\ Emit("message_start")
  /\ UNCHANGED <<messages, pendingToolCalls, isStreaming, queues, run, hand, skipPoll,
                 hasMoreToolCalls, batch, orphans, nextId, cleared, lost, interrupted>>

(* What the providers answer (external): a request made with an aborted    *)
(* signal fails; one aborted meanwhile may still have been complete.  The  *)
(* model stops asking for tools after MaxToolTurns.                        *)
Answers ==
  {Assistant(turn, n, stop) :
     n \in IF turn <= MaxToolTurns THEN 0 .. MaxCalls ELSE {0},
     stop \in (IF afterAbort = 0 THEN {"ok"} ELSE {}) \union {"error"}
              \union (IF aborted THEN {"aborted"} ELSE {})}

(* An error or an abort ends the run.  Mutant: an abort does not. *)
OnlyErrorEndsRun(answer) == answer.stop = "error"
EndsRun(answer) == answer.stop \in {"error", "aborted"}

(* message_end of the final message, which replaces the partial one. *)
StreamEnd ==
  /\ pc = "streaming"
  /\ \E answer \in Answers :
       /\ context' = ReplaceAt(context, Len(context), answer)
       /\ messages' = Append(messages, answer)
       /\ calls' = answer.calls
       /\ pc' = IF EndsRun(answer) THEN "failedAnswer" ELSE "answered"
  /\ streamingMessage' = NoMessage
  /\ Emit("message_end")
  /\ UNCHANGED <<pendingToolCalls, isStreaming, queues, run, hand, skipPoll,
                 hasMoreToolCalls, turn, batchMode, callState, terminating, orphans, history>>

(* A failed answer is the last of the run: turn_end, then agent_end. *)
AnswerFailed ==
  /\ pc = "failedAnswer"
  /\ pc' = "agentEnd"
  /\ Emit("agent_end")
  /\ UNCHANGED <<state, queues, run, loop, batch, orphans, history>>

(* turn_end of an answer without tool calls.                               *)
(* Mutant: hasMoreToolCalls is not reset before the test of the calls.     *)
TurnWithoutToolsGoesOn ==
  /\ pc = "answered"
  /\ calls = 0
  /\ pc' = "poll"
  /\ Emit("turn_end")
  /\ UNCHANGED <<state, queues, run, loop, batch, orphans, history>>
TurnWithoutTools ==
  /\ pc = "answered"
  /\ calls = 0
  /\ hasMoreToolCalls' = FALSE
  /\ pc' = "poll"
  /\ Emit("turn_end")
  /\ UNCHANGED <<state, queues, run, context, hand, skipPoll, turn, batch, orphans, history>>

-----------------------------------------------------------------------------
(* executeToolCalls, sequential and parallel.                              *)

(* A tool of the batch with executionMode "sequential" makes the whole     *)
(* batch sequential, whatever the agent's own setting.                     *)
StartBatch ==
  /\ pc = "answered"
  /\ calls > 0
  /\ batchMode' \in {"sequential", ToolExecution}
  /\ callState' = [i \in CallIndex |-> "waiting"]
  /\ terminating' = {}
  /\ pc' = "prepare"
  /\ UNCHANGED <<state, queues, run, loop, calls, orphans, lastEvent, history>>

Batch == 1 .. calls
Untouched(i) == callState[i] = "waiting"
NextCall(i) == Untouched(i) /\ \A j \in 1 .. i - 1 : ~Untouched(j)

(* Both loops over the calls stop early after the first call that sees the *)
(* signal aborted; the calls left over get no result.                      *)
(* Mutant: the last call is never looked at.                               *)
StopPreparingEarly ==
  \/ \A i \in 1 .. calls - 1 : ~Untouched(i)
  \/ aborted /\ ~Untouched(1)
StopPreparing ==
  \/ \A i \in Batch : ~Untouched(i)
  \/ aborted /\ ~Untouched(1)

CallStart(i) ==
  /\ pc = "prepare"
  /\ ~StopPreparing
  /\ NextCall(i)
  /\ callState' = [callState EXCEPT ![i] = "started"]
  /\ pendingToolCalls' = pendingToolCalls \union {[turn |-> turn, call |-> i]}
  /\ pc' = "preflight"
  /\ Emit("tool_execution_start")
  /\ UNCHANGED <<messages, streamingMessage, isStreaming, queues, run, loop, calls,
                 batchMode, terminating, orphans, history>>

(* tool_execution_end, and what processEvents does with it.                *)
ExecutionEnds(i) ==
  /\ callState' = [callState EXCEPT ![i] = "ended"]
  /\ pendingToolCalls' = pendingToolCalls \ {[turn |-> turn, call |-> i]}
  /\ Emit("tool_execution_end")

(* prepareToolCall gives an immediate outcome (unknown tool, bad arguments,*)
(* blocked or failing hook, aborted), which is final and never terminates. *)
PreparedImmediate(i) ==
  /\ pc = "preflight"
  /\ callState[i] = "started"
  /\ ExecutionEnds(i)
  /\ pc' = IF batchMode = "parallel" THEN "prepare" ELSE "execute"
  /\ UNCHANGED <<messages, streamingMessage, isStreaming, queues, run, loop, calls,
                 batchMode, terminating, orphans, history>>

(* ... or lets it run: at once when sequential, after the whole batch is   *)
(* prepared when parallel.                                                 *)
Prepared(i) ==
  /\ pc = "preflight"
  /\ callState[i] = "started"
  /\ ~aborted
  /\ IF batchMode = "parallel"
       THEN callState' = [callState EXCEPT ![i] = "prepared"] /\ pc' = "prepare"
       ELSE callState' = [callState EXCEPT ![i] = "running"] /\ pc' = "execute"
  /\ UNCHANGED <<state, queues, run, loop, calls, batchMode, terminating, orphans,
                 lastEvent, history>>

(* Promise.all starts every prepared call, aborted or not. *)
Launch ==
  /\ pc = "prepare"
  /\ batchMode = "parallel"
  /\ StopPreparing
  /\ callState' = [i \in CallIndex |->
                     IF callState[i] = "prepared" THEN "running" ELSE callState[i]]
  /\ pc' = "execute"
  /\ UNCHANGED <<state, queues, run, loop, calls, batchMode, terminating, orphans,
                 lastEvent, history>>

(* The tool settles, afterToolCall has its say, and tool_execution_end is  *)
(* emitted, in completion order.                                           *)
ToolEnd(i) ==
  /\ pc = "execute"
  /\ callState[i] = "running"
  /\ ExecutionEnds(i)
  /\ terminating' \in {terminating, terminating \union {i}}
  /\ UNCHANGED <<messages, streamingMessage, isStreaming, queues, run, pc, loop, calls,
                 batchMode, orphans, history>>

Running == {i \in CallIndex : callState[i] = "running"}

(* Result messages follow in the order of the calls; when parallel, once   *)
(* every call has ended.                                                   *)
(* Mutants: in completion order; a call waits for its own result.          *)
NextResultUnordered(i) == Running = {} /\ callState[i] = "ended"
NextResultSelfWaiting(i) ==
  /\ Running = {} /\ callState[i] = "ended"
  /\ \A j \in 1 .. i : callState[j] # "ended"
NextResult(i) ==
  /\ Running = {} /\ callState[i] = "ended"
  /\ \A j \in 1 .. i - 1 : callState[j] # "ended"

ResultStart(i) ==
  /\ pc = "execute"
  /\ NextResult(i)
  /\ streamingMessage' = ToolResult(turn, i)
  /\ pc' = "resultShown"
  /\ Emit("message_start")
  /\ UNCHANGED <<messages, pendingToolCalls, isStreaming, queues, run, loop, batch,
                 orphans, history>>

ResultEnd ==
  /\ pc = "resultShown"
  /\ streamingMessage' = NoMessage
  /\ messages' = Append(messages, streamingMessage)
  /\ callState' = [callState EXCEPT ![streamingMessage.call] = "sent"]
  /\ pc' = IF batchMode = "parallel" THEN "execute" ELSE "prepare"
  /\ Emit("message_end")
  /\ UNCHANGED <<pendingToolCalls, isStreaming, queues, run, loop, calls, batchMode,
                 terminating, orphans, history>>

(* Mutant: a result that terminates is left out.                           *)
FinalizedUnlessTerminating == {i \in Batch \ terminating : callState[i] = "sent"}
Finalized == {i \in Batch : callState[i] = "sent"}

(* The batch is over: its results join the context and turn_end is emitted.*)
(* The loop goes on unless every result says terminate.                    *)
FinishBatch ==
  /\ \/ pc = "prepare" /\ batchMode = "sequential" /\ StopPreparing
     \/ pc = "execute" /\ batchMode = "parallel"
        /\ \A i \in Batch : callState[i] \notin {"running", "ended"}
  /\ context' = context \o [i \in 1 .. Cardinality(Finalized) |-> ToolResult(turn, i)]
  /\ hasMoreToolCalls' = ~(Finalized # {} /\ Finalized \subseteq terminating)
  /\ pc' = "poll"
  /\ Emit("turn_end")
  /\ UNCHANGED <<state, queues, run, hand, skipPoll, turn, batch, orphans, history>>

-----------------------------------------------------------------------------
(* Failures.  A listener, a hook or the stream function that throws ends   *)
(* the loop; runWithLifecycle reports the failure as a message of its own. *)

LoopPoints ==
  {"prompts", "promptShown", "inner", "innerShown", "poll", "followUp", "streaming",
   "answered", "failedAnswer", "prepare", "preflight", "execute", "resultShown", "agentEnd"}

(* handleRunFailure's message_start.  What the loop had drained is gone.   *)
ReportFailure ==
  /\ streamingMessage' = FailureMessage
  /\ lost' = lost \union Ids(hand)
  /\ hand' = <<>>
  /\ interrupted' = interrupted \union {turn}
  /\ pc' = "failShown"
  /\ Emit("message_start")
  /\ UNCHANGED <<messages, isStreaming, queues, run, context, skipPoll, hasMoreToolCalls,
                 turn, calls, batchMode, terminating, nextId, cleared, afterAbort, steered>>

Throw ==
  /\ MayThrow
  /\ pc \in LoopPoints
  /\ Running = {}
  /\ ReportFailure
  /\ UNCHANGED <<pendingToolCalls, callState, orphans>>

(* A listener fails on an event of a tool: its call rejects, with or       *)
(* without having emitted tool_execution_end, and so does the batch.  The  *)
(* other calls of a parallel batch go on running with nobody waiting.      *)
ToolThrow(i) ==
  /\ MayThrow
  /\ pc = "execute"
  /\ callState[i] = "running"
  /\ callState' = [j \in CallIndex |-> IF j \in Running THEN "ended" ELSE callState[j]]
  /\ orphans' = orphans \union {[run |-> activeRun, turn |-> turn, call |-> j] :
                                  j \in Running \ {i}}
  /\ pendingToolCalls' \in {pendingToolCalls,
                            pendingToolCalls \ {[turn |-> turn, call |-> i]}}
  /\ ReportFailure

(* The failure's message_end.                                              *)
(* Mutant: the message is read after streamingMessage was cleared.         *)
FailureEndCleared ==
  /\ pc = "failShown"
  /\ streamingMessage' = NoMessage
  /\ messages' = Append(messages, streamingMessage')
  /\ pc' = "failEnd"
  /\ Emit("message_end")
  /\ UNCHANGED <<pendingToolCalls, isStreaming, queues, run, loop, batch, orphans, history>>
FailureEnd ==
  /\ pc = "failShown"
  /\ streamingMessage' = NoMessage
  /\ messages' = Append(messages, streamingMessage)
  /\ pc' = "failEnd"
  /\ Emit("message_end")
  /\ UNCHANGED <<pendingToolCalls, isStreaming, queues, run, loop, batch, orphans, history>>

(* Its turn_end and agent_end. *)
FailureAgentEnd ==
  /\ pc = "failEnd"
  /\ pc' = "failClosed"
  /\ Emit("agent_end")
  /\ UNCHANGED <<state, queues, run, loop, batch, orphans, history>>

(* finishRun, from "finally": after the listeners of agent_end, or after a *)
(* listener threw while the failure was being reported.                    *)
FinishRun ==
  /\ \/ pc \in {"agentEnd", "failClosed"}
     \/ MayThrow /\ pc \in {"failShown", "failEnd"}
  /\ ClearRunState
  /\ activeRun' = 0
  /\ aborted' = FALSE
  /\ context' = <<>>
  /\ callState' = [i \in CallIndex |-> "waiting"]
  /\ terminating' = {}
  /\ calls' = 0
  /\ pc' = "idle"
  /\ UNCHANGED <<messages, queues, runs, hand, skipPoll, hasMoreToolCalls, turn,
                 batchMode, orphans, lastEvent, history>>

(* An orphaned tool settles: its tool_execution_end is reduced into the    *)
(* state and reaches the listeners if any run is active by then.           *)
OrphanEnd(o) ==
  /\ orphans' = orphans \ {o}
  /\ pendingToolCalls' = pendingToolCalls \ {[turn |-> o.turn, call |-> o.call]}
  /\ lastEvent' = IF activeRun # 0 THEN Event(o.run, "tool_execution_end") ELSE lastEvent
  /\ UNCHANGED <<messages, streamingMessage, isStreaming, queues, run, pc, loop, batch, history>>

-----------------------------------------------------------------------------
Caller ==
  \/ Prompt \/ ContinueWithSteering \/ ContinueWithFollowUp \/ ContinueTranscript
  \/ Steer \/ FollowUp \/ ClearSteeringQueue \/ ClearFollowUpQueue \/ Abort \/ Reset
  \/ OwnerAppends \/ OwnerDropsError

LoopStep ==
  \/ InjectStart \/ InjectEnd \/ InitialPoll \/ SteeringPoll \/ FollowUpPoll
  \/ StreamStart \/ StreamEnd \/ AnswerFailed \/ TurnWithoutTools
  \/ StartBatch \/ Launch \/ ResultEnd \/ FinishBatch
  \/ \E i \in CallIndex : CallStart(i) \/ PreparedImmediate(i) \/ Prepared(i) \/ ResultStart(i)
  \/ FailureEnd \/ FailureAgentEnd \/ FinishRun

ToolStep == \E i \in CallIndex : ToolEnd(i)

Failure == Throw \/ \E i \in CallIndex : ToolThrow(i)

Next == Caller \/ LoopStep \/ ToolStep \/ Failure \/ \E o \in orphans : OrphanEnd(o)

Spec == Init /\ [][Next]_vars

(* A run that is not waiting for a tool is driven by the event loop, and   *)
(* the tools, the provider and the listeners settle.  Nothing makes the    *)
(* user act or a listener throw.                                           *)
FairSpec == Spec /\ WF_vars(LoopStep) /\ WF_vars(ToolStep)
-----------------------------------------------------------------------------
(* Type invariant: what the fields of the Agent and the locals of the loop  *)
(* can hold.                                                               *)
StateType ==
  /\ messages \in Seq(AgentMessage)
  /\ streamingMessage \in AgentMessage \union {NoMessage}
  /\ pendingToolCalls \subseteq ToolId
  /\ isStreaming \in BOOLEAN
QueueType ==
  /\ steeringQueue \in Seq(UserMessage)
  /\ followUpQueue \in Seq(UserMessage)
RunType ==
  /\ runs \in Nat
  /\ activeRun \in Nat /\ activeRun <= runs
  /\ aborted \in BOOLEAN
PcType == pc \in LoopPoints \union {"idle", "failShown", "failEnd", "failClosed"}
LoopType ==
  /\ context \in Seq(AgentMessage)
  /\ hand \in Seq(UserMessage)
  /\ skipPoll \in BOOLEAN
  /\ hasMoreToolCalls \in BOOLEAN
  /\ turn \in Nat
BatchType ==
  /\ calls \in 0 .. MaxCalls
  /\ batchMode \in {"parallel", "sequential"}
  /\ callState \in [CallIndex -> CallState]
  /\ terminating \subseteq CallIndex
  /\ orphans \subseteq [run : Nat, turn : Nat, call : CallIndex]
HistoryType ==
  /\ lastEvent \in [run : Nat, type : EventType]
  /\ nextId \in Nat
  /\ cleared \subseteq Nat
  /\ lost \subseteq Nat
  /\ afterAbort \in Nat
  /\ steered \in Nat
  /\ interrupted \subseteq Nat
TypeOK ==
  /\ StateType /\ QueueType /\ RunType /\ PcType /\ LoopType /\ BatchType /\ HistoryType

(* What the provider is sent, which the loop accumulates in a copy of its  *)
(* own, is the transcript the user sees plus the answer being streamed.    *)
RequestSeesTranscript ==
  pc = "streaming" => context = Append(messages, streamingMessage)

EndsWithInput == messages # <<>> /\ Last(messages).role # "assistant"

(* No request is made with an assistant message last, which providers      *)
(* refuse: there is always a user message or a tool result to answer.      *)
RequestEndsWithInput ==
  pc = "streaming" => EndsWithInput

(* A tool result comes after the assistant message that asked for it, with *)
(* nothing but the results of its earlier calls in between, whatever order *)
(* the calls completed in.                                                 *)
ResultsFollowCalls ==
  \A p \in DOMAIN messages : messages[p].role = "toolResult" =>
    LET q == p - messages[p].call IN
      /\ q \in DOMAIN messages
      /\ messages[q].role = "assistant" /\ messages[q].stop = "ok"
      /\ messages[q].turn = messages[p].turn
      /\ messages[p].call <= messages[q].calls
      /\ \A i \in 1 .. messages[p].call : messages[q + i] = ToolResult(messages[q].turn, i)

Answered(p) ==
  \A i \in 1 .. messages[p].calls :
    /\ p + i \in DOMAIN messages
    /\ messages[p + i] = ToolResult(messages[p].turn, i)

(* When the loop has left a turn, every tool call of its answer has its    *)
(* result in the transcript, unless the run was aborted or failed meanwhile.*)
UnansweredOnlyIfInterrupted ==
  \A p \in DOMAIN messages :
    messages[p].role = "assistant" /\ messages[p].stop = "ok" =>
      \/ Answered(p)
      \/ messages[p].turn \in interrupted
      \/ messages[p].turn = turn
         /\ pc \in {"answered", "prepare", "preflight", "execute", "resultShown"}

(* A message handed to the agent is in exactly one place: a queue, the     *)
(* loop's hand, the transcript (once), or gone because somebody cleared it *)
(* or because the run that had drained it failed.                          *)
EachMessageOnce ==
  LET places == <<Ids(steeringQueue), Ids(followUpQueue), Ids(hand), TranscriptIds,
                  cleared, lost>>
  IN /\ 1 .. nextId - 1 = UNION {places[k] : k \in DOMAIN places}
     /\ \A k, l \in DOMAIN places : k # l => places[k] \intersect places[l] = {}
     /\ \A p, q \in UserPositions : messages[p].id = messages[q].id => p = q

(* After abort() the run makes at most one more request (which fails).     *)
OneRequestAfterAbort == afterAbort <= 1

(* In "one-at-a-time" mode the model sees at most one more steering message*)
(* per request, also when continue() takes the first one from the queue    *)
(* itself.                                                                 *)
OneSteeringPerRequest == "all" \notin SteeringModes => steered <= 1

(* isStreaming is true until the run has settled, and then nothing of the  *)
(* run is left in the state.                                               *)
IdleIsSettled ==
  /\ isStreaming <=> activeRun # 0
  /\ activeRun = 0 => streamingMessage = NoMessage /\ pendingToolCalls = {} /\ hand = <<>>

(* "agent_end is the final emitted event for a run" (agent.ts:228), and    *)
(* every event belongs to the active run.                                  *)
AgentEndIsFinal ==
  [][lastEvent' # lastEvent =>
       /\ lastEvent'.run = activeRun'
       /\ lastEvent.type = "agent_end" => lastEvent'.run > lastEvent.run]_vars

(* Every run settles. *)
RunSettles == activeRun # 0 ~> activeRun = 0

(* A message steered in before the last poll of a run is injected by that  *)
(* run, unless an answer fails first (or the message is cleared).          *)
BeforeLastPoll ==
  {"prompts", "promptShown", "inner", "innerShown", "streaming", "answered", "prepare",
   "preflight", "execute", "resultShown", "poll"}
LastAnswerFailed == AtAssistant /\ Last(messages).stop # "ok"
SteeringReachesRun ==
  \A n \in 1 .. MaxIds :
    (n \in Ids(steeringQueue) /\ pc \in BeforeLastPoll)
      ~> (n \notin Ids(steeringQueue) \/ LastAnswerFailed)

-----------------------------------------------------------------------------
(* The inductive invariant the proofs rest on.                             *)

InBatch == pc \in {"prepare", "preflight", "execute", "resultShown"}

(* What the loop is in the middle of showing. *)
ShownInv ==
  /\ pc \in {"promptShown", "innerShown"} => hand # <<>>
  /\ pc = "resultShown" => streamingMessage \in ToolResultMessage
  /\ pc = "failShown" => streamingMessage \in AssistantMessage

(* A run owns the state while it is active, and only while it is.          *)
RunInv ==
  /\ pc = "idle" <=> activeRun = 0
  /\ isStreaming <=> activeRun # 0
  /\ pc = "idle" => streamingMessage = NoMessage /\ pendingToolCalls = {}
  /\ hand # <<>> => pc \in {"prompts", "promptShown", "inner", "innerShown"}

(* Which states the calls of a batch can be in, at each point of it.       *)
Settled == IF batchMode = "sequential" THEN {"waiting", "sent"}
                                       ELSE {"waiting", "prepared", "ended"}
AllBut(i, S) == \A j \in CallIndex \ {i} : callState[j] \in S

CallOrder ==
  InBatch =>
    /\ calls > 0
    /\ \A i \in CallIndex : callState[i] # "waiting" =>
         i <= calls /\ \A j \in 1 .. i - 1 : callState[j] # "waiting"
    /\ pc # "prepare" => callState[1] # "waiting"
AtPrepare == pc = "prepare" => \A i \in CallIndex : callState[i] \in Settled
AtPreflight ==
  pc = "preflight" =>
    \E i \in CallIndex : callState[i] = "started" /\ AllBut(i, Settled)
AtExecute ==
  pc \in {"execute", "resultShown"} =>
    IF batchMode = "parallel"
      THEN \A i \in CallIndex : callState[i] \in {"waiting", "running", "ended", "sent"}
      ELSE \E i \in CallIndex : callState[i] \in {"running", "ended"} /\ AllBut(i, Settled)
AtResult ==
  pc = "resultShown" =>
    /\ streamingMessage = ToolResult(turn, streamingMessage.call)
    /\ callState[streamingMessage.call] = "ended"
    /\ \A j \in 1 .. streamingMessage.call - 1 : callState[j] = "sent"
BatchInv == CallOrder /\ AtPrepare /\ AtPreflight /\ AtExecute /\ AtResult

(* How the loop's context and the transcript relate, at each point: the    *)
(* prompts are in the context first, the results in the transcript first.  *)
Sent == {i \in CallIndex : callState[i] = "sent"}
Results(k) == [i \in 1 .. k |-> ToolResult(turn, i)]

ContextInv ==
  /\ pc \in {"prompts", "promptShown"} => context = messages \o hand
  /\ pc \in {"inner", "innerShown", "answered", "poll", "followUp"} => context = messages
  /\ pc = "streaming" => context = Append(messages, streamingMessage)
  /\ InBatch => \E k \in 0 .. calls : Sent = 1 .. k /\ messages = context \o Results(k)

(* The last message is one the model can be asked to answer, wherever the  *)
(* loop is bound to ask.                                                   *)
InputInv ==
  /\ pc \in {"prompts", "inner"} /\ hand = <<>> => EndsWithInput
  /\ pc = "streaming" => EndsWithInput
  /\ pc = "poll" /\ hasMoreToolCalls => EndsWithInput

RunIInv == TypeOK /\ ShownInv /\ RunInv /\ BatchInv /\ ContextInv /\ InputInv
=============================================================================
