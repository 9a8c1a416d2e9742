--------------------------- MODULE AgentRunProofs ---------------------------
(***************************************************************************)
(* Proofs about AgentRun, for every value of its constants: its types, an  *)
(* idle agent, what the Agent limits, and what a request is made of.       *)
(***************************************************************************)
EXTENDS AgentRun, SequenceTheorems, FiniteSetTheorems, TLAPS

LEMMA DrainBounds ==
  ASSUME NEW S, NEW queue \in Seq(S), NEW modes, NEW n \in DrainSizes(queue, modes)
  PROVE  n \in 0 .. Len(queue)
BY DEF DrainSizes

LEMMA DrainTypes ==
  ASSUME NEW S, NEW queue \in Seq(S), NEW n \in 0 .. Len(queue)
  PROVE  /\ Drained(queue, n) \in Seq(S)
         /\ Remaining(queue, n) \in Seq(S)
<1>1. Drained(queue, n) \in Seq(S)
  BY SubSeqProperties DEF Drained
<1>2. Remaining(queue, n) \in Seq(S)
  BY SubSeqProperties DEF Remaining
<1> QED BY <1>1, <1>2

LEMMA MessageTypes ==
  /\ \A n \in Nat, l \in Lane : User(n, l) \in UserMessage
  /\ \A t \in Nat, n \in 0 .. MaxCalls, s \in {"partial", "ok", "error", "aborted"} :
       Assistant(t, n, s) \in AssistantMessage
  /\ \A t \in Nat, i \in CallIndex : ToolResult(t, i) \in ToolResultMessage
  /\ FailureMessage \in AssistantMessage
BY BoundsAssumption
DEF User, Assistant, ToolResult, FailureMessage, UserMessage, AssistantMessage, ToolResultMessage

LEMMA AnswerTypes ==
  ASSUME turn \in Nat, NEW answer \in Answers
  PROVE  answer \in AssistantMessage
<1>1. PICK n \in 0 .. MaxCalls, stop \in {"partial", "ok", "error", "aborted"} :
        answer = Assistant(turn, n, stop)
  <2>1. PICK n \in IF turn <= MaxToolTurns THEN 0 .. MaxCalls ELSE {0},
             stop \in (IF afterAbort = 0 THEN {"ok"} ELSE {}) \union {"error"}
                      \union (IF aborted THEN {"aborted"} ELSE {}) :
          answer = Assistant(turn, n, stop)
    BY DEF Answers
  <2>2. n \in 0 .. MaxCalls
    BY BoundsAssumption
  <2>3. stop \in {"partial", "ok", "error", "aborted"}
    OBVIOUS
  <2> QED BY <2>1, <2>2, <2>3
<1> QED BY <1>1, MessageTypes

LEMMA ReplaceNothing ==
  ASSUME NEW S, NEW s \in Seq(S), s = <<>>, NEW i, NEW e
  PROVE  ReplaceAt(s, i, e) = s
<1>1. DOMAIN s = {}
  BY EmptySeq, LenProperties
<1>2. [s EXCEPT ![i] = e] = [x \in DOMAIN s |-> IF x = i THEN e ELSE s[x]]
  OBVIOUS
<1>3. [x \in DOMAIN s |-> IF x = i THEN e ELSE s[x]] = [x \in DOMAIN s |-> s[x]]
  BY <1>1
<1>4. s = [x \in DOMAIN s |-> s[x]]
  BY LenProperties
<1> QED BY <1>2, <1>3, <1>4 DEF ReplaceAt

LEMMA IdTypes == ASSUME NEW queue \in Seq(UserMessage) PROVE Ids(queue) \subseteq Nat
<1>1. \A p \in DOMAIN queue : queue[p] \in UserMessage
  BY LenProperties, ElementOfSeq
<1>2. \A m \in UserMessage : m.id \in Nat
  BY DEF UserMessage
<1> QED BY <1>1, <1>2 DEF Ids

LEMMA EventTypes ==
  ASSUME NEW r \in Nat, NEW t \in EventType
  PROVE  Event(r, t) \in [run : Nat, type : EventType]
BY DEF Event

LEMMA EmitTypes ==
  ASSUME RunType, NEW t \in EventType, Emit(t)
  PROVE  lastEvent' \in [run : Nat, type : EventType]
BY EventTypes DEF RunType, Emit

-----------------------------------------------------------------------------
(* Type correctness needs to know what the loop is showing and who owns    *)
(* the state: the message_end of a step appends what message_start showed. *)
TypeInv == TypeOK /\ ShownInv /\ RunInv

LEMMA TypeInit == Init => TypeInv
<1> SUFFICES ASSUME Init PROVE TypeInv
  OBVIOUS
<1>1. StateType /\ QueueType /\ LoopType
  BY EmptySeq DEF Init, StateType, QueueType, LoopType
<1>2. RunType
  <2>1. aborted \in BOOLEAN
    BY DEF Init
  <2>2. runs \in Nat /\ activeRun \in Nat /\ activeRun <= runs
    BY DEF Init
  <2> QED BY <2>1, <2>2 DEF RunType
<1>3. PcType
  BY DEF Init, PcType
<1>4. BatchType
  BY BoundsAssumption DEF Init, BatchType, CallIndex, CallState
<1>5. HistoryType
  BY EventTypes DEF Init, HistoryType, EventType
<1>6. ShownInv /\ RunInv
  BY DEF Init, ShownInv, RunInv
<1> QED BY <1>1, <1>2, <1>3, <1>4, <1>5, <1>6 DEF TypeInv, TypeOK

(* Injecting prompts and pending messages. *)
LEMMA TypeInject ==
  ASSUME TypeInv,
         InjectStart \/ InjectEnd
  PROVE  TypeInv'
<1> USE DEF TypeInv, TypeOK
<1>1. ASSUME hand # <<>>
      PROVE  /\ Head(hand) \in UserMessage
             /\ Tail(hand) \in Seq(UserMessage)
             /\ \A s \in Seq(AgentMessage) : Append(s, Head(hand)) \in Seq(AgentMessage)
  BY <1>1, HeadTailProperties, AppendProperties DEF LoopType, AgentMessage
<1>11. CASE InjectStart
  <2>1. QueueType' /\ RunType' /\ LoopType' /\ BatchType'
    BY <1>11 DEF InjectStart, QueueType, RunType, LoopType, BatchType, queues, run, loop, batch
  <2>2. StateType'
    BY <1>11, <1>1 DEF InjectStart, StateType, state, AgentMessage
  <2>3. PcType'
    BY <1>11 DEF InjectStart, PcType, LoopPoints
  <2>4. HistoryType'
    BY <1>11, EmitTypes DEF InjectStart, HistoryType, history, EventType
  <2>5. ShownInv'
    BY <1>11 DEF InjectStart, ShownInv, state, loop
  <2>6. RunInv'
    BY <1>11 DEF InjectStart, RunInv, state, run, loop
  <2> QED BY <2>1, <2>2, <2>3, <2>4, <2>5, <2>6
<1>12. CASE InjectEnd
  <2>0. hand # <<>>
    BY <1>12 DEF InjectEnd, ShownInv
  <2>1. QueueType' /\ RunType' /\ BatchType'
    BY <1>12 DEF InjectEnd, QueueType, RunType, BatchType, queues, run, batch
  <2>2. StateType'
    BY <1>12, <1>1, <2>0 DEF InjectEnd, StateType, state
  <2>3. PcType'
    BY <1>12 DEF InjectEnd, PcType, LoopPoints
  <2>4. LoopType'
    BY <1>12, <1>1, <2>0 DEF InjectEnd, LoopType, loop
  <2>5. HistoryType'
    BY <1>12, EmitTypes DEF InjectEnd, HistoryType, history, EventType
  <2>6. ShownInv'
    BY <1>12 DEF InjectEnd, ShownInv, state, loop
  <2>7. RunInv'
    BY <1>12 DEF InjectEnd, RunInv, state, run, loop
  <2> QED BY <2>1, <2>2, <2>3, <2>4, <2>5, <2>6, <2>7
<1> QED BY <1>11, <1>12

(* The polls. *)
LEMMA TypePoll ==
  ASSUME TypeInv,
         InitialPoll \/ SteeringPoll \/ FollowUpPoll
  PROVE  TypeInv'
<1> USE DEF TypeInv, TypeOK
<1>1. \A n \in DrainSizes(steeringQueue, SteeringModes) :
        /\ Drained(steeringQueue, n) \in Seq(UserMessage)
        /\ Remaining(steeringQueue, n) \in Seq(UserMessage)
  BY DrainBounds, DrainTypes DEF QueueType
<1>2. \A n \in DrainSizes(followUpQueue, FollowUpModes) :
        /\ Drained(followUpQueue, n) \in Seq(UserMessage)
        /\ Remaining(followUpQueue, n) \in Seq(UserMessage)
  BY DrainBounds, DrainTypes DEF QueueType
<1>3. /\ Drained(steeringQueue, 0) \in Seq(UserMessage)
      /\ Remaining(steeringQueue, 0) \in Seq(UserMessage)
  BY DrainTypes DEF QueueType
<1>11. CASE InitialPoll
  <2>1. StateType' /\ RunType' /\ BatchType' /\ HistoryType'
    BY <1>11 DEF InitialPoll, StateType, RunType, BatchType, HistoryType, state, run, batch, history
  <2>2. QueueType'
    BY <1>11, <1>1, <1>3 DEF InitialPoll, QueueType, queues
  <2>3. PcType'
    BY <1>11 DEF InitialPoll, PcType, LoopPoints
  <2>4. LoopType'
    BY <1>11, <1>1, <1>3 DEF InitialPoll, LoopType, loop
  <2>5. ShownInv'
    BY <1>11 DEF InitialPoll, ShownInv, state, loop
  <2>6. RunInv'
    BY <1>11 DEF InitialPoll, RunInv, state, run, loop
  <2> QED BY <2>1, <2>2, <2>3, <2>4, <2>5, <2>6
<1>12. CASE SteeringPoll
  <2>1. StateType' /\ RunType' /\ BatchType' /\ HistoryType'
    BY <1>12 DEF SteeringPoll, StateType, RunType, BatchType, HistoryType, state, run, batch, history
  <2>2. QueueType'
    BY <1>12, <1>1 DEF SteeringPoll, QueueType, queues
  <2>3. PcType'
    BY <1>12 DEF SteeringPoll, PcType, LoopPoints
  <2>4. LoopType'
    BY <1>12, <1>1 DEF SteeringPoll, LoopType, loop
  <2>5. ShownInv'
    BY <1>12 DEF SteeringPoll, ShownInv, state, loop
  <2>6. RunInv'
    BY <1>12 DEF SteeringPoll, RunInv, state, run, loop
  <2> QED BY <2>1, <2>2, <2>3, <2>4, <2>5, <2>6
<1>13. CASE FollowUpPoll
  <2>1. StateType' /\ RunType' /\ BatchType'
    BY <1>13 DEF FollowUpPoll, StateType, RunType, BatchType, state, run, batch
  <2>2. QueueType'
    BY <1>13, <1>2 DEF FollowUpPoll, QueueType, queues
  <2>3. PcType'
    BY <1>13 DEF FollowUpPoll, PcType, LoopPoints
  <2>4. LoopType'
    BY <1>13, <1>2 DEF FollowUpPoll, LoopType, loop
  <2>5. HistoryType'
    BY <1>13, EmitTypes DEF FollowUpPoll, HistoryType, history, EventType
  <2>6. ShownInv'
    BY <1>13 DEF FollowUpPoll, ShownInv, state, loop
  <2>7. RunInv'
    BY <1>13 DEF FollowUpPoll, RunInv, state, run, loop
  <2> QED BY <2>1, <2>2, <2>3, <2>4, <2>5, <2>6, <2>7
<1> QED BY <1>11, <1>12, <1>13

(* The answer of the model. *)
LEMMA TypeStream ==
  ASSUME TypeInv,
         StreamStart \/ StreamEnd \/ AnswerFailed \/ TurnWithoutTools
  PROVE  TypeInv'
<1> USE DEF TypeInv, TypeOK
<1>1. /\ Assistant(turn + 1, 0, "partial") \in AssistantMessage
      /\ Append(context, Assistant(turn + 1, 0, "partial")) \in Seq(AgentMessage)
  <2>1. Assistant(turn + 1, 0, "partial") \in AssistantMessage
    BY MessageTypes, BoundsAssumption DEF LoopType
  <2> QED BY <2>1, AppendProperties DEF LoopType, AgentMessage
<1>2. \A answer \in Answers :
        /\ answer.calls \in 0 .. MaxCalls
        /\ ReplaceAt(context, Len(context), answer) \in Seq(AgentMessage)
        /\ Append(messages, answer) \in Seq(AgentMessage)
  <2>1. \A answer \in Answers : answer \in AssistantMessage
    BY AnswerTypes DEF LoopType
  <2>2. \A answer \in AssistantMessage : answer.calls \in 0 .. MaxCalls
    BY DEF AssistantMessage
  <2>3. ASSUME NEW answer \in AssistantMessage
        PROVE  ReplaceAt(context, Len(context), answer) \in Seq(AgentMessage)
    <3>1. context \in Seq(AgentMessage) /\ answer \in AgentMessage
      BY DEF LoopType, AgentMessage
    <3>2. CASE context = <<>>
      BY <3>1, <3>2, ReplaceNothing
    <3>3. CASE context # <<>>
      <4>1. Len(context) \in 1 .. Len(context)
        BY <3>1, <3>3, EmptySeq, LenProperties
      <4> QED BY <3>1, <4>1, ExceptSeq DEF ReplaceAt
    <3> QED BY <3>2, <3>3
  <2>4. \A answer \in AssistantMessage : Append(messages, answer) \in Seq(AgentMessage)
    BY AppendProperties DEF StateType, AgentMessage
  <2> QED BY <2>1, <2>2, <2>3, <2>4
<1>11. CASE StreamStart
  <2>1. QueueType' /\ RunType' /\ BatchType'
    BY <1>11 DEF StreamStart, QueueType, RunType, BatchType, queues, run, batch
  <2>2. StateType'
    BY <1>11, <1>1 DEF StreamStart, StateType, state, AgentMessage
  <2>3. PcType'
    BY <1>11 DEF StreamStart, PcType, LoopPoints
  <2>4. LoopType'
    BY <1>11, <1>1 DEF StreamStart, LoopType, loop
  <2>5. HistoryType'
    BY <1>11, EmitTypes DEF StreamStart, HistoryType, history, EventType
  <2>6. ShownInv'
    BY <1>11 DEF StreamStart, ShownInv, state, loop
  <2>7. RunInv'
    BY <1>11 DEF StreamStart, RunInv, state, run, loop
  <2> QED BY <2>1, <2>2, <2>3, <2>4, <2>5, <2>6, <2>7
<1>12. CASE StreamEnd
  <2>1. QueueType' /\ RunType'
    BY <1>12 DEF StreamEnd, QueueType, RunType, queues, run
  <2>2. StateType'
    BY <1>12, <1>2 DEF StreamEnd, StateType, state, AgentMessage
  <2>3. PcType'
    BY <1>12 DEF StreamEnd, PcType, LoopPoints
  <2>4. LoopType'
    BY <1>12, <1>2 DEF StreamEnd, LoopType, loop
  <2>5. BatchType'
    BY <1>12, <1>2 DEF StreamEnd, BatchType, batch
  <2>6. HistoryType'
    BY <1>12, EmitTypes DEF StreamEnd, HistoryType, history, EventType
  <2>7. ShownInv'
    BY <1>12 DEF StreamEnd, ShownInv, state, loop
  <2>8. RunInv'
    BY <1>12 DEF StreamEnd, RunInv, state, run, loop
  <2> QED BY <2>1, <2>2, <2>3, <2>4, <2>5, <2>6, <2>7, <2>8
<1>13. CASE AnswerFailed
  <2>1. StateType' /\ QueueType' /\ RunType' /\ LoopType' /\ BatchType'
    BY <1>13 DEF AnswerFailed, StateType, QueueType, RunType, LoopType, BatchType, state, queues, run, loop, batch
  <2>2. PcType'
    BY <1>13 DEF AnswerFailed, PcType, LoopPoints
  <2>3. HistoryType'
    BY <1>13, EmitTypes DEF AnswerFailed, HistoryType, history, EventType
  <2>4. ShownInv'
    BY <1>13 DEF AnswerFailed, ShownInv, state, loop
  <2>5. RunInv'
    BY <1>13 DEF AnswerFailed, RunInv, state, run, loop
  <2> QED BY <2>1, <2>2, <2>3, <2>4, <2>5
<1>14. CASE TurnWithoutTools
  <2>1. StateType' /\ QueueType' /\ RunType' /\ BatchType'
    BY <1>14 DEF TurnWithoutTools, StateType, QueueType, RunType, BatchType, state, queues, run, batch
  <2>2. PcType'
    BY <1>14 DEF TurnWithoutTools, PcType, LoopPoints
  <2>3. LoopType'
    BY <1>14 DEF TurnWithoutTools, LoopType, loop
  <2>4. HistoryType'
    BY <1>14, EmitTypes DEF TurnWithoutTools, HistoryType, history, EventType
  <2>5. ShownInv'
    BY <1>14 DEF TurnWithoutTools, ShownInv, state, loop
  <2>6. RunInv'
    BY <1>14 DEF TurnWithoutTools, RunInv, state, run, loop
  <2> QED BY <2>1, <2>2, <2>3, <2>4, <2>5, <2>6
<1> QED BY <1>11, <1>12, <1>13, <1>14

(* The batch of tool calls. *)
LEMMA TypeBatch ==
  ASSUME TypeInv,
         StartBatch \/ (\E i \in CallIndex : CallStart(i)) \/ (\E i \in
         CallIndex : PreparedImmediate(i)) \/ (\E i \in CallIndex :
         Prepared(i)) \/ Launch \/ (\E i \in CallIndex : ToolEnd(i)) \/ (\E i
         \in CallIndex : ResultStart(i)) \/ ResultEnd \/ FinishBatch
  PROVE  TypeInv'
<1> USE DEF TypeInv, TypeOK
<1>1. \A i \in CallIndex : ToolResult(turn, i) \in ToolResultMessage
  BY MessageTypes DEF LoopType
<1>2. ASSUME pc = "resultShown"
      PROVE  /\ streamingMessage.call \in CallIndex
             /\ Append(messages, streamingMessage) \in Seq(AgentMessage)
  BY <1>2, AppendProperties DEF ShownInv, ToolResultMessage, AgentMessage, StateType
<1>3. context \o [i \in 1 .. Cardinality(Finalized) |-> ToolResult(turn, i)] \in Seq(AgentMessage)
  <2>1. /\ Cardinality(Finalized) \in Nat
        /\ Cardinality(Finalized) <= MaxCalls
    <3>1. IsFiniteSet(CallIndex) /\ Cardinality(CallIndex) = MaxCalls
      BY FS_Interval, BoundsAssumption DEF CallIndex
    <3>2. Finalized \subseteq CallIndex
      BY BoundsAssumption DEF Finalized, Batch, CallIndex, BatchType
    <3> QED BY <3>1, <3>2, FS_Subset, FS_CardinalityType
  <2>2. [i \in 1 .. Cardinality(Finalized) |-> ToolResult(turn, i)] \in Seq(AgentMessage)
    BY <1>1, <2>1, IsASeq, BoundsAssumption DEF CallIndex, AgentMessage
  <2> QED BY <2>2, ConcatProperties DEF LoopType
<1>11. CASE StartBatch
  <2>1. StateType' /\ QueueType' /\ RunType' /\ LoopType' /\ HistoryType'
    BY <1>11 DEF StartBatch, StateType, QueueType, RunType, LoopType, HistoryType, state, queues, run, loop, history
  <2>2. PcType'
    BY <1>11 DEF StartBatch, PcType, LoopPoints
  <2>3. BatchType'
    BY <1>11, ConfigAssumption DEF StartBatch, BatchType, batch, CallState
  <2>4. ShownInv'
    BY <1>11 DEF StartBatch, ShownInv, state, loop
  <2>5. RunInv'
    BY <1>11 DEF StartBatch, RunInv, state, run, loop
  <2> QED BY <2>1, <2>2, <2>3, <2>4, <2>5
<1>12. ASSUME NEW i \in CallIndex, CallStart(i) PROVE TypeInv'
  <2>1. QueueType' /\ RunType' /\ LoopType'
    BY <1>12 DEF CallStart, QueueType, RunType, LoopType, queues, run, loop
  <2>2. StateType'
    BY <1>12 DEF CallStart, StateType, state, ToolId, LoopType
  <2>3. PcType'
    BY <1>12 DEF CallStart, PcType, LoopPoints
  <2>4. BatchType'
    BY <1>12 DEF CallStart, BatchType, batch, CallState
  <2>5. HistoryType'
    BY <1>12, EmitTypes DEF CallStart, HistoryType, history, EventType
  <2>6. ShownInv'
    BY <1>12 DEF CallStart, ShownInv, state, loop
  <2>7. RunInv'
    BY <1>12 DEF CallStart, RunInv, state, run, loop
  <2> QED BY <2>1, <2>2, <2>3, <2>4, <2>5, <2>6, <2>7
<1>13. ASSUME NEW i \in CallIndex, PreparedImmediate(i) PROVE TypeInv'
  <2>1. QueueType' /\ RunType' /\ LoopType'
    BY <1>13 DEF PreparedImmediate, ExecutionEnds, QueueType, RunType, LoopType, queues, run, loop
  <2>2. StateType'
    BY <1>13 DEF PreparedImmediate, ExecutionEnds, StateType, state
  <2>3. PcType'
    BY <1>13 DEF PreparedImmediate, ExecutionEnds, PcType, LoopPoints
  <2>4. BatchType'
    BY <1>13 DEF PreparedImmediate, ExecutionEnds, BatchType, batch, CallState
  <2>5. HistoryType'
    BY <1>13, EmitTypes DEF PreparedImmediate, ExecutionEnds, HistoryType, history, EventType
  <2>6. ShownInv'
    BY <1>13 DEF PreparedImmediate, ExecutionEnds, ShownInv, state, loop
  <2>7. RunInv'
    BY <1>13 DEF PreparedImmediate, ExecutionEnds, RunInv, state, run, loop
  <2> QED BY <2>1, <2>2, <2>3, <2>4, <2>5, <2>6, <2>7
<1>14. ASSUME NEW i \in CallIndex, Prepared(i) PROVE TypeInv'
  <2>1. StateType' /\ QueueType' /\ RunType' /\ LoopType' /\ HistoryType'
    BY <1>14 DEF Prepared, StateType, QueueType, RunType, LoopType, HistoryType, state, queues, run, loop, history
  <2>2. PcType'
    BY <1>14 DEF Prepared, PcType, LoopPoints
  <2>3. BatchType'
    BY <1>14 DEF Prepared, BatchType, batch, CallState
  <2>4. ShownInv'
    BY <1>14 DEF Prepared, ShownInv, state, loop
  <2>5. RunInv'
    BY <1>14 DEF Prepared, RunInv, state, run, loop
  <2> QED BY <2>1, <2>2, <2>3, <2>4, <2>5
<1>15. CASE Launch
  <2>1. StateType' /\ QueueType' /\ RunType' /\ LoopType' /\ HistoryType'
    BY <1>15 DEF Launch, StateType, QueueType, RunType, LoopType, HistoryType, state, queues, run, loop, history
  <2>2. PcType'
    BY <1>15 DEF Launch, PcType, LoopPoints
  <2>3. BatchType'
    BY <1>15 DEF Launch, BatchType, batch, CallState
  <2>4. ShownInv'
    BY <1>15 DEF Launch, ShownInv, state, loop
  <2>5. RunInv'
    BY <1>15 DEF Launch, RunInv, state, run, loop
  <2> QED BY <2>1, <2>2, <2>3, <2>4, <2>5
<1>16. ASSUME NEW i \in CallIndex, ToolEnd(i) PROVE TypeInv'
  <2>1. QueueType' /\ RunType' /\ PcType' /\ LoopType'
    BY <1>16 DEF ToolEnd, ExecutionEnds, QueueType, RunType, PcType, LoopType, queues, run, loop
  <2>2. StateType'
    BY <1>16 DEF ToolEnd, ExecutionEnds, StateType, state
  <2>3. BatchType'
    BY <1>16 DEF ToolEnd, ExecutionEnds, BatchType, batch, CallState
  <2>4. HistoryType'
    BY <1>16, EmitTypes DEF ToolEnd, ExecutionEnds, HistoryType, history, EventType
  <2>5. ShownInv'
    BY <1>16 DEF ToolEnd, ExecutionEnds, ShownInv, state, loop
  <2>6. RunInv'
    BY <1>16 DEF ToolEnd, ExecutionEnds, RunInv, state, run, loop
  <2> QED BY <2>1, <2>2, <2>3, <2>4, <2>5, <2>6
<1>17. ASSUME NEW i \in CallIndex, ResultStart(i) PROVE TypeInv'
  <2>1. QueueType' /\ RunType' /\ LoopType' /\ BatchType'
    BY <1>17 DEF ResultStart, QueueType, RunType, LoopType, BatchType, queues, run, loop, batch
  <2>2. StateType'
    BY <1>17, <1>1 DEF ResultStart, StateType, state, AgentMessage
  <2>3. PcType'
    BY <1>17 DEF ResultStart, PcType, LoopPoints
  <2>4. HistoryType'
    BY <1>17, EmitTypes DEF ResultStart, HistoryType, history, EventType
  <2>5. ShownInv'
    BY <1>17, <1>1 DEF ResultStart, ShownInv, state, loop
  <2>6. RunInv'
    BY <1>17 DEF ResultStart, RunInv, state, run, loop
  <2> QED BY <2>1, <2>2, <2>3, <2>4, <2>5, <2>6
<1>18. CASE ResultEnd
  <2>1. QueueType' /\ RunType' /\ LoopType'
    BY <1>18 DEF ResultEnd, QueueType, RunType, LoopType, queues, run, loop
  <2>2. StateType'
    BY <1>18, <1>2 DEF ResultEnd, StateType, state
  <2>3. PcType'
    BY <1>18 DEF ResultEnd, PcType, LoopPoints
  <2>4. BatchType'
    BY <1>18 DEF ResultEnd, BatchType, batch, CallState
  <2>5. HistoryType'
    BY <1>18, EmitTypes DEF ResultEnd, HistoryType, history, EventType
  <2>6. ShownInv'
    BY <1>18 DEF ResultEnd, ShownInv, state, loop
  <2>7. RunInv'
    BY <1>18 DEF ResultEnd, RunInv, state, run, loop
  <2> QED BY <2>1, <2>2, <2>3, <2>4, <2>5, <2>6, <2>7
<1>19. CASE FinishBatch
  <2>1. StateType' /\ QueueType' /\ RunType' /\ BatchType'
    BY <1>19 DEF FinishBatch, StateType, QueueType, RunType, BatchType, state, queues, run, batch
  <2>2. PcType'
    BY <1>19 DEF FinishBatch, PcType, LoopPoints
  <2>3. LoopType'
    BY <1>19, <1>3 DEF FinishBatch, LoopType, loop
  <2>4. HistoryType'
    BY <1>19, EmitTypes DEF FinishBatch, HistoryType, history, EventType
  <2>5. ShownInv'
    BY <1>19 DEF FinishBatch, ShownInv, state, loop
  <2>6. RunInv'
    BY <1>19 DEF FinishBatch, RunInv, state, run, loop
  <2> QED BY <2>1, <2>2, <2>3, <2>4, <2>5, <2>6
<1> QED BY <1>11, <1>12, <1>13, <1>14, <1>15, <1>16, <1>17, <1>18, <1>19

(* Failures, the end of a run and what is left of it. *)
LEMMA TypeFailure ==
  ASSUME TypeInv,
         Throw \/ (\E i \in CallIndex : ToolThrow(i)) \/ FailureEnd \/
         FailureAgentEnd \/ FinishRun \/ (\E o \in orphans : OrphanEnd(o))
  PROVE  TypeInv'
<1> USE DEF TypeInv, TypeOK
<1>1. Ids(hand) \subseteq Nat
  BY IdTypes DEF LoopType
<1>2. pc = "failShown" => Append(messages, streamingMessage) \in Seq(AgentMessage)
  BY AppendProperties DEF ShownInv, AgentMessage, StateType
<1>11. CASE Throw
  <2>1. QueueType' /\ RunType' /\ BatchType'
    BY <1>11 DEF Throw, ReportFailure, QueueType, RunType, BatchType, queues, run, batch
  <2>2. StateType'
    BY <1>11, MessageTypes DEF Throw, ReportFailure, StateType, state, AgentMessage
  <2>3. PcType'
    BY <1>11 DEF Throw, ReportFailure, PcType, LoopPoints
  <2>4. LoopType'
    BY <1>11 DEF Throw, ReportFailure, LoopType, loop
  <2>5. HistoryType'
    BY <1>11, <1>1, EmitTypes DEF Throw, ReportFailure, HistoryType, history, LoopType, EventType
  <2>6. ShownInv'
    BY <1>11, MessageTypes DEF Throw, ReportFailure, ShownInv, state, loop
  <2>7. RunInv'
    BY <1>11 DEF Throw, ReportFailure, RunInv, state, run, loop, LoopPoints
  <2> QED BY <2>1, <2>2, <2>3, <2>4, <2>5, <2>6, <2>7
<1>12. ASSUME NEW i \in CallIndex, ToolThrow(i) PROVE TypeInv'
  <2>1. QueueType' /\ RunType'
    BY <1>12 DEF ToolThrow, ReportFailure, QueueType, RunType, queues, run
  <2>2. StateType'
    BY <1>12, MessageTypes DEF ToolThrow, ReportFailure, StateType, state, AgentMessage
  <2>3. PcType'
    BY <1>12 DEF ToolThrow, ReportFailure, PcType, LoopPoints
  <2>4. LoopType'
    BY <1>12 DEF ToolThrow, ReportFailure, LoopType, loop
  <2>5. BatchType'
    BY <1>12 DEF ToolThrow, ReportFailure, BatchType, batch, CallState, Running, RunType, LoopType
  <2>6. HistoryType'
    BY <1>12, <1>1, EmitTypes DEF ToolThrow, ReportFailure, HistoryType, history, LoopType, EventType
  <2>7. ShownInv'
    BY <1>12, MessageTypes DEF ToolThrow, ReportFailure, ShownInv, state, loop
  <2>8. RunInv'
    BY <1>12 DEF ToolThrow, ReportFailure, RunInv, state, run, loop
  <2> QED BY <2>1, <2>2, <2>3, <2>4, <2>5, <2>6, <2>7, <2>8
<1>13. CASE FailureEnd
  <2>1. QueueType' /\ RunType' /\ LoopType' /\ BatchType'
    BY <1>13 DEF FailureEnd, QueueType, RunType, LoopType, BatchType, queues, run, loop, batch
  <2>2. StateType'
    BY <1>13, <1>2 DEF FailureEnd, StateType, state
  <2>3. PcType'
    BY <1>13 DEF FailureEnd, PcType, LoopPoints
  <2>4. HistoryType'
    BY <1>13, EmitTypes DEF FailureEnd, HistoryType, history, EventType
  <2>5. ShownInv'
    BY <1>13 DEF FailureEnd, ShownInv, state, loop
  <2>6. RunInv'
    BY <1>13 DEF FailureEnd, RunInv, state, run, loop
  <2> QED BY <2>1, <2>2, <2>3, <2>4, <2>5, <2>6
<1>14. CASE FailureAgentEnd
  <2>1. StateType' /\ QueueType' /\ RunType' /\ LoopType' /\ BatchType'
    BY <1>14 DEF FailureAgentEnd, StateType, QueueType, RunType, LoopType, BatchType, state, queues, run, loop, batch
  <2>2. PcType'
    BY <1>14 DEF FailureAgentEnd, PcType, LoopPoints
  <2>3. HistoryType'
    BY <1>14, EmitTypes DEF FailureAgentEnd, HistoryType, history, EventType
  <2>4. ShownInv'
    BY <1>14 DEF FailureAgentEnd, ShownInv, state, loop
  <2>5. RunInv'
    BY <1>14 DEF FailureAgentEnd, RunInv, state, run, loop
  <2> QED BY <2>1, <2>2, <2>3, <2>4, <2>5
<1>15. CASE FinishRun
  <2>1. QueueType' /\ HistoryType'
    BY <1>15 DEF FinishRun, ClearRunState, QueueType, HistoryType, queues, history
  <2>2. StateType'
    BY <1>15 DEF FinishRun, ClearRunState, StateType, state
  <2>3. RunType'
    <3>1. runs' \in Nat /\ activeRun' \in Nat /\ activeRun' <= runs'
      <4>1. runs' = runs /\ activeRun' = 0
        BY <1>15 DEF FinishRun, ClearRunState
      <4> QED BY <4>1 DEF RunType
    <3>2. aborted' \in BOOLEAN
      BY <1>15 DEF FinishRun, ClearRunState
    <3> QED BY <3>1, <3>2 DEF RunType
  <2>4. PcType'
    BY <1>15 DEF FinishRun, ClearRunState, PcType, LoopPoints
  <2>5. LoopType'
    BY <1>15, EmptySeq DEF FinishRun, ClearRunState, LoopType, loop
  <2>6. BatchType'
    BY <1>15, BoundsAssumption DEF FinishRun, ClearRunState, BatchType, batch, CallState
  <2>7. ShownInv'
    BY <1>15 DEF FinishRun, ClearRunState, ShownInv, state, loop
  <2>8. RunInv'
    BY <1>15 DEF FinishRun, ClearRunState, RunInv, state, run, loop
  <2> QED BY <2>1, <2>2, <2>3, <2>4, <2>5, <2>6, <2>7, <2>8
<1>16. ASSUME NEW o \in orphans, OrphanEnd(o) PROVE TypeInv'
  <2>1. QueueType' /\ RunType' /\ PcType' /\ LoopType' /\ ShownInv'
    BY <1>16 DEF OrphanEnd, QueueType, RunType, PcType, LoopType, ShownInv, queues, run, loop, state
  <2>2. StateType'
    BY <1>16 DEF OrphanEnd, StateType, state
  <2>3. BatchType'
    BY <1>16 DEF OrphanEnd, BatchType, batch
  <2>4. HistoryType'
    BY <1>16, EventTypes DEF OrphanEnd, HistoryType, history, BatchType, EventType
  <2>5. RunInv'
    BY <1>16 DEF OrphanEnd, RunInv, state, run, loop
  <2> QED BY <2>1, <2>2, <2>3, <2>4, <2>5
<1> QED BY <1>11, <1>12, <1>13, <1>14, <1>15, <1>16

(* prompt() and continue(). *)
LEMMA StartRunTypes ==
  ASSUME TypeInv, NEW given \in Seq(UserMessage), NEW skip \in BOOLEAN, StartRun(given, skip)
  PROVE  /\ StateType' /\ RunType' /\ PcType' /\ LoopType' /\ BatchType'
         /\ lastEvent' \in [run : Nat, type : EventType]
         /\ ShownInv' /\ RunInv'
<1> USE DEF TypeInv, TypeOK
<1>1. messages \o given \in Seq(AgentMessage)
  <2>1. given \in Seq(AgentMessage)
    BY SeqMonotonic DEF AgentMessage
  <2> QED BY <2>1, ConcatProperties DEF StateType
<1>2. runs + 1 \in Nat /\ runs + 1 # 0
  BY DEF RunType
<1>3. StateType'
  BY DEF StartRun, StateType
<1>4. RunType'
  <2>1. runs' \in Nat /\ activeRun' \in Nat /\ activeRun' <= runs'
    <3>1. runs' = runs + 1 /\ activeRun' = runs + 1
      BY DEF StartRun
    <3> QED BY <1>2, <3>1
  <2>2. aborted' \in BOOLEAN
    BY DEF StartRun
  <2> QED BY <2>1, <2>2 DEF RunType
<1>5. PcType'
  BY DEF StartRun, PcType, LoopPoints
<1>6. LoopType'
  BY <1>1 DEF StartRun, LoopType
<1>7. BatchType'
  BY DEF StartRun, BatchType, batch
<1>8. lastEvent' \in [run : Nat, type : EventType]
  <2>1. "agent_start" \in EventType
    BY DEF EventType
  <2> QED BY <1>2, <2>1, EventTypes DEF StartRun
<1>9. ShownInv'
  BY DEF StartRun, ShownInv
<1>10. RunInv'
  <2>1. pc' = "prompts" /\ isStreaming' = TRUE /\ activeRun' # 0
    BY <1>2 DEF StartRun
  <2> QED BY <2>1 DEF RunInv
<1> QED BY <1>3, <1>4, <1>5, <1>6, <1>7, <1>8, <1>9, <1>10

LEMMA TypeStartRun ==
  ASSUME TypeInv,
         Prompt \/ ContinueWithSteering \/ ContinueWithFollowUp \/ ContinueTranscript
  PROVE  TypeInv'
<1> USE DEF TypeInv, TypeOK
<1>1. CASE Prompt
  <2>1. <<User(nextId, "prompt")>> \in Seq(UserMessage)
    BY MessageTypes DEF Lane, HistoryType
  <2>2. QueueType'
    BY <1>1 DEF Prompt, QueueType, queues
  <2>3. nextId' \in Nat /\ afterAbort' \in Nat
    BY <1>1 DEF Prompt, StartRun, HistoryType
  <2>4. UNCHANGED <<cleared, lost, steered, interrupted>>
    BY <1>1 DEF Prompt, StartRun
  <2> QED BY <1>1, <2>1, <2>2, <2>3, <2>4, StartRunTypes DEF Prompt, HistoryType
<1>2. CASE ContinueWithSteering
  <2>1. PICK n \in DrainSizes(steeringQueue, SteeringModes) :
          /\ StartRun(Drained(steeringQueue, n), TRUE)
          /\ steeringQueue' = Remaining(steeringQueue, n)
    BY <1>2 DEF ContinueWithSteering
  <2>2. /\ Drained(steeringQueue, n) \in Seq(UserMessage)
        /\ Remaining(steeringQueue, n) \in Seq(UserMessage)
    BY DrainBounds, DrainTypes DEF QueueType
  <2>3. QueueType'
    BY <1>2, <2>1, <2>2 DEF ContinueWithSteering, QueueType
  <2>4. afterAbort' \in Nat /\ UNCHANGED <<nextId, cleared, lost, steered, interrupted>>
    BY <1>2, <2>1 DEF ContinueWithSteering, StartRun
  <2> QED BY <2>1, <2>2, <2>3, <2>4, StartRunTypes DEF HistoryType
<1>3. CASE ContinueWithFollowUp
  <2>1. PICK n \in DrainSizes(followUpQueue, FollowUpModes) :
          /\ StartRun(Drained(followUpQueue, n), FALSE)
          /\ followUpQueue' = Remaining(followUpQueue, n)
    BY <1>3 DEF ContinueWithFollowUp
  <2>2. /\ Drained(followUpQueue, n) \in Seq(UserMessage)
        /\ Remaining(followUpQueue, n) \in Seq(UserMessage)
    BY DrainBounds, DrainTypes DEF QueueType
  <2>3. QueueType'
    BY <1>3, <2>1, <2>2 DEF ContinueWithFollowUp, QueueType
  <2>4. afterAbort' \in Nat /\ UNCHANGED <<nextId, cleared, lost, steered, interrupted>>
    BY <1>3, <2>1 DEF ContinueWithFollowUp, StartRun
  <2> QED BY <2>1, <2>2, <2>3, <2>4, StartRunTypes DEF HistoryType
<1>4. CASE ContinueTranscript
  <2>1. QueueType'
    BY <1>4 DEF ContinueTranscript, QueueType, queues
  <2>2. afterAbort' \in Nat /\ UNCHANGED <<nextId, cleared, lost, steered, interrupted>>
    BY <1>4 DEF ContinueTranscript, StartRun
  <2>3. StartRun(<<>>, FALSE) /\ <<>> \in Seq(UserMessage)
    BY <1>4, EmptySeq DEF ContinueTranscript
  <2> QED BY <2>1, <2>2, <2>3, StartRunTypes DEF HistoryType
<1> QED BY <1>1, <1>2, <1>3, <1>4

(* The other operations of the caller. *)
LEMMA TypeCaller ==
  ASSUME TypeInv,
         Steer \/ FollowUp \/ ClearSteeringQueue \/ ClearFollowUpQueue \/ Abort
         \/ Reset \/ OwnerAppends \/ OwnerDropsError
  PROVE  TypeInv'
<1> USE DEF TypeInv, TypeOK
<1>1. /\ \A l \in {"steer", "followUp"} :
           /\ Append(steeringQueue, User(nextId, l)) \in Seq(UserMessage)
           /\ Append(followUpQueue, User(nextId, l)) \in Seq(UserMessage)
      /\ Append(messages, User(nextId, "prompt")) \in Seq(AgentMessage)
  <2>1. \A l \in Lane : User(nextId, l) \in UserMessage
    BY MessageTypes DEF HistoryType
  <2> QED BY <2>1, AppendProperties DEF StateType, QueueType, AgentMessage, Lane
<1>2. Ids(steeringQueue) \subseteq Nat /\ Ids(followUpQueue) \subseteq Nat
  BY IdTypes DEF QueueType
<1>3. TranscriptIds \subseteq Nat
  <2>1. \A p \in DOMAIN messages : messages[p] \in AgentMessage
    BY LenProperties, ElementOfSeq DEF StateType
  <2>2. \A m \in AgentMessage : m.role = "user" => m.id \in Nat
    BY DEF AgentMessage, UserMessage, AssistantMessage, ToolResultMessage
  <2> QED BY <2>1, <2>2 DEF TranscriptIds, UserPositions
<1>4. messages # <<>> => Front(messages) \in Seq(AgentMessage)
  BY SubSeqProperties, LenProperties, ElementOfSeq DEF Front, StateType
<1>11. CASE Steer
  <2>1. StateType' /\ RunType' /\ PcType' /\ LoopType' /\ BatchType' /\ ShownInv' /\ RunInv'
    BY <1>11 DEF Steer, StateType, RunType, PcType, LoopType, BatchType, ShownInv, RunInv, state, run, loop, batch
  <2>2. QueueType'
    BY <1>11, <1>1 DEF Steer, QueueType, queues
  <2>3. HistoryType'
    BY <1>11 DEF Steer, HistoryType, history
  <2> QED BY <2>1, <2>2, <2>3
<1>12. CASE FollowUp
  <2>1. StateType' /\ RunType' /\ PcType' /\ LoopType' /\ BatchType' /\ ShownInv' /\ RunInv'
    BY <1>12 DEF FollowUp, StateType, RunType, PcType, LoopType, BatchType, ShownInv, RunInv, state, run, loop, batch
  <2>2. QueueType'
    BY <1>12, <1>1 DEF FollowUp, QueueType, queues
  <2>3. HistoryType'
    BY <1>12 DEF FollowUp, HistoryType, history
  <2> QED BY <2>1, <2>2, <2>3
<1>13. CASE ClearSteeringQueue
  <2>1. StateType' /\ RunType' /\ PcType' /\ LoopType' /\ BatchType' /\ ShownInv' /\ RunInv'
    BY <1>13 DEF ClearSteeringQueue, StateType, RunType, PcType, LoopType, BatchType, ShownInv, RunInv, state, run, loop, batch
  <2>2. QueueType'
    BY <1>13, EmptySeq DEF ClearSteeringQueue, QueueType, queues
  <2>3. HistoryType'
    BY <1>13, <1>2 DEF ClearSteeringQueue, HistoryType, history, QueueType
  <2> QED BY <2>1, <2>2, <2>3
<1>14. CASE ClearFollowUpQueue
  <2>1. StateType' /\ RunType' /\ PcType' /\ LoopType' /\ BatchType' /\ ShownInv' /\ RunInv'
    BY <1>14 DEF ClearFollowUpQueue, StateType, RunType, PcType, LoopType, BatchType, ShownInv, RunInv, state, run, loop, batch
  <2>2. QueueType'
    BY <1>14, EmptySeq DEF ClearFollowUpQueue, QueueType, queues
  <2>3. HistoryType'
    BY <1>14, <1>2 DEF ClearFollowUpQueue, HistoryType, history, QueueType
  <2> QED BY <2>1, <2>2, <2>3
<1>15. CASE Abort
  <2>1. StateType' /\ QueueType' /\ PcType' /\ LoopType' /\ BatchType' /\ ShownInv'
    BY <1>15 DEF Abort, StateType, QueueType, PcType, LoopType, BatchType, ShownInv, state, queues, loop, batch
  <2>2. RunType'
    BY <1>15 DEF Abort, RunType, run
  <2>3. HistoryType'
    BY <1>15 DEF Abort, HistoryType, history, LoopType
  <2>4. RunInv'
    BY <1>15 DEF Abort, RunInv, state, run, loop
  <2> QED BY <2>1, <2>2, <2>3, <2>4
<1>16. CASE Reset
  <2>1. RunType' /\ PcType' /\ LoopType' /\ BatchType'
    BY <1>16 DEF Reset, ClearRunState, RunType, PcType, LoopType, BatchType, run, loop, batch
  <2>2. StateType'
    BY <1>16, EmptySeq DEF Reset, ClearRunState, StateType, state
  <2>3. QueueType'
    BY <1>16, EmptySeq DEF Reset, ClearRunState, QueueType, queues
  <2>4. HistoryType'
    BY <1>16, <1>2, <1>3 DEF Reset, ClearRunState, HistoryType, history, QueueType
  <2>5. ShownInv'
    BY <1>16 DEF Reset, ClearRunState, ShownInv, state, loop, RunInv
  <2>6. RunInv'
    BY <1>16 DEF Reset, ClearRunState, RunInv, state, run, loop
  <2> QED BY <2>1, <2>2, <2>3, <2>4, <2>5, <2>6
<1>17. CASE OwnerAppends
  <2>1. QueueType' /\ RunType' /\ PcType' /\ LoopType' /\ BatchType'
    BY <1>17 DEF OwnerAppends, QueueType, RunType, PcType, LoopType, BatchType, queues, run, loop, batch
  <2>2. StateType'
    BY <1>17, <1>1 DEF OwnerAppends, StateType, state
  <2>3. HistoryType'
    BY <1>17 DEF OwnerAppends, HistoryType, history
  <2>4. ShownInv'
    BY <1>17 DEF OwnerAppends, ShownInv, state, loop
  <2>5. RunInv'
    BY <1>17 DEF OwnerAppends, RunInv, state, run, loop
  <2> QED BY <2>1, <2>2, <2>3, <2>4, <2>5
<1>18. CASE OwnerDropsError
  <2>1. QueueType' /\ RunType' /\ PcType' /\ LoopType' /\ BatchType' /\ HistoryType'
    BY <1>18 DEF OwnerDropsError, QueueType, RunType, PcType, LoopType, BatchType, HistoryType, queues, run, loop, batch, history
  <2>2. StateType'
    BY <1>18, <1>4 DEF OwnerDropsError, StateType, state, AtAssistant
  <2>3. ShownInv'
    BY <1>18 DEF OwnerDropsError, ShownInv, state, loop
  <2>4. RunInv'
    BY <1>18 DEF OwnerDropsError, RunInv, state, run, loop
  <2> QED BY <2>1, <2>2, <2>3, <2>4
<1> QED BY <1>11, <1>12, <1>13, <1>14, <1>15, <1>16, <1>17, <1>18

-----------------------------------------------------------------------------
LEMMA TypeNext == TypeInv /\ [Next]_vars => TypeInv'
<1> SUFFICES ASSUME TypeInv, [Next]_vars PROVE TypeInv'
  OBVIOUS
<1>1. CASE Caller
  BY <1>1, TypeStartRun, TypeCaller DEF Caller
<1>2. CASE LoopStep
  BY <1>2, TypeInject, TypePoll, TypeStream, TypeBatch, TypeFailure DEF LoopStep
<1>3. CASE ToolStep
  BY <1>3, TypeBatch DEF ToolStep
<1>4. CASE Failure
  BY <1>4, TypeFailure DEF Failure
<1>5. CASE \E o \in orphans : OrphanEnd(o)
  BY <1>5, TypeFailure
<1>6. CASE UNCHANGED vars
  BY <1>6 DEF TypeInv, TypeOK, StateType, QueueType, RunType, PcType, LoopType, BatchType,
              HistoryType, ShownInv, RunInv, vars, state, queues, run, loop, batch, history
<1> QED BY <1>1, <1>2, <1>3, <1>4, <1>5, <1>6 DEF Next

LEMMA TypeInvariance == Spec => []TypeInv
BY TypeInit, TypeNext, PTL DEF Spec

(* Every variable keeps its type. *)
THEOREM TypeCorrect == Spec => []TypeOK
<1>1. TypeInv => TypeOK
  BY DEF TypeInv
<1> QED BY <1>1, TypeInvariance, PTL

(* isStreaming is true exactly while a run is active, and an idle agent    *)
(* shows no message, no executing tool, and holds no drained message.      *)
THEOREM SettledWhenIdle == Spec => []IdleIsSettled
<1>1. TypeInv => IdleIsSettled
  BY DEF TypeInv, RunInv, IdleIsSettled
<1> QED BY <1>1, TypeInvariance, PTL

-----------------------------------------------------------------------------
(***************************************************************************)
(* What the Agent limits, for every value of AgentRun's constants: the     *)
(* requests made after abort(), and the steering messages of one request.  *)
(***************************************************************************)

(* A request made with an aborted signal is the last one of its run.       *)
AbortInv ==
  /\ afterAbort <= 1
  /\ afterAbort = 1 =>
       pc \in {"idle", "streaming", "failedAnswer", "agentEnd", "failShown", "failEnd", "failClosed"}

LEMMA AbortCaller ==
  ASSUME AbortInv, Caller
  PROVE  AbortInv'
<1>1. CASE Prompt \/ ContinueWithSteering \/ ContinueWithFollowUp \/ ContinueTranscript
  BY <1>1 DEF Prompt, ContinueWithSteering, ContinueWithFollowUp, ContinueTranscript, StartRun,
              AbortInv
<1>2. CASE Steer \/ FollowUp \/ ClearSteeringQueue \/ ClearFollowUpQueue
  BY <1>2 DEF Steer, FollowUp, ClearSteeringQueue, ClearFollowUpQueue, AbortInv
<1>3. CASE Abort \/ Reset \/ OwnerAppends \/ OwnerDropsError
  BY <1>3 DEF Abort, Reset, OwnerAppends, OwnerDropsError, history, AbortInv
<1> QED BY <1>1, <1>2, <1>3 DEF Caller

LEMMA AbortTurn ==
  ASSUME AbortInv, TypeInv,
         StreamStart \/ StreamEnd \/ AnswerFailed \/ TurnWithoutTools
  PROVE  AbortInv'
<1>1. afterAbort \in Nat
  BY DEF TypeInv, TypeOK, HistoryType
<1>2. CASE StreamStart
  <2>1. pc = "inner" /\ pc' = "streaming" /\ afterAbort' \in {afterAbort, afterAbort + 1}
    BY <1>2 DEF StreamStart
  <2> QED BY <1>1, <2>1 DEF AbortInv
<1>3. CASE StreamEnd
  <2>1. PICK answer \in Answers : pc' = IF EndsRun(answer) THEN "failedAnswer" ELSE "answered"
    BY <1>3 DEF StreamEnd
  <2>2. afterAbort = 1 => EndsRun(answer)
    <3> SUFFICES ASSUME afterAbort = 1 PROVE EndsRun(answer)
      OBVIOUS
    <3>1. answer.stop \in {"error"} \union (IF aborted THEN {"aborted"} ELSE {})
      BY DEF Answers, Assistant
    <3> QED BY <3>1 DEF EndsRun
  <2>3. afterAbort' = afterAbort
    BY <1>3 DEF StreamEnd, history
  <2> QED BY <2>1, <2>2, <2>3 DEF AbortInv
<1>4. CASE AnswerFailed \/ TurnWithoutTools
  BY <1>4 DEF AnswerFailed, TurnWithoutTools, history, AbortInv
<1> QED BY <1>2, <1>3, <1>4

LEMMA AbortNext == AbortInv /\ TypeInv /\ [Next]_vars => AbortInv'
<1> SUFFICES ASSUME AbortInv, TypeInv, [Next]_vars PROVE AbortInv'
  OBVIOUS
<1>1. CASE Caller
  BY <1>1, AbortCaller
<1>2. CASE InjectStart \/ InjectEnd \/ InitialPoll \/ SteeringPoll \/ FollowUpPoll
  BY <1>2 DEF InjectStart, InjectEnd, InitialPoll, SteeringPoll, FollowUpPoll, history, AbortInv
<1>3. CASE StreamStart \/ StreamEnd \/ AnswerFailed \/ TurnWithoutTools
  BY <1>3, AbortTurn
<1>4. CASE StartBatch \/ Launch \/ ResultEnd \/ FinishBatch
  BY <1>4 DEF StartBatch, Launch, ResultEnd, FinishBatch, history, AbortInv
<1>5. CASE \E i \in CallIndex : CallStart(i) \/ PreparedImmediate(i) \/ Prepared(i) \/ ResultStart(i)
  BY <1>5 DEF CallStart, PreparedImmediate, Prepared, ResultStart, history, AbortInv
<1>6. CASE ToolStep
  BY <1>6 DEF ToolStep, ToolEnd, history, AbortInv
<1>7. CASE Failure \/ FailureEnd \/ FailureAgentEnd \/ FinishRun
  BY <1>7 DEF Failure, Throw, ToolThrow, ReportFailure, FailureEnd, FailureAgentEnd, FinishRun,
              history, AbortInv
<1>8. CASE \E o \in orphans : OrphanEnd(o)
  BY <1>8 DEF OrphanEnd, history, AbortInv
<1>9. CASE UNCHANGED vars
  BY <1>9 DEF vars, history, AbortInv
<1> QED BY <1>1, <1>2, <1>3, <1>4, <1>5, <1>6, <1>7, <1>8, <1>9 DEF Next, LoopStep

(* After abort() the run makes at most one more request to the model,      *)
(* however many messages are queued and however many tools it was about to *)
(* call.                                                                   *)
THEOREM AbortStopsRequests == Spec => []OneRequestAfterAbort
<1>1. Init => AbortInv
  BY DEF Init, AbortInv
<1>2. AbortInv => OneRequestAfterAbort
  BY DEF AbortInv, OneRequestAfterAbort
<1> QED BY <1>1, <1>2, AbortNext, TypeInvariance, PTL DEF Spec

-----------------------------------------------------------------------------
(* Steering messages are injected by the run that drained them, and counted *)
(* until its next request.                                                  *)
Steers(queue) == \E p \in DOMAIN queue : queue[p].lane = "steer"

SteeredInv ==
  /\ pc \notin {"failShown", "failEnd", "failClosed"}
  /\ ~Steers(followUpQueue)
  /\ steered <= 1
  /\ Steers(hand) => Len(hand) = 1 /\ steered = 0
  /\ steered > 0 => pc \in {"prompts", "promptShown", "inner", "innerShown"}
  /\ pc \in {"prompts", "promptShown"} => skipPoll \/ (steered = 0 /\ ~Steers(hand))

LEMMA NoSteers == ~Steers(<<>>) /\ \A n \in Nat : ~Steers(<<User(n, "prompt")>>)
<1>1. DOMAIN <<>> = {}
  BY EmptySeq, LenProperties
<1>2. \A n \in Nat : DOMAIN <<User(n, "prompt")>> = {1} /\ <<User(n, "prompt")>>[1].lane = "prompt"
  BY DEF User
<1> QED BY <1>1, <1>2 DEF Steers

(* "one-at-a-time" drains one message or none. *)
LEMMA DrainOne ==
  ASSUME "all" \notin SteeringModes, NEW queue \in Seq(UserMessage),
         NEW n \in DrainSizes(queue, SteeringModes) \union {0}
  PROVE  Drained(queue, n) \in Seq(UserMessage) /\ (Steers(Drained(queue, n)) => Len(Drained(queue, n)) = 1)
<1>1. Len(queue) \in Nat /\ n \in {0, 1} /\ n \in 0 .. Len(queue)
  BY EmptySeq, LenProperties DEF DrainSizes
<1>2. /\ Drained(queue, n) \in Seq(UserMessage)
      /\ Len(Drained(queue, n)) = IF 1 <= n THEN n - 1 + 1 ELSE 0
  BY <1>1, ElementOfSeq, SubSeqProperties DEF Drained
<1>3. CASE n = 0
  <2>1. DOMAIN Drained(queue, n) = {}
    BY <1>2, <1>3, LenProperties
  <2> QED BY <1>2, <2>1 DEF Steers
<1>4. CASE n = 1
  BY <1>2, <1>4
<1> QED BY <1>1, <1>3, <1>4

LEMMA DrainNoSteers ==
  ASSUME NEW queue \in Seq(UserMessage), ~Steers(queue), NEW n \in 0 .. Len(queue)
  PROVE  ~Steers(Drained(queue, n)) /\ ~Steers(Remaining(queue, n))
<1>1. Len(queue) \in Nat /\ DOMAIN queue = 1 .. Len(queue) /\ n \in Nat /\ n <= Len(queue)
  BY LenProperties
<1>2. \A i \in 1 .. Len(queue) : queue[i] \in UserMessage /\ queue[i].lane # "steer"
  BY <1>1, ElementOfSeq DEF Steers
<1>3. ~Steers(Drained(queue, n))
  <2>1. /\ Drained(queue, n) \in Seq(UserMessage)
        /\ Len(Drained(queue, n)) = IF 1 <= n THEN n - 1 + 1 ELSE 0
        /\ \A i \in 1 .. n - 1 + 1 : Drained(queue, n)[i] = queue[1 + i - 1]
    BY <1>1, <1>2, SubSeqProperties DEF Drained
  <2>2. DOMAIN Drained(queue, n) = 1 .. n
    BY <1>1, <2>1, LenProperties
  <2>3. \A i \in 1 .. n : Drained(queue, n)[i] = queue[i]
    BY <1>1, <2>1
  <2>4. \A i \in 1 .. n : i \in 1 .. Len(queue)
    BY <1>1
  <2> QED BY <1>2, <2>2, <2>3, <2>4 DEF Steers
<1>4. ~Steers(Remaining(queue, n))
  <2>1. n + 1 \in Int /\ Len(queue) \in Int /\ \A i \in n + 1 .. Len(queue) : queue[i] \in UserMessage
    BY <1>1, <1>2
  <2>2. /\ Remaining(queue, n) \in Seq(UserMessage)
        /\ Len(Remaining(queue, n)) = IF n + 1 <= Len(queue) THEN Len(queue) - (n + 1) + 1 ELSE 0
        /\ \A i \in 1 .. Len(queue) - (n + 1) + 1 : Remaining(queue, n)[i] = queue[n + 1 + i - 1]
    BY <2>1, SubSeqProperties DEF Remaining
  <2>3. \A i \in DOMAIN Remaining(queue, n) :
          i \in 1 .. Len(queue) - (n + 1) + 1 /\ n + 1 + i - 1 \in 1 .. Len(queue)
    <3>1. DOMAIN Remaining(queue, n) = 1 .. Len(Remaining(queue, n))
      BY <2>2, LenProperties
    <3>2. Len(Remaining(queue, n)) = IF n + 1 <= Len(queue) THEN Len(queue) - (n + 1) + 1 ELSE 0
      BY <2>2
    <3>3. \A k, l \in Nat : \A i \in 1 .. (IF k + 1 <= l THEN l - (k + 1) + 1 ELSE 0) :
            i \in 1 .. l - (k + 1) + 1 /\ k + 1 + i - 1 \in 1 .. l
      OBVIOUS
    <3> QED BY <1>1, <3>1, <3>2, <3>3
  <2> QED BY <1>2, <2>2, <2>3 DEF Steers
<1> QED BY <1>3, <1>4

LEMMA AppendNoSteers ==
  ASSUME NEW queue \in Seq(UserMessage), ~Steers(queue), NEW n \in Nat
  PROVE  ~Steers(Append(queue, User(n, "followUp")))
<1> DEFINE m == User(n, "followUp")
           t == Append(queue, m)
<1>1. m \in UserMessage /\ m.lane = "followUp"
  BY MessageTypes DEF Lane, User
<1>2. Len(queue) \in Nat /\ DOMAIN queue = 1 .. Len(queue)
  BY LenProperties
<1>3. /\ DOMAIN t = 1 .. Len(queue) + 1
      /\ \A i \in 1 .. Len(queue) : t[i] = queue[i]
      /\ t[Len(queue) + 1] = m
  BY <1>1, AppendProperties, LenProperties
<1> HIDE DEF m, t
<1>4. \A i \in DOMAIN t : i \in DOMAIN queue \/ i = Len(queue) + 1
  BY <1>2, <1>3
<1> QED BY <1>1, <1>2, <1>3, <1>4 DEF Steers, m, t

LEMMA TailSteers ==
  ASSUME NEW queue \in Seq(UserMessage), queue # <<>>, Steers(queue) => Len(queue) = 1
  PROVE  /\ ~Steers(Tail(queue))
         /\ Head(queue).lane = "steer" => Steers(queue)
<1>1. Len(queue) \in Nat \ {0} /\ DOMAIN queue = 1 .. Len(queue) /\ Head(queue) = queue[1]
  BY EmptySeq, LenProperties
<1>2. /\ DOMAIN Tail(queue) = 1 .. Len(queue) - 1
      /\ \A i \in 1 .. Len(queue) - 1 : Tail(queue)[i] = queue[i + 1] /\ i + 1 \in 1 .. Len(queue)
  <2>1. /\ Tail(queue) \in Seq(UserMessage) /\ Len(Tail(queue)) = Len(queue) - 1
        /\ \A i \in 1 .. Len(Tail(queue)) : Tail(queue)[i] = queue[i + 1]
    BY HeadTailProperties
  <2> QED BY <1>1, <2>1, LenProperties
<1>3. ~Steers(Tail(queue))
  <2>1. CASE Steers(queue)
    <3>1. DOMAIN Tail(queue) = {}
      BY <1>1, <1>2, <2>1
    <3> QED BY <3>1 DEF Steers
  <2>2. CASE ~Steers(queue)
    BY <1>1, <1>2, <2>2 DEF Steers
  <2> QED BY <2>1, <2>2
<1>4. Head(queue).lane = "steer" => Steers(queue)
  BY <1>1 DEF Steers
<1> QED BY <1>3, <1>4

(* What the lanes keep to when steering is one at a time and nothing throws.*)
LEMMA SteeredCaller ==
  ASSUME "all" \notin SteeringModes, SteeredInv, TypeInv, Caller
  PROVE  SteeredInv'
<1> USE DEF TypeInv, TypeOK
<1>1. CASE Prompt \/ ContinueWithSteering \/ ContinueWithFollowUp \/ ContinueTranscript
  <2>1. pc = "idle" /\ steered = 0 /\ steered' = steered /\ pc' = "prompts"
    <3>1. pc = "idle" /\ steered' = steered /\ pc' = "prompts"
      BY <1>1 DEF Prompt, ContinueWithSteering, ContinueWithFollowUp, ContinueTranscript, StartRun,
                  RunInv
    <3>2. steered \in Nat
      BY DEF HistoryType
    <3> QED BY <3>1, <3>2 DEF SteeredInv
  <2>2. ~Steers(followUpQueue')
    <3>1. CASE ContinueWithFollowUp
      <4>1. PICK n \in DrainSizes(followUpQueue, FollowUpModes) :
              followUpQueue' = Remaining(followUpQueue, n)
        BY <3>1 DEF ContinueWithFollowUp
      <4> QED BY <4>1, DrainBounds, DrainNoSteers DEF SteeredInv, QueueType
    <3>2. CASE Prompt \/ ContinueWithSteering \/ ContinueTranscript
      BY <3>2 DEF Prompt, ContinueWithSteering, ContinueTranscript, queues, SteeredInv
    <3> QED BY <1>1, <3>1, <3>2
  <2>3. (Steers(hand') => Len(hand') = 1) /\ (skipPoll' \/ ~Steers(hand'))
    <3>1. CASE Prompt
      BY <3>1, NoSteers DEF Prompt, StartRun, HistoryType
    <3>2. CASE ContinueWithSteering
      <4>1. PICK n \in DrainSizes(steeringQueue, SteeringModes) :
              hand' = Drained(steeringQueue, n) /\ skipPoll' = TRUE
        BY <3>2 DEF ContinueWithSteering, StartRun
      <4> QED BY <4>1, DrainOne DEF QueueType
    <3>3. CASE ContinueWithFollowUp
      <4>1. PICK n \in DrainSizes(followUpQueue, FollowUpModes) :
              hand' = Drained(followUpQueue, n)
        BY <3>3 DEF ContinueWithFollowUp, StartRun
      <4> QED BY <4>1, DrainBounds, DrainNoSteers DEF SteeredInv, QueueType
    <3>4. CASE ContinueTranscript
      BY <3>4, NoSteers DEF ContinueTranscript, StartRun
    <3> QED BY <1>1, <3>1, <3>2, <3>3, <3>4
  <2> QED BY <2>1, <2>2, <2>3 DEF SteeredInv
<1>2. CASE FollowUp
  <2>1. ~Steers(followUpQueue')
    BY <1>2, AppendNoSteers DEF FollowUp, SteeredInv, QueueType, HistoryType
  <2> QED BY <1>2, <2>1 DEF FollowUp, loop, SteeredInv
<1>3. CASE ClearFollowUpQueue \/ Reset
  BY <1>3, NoSteers DEF ClearFollowUpQueue, Reset, loop, SteeredInv
<1>4. CASE Steer \/ ClearSteeringQueue \/ Abort \/ OwnerAppends \/ OwnerDropsError
  BY <1>4 DEF Steer, ClearSteeringQueue, Abort, OwnerAppends, OwnerDropsError, queues, loop,
              history, SteeredInv
<1> QED BY <1>1, <1>2, <1>3, <1>4 DEF Caller

LEMMA SteeredInject ==
  ASSUME SteeredInv, TypeInv, InjectStart \/ InjectEnd
  PROVE  SteeredInv'
<1>1. CASE InjectStart
  BY <1>1 DEF InjectStart, queues, loop, history, SteeredInv
<1>2. CASE InjectEnd
  <2>1. hand \in Seq(UserMessage) /\ hand # <<>> /\ (Steers(hand) => Len(hand) = 1)
    BY <1>2 DEF InjectEnd, TypeInv, TypeOK, ShownInv, LoopType, SteeredInv
  <2>2. ~Steers(hand') /\ (Head(hand).lane = "steer" => Steers(hand))
    BY <1>2, <2>1, TailSteers DEF InjectEnd
  <2>3. steered \in Nat /\ steered' = IF Head(hand).lane = "steer" THEN steered + 1 ELSE steered
    BY <1>2 DEF InjectEnd, TypeInv, TypeOK, HistoryType
  <2>4. steered' <= 1
    BY <2>2, <2>3 DEF SteeredInv
  <2>5. pc' = "prompts" => skipPoll \/ steered' = 0
    BY <1>2, <2>2, <2>3 DEF InjectEnd, SteeredInv
  <2>6. /\ pc' \in {"prompts", "inner"} /\ skipPoll' = skipPoll
        /\ followUpQueue' = followUpQueue
    BY <1>2 DEF InjectEnd, queues
  <2> QED BY <2>2, <2>4, <2>5, <2>6 DEF SteeredInv
<1> QED BY <1>1, <1>2

LEMMA SteeredPoll ==
  ASSUME "all" \notin SteeringModes, SteeredInv, TypeInv,
         InitialPoll \/ SteeringPoll \/ FollowUpPoll
  PROVE  SteeredInv'
<1> USE DEF TypeInv, TypeOK
<1>1. steered \in Nat /\ steered' = steered
  BY DEF InitialPoll, SteeringPoll, FollowUpPoll, history, HistoryType
<1>2. CASE InitialPoll
  <2>1. PICK n \in IF skipPoll THEN {0} ELSE DrainSizes(steeringQueue, SteeringModes) :
          hand' = Drained(steeringQueue, n)
    BY <1>2 DEF InitialPoll
  <2>2. Steers(hand') => Len(hand') = 1 /\ ~skipPoll
    <3>1. CASE skipPoll
      <4>1. hand' = <<>>
        BY <2>1, <3>1, SubSeqEmpty DEF Drained
      <4> QED BY <4>1, NoSteers
    <3>2. CASE ~skipPoll
      BY <2>1, <3>2, DrainOne DEF QueueType
    <3> QED BY <3>1, <3>2
  <2>3. pc = "prompts" /\ pc' = "inner" /\ followUpQueue' = followUpQueue
    BY <1>2 DEF InitialPoll
  <2> QED BY <1>1, <2>2, <2>3 DEF SteeredInv
<1>3. CASE SteeringPoll
  <2>1. PICK n \in DrainSizes(steeringQueue, SteeringModes) : hand' = Drained(steeringQueue, n)
    BY <1>3 DEF SteeringPoll
  <2>2. Steers(hand') => Len(hand') = 1
    BY <2>1, DrainOne DEF QueueType
  <2>3. pc = "poll" /\ pc' \in {"inner", "followUp"} /\ followUpQueue' = followUpQueue
    BY <1>3 DEF SteeringPoll
  <2>4. steered = 0
    BY <1>1, <2>3 DEF SteeredInv
  <2> QED BY <1>1, <2>2, <2>3, <2>4 DEF SteeredInv
<1>4. CASE FollowUpPoll
  <2>1. PICK n \in DrainSizes(followUpQueue, FollowUpModes) :
          hand' = Drained(followUpQueue, n) /\ followUpQueue' = Remaining(followUpQueue, n)
    BY <1>4 DEF FollowUpPoll
  <2>2. ~Steers(hand') /\ ~Steers(followUpQueue')
    BY <2>1, DrainBounds, DrainNoSteers DEF SteeredInv, QueueType
  <2>3. pc = "followUp" /\ pc' \in {"inner", "agentEnd"}
    BY <1>4 DEF FollowUpPoll
  <2>4. steered = 0
    BY <1>1, <2>3 DEF SteeredInv
  <2> QED BY <1>1, <2>2, <2>3, <2>4 DEF SteeredInv
<1> QED BY <1>2, <1>3, <1>4

(* Steps of the loop between a request and the next poll. *)
LEMMA SteeredElsewhere ==
  ASSUME SteeredInv, TypeInv, pc \notin {"prompts", "promptShown", "inner", "innerShown"},
         pc' \notin {"prompts", "promptShown", "failShown", "failEnd", "failClosed"},
         UNCHANGED <<followUpQueue, hand, steered>>
  PROVE  SteeredInv'
<1>1. steered = 0
  BY DEF SteeredInv, TypeInv, TypeOK, HistoryType
<1> QED BY <1>1 DEF SteeredInv

LEMMA SteeredTurn ==
  ASSUME SteeredInv, TypeInv,
         \/ StreamStart \/ StreamEnd \/ AnswerFailed \/ TurnWithoutTools
         \/ StartBatch \/ Launch \/ ResultEnd \/ FinishBatch \/ ToolStep
         \/ \E i \in CallIndex : CallStart(i) \/ PreparedImmediate(i) \/ Prepared(i) \/ ResultStart(i)
         \/ FailureEnd \/ FailureAgentEnd \/ FinishRun
  PROVE  SteeredInv'
<1>1. CASE StreamStart
  <2>1. hand' = <<>> /\ steered' = 0 /\ pc' = "streaming" /\ followUpQueue' = followUpQueue
    BY <1>1 DEF StreamStart, queues
  <2> QED BY <2>1, NoSteers DEF SteeredInv
<1>2. CASE StreamEnd \/ AnswerFailed \/ TurnWithoutTools
  BY <1>2, SteeredElsewhere DEF StreamEnd, AnswerFailed, TurnWithoutTools, queues, loop, history
<1>3. CASE StartBatch \/ Launch \/ ResultEnd \/ FinishBatch
  BY <1>3, SteeredElsewhere DEF StartBatch, Launch, ResultEnd, FinishBatch, queues, loop, history
<1>4. CASE ToolStep
  BY <1>4, SteeredElsewhere DEF ToolStep, ToolEnd, queues, loop, history
<1>5. CASE \E i \in CallIndex : CallStart(i) \/ PreparedImmediate(i) \/ Prepared(i) \/ ResultStart(i)
  BY <1>5, SteeredElsewhere
     DEF CallStart, PreparedImmediate, Prepared, ResultStart, queues, loop, history
<1>6. CASE FailureEnd \/ FailureAgentEnd
  BY <1>6 DEF FailureEnd, FailureAgentEnd, SteeredInv
<1>7. CASE FinishRun
  <2>1. pc = "agentEnd" /\ pc' = "idle" /\ UNCHANGED <<followUpQueue, hand, steered>>
    BY <1>7 DEF FinishRun, SteeredInv, queues, history
  <2> QED BY <2>1, SteeredElsewhere
<1> QED BY <1>1, <1>2, <1>3, <1>4, <1>5, <1>6, <1>7

LEMMA SteeredNext ==
  ASSUME "all" \notin SteeringModes, ~MayThrow, SteeredInv, TypeInv, [Next]_vars
  PROVE  SteeredInv'
<1>1. CASE Caller
  BY <1>1, SteeredCaller
<1>2. CASE LoopStep \/ ToolStep
  BY <1>2, SteeredInject, SteeredPoll, SteeredTurn DEF LoopStep
<1>3. CASE Failure
  BY <1>3 DEF Failure, Throw, ToolThrow
<1>4. CASE \E o \in orphans : OrphanEnd(o)
  BY <1>4 DEF OrphanEnd, queues, loop, history, SteeredInv
<1>5. CASE UNCHANGED vars
  BY <1>5 DEF vars, queues, loop, history, SteeredInv
<1> QED BY <1>1, <1>2, <1>3, <1>4, <1>5 DEF Next

(* In "one-at-a-time" mode, when no run fails, at most one steering message *)
(* is injected between two requests, continue() included: the poll it skips *)
(* is the one that would inject a second.                                   *)
THEOREM OneSteeringAtATime ==
  ASSUME ~MayThrow
  PROVE  Spec => []OneSteeringPerRequest
<1>1. CASE "all" \in SteeringModes
  <2>1. OneSteeringPerRequest
    BY <1>1 DEF OneSteeringPerRequest
  <2> QED BY <2>1, PTL
<1>2. CASE "all" \notin SteeringModes
  <2>1. Init => SteeredInv
    BY NoSteers DEF Init, SteeredInv
  <2>2. SteeredInv /\ TypeInv /\ [Next]_vars => SteeredInv'
    BY <1>2, SteeredNext
  <2>3. SteeredInv => OneSteeringPerRequest
    BY DEF SteeredInv, OneSteeringPerRequest
  <2> QED BY <2>1, <2>2, <2>3, TypeInvariance, PTL DEF Spec
<1> QED BY <1>1, <1>2

-----------------------------------------------------------------------------
(* What a request to the model is made of: the context the loop            *)
(* accumulates is the transcript, and it never ends with an assistant      *)
(* message; and what becomes of its calls.                                 *)

(* Sequences. *)
LEMMA LastOfAppend ==
  ASSUME NEW S, NEW s \in Seq(S), NEW e \in S
  PROVE  Append(s, e) # <<>> /\ Last(Append(s, e)) = e
BY AppendProperties DEF Last

LEMMA MoveHead ==
  ASSUME NEW S, NEW s \in Seq(S), NEW t \in Seq(S), t # <<>>
  PROVE  s \o t = Append(s, Head(t)) \o Tail(t)
<1> DEFINE u == Append(s, Head(t)) \o Tail(t)
<1>1. Head(t) = t[1] /\ Head(t) \in S /\ Tail(t) \in Seq(S) /\ Len(t) \in Nat \ {0}
  BY HeadTailProperties, EmptySeq
<1>2. Len(Tail(t)) = Len(t) - 1 /\ \A i \in 1 .. Len(t) - 1 : Tail(t)[i] = t[i + 1]
  BY HeadTailProperties
<1>3. Len(s) \in Nat
  BY LenProperties
<1>4. /\ Append(s, Head(t)) \in Seq(S)
      /\ Len(Append(s, Head(t))) = Len(s) + 1
      /\ \A i \in 1 .. Len(s) : Append(s, Head(t))[i] = s[i]
      /\ Append(s, Head(t))[Len(s) + 1] = t[1]
  BY <1>1, AppendProperties
<1>5. /\ u \in Seq(S) /\ Len(u) = Len(s) + Len(t)
      /\ \A i \in 1 .. Len(s) + Len(t) :
           u[i] = IF i <= Len(s) + 1 THEN Append(s, Head(t))[i] ELSE t[i - Len(s)]
  <2>1. /\ u \in Seq(S) /\ Len(u) = Len(s) + 1 + (Len(t) - 1)
        /\ \A i \in 1 .. Len(s) + 1 + (Len(t) - 1) :
             u[i] = IF i <= Len(s) + 1 THEN Append(s, Head(t))[i] ELSE Tail(t)[i - (Len(s) + 1)]
    BY <1>1, <1>2, <1>4, ConcatProperties
  <2>2. \A i \in 1 .. Len(s) + Len(t) : i > Len(s) + 1 => Tail(t)[i - (Len(s) + 1)] = t[i - Len(s)]
    BY <1>1, <1>2, <1>3
  <2> QED BY <1>1, <1>3, <2>1, <2>2
<1>6. /\ s \o t \in Seq(S) /\ Len(s \o t) = Len(s) + Len(t)
      /\ \A i \in 1 .. Len(s) + Len(t) : (s \o t)[i] = IF i <= Len(s) THEN s[i] ELSE t[i - Len(s)]
  BY ConcatProperties
<1>7. \A i \in 1 .. Len(s) + Len(t) : (s \o t)[i] = u[i]
  BY <1>1, <1>3, <1>4, <1>5, <1>6
<1> HIDE DEF u
<1>8. s \o t = u
  BY <1>5, <1>6, <1>7, SeqEqual
<1> QED BY <1>8 DEF u

LEMMA ReplaceLast ==
  ASSUME NEW S, NEW s \in Seq(S), NEW a \in S, NEW b \in S
  PROVE  ReplaceAt(Append(s, a), Len(Append(s, a)), b) = Append(s, b)
<1> DEFINE t == Append(s, a)
           u == ReplaceAt(t, Len(t), b)
<1>1. Len(s) \in Nat
  BY LenProperties
<1>2. t \in Seq(S) /\ Len(t) = Len(s) + 1 /\ \A i \in 1 .. Len(s) : t[i] = s[i]
  BY AppendProperties
<1>3. /\ u \in Seq(S) /\ Len(u) = Len(s) + 1
      /\ \A i \in 1 .. Len(s) + 1 : u[i] = IF i = Len(s) + 1 THEN b ELSE t[i]
  <2> HIDE DEF t
  <2>1. Len(t) \in 1 .. Len(t)
    BY <1>1, <1>2
  <2> QED BY <1>2, <2>1, ExceptSeq DEF ReplaceAt
<1>4. /\ Append(s, b) \in Seq(S) /\ Len(Append(s, b)) = Len(s) + 1
      /\ \A i \in 1 .. Len(s) : Append(s, b)[i] = s[i]
      /\ Append(s, b)[Len(s) + 1] = b
  BY AppendProperties
<1>5. \A i \in 1 .. Len(s) + 1 : u[i] = Append(s, b)[i]
  BY <1>1, <1>2, <1>3, <1>4
<1> HIDE DEF u
<1>6. u = Append(s, b)
  BY <1>3, <1>4, <1>5, SeqEqual
<1> QED BY <1>6 DEF u

LEMMA ResultsTypes ==
  ASSUME turn \in Nat, NEW k \in 0 .. MaxCalls
  PROVE  /\ Results(k) \in Seq(AgentMessage)
         /\ Len(Results(k)) = k
         /\ \A i \in 1 .. k : Results(k)[i] = ToolResult(turn, i)
<1>1. \A i \in 1 .. k : ToolResult(turn, i) \in AgentMessage
  BY MessageTypes, BoundsAssumption DEF CallIndex, AgentMessage
<1>2. k \in Nat
  BY BoundsAssumption
<1> QED BY <1>1, <1>2, IsASeq DEF Results

LEMMA ConcatResults ==
  ASSUME turn \in Nat, NEW s \in Seq(AgentMessage), NEW k \in 0 .. MaxCalls
  PROVE  /\ s \o Results(k) \in Seq(AgentMessage) /\ Len(s \o Results(k)) = Len(s) + k
         /\ \A i \in 1 .. Len(s) + k :
              (s \o Results(k))[i] = IF i <= Len(s) THEN s[i] ELSE ToolResult(turn, i - Len(s))
<1> DEFINE r == Results(k)
<1>1. Len(s) \in Nat /\ k \in Nat
  BY LenProperties, BoundsAssumption
<1>2. r \in Seq(AgentMessage) /\ Len(r) = k /\ \A i \in 1 .. k : r[i] = ToolResult(turn, i)
  BY ResultsTypes
<1> HIDE DEF r
<1>3. /\ s \o r \in Seq(AgentMessage) /\ Len(s \o r) = Len(s) + k
      /\ \A i \in 1 .. Len(s) + k : (s \o r)[i] = IF i <= Len(s) THEN s[i] ELSE r[i - Len(s)]
  BY <1>2, ConcatProperties
<1>4. \A i \in 1 .. Len(s) + k : i > Len(s) => r[i - Len(s)] = ToolResult(turn, i - Len(s))
  BY <1>1, <1>2
<1>5. \A i \in 1 .. Len(s) + k :
        (s \o r)[i] = IF i <= Len(s) THEN s[i] ELSE ToolResult(turn, i - Len(s))
  BY <1>1, <1>3, <1>4
<1> QED BY <1>3, <1>5 DEF r

LEMMA NextResults ==
  ASSUME turn \in Nat, NEW s \in Seq(AgentMessage), NEW k \in 0 .. MaxCalls, k + 1 \in 0 .. MaxCalls
  PROVE  Append(s \o Results(k), ToolResult(turn, k + 1)) = s \o Results(k + 1)
<1> DEFINE r == ToolResult(turn, k + 1)
           t == s \o Results(k)
           u == s \o Results(k + 1)
<1>0. Len(s) \in Nat /\ k \in Nat
  BY LenProperties, BoundsAssumption
<1>1. r \in AgentMessage
  BY <1>0, MessageTypes, BoundsAssumption DEF CallIndex, AgentMessage
<1>2. /\ t \in Seq(AgentMessage) /\ Len(t) = Len(s) + k
      /\ \A i \in 1 .. Len(s) + k :
           t[i] = IF i <= Len(s) THEN s[i] ELSE ToolResult(turn, i - Len(s))
  BY <1>0, ConcatResults
<1>3. /\ u \in Seq(AgentMessage) /\ Len(u) = Len(s) + (k + 1)
      /\ \A i \in 1 .. Len(s) + (k + 1) :
           u[i] = IF i <= Len(s) THEN s[i] ELSE ToolResult(turn, i - Len(s))
  BY <1>0, ConcatResults
<1> HIDE DEF t, u
<1>4. /\ Append(t, r) \in Seq(AgentMessage) /\ Len(Append(t, r)) = Len(s) + k + 1
      /\ \A i \in 1 .. Len(s) + k : Append(t, r)[i] = t[i]
      /\ Append(t, r)[Len(s) + k + 1] = r
  BY <1>1, <1>2, AppendProperties
<1>5. \A i \in 1 .. Len(s) + k + 1 : Append(t, r)[i] = u[i]
  BY <1>0, <1>2, <1>3, <1>4
<1>6. Append(t, r) = u
  BY <1>0, <1>3, <1>4, <1>5, SeqEqual
<1> QED BY <1>6 DEF t, u

LEMMA LastOfResults ==
  ASSUME turn \in Nat, NEW s \in Seq(AgentMessage), NEW k \in 1 .. MaxCalls
  PROVE  s \o Results(k) # <<>> /\ Last(s \o Results(k)) = ToolResult(turn, k)
<1>0. Len(s) \in Nat /\ k \in 0 .. MaxCalls /\ k > 0
  BY LenProperties, BoundsAssumption
<1>1. /\ s \o Results(k) \in Seq(AgentMessage) /\ Len(s \o Results(k)) = Len(s) + k
      /\ (s \o Results(k))[Len(s) + k] = ToolResult(turn, k)
  BY <1>0, ConcatResults
<1> QED BY <1>0, <1>1, EmptySeq DEF Last
-----------------------------------------------------------------------------
(* Steps that have nothing to do with requests. *)
LEMMA QuietStep ==
  ASSUME pc' \in {"idle", "failShown", "failEnd", "failClosed", "agentEnd", "failedAnswer"}
  PROVE  BatchInv' /\ ContextInv' /\ InputInv'
BY DEF BatchInv, CallOrder, AtPrepare, AtPreflight, AtExecute, AtResult, ContextInv, InputInv,
       InBatch

LEMMA OtherStep ==
  ASSUME BatchInv, ContextInv, InputInv,
         UNCHANGED <<messages, streamingMessage, pc, context, hand, hasMoreToolCalls, turn,
                     calls, batchMode, callState>>
  PROVE  BatchInv' /\ ContextInv' /\ InputInv'
<1>1. BatchInv'
  BY DEF BatchInv, CallOrder, AtPrepare, AtPreflight, AtExecute, AtResult, InBatch, Settled,
         AllBut, ToolResult
<1>2. ContextInv'
  BY DEF ContextInv, InBatch, Sent, Results, ToolResult
<1>3. InputInv'
  BY DEF InputInv, EndsWithInput
<1> QED BY <1>1, <1>2, <1>3

(* Outside a batch, BatchInv says nothing. *)
LEMMA NoBatch == ASSUME pc' \notin {"prepare", "preflight", "execute", "resultShown"} PROVE BatchInv'
BY DEF BatchInv, CallOrder, AtPrepare, AtPreflight, AtExecute, AtResult, InBatch

(* A run starts with something to answer: its prompts, or the transcript.  *)
LEMMA RequestStartRun ==
  ASSUME TypeInv,
         Prompt \/ ContinueWithSteering \/ ContinueWithFollowUp \/ ContinueTranscript
  PROVE  BatchInv' /\ ContextInv' /\ InputInv'
<1>1. ASSUME NEW given, NEW skip, StartRun(given, skip), given = <<>> => EndsWithInput
      PROVE  BatchInv' /\ ContextInv' /\ InputInv'
  <2>1. pc' = "prompts" /\ context' = messages \o given /\ hand' = given /\ messages' = messages
    BY <1>1 DEF StartRun
  <2>2. BatchInv'
    BY <2>1, NoBatch
  <2>3. ContextInv'
    BY <2>1 DEF ContextInv, InBatch
  <2>4. InputInv'
    BY <1>1, <2>1 DEF InputInv, EndsWithInput
  <2> QED BY <2>2, <2>3, <2>4
<1>2. CASE Prompt
  <2>1. <<User(nextId, "prompt")>> # <<>>
    OBVIOUS
  <2> QED BY <1>1, <1>2, <2>1 DEF Prompt
<1>3. ASSUME NEW queue \in Seq(UserMessage), NEW modes, queue # <<>>,
             NEW n \in DrainSizes(queue, modes)
      PROVE  Drained(queue, n) # <<>>
  <2>1. n \in 1 .. Len(queue)
    BY <1>3, EmptySeq DEF DrainSizes
  <2>2. Len(Drained(queue, n)) = n
    BY <2>1, <1>3, LenProperties, ElementOfSeq, SubSeqProperties DEF Drained
  <2> QED BY <2>1, <2>2, EmptySeq
<1>4. CASE ContinueWithSteering
  <2>1. PICK n \in DrainSizes(steeringQueue, SteeringModes) :
          StartRun(Drained(steeringQueue, n), TRUE)
    BY <1>4 DEF ContinueWithSteering
  <2>2. Drained(steeringQueue, n) # <<>>
    BY <1>3, <1>4, <2>1 DEF ContinueWithSteering, TypeInv, TypeOK, QueueType
  <2> QED BY <1>1, <2>1, <2>2
<1>5. CASE ContinueWithFollowUp
  <2>1. PICK n \in DrainSizes(followUpQueue, FollowUpModes) :
          StartRun(Drained(followUpQueue, n), FALSE)
    BY <1>5 DEF ContinueWithFollowUp
  <2>2. Drained(followUpQueue, n) # <<>>
    BY <1>3, <1>5, <2>1 DEF ContinueWithFollowUp, TypeInv, TypeOK, QueueType
  <2> QED BY <1>1, <2>1, <2>2
<1>6. CASE ContinueTranscript
  <2>1. StartRun(<<>>, FALSE) /\ EndsWithInput
    BY <1>6 DEF ContinueTranscript, AtAssistant, EndsWithInput
  <2> QED BY <1>1, <2>1
<1> QED BY <1>2, <1>4, <1>5, <1>6

(* Injecting a message keeps the context and the transcript together. *)
LEMMA RequestInject ==
  ASSUME TypeInv, ContextInv, InputInv, InjectStart \/ InjectEnd
  PROVE  BatchInv' /\ ContextInv' /\ InputInv'
<1> USE DEF TypeInv, TypeOK
<1>1. CASE InjectStart
  <2>1. /\ pc' = IF pc = "prompts" THEN "promptShown" ELSE "innerShown"
        /\ pc \in {"prompts", "inner"}
        /\ UNCHANGED <<messages, context, hand>>
    BY <1>1 DEF InjectStart, loop
  <2>2. BatchInv'
    BY <2>1, NoBatch
  <2>3. ContextInv'
    BY <2>1 DEF ContextInv, InBatch
  <2>4. InputInv'
    BY <2>1 DEF InputInv
  <2> QED BY <2>2, <2>3, <2>4
<1>2. CASE InjectEnd
  <2>1. /\ pc \in {"promptShown", "innerShown"}
        /\ pc' = IF pc = "promptShown" THEN "prompts" ELSE "inner"
        /\ messages' = Append(messages, Head(hand)) /\ hand' = Tail(hand)
        /\ context' = IF pc = "innerShown" THEN Append(context, Head(hand)) ELSE context
    BY <1>2 DEF InjectEnd
  <2>2. hand # <<>> /\ hand \in Seq(UserMessage)
    BY <2>1 DEF ShownInv, LoopType
  <2>3. Head(hand) \in UserMessage /\ Head(hand) \in AgentMessage /\ hand \in Seq(AgentMessage)
    BY <2>2, HeadTailProperties, SeqMonotonic DEF AgentMessage
  <2>4. messages \in Seq(AgentMessage)
    BY DEF StateType
  <2>5. BatchInv'
    BY <2>1, NoBatch
  <2>6. ContextInv'
    <3>1. messages \o hand = messages' \o hand'
      BY <2>1, <2>2, <2>3, <2>4, MoveHead
    <3> QED BY <2>1, <3>1 DEF ContextInv, InBatch
  <2>7. EndsWithInput'
    <3>1. Head(hand).role # "assistant"
      BY <2>3 DEF UserMessage
    <3>2. messages' # <<>> /\ Last(messages') = Head(hand)
      BY <2>1, <2>3, <2>4, LastOfAppend
    <3> QED BY <3>1, <3>2 DEF EndsWithInput
  <2>8. InputInv'
    BY <2>7 DEF InputInv
  <2> QED BY <2>5, <2>6, <2>8
<1> QED BY <1>1, <1>2

LEMMA RequestPoll ==
  ASSUME TypeInv, ContextInv, InputInv, InitialPoll \/ SteeringPoll \/ FollowUpPoll
  PROVE  BatchInv' /\ ContextInv' /\ InputInv'
<1>1. CASE InitialPoll
  <2>1. pc = "prompts" /\ hand = <<>> /\ pc' = "inner" /\ UNCHANGED <<messages, context>>
    BY <1>1 DEF InitialPoll, state
  <2>2. context = messages
    BY <2>1, ConcatEmptySeq DEF ContextInv, TypeInv, TypeOK, StateType
  <2>3. EndsWithInput'
    BY <2>1 DEF InputInv, EndsWithInput
  <2>4. ContextInv'
    BY <2>1, <2>2 DEF ContextInv, InBatch
  <2>5. InputInv'
    BY <2>3 DEF InputInv
  <2> QED BY <2>1, <2>4, <2>5, NoBatch
<1>2. CASE SteeringPoll
  <2>1. /\ pc = "poll" /\ UNCHANGED <<messages, context, hasMoreToolCalls>>
        /\ pc' = IF hasMoreToolCalls \/ hand' # <<>> THEN "inner" ELSE "followUp"
    BY <1>2 DEF SteeringPoll, state
  <2>2. ContextInv'
    BY <2>1 DEF ContextInv, InBatch
  <2>3. InputInv'
    BY <2>1 DEF InputInv, EndsWithInput
  <2> QED BY <2>1, <2>2, <2>3, NoBatch
<1>3. CASE FollowUpPoll
  <2>1. /\ pc = "followUp" /\ UNCHANGED <<messages, context>>
        /\ pc' = IF hand' # <<>> THEN "inner" ELSE "agentEnd"
    BY <1>3 DEF FollowUpPoll, state
  <2>2. ContextInv'
    BY <2>1 DEF ContextInv, InBatch
  <2>3. InputInv'
    BY <2>1 DEF InputInv
  <2> QED BY <2>1, <2>2, <2>3, NoBatch
<1> QED BY <1>1, <1>2, <1>3

LEMMA RequestStream ==
  ASSUME TypeInv, ContextInv, InputInv, StreamStart \/ StreamEnd \/ TurnWithoutTools
  PROVE  BatchInv' /\ ContextInv' /\ InputInv'
<1> USE DEF TypeInv, TypeOK
<1>1. CASE StreamStart
  <2>1. /\ pc = "inner" /\ hand = <<>> /\ pc' = "streaming" /\ messages' = messages
        /\ context' = Append(context, streamingMessage')
    BY <1>1 DEF StreamStart
  <2>2. ContextInv'
    BY <2>1 DEF ContextInv, InBatch
  <2>3. InputInv'
    BY <2>1 DEF InputInv, EndsWithInput
  <2> QED BY <2>1, <2>2, <2>3, NoBatch
<1>2. CASE StreamEnd
  <2>1. PICK answer \in Answers :
          /\ context' = ReplaceAt(context, Len(context), answer)
          /\ messages' = Append(messages, answer)
          /\ pc' = IF EndsRun(answer) THEN "failedAnswer" ELSE "answered"
    BY <1>2 DEF StreamEnd
  <2>2. context = Append(messages, streamingMessage)
    BY <1>2 DEF StreamEnd, ContextInv
  <2>3. context' = messages'
    <3> DEFINE Showable == AgentMessage \union {NoMessage}
    <3>1. answer \in Showable
      <4>1. answer \in AssistantMessage
        BY AnswerTypes DEF LoopType
      <4> QED BY <4>1 DEF AgentMessage
    <3>2. streamingMessage \in Showable /\ messages \in Seq(Showable)
      BY SeqMonotonic DEF StateType
    <3> HIDE DEF Showable
    <3> QED BY <2>1, <2>2, <3>1, <3>2, ReplaceLast
  <2>4. ContextInv'
    BY <2>1, <2>3 DEF ContextInv, InBatch
  <2>5. InputInv'
    BY <2>1 DEF InputInv
  <2> QED BY <2>1, <2>4, <2>5, NoBatch
<1>3. CASE TurnWithoutTools
  <2>1. /\ pc = "answered" /\ pc' = "poll" /\ hasMoreToolCalls' = FALSE
        /\ UNCHANGED <<messages, context>>
    BY <1>3 DEF TurnWithoutTools, state
  <2>2. ContextInv'
    BY <2>1 DEF ContextInv, InBatch
  <2>3. InputInv'
    BY <2>1 DEF InputInv
  <2> QED BY <2>1, <2>2, <2>3, NoBatch
<1> QED BY <1>1, <1>2, <1>3
-----------------------------------------------------------------------------
(* Within a batch, only results that are sent matter to the context. *)
LEMMA BatchContext ==
  ASSUME ContextInv, InBatch, InBatch', Sent' = Sent,
         UNCHANGED <<messages, context, turn, calls>>
  PROVE  ContextInv' /\ InputInv'
<1>1. \A k : Results(k)' = Results(k)
  BY DEF Results, ToolResult
<1>2. ContextInv'
  BY <1>1 DEF ContextInv, InBatch
<1>3. InputInv'
  BY DEF InputInv, InBatch
<1> QED BY <1>2, <1>3

LEMMA RequestStartBatch ==
  ASSUME TypeInv, ContextInv, StartBatch
  PROVE  BatchInv' /\ ContextInv' /\ InputInv'
<1> USE DEF TypeInv, TypeOK
<1>1. /\ pc = "answered" /\ calls > 0 /\ pc' = "prepare"
      /\ callState' = [i \in CallIndex |-> "waiting"]
      /\ UNCHANGED <<messages, context, turn, calls>>
  BY DEF StartBatch, state, loop
<1>2. BatchInv'
  BY <1>1 DEF BatchInv, CallOrder, AtPrepare, AtPreflight, AtExecute, AtResult, Settled, InBatch
<1>3. ContextInv'
  <2>1. context' = messages'
    BY <1>1 DEF ContextInv
  <2>2. Results(0)' = <<>>
    <3>1. turn' \in Nat /\ 0 \in 0 .. MaxCalls
      BY <1>1, BoundsAssumption DEF LoopType
    <3>2. Results(0)' = [i \in 1 .. 0 |-> ToolResult(turn', i)]
      BY DEF Results, ToolResult
    <3> QED BY <1>1, <3>1, <3>2, ResultsTypes, EmptySeq DEF Results, ToolResult, LoopType
  <2>3. messages' = context' \o Results(0)'
    BY <1>1, <2>1, <2>2, ConcatEmptySeq DEF StateType
  <2>4. Sent' = {}
    BY <1>1 DEF Sent
  <2>5. 0 \in 0 .. calls' /\ Sent' = 1 .. 0
    BY <1>1, <2>4 DEF BatchType
  <2> QED BY <1>1, <2>3, <2>5 DEF ContextInv
<1>4. InputInv'
  BY <1>1 DEF InputInv
<1> QED BY <1>2, <1>3, <1>4

LEMMA RequestCallStart ==
  ASSUME TypeInv, BatchInv, ContextInv, NEW i \in CallIndex, CallStart(i)
  PROVE  BatchInv' /\ ContextInv' /\ InputInv'
<1> USE DEF TypeInv, TypeOK
<1>1. /\ pc = "prepare" /\ pc' = "preflight" /\ callState[i] = "waiting"
      /\ callState' = [callState EXCEPT ![i] = "started"]
      /\ \A j \in 1 .. i - 1 : callState[j] # "waiting"
      /\ UNCHANGED <<messages, context, turn, calls, batchMode>>
  BY DEF CallStart, loop, NextCall, Untouched
<1>2. callState \in [CallIndex -> CallState] /\ calls \in 0 .. MaxCalls
  BY DEF BatchType
<1>3. i <= calls
  <2>1. PICK j \in 1 .. calls : callState[j] = "waiting"
    BY DEF CallStart, StopPreparing, Batch, Untouched
  <2> QED BY <1>1, <1>2, <2>1 DEF CallIndex
<1>4. CallOrder'
  BY <1>1, <1>2, <1>3, BoundsAssumption DEF BatchInv, CallOrder, InBatch, CallIndex
<1>5. AtPreflight'
  BY <1>1, <1>2 DEF BatchInv, AtPrepare, AtPreflight, AllBut, Settled
<1>6. BatchInv'
  BY <1>1, <1>4, <1>5 DEF BatchInv, AtPrepare, AtExecute, AtResult
<1>7. Sent' = Sent
  BY <1>1, <1>2 DEF Sent
<1> QED BY <1>1, <1>6, <1>7, BatchContext DEF InBatch

(* The two outcomes of prepareToolCall. *)
LEMMA RequestPrepared ==
  ASSUME TypeInv, BatchInv, ContextInv, NEW i \in CallIndex, PreparedImmediate(i) \/ Prepared(i)
  PROVE  BatchInv' /\ ContextInv' /\ InputInv'
<1> USE DEF TypeInv, TypeOK
<1>1. /\ pc = "preflight" /\ callState[i] = "started"
      /\ UNCHANGED <<messages, context, turn, calls, batchMode>>
      /\ \/ /\ batchMode = "parallel" /\ pc' = "prepare"
            /\ \/ callState' = [callState EXCEPT ![i] = "ended"]
               \/ callState' = [callState EXCEPT ![i] = "prepared"]
         \/ /\ batchMode = "sequential" /\ pc' = "execute"
            /\ \/ callState' = [callState EXCEPT ![i] = "ended"]
               \/ callState' = [callState EXCEPT ![i] = "running"]
  <2>1. batchMode \in {"parallel", "sequential"}
    BY DEF BatchType
  <2>2. CASE PreparedImmediate(i)
    BY <2>1, <2>2 DEF PreparedImmediate, ExecutionEnds, loop
  <2>3. CASE Prepared(i)
    BY <2>1, <2>3 DEF Prepared, state, loop
  <2> QED BY <2>2, <2>3
<1>2. callState \in [CallIndex -> CallState] /\ calls \in 0 .. MaxCalls
  BY DEF BatchType
<1>3. AllBut(i, Settled)
  <2>1. PICK k \in CallIndex : callState[k] = "started" /\ AllBut(k, Settled)
    BY <1>1 DEF BatchInv, AtPreflight
  <2>2. k = i
    BY <1>1, <2>1 DEF AllBut, Settled
  <2> QED BY <2>1, <2>2
<1>4. \A j \in CallIndex : (callState'[j] = "waiting" <=> callState[j] = "waiting")
  BY <1>1, <1>2
<1>5. CallOrder'
  <2>1. calls > 0 /\ callState[1] # "waiting" /\ 1 \in CallIndex
    BY <1>1, <1>2, BoundsAssumption DEF BatchInv, CallOrder, InBatch, CallIndex
  <2> QED BY <1>1, <1>2, <1>4, <2>1, BoundsAssumption DEF BatchInv, CallOrder, InBatch, CallIndex
<1>6. AtPrepare'
  BY <1>1, <1>2, <1>3 DEF AtPrepare, AllBut, Settled
<1>7. AtExecute'
  BY <1>1, <1>2, <1>3 DEF AtExecute, AllBut, Settled
<1>8. BatchInv'
  BY <1>1, <1>5, <1>6, <1>7 DEF BatchInv, AtPreflight, AtResult
<1>9. Sent' = Sent
  BY <1>1, <1>2 DEF Sent
<1> QED BY <1>1, <1>8, <1>9, BatchContext DEF InBatch

LEMMA RequestLaunch ==
  ASSUME TypeInv, BatchInv, ContextInv, Launch
  PROVE  BatchInv' /\ ContextInv' /\ InputInv'
<1> USE DEF TypeInv, TypeOK
<1>1. /\ pc = "prepare" /\ pc' = "execute" /\ batchMode = "parallel" /\ StopPreparing
      /\ callState' = [i \in CallIndex |->
                         IF callState[i] = "prepared" THEN "running" ELSE callState[i]]
      /\ UNCHANGED <<messages, context, turn, calls, batchMode>>
  BY DEF Launch, state, loop
<1>2. callState \in [CallIndex -> CallState] /\ calls \in 0 .. MaxCalls
  BY DEF BatchType
<1>3. calls > 0 /\ 1 \in CallIndex
  BY <1>1, <1>2, BoundsAssumption DEF BatchInv, CallOrder, InBatch, CallIndex
<1>4. callState[1] # "waiting"
  BY <1>1, <1>2, <1>3 DEF StopPreparing, Batch, Untouched
<1>5. \A j \in CallIndex : (callState'[j] = "waiting" <=> callState[j] = "waiting")
  BY <1>1, <1>2
<1>6. CallOrder'
  <2>1. \A i \in CallIndex : callState[i] # "waiting" =>
          i <= calls /\ \A j \in 1 .. i - 1 : j \in CallIndex /\ callState[j] # "waiting"
    BY <1>1, BoundsAssumption DEF BatchInv, CallOrder, InBatch, CallIndex
  <2>2. \A i \in CallIndex : callState'[i] # "waiting" =>
          i <= calls /\ \A j \in 1 .. i - 1 : callState'[j] # "waiting"
    BY <1>5, <2>1
  <2>3. callState'[1] # "waiting" /\ calls' = calls
    BY <1>1, <1>3, <1>4, <1>5
  <2> QED BY <1>3, <2>2, <2>3 DEF CallOrder
<1>7. AtExecute'
  BY <1>1, <1>2 DEF BatchInv, AtPrepare, AtExecute, Settled
<1>8. BatchInv'
  BY <1>1, <1>6, <1>7 DEF BatchInv, AtPrepare, AtPreflight, AtResult
<1>9. Sent' = Sent
  BY <1>1, <1>2 DEF Sent
<1> QED BY <1>1, <1>8, <1>9, BatchContext DEF InBatch

LEMMA RequestToolEnd ==
  ASSUME TypeInv, BatchInv, ContextInv, NEW i \in CallIndex, ToolEnd(i)
  PROVE  BatchInv' /\ ContextInv' /\ InputInv'
<1> USE DEF TypeInv, TypeOK
<1>1. /\ pc = "execute" /\ callState[i] = "running"
      /\ callState' = [callState EXCEPT ![i] = "ended"]
      /\ UNCHANGED <<messages, context, turn, calls, batchMode, pc>>
  BY DEF ToolEnd, ExecutionEnds, loop
<1>2. callState \in [CallIndex -> CallState] /\ calls \in 0 .. MaxCalls
  BY DEF BatchType
<1>3. \A j \in CallIndex : (callState'[j] = "waiting" <=> callState[j] = "waiting")
  BY <1>1, <1>2
<1>4. CallOrder'
  <2>1. calls > 0 /\ callState[1] # "waiting" /\ 1 \in CallIndex
    BY <1>1, <1>2, BoundsAssumption DEF BatchInv, CallOrder, InBatch, CallIndex
  <2> QED BY <1>1, <1>2, <1>3, <2>1 DEF BatchInv, CallOrder, InBatch, CallIndex
<1>5. AtExecute'
  <2>1. CASE batchMode = "parallel"
    BY <1>1, <1>2, <2>1 DEF BatchInv, AtExecute
  <2>2. CASE batchMode # "parallel"
    <3>1. PICK k \in CallIndex : callState[k] \in {"running", "ended"} /\ AllBut(k, Settled)
      BY <1>1, <2>2 DEF BatchInv, AtExecute
    <3>2. batchMode = "sequential"
      BY <2>2 DEF BatchType
    <3>3. k = i
      BY <1>1, <3>1, <3>2 DEF AllBut, Settled
    <3> QED BY <1>1, <1>2, <2>2, <3>1, <3>3 DEF AtExecute, AllBut, Settled
  <2> QED BY <2>1, <2>2
<1>6. BatchInv'
  BY <1>1, <1>4, <1>5 DEF BatchInv, AtPrepare, AtPreflight, AtResult
<1>7. Sent' = Sent
  BY <1>1, <1>2 DEF Sent
<1> QED BY <1>1, <1>6, <1>7, BatchContext DEF InBatch
(* The result to send is that of the first call without one: every call    *)
(* before it has been started, has ended, and has had its result sent.     *)
LEMMA RequestResultStart ==
  ASSUME TypeInv, BatchInv, ContextInv, NEW i \in CallIndex, ResultStart(i)
  PROVE  BatchInv' /\ ContextInv' /\ InputInv'
<1> USE DEF TypeInv, TypeOK
<1>1. /\ pc = "execute" /\ pc' = "resultShown" /\ streamingMessage' = ToolResult(turn, i)
      /\ callState[i] = "ended" /\ Running = {} /\ \A j \in 1 .. i - 1 : callState[j] # "ended"
      /\ UNCHANGED <<messages, context, turn, calls, batchMode, callState>>
  BY DEF ResultStart, NextResult, loop, batch
<1>2. callState \in [CallIndex -> CallState] /\ calls \in 0 .. MaxCalls
  BY DEF BatchType
<1>3. CallOrder' /\ AtExecute'
  BY <1>1 DEF BatchInv, CallOrder, AtExecute, InBatch, Settled, AllBut
<1>4. ASSUME NEW j \in 1 .. i - 1 PROVE callState[j] = "sent"
  <2>1. j \in CallIndex /\ j # i /\ callState[j] # "ended"
    BY <1>1, <1>4, BoundsAssumption DEF CallIndex
  <2>2. callState[j] # "waiting"
    BY <1>1, <1>4 DEF BatchInv, CallOrder, InBatch
  <2>3. callState[j] # "running"
    BY <1>1, <2>1 DEF Running
  <2>4. CASE batchMode = "parallel"
    BY <1>1, <2>1, <2>2, <2>3, <2>4 DEF BatchInv, AtExecute
  <2>5. CASE batchMode # "parallel"
    <3>1. PICK k \in CallIndex : callState[k] \in {"running", "ended"} /\ AllBut(k, Settled)
      BY <1>1, <2>5 DEF BatchInv, AtExecute
    <3>2. batchMode = "sequential"
      BY <2>5 DEF BatchType
    <3>3. k = i
      BY <1>1, <3>1, <3>2 DEF AllBut, Settled
    <3> QED BY <2>1, <2>2, <3>1, <3>2, <3>3 DEF AllBut, Settled
  <2> QED BY <2>4, <2>5
<1>5. AtResult'
  <2>1. ToolResult(turn, i).call = i
    BY DEF ToolResult
  <2> QED BY <1>1, <1>4, <2>1 DEF AtResult, ToolResult
<1>6. BatchInv'
  BY <1>1, <1>3, <1>5 DEF BatchInv, AtPrepare, AtPreflight
<1>7. Sent' = Sent
  BY <1>1 DEF Sent
<1> QED BY <1>1, <1>6, <1>7, BatchContext DEF InBatch

(* Sending it adds the next result to the transcript. *)
LEMMA RequestResultEnd ==
  ASSUME TypeInv, BatchInv, ContextInv, ResultEnd
  PROVE  BatchInv' /\ ContextInv' /\ InputInv'
<1> USE DEF TypeInv, TypeOK
<1> DEFINE i == streamingMessage.call
<1>1. /\ pc = "resultShown" /\ pc' = IF batchMode = "parallel" THEN "execute" ELSE "prepare"
      /\ messages' = Append(messages, streamingMessage)
      /\ callState' = [callState EXCEPT ![i] = "sent"]
      /\ UNCHANGED <<context, turn, calls, batchMode>>
  BY DEF ResultEnd, loop
<1>2. callState \in [CallIndex -> CallState] /\ calls \in 0 .. MaxCalls
  BY DEF BatchType
<1>3. i \in CallIndex
  BY <1>1 DEF ShownInv, ToolResultMessage
<1>4. /\ streamingMessage = ToolResult(turn, i) /\ callState[i] = "ended"
      /\ \A j \in 1 .. i - 1 : callState[j] = "sent"
  BY <1>1 DEF BatchInv, AtResult
<1> HIDE DEF i
<1>5. \A j \in CallIndex : (callState'[j] = "waiting" <=> callState[j] = "waiting")
  BY <1>1, <1>2, <1>3, <1>4
<1>6. CallOrder'
  <2>1. \A j \in CallIndex : callState[j] # "waiting" =>
          j <= calls /\ \A k \in 1 .. j - 1 : k \in CallIndex /\ callState[k] # "waiting"
    BY <1>1, BoundsAssumption DEF BatchInv, CallOrder, InBatch, CallIndex
  <2>2. \A j \in CallIndex : callState'[j] # "waiting" =>
          j <= calls /\ \A k \in 1 .. j - 1 : callState'[k] # "waiting"
    BY <1>5, <2>1
  <2>3. calls > 0 /\ callState[1] # "waiting" /\ 1 \in CallIndex
    BY <1>1, <1>2, BoundsAssumption DEF BatchInv, CallOrder, InBatch, CallIndex
  <2>4. callState'[1] # "waiting" /\ calls' = calls
    BY <1>1, <1>5, <2>3
  <2> QED BY <2>2, <2>3, <2>4 DEF CallOrder
<1>7. AtPrepare' /\ AtExecute'
  <2>1. CASE batchMode = "parallel"
    BY <1>1, <1>2, <1>3, <2>1 DEF BatchInv, AtPrepare, AtExecute
  <2>2. CASE batchMode # "parallel"
    <3>1. PICK k \in CallIndex : callState[k] \in {"running", "ended"} /\ AllBut(k, Settled)
      BY <1>1, <2>2 DEF BatchInv, AtExecute
    <3>2. batchMode = "sequential"
      BY <2>2 DEF BatchType
    <3>3. k = i
      BY <1>3, <1>4, <3>1, <3>2 DEF AllBut, Settled
    <3> QED BY <1>1, <1>2, <1>3, <3>1, <3>2, <3>3 DEF AtPrepare, AtExecute, AllBut, Settled
  <2> QED BY <2>1, <2>2
<1>8. BatchInv'
  BY <1>1, <1>6, <1>7 DEF BatchInv, AtPreflight, AtResult
<1>9. ContextInv'
  <2>1. PICK k \in 0 .. calls : Sent = 1 .. k /\ messages = context \o Results(k)
    BY <1>1 DEF ContextInv, InBatch
  <2>2. i = k + 1
    <3>1. i \notin 1 .. k /\ \A j \in 1 .. i - 1 : j \in 1 .. k
      <4>1. i \notin Sent
        BY <1>4 DEF Sent
      <4>2. \A j \in 1 .. i - 1 : j \in CallIndex
        BY <1>3, BoundsAssumption DEF CallIndex
      <4>3. \A j \in 1 .. i - 1 : j \in Sent
        BY <1>4, <4>2 DEF Sent
      <4> QED BY <2>1, <4>1, <4>3
    <3> QED BY <1>2, <1>3, <3>1, BoundsAssumption DEF CallIndex
  <2>3. i <= calls
    BY <1>1, <1>3, <1>4 DEF BatchInv, CallOrder, InBatch
  <2>4. k \in 0 .. MaxCalls /\ k + 1 \in 0 .. MaxCalls /\ k + 1 \in 0 .. calls
    BY <1>2, <2>2, <2>3, BoundsAssumption
  <2>5. messages' = context \o Results(k + 1)
    BY <1>1, <1>4, <2>1, <2>2, <2>4, NextResults DEF LoopType
  <2>6. Sent' = 1 .. k + 1
    <3>1. Sent' = Sent \union {i}
      BY <1>1, <1>2, <1>3 DEF Sent
    <3> QED BY <2>1, <2>2, <2>4, <3>1
  <2>7. Results(k + 1)' = Results(k + 1)
    BY <1>1 DEF Results, ToolResult
  <2>8. /\ InBatch' /\ calls' = calls /\ context' = context
        /\ pc' \notin {"prompts", "promptShown", "inner", "innerShown", "answered", "poll",
                       "followUp", "streaming"}
    BY <1>1 DEF InBatch
  <2>9. \E n \in 0 .. calls' : Sent' = 1 .. n /\ messages' = context' \o Results(n)'
    BY <2>4, <2>5, <2>6, <2>7, <2>8
  <2> QED BY <2>8, <2>9 DEF ContextInv
<1>10. InputInv'
  BY <1>1 DEF InputInv
<1> QED BY <1>8, <1>9, <1>10

(* Whatever happened to the batch, its first call has a result.            *)
LEMMA RequestFinishBatch ==
  ASSUME TypeInv, BatchInv, ContextInv, FinishBatch
  PROVE  BatchInv' /\ ContextInv' /\ InputInv'
<1> USE DEF TypeInv, TypeOK
<1>1. /\ \/ pc = "prepare" /\ batchMode = "sequential" /\ StopPreparing
         \/ /\ pc = "execute" /\ batchMode = "parallel"
            /\ \A i \in Batch : callState[i] \notin {"running", "ended"}
      /\ context' = context \o [i \in 1 .. Cardinality(Finalized) |-> ToolResult(turn, i)]
      /\ pc' = "poll" /\ UNCHANGED messages
  BY DEF FinishBatch, state
<1>2. callState \in [CallIndex -> CallState] /\ calls \in 0 .. MaxCalls
  BY DEF BatchType
<1>3. calls > 0 /\ 1 \in CallIndex /\ 1 \in Batch
  BY <1>1, <1>2, BoundsAssumption DEF BatchInv, CallOrder, InBatch, CallIndex, Batch
<1>4. callState[1] = "sent"
  <2>1. CASE pc = "prepare"
    <3>1. callState[1] # "waiting"
      BY <1>1, <1>3, <2>1 DEF StopPreparing, Untouched
    <3>2. batchMode = "sequential" /\ callState[1] \in Settled
      BY <1>1, <1>3, <2>1 DEF BatchInv, AtPrepare
    <3> QED BY <3>1, <3>2 DEF Settled
  <2>2. CASE pc = "execute"
    BY <1>1, <1>3, <2>2 DEF BatchInv, AtExecute, CallOrder, InBatch
  <2> QED BY <1>1, <2>1, <2>2
<1>5. PICK k \in 0 .. calls : Sent = 1 .. k /\ messages = context \o Results(k)
  BY <1>1 DEF ContextInv, InBatch
<1>6. k \in 1 .. MaxCalls /\ k \in Nat
  <2>1. 1 \in 1 .. k
    BY <1>3, <1>4, <1>5 DEF Sent
  <2> QED BY <1>2, <2>1, BoundsAssumption
<1>7. Cardinality(Finalized) = k
  <2>1. Finalized = 1 .. k
    <3>1. Finalized = Sent \intersect Batch
      BY <1>2, BoundsAssumption DEF Finalized, Sent, Batch, CallIndex
    <3> QED BY <1>2, <1>5, <1>6, <3>1 DEF Batch
  <2> QED BY <1>6, <2>1, FS_Interval
<1>8. context' = messages'
  BY <1>1, <1>5, <1>7 DEF Results
<1>9. EndsWithInput'
  <2>1. messages # <<>> /\ Last(messages) = ToolResult(turn, k)
    BY <1>5, <1>6, LastOfResults DEF LoopType
  <2> QED BY <1>1, <2>1 DEF EndsWithInput, ToolResult
<1>10. ContextInv' /\ InputInv'
  BY <1>1, <1>8, <1>9 DEF ContextInv, InputInv, InBatch
<1> QED BY <1>1, <1>10, NoBatch

-----------------------------------------------------------------------------
RequestInv == TypeInv /\ BatchInv /\ ContextInv /\ InputInv

LEMMA RequestInit == Init => RequestInv
<1> SUFFICES ASSUME Init PROVE RequestInv
  OBVIOUS
<1>1. pc = "idle"
  BY DEF Init
<1> QED BY <1>1, TypeInit
        DEF RequestInv, BatchInv, CallOrder, AtPrepare, AtPreflight, AtExecute, AtResult,
            ContextInv, InputInv, InBatch

LEMMA RequestNext == RequestInv /\ [Next]_vars => RequestInv'
<1> SUFFICES ASSUME RequestInv, [Next]_vars PROVE BatchInv' /\ ContextInv' /\ InputInv'
  BY TypeNext DEF RequestInv
<1> USE DEF RequestInv
<1>1. CASE Caller
  <2>1. CASE Prompt \/ ContinueWithSteering \/ ContinueWithFollowUp \/ ContinueTranscript
    BY <2>1, RequestStartRun
  <2>2. CASE Steer \/ FollowUp \/ ClearSteeringQueue \/ ClearFollowUpQueue \/ Abort
    BY <2>2, OtherStep
       DEF Steer, FollowUp, ClearSteeringQueue, ClearFollowUpQueue, Abort, state, loop, batch
  <2>3. CASE Reset \/ OwnerAppends \/ OwnerDropsError
    <3>1. pc = "idle"
      BY <2>3 DEF Reset, OwnerAppends, OwnerDropsError, TypeInv, RunInv
    <3>2. pc' = pc
      BY <2>3 DEF Reset, OwnerAppends, OwnerDropsError
    <3> QED BY <3>1, <3>2, QuietStep
  <2> QED BY <1>1, <2>1, <2>2, <2>3 DEF Caller
<1>2. CASE LoopStep
  <2>1. CASE InjectStart \/ InjectEnd
    BY <2>1, RequestInject
  <2>2. CASE InitialPoll \/ SteeringPoll \/ FollowUpPoll
    BY <2>2, RequestPoll
  <2>3. CASE StreamStart \/ StreamEnd \/ TurnWithoutTools
    BY <2>3, RequestStream
  <2>4. CASE StartBatch \/ Launch \/ ResultEnd \/ FinishBatch
    BY <2>4, RequestStartBatch, RequestLaunch, RequestResultEnd, RequestFinishBatch
  <2>5. CASE \E i \in CallIndex : CallStart(i) \/ PreparedImmediate(i) \/ Prepared(i) \/ ResultStart(i)
    BY <2>5, RequestCallStart, RequestPrepared, RequestResultStart
  <2>6. CASE AnswerFailed \/ FailureEnd \/ FailureAgentEnd \/ FinishRun
    BY <2>6, QuietStep DEF AnswerFailed, FailureEnd, FailureAgentEnd, FinishRun
  <2> QED BY <1>2, <2>1, <2>2, <2>3, <2>4, <2>5, <2>6 DEF LoopStep
<1>3. CASE ToolStep
  BY <1>3, RequestToolEnd DEF ToolStep
<1>4. CASE Failure
  BY <1>4, QuietStep DEF Failure, Throw, ToolThrow, ReportFailure
<1>5. CASE \E o \in orphans : OrphanEnd(o)
  BY <1>5, OtherStep DEF OrphanEnd, loop, batch
<1>6. CASE UNCHANGED vars
  BY <1>6, OtherStep DEF vars, state, loop, batch
<1> QED BY <1>1, <1>2, <1>3, <1>4, <1>5, <1>6 DEF Next

LEMMA RequestInvariance == Spec => []RequestInv
BY RequestInit, RequestNext, PTL DEF Spec

(* What the provider is sent is the transcript: the loop's own copy of it  *)
(* never misses a prompt, a queued message, an answer or a tool result.    *)
THEOREM ContextIsTranscript == Spec => []RequestSeesTranscript
<1>1. RequestInv => RequestSeesTranscript
  BY DEF RequestInv, ContextInv, RequestSeesTranscript
<1> QED BY <1>1, RequestInvariance, PTL

(* No request is made with an assistant message last in the transcript.    *)
THEOREM RequestsAnswerInput == Spec => []RequestEndsWithInput
<1>1. RequestInv => RequestEndsWithInput
  BY DEF RequestInv, InputInv, RequestEndsWithInput
<1> QED BY <1>1, RequestInvariance, PTL

-----------------------------------------------------------------------------
(***************************************************************************)
(* What becomes of tool calls, for every value of AgentRun's constants:    *)
(* results follow the answer that asked for them, in order, and none is    *)
(* missing unless the run was aborted or failed in that turn.              *)
(***************************************************************************)

IsAnswer(m) == m.role = "assistant" /\ m.stop = "ok"

(* The loop is busy with an answer. *)
Answering == pc \in {"answered", "prepare", "preflight", "execute", "resultShown"}

(* Answers are numbered by their turns, and the one the loop is busy with  *)
(* is the last message of its context.                                     *)
AnswerInv ==
  /\ \A p \in DOMAIN messages : IsAnswer(messages[p]) => messages[p].turn <= turn
  /\ pc = "streaming" => \A p \in DOMAIN messages : IsAnswer(messages[p]) => messages[p].turn # turn
  /\ Answering =>
       /\ context # <<>> /\ Last(context) = Assistant(turn, calls, "ok")
       /\ \A p \in DOMAIN messages :
            IsAnswer(messages[p]) /\ messages[p].turn = turn => p = Len(context)

(* An answer that is complete although the run was aborted was aborted in  *)
(* its own turn.                                                           *)
InterruptInv ==
  /\ pc = "streaming" /\ aborted /\ afterAbort = 0 => turn \in interrupted
  /\ Answering /\ aborted => turn \in interrupted

(* A call is left out of a launched batch only when the run was aborted.   *)
LaunchInv ==
  pc \in {"execute", "resultShown"} /\ batchMode = "parallel" =>
    aborted \/ \A i \in Batch : callState[i] # "waiting"

(* What a failing run shows is not an answer.                              *)
FailInv == pc = "failShown" => streamingMessage.role = "assistant" /\ streamingMessage.stop # "ok"

-----------------------------------------------------------------------------
(* Transcripts. *)
ResultAt(s, p) ==
  LET q == p - s[p].call IN
    /\ q \in DOMAIN s
    /\ s[q].role = "assistant" /\ s[q].stop = "ok"
    /\ s[q].turn = s[p].turn
    /\ s[p].call <= s[q].calls
    /\ \A i \in 1 .. s[p].call : s[q + i] = ToolResult(s[q].turn, i)
Followed(s) == \A p \in DOMAIN s : s[p].role = "toolResult" => ResultAt(s, p)
AnsweredAt(s, p) ==
  \A i \in 1 .. s[p].calls : p + i \in DOMAIN s /\ s[p + i] = ToolResult(s[p].turn, i)

LEMMA CallOf ==
  ASSUME NEW m \in AgentMessage, m.role = "toolResult"
  PROVE  m.call \in Nat \ {0} /\ m \in ToolResultMessage
<1>1. m \in ToolResultMessage
  BY DEF AgentMessage, UserMessage, AssistantMessage, ToolResultMessage
<1> QED BY <1>1, BoundsAssumption DEF ToolResultMessage, CallIndex

LEMMA CallsOf ==
  ASSUME NEW m \in AgentMessage, m.role = "assistant"
  PROVE  m.calls \in Nat /\ m.turn \in Nat
<1>1. m \in AssistantMessage
  BY DEF AgentMessage, UserMessage, AssistantMessage, ToolResultMessage
<1> QED BY <1>1, BoundsAssumption DEF AssistantMessage

(* What a prefix of the transcript says, the transcript says.              *)
LEMMA PrefixKeeps ==
  ASSUME NEW s \in Seq(AgentMessage), NEW t \in Seq(AgentMessage), Len(s) <= Len(t),
         \A i \in DOMAIN s : t[i] = s[i],
         NEW p \in DOMAIN s
  PROVE  /\ s[p].role = "toolResult" /\ ResultAt(s, p) => ResultAt(t, p)
         /\ s[p].role = "assistant" /\ AnsweredAt(s, p) => AnsweredAt(t, p)
<1>1. /\ Len(s) \in Nat /\ DOMAIN s = 1 .. Len(s) /\ s[p] \in AgentMessage
      /\ Len(t) \in Nat /\ DOMAIN t = 1 .. Len(t)
  BY LenProperties, ElementOfSeq
<1>2. t[p] = s[p]
  OBVIOUS
<1>3. ASSUME s[p].role = "toolResult", ResultAt(s, p) PROVE ResultAt(t, p)
  <2> DEFINE q == p - s[p].call
  <2>1. s[p].call \in Nat \ {0}
    BY <1>1, <1>3, CallOf
  <2>2. q \in DOMAIN s /\ q \in DOMAIN t /\ t[q] = s[q]
    BY <1>1, <1>3 DEF ResultAt
  <2>3. \A i \in 1 .. s[p].call : q + i \in DOMAIN s
    BY <1>1, <2>1, <2>2
  <2> QED BY <1>2, <1>3, <2>2, <2>3 DEF ResultAt
<1>4. ASSUME s[p].role = "assistant", AnsweredAt(s, p) PROVE AnsweredAt(t, p)
  <2>1. DOMAIN s \subseteq DOMAIN t
    BY <1>1
  <2> QED BY <1>2, <1>4, <2>1 DEF AnsweredAt
<1> QED BY <1>3, <1>4

LEMMA Appended ==
  ASSUME NEW s \in Seq(AgentMessage), NEW m \in AgentMessage
  PROVE  /\ Append(s, m) \in Seq(AgentMessage) /\ Len(s) <= Len(Append(s, m))
         /\ \A i \in DOMAIN s : Append(s, m)[i] = s[i]
         /\ DOMAIN Append(s, m) = DOMAIN s \union {Len(s) + 1} /\ Append(s, m)[Len(s) + 1] = m
         /\ Len(s) + 1 \notin DOMAIN s
<1>1. Len(s) \in Nat /\ DOMAIN s = 1 .. Len(s)
  BY LenProperties
<1>2. /\ Append(s, m) \in Seq(AgentMessage) /\ Len(Append(s, m)) = Len(s) + 1
      /\ \A i \in 1 .. Len(s) : Append(s, m)[i] = s[i]
      /\ Append(s, m)[Len(s) + 1] = m
  BY AppendProperties
<1>3. DOMAIN Append(s, m) = 1 .. Len(s) + 1
  BY <1>2, LenProperties
<1> QED BY <1>1, <1>2, <1>3

LEMMA FollowedOther ==
  ASSUME NEW s \in Seq(AgentMessage), Followed(s), NEW m \in AgentMessage, m.role # "toolResult"
  PROVE  Followed(Append(s, m))
<1> DEFINE t == Append(s, m)
<1>1. /\ t \in Seq(AgentMessage) /\ Len(s) <= Len(t) /\ \A i \in DOMAIN s : t[i] = s[i]
      /\ DOMAIN t = DOMAIN s \union {Len(s) + 1} /\ t[Len(s) + 1] = m
  BY Appended
<1> HIDE DEF t
<1>2. SUFFICES ASSUME NEW p \in DOMAIN t, t[p].role = "toolResult" PROVE ResultAt(t, p)
  BY DEF Followed, t
<1>3. p \in DOMAIN s /\ s[p].role = "toolResult"
  BY <1>1, <1>2
<1> QED BY <1>1, <1>3, PrefixKeeps DEF Followed

(* The next result of the answer at the end of a context.                  *)
LEMMA ContextOfAnswer ==
  ASSUME turn \in Nat, NEW c \in Seq(AgentMessage), c # <<>>, NEW k \in 0 .. MaxCalls
  PROVE  LET s == c \o Results(k) IN
         /\ s \in Seq(AgentMessage) /\ Len(s) = Len(c) + k
         /\ Len(c) \in DOMAIN s /\ Len(c) \in Nat \ {0}
         /\ s[Len(c)] = Last(c)
         /\ \A i \in 1 .. k : Len(c) + i \in DOMAIN s /\ s[Len(c) + i] = ToolResult(turn, i)
<1> DEFINE s == c \o Results(k)
<1>1. Len(c) \in Nat \ {0} /\ k \in Nat
  BY EmptySeq, BoundsAssumption
<1>2. /\ s \in Seq(AgentMessage) /\ Len(s) = Len(c) + k
      /\ \A i \in 1 .. Len(c) + k :
           s[i] = IF i <= Len(c) THEN c[i] ELSE ToolResult(turn, i - Len(c))
  BY ConcatResults
<1> HIDE DEF s
<1>3. DOMAIN s = 1 .. Len(c) + k
  BY <1>2, LenProperties
<1>4. Len(c) \in 1 .. Len(c) + k
  BY <1>1
<1>5. s[Len(c)] = Last(c)
  BY <1>1, <1>2, <1>4 DEF Last
<1>6. ASSUME NEW i \in 1 .. k
      PROVE  Len(c) + i \in DOMAIN s /\ s[Len(c) + i] = ToolResult(turn, i)
  <2> DEFINE j == Len(c) + i
  <2>1. j \in 1 .. Len(c) + k /\ ~(j <= Len(c)) /\ j - Len(c) = i
    BY <1>1
  <2> HIDE DEF j
  <2>2. s[j] = ToolResult(turn, j - Len(c))
    BY <1>2, <2>1
  <2> QED BY <1>3, <2>1, <2>2 DEF j
<1> QED BY <1>1, <1>2, <1>3, <1>4, <1>5, <1>6 DEF s

LEMMA FollowedResult ==
  ASSUME turn \in Nat, NEW c \in Seq(AgentMessage), c # <<>>, NEW n \in 0 .. MaxCalls,
         Last(c) = Assistant(turn, n, "ok"), NEW k \in 0 .. MaxCalls, k + 1 <= n,
         NEW s, s = c \o Results(k), Followed(s)
  PROVE  Followed(Append(s, ToolResult(turn, k + 1)))
<1> DEFINE m == ToolResult(turn, k + 1)
           t == Append(s, m)
           q == Len(c)
<1>1. k + 1 \in 0 .. MaxCalls /\ k \in Nat /\ k + 1 \in CallIndex /\ n \in Nat
  BY BoundsAssumption DEF CallIndex
<1>2. m \in AgentMessage
  BY <1>1, MessageTypes DEF AgentMessage
<1>3. t = c \o Results(k + 1)
  BY <1>1, NextResults
<1>4. /\ t \in Seq(AgentMessage) /\ Len(t) = Len(c) + (k + 1)
      /\ q \in DOMAIN t /\ q \in Nat \ {0} /\ t[q] = Assistant(turn, n, "ok")
      /\ \A i \in 1 .. k + 1 : t[q + i] = ToolResult(turn, i)
  <2> DEFINE l == k + 1
  <2>1. l \in 0 .. MaxCalls /\ t = c \o Results(l)
    BY <1>1, <1>3
  <2> HIDE DEF t, l
  <2>2. /\ t \in Seq(AgentMessage) /\ Len(t) = Len(c) + l
        /\ Len(c) \in DOMAIN t /\ Len(c) \in Nat \ {0} /\ t[Len(c)] = Assistant(turn, n, "ok")
        /\ \A i \in 1 .. l : t[Len(c) + i] = ToolResult(turn, i)
    BY <2>1, ContextOfAnswer
  <2> QED BY <2>2 DEF l
<1>5. s \in Seq(AgentMessage) /\ Len(s) = q + k
  BY ContextOfAnswer
<1>6. /\ Len(s) <= Len(t) /\ \A i \in DOMAIN s : t[i] = s[i]
      /\ DOMAIN t = DOMAIN s \union {Len(s) + 1} /\ t[Len(s) + 1] = m
  BY <1>2, <1>5, Appended
<1> HIDE DEF t
<1>7. SUFFICES ASSUME NEW p \in DOMAIN t, t[p].role = "toolResult" PROVE ResultAt(t, p)
  BY DEF Followed, t
<1>8. CASE p \in DOMAIN s
  BY <1>4, <1>5, <1>6, <1>7, <1>8, PrefixKeeps DEF Followed
<1>9. CASE p = Len(s) + 1
  <2>1. t[p].call = k + 1 /\ t[p].turn = turn
    BY <1>6, <1>9 DEF ToolResult
  <2>2. p - t[p].call = q
    <3>1. q \in Nat /\ k \in Nat
      BY <1>1, <1>4
    <3>2. p = q + k + 1
      BY <1>5, <1>9
    <3> HIDE DEF q
    <3>3. p - (k + 1) = q
      BY <3>1, <3>2
    <3> QED BY <2>1, <3>3
  <2>3. /\ t[q].role = "assistant" /\ t[q].stop = "ok" /\ t[q].turn = turn /\ t[q].calls = n
    BY <1>4 DEF Assistant
  <2> HIDE DEF q
  <2> QED BY <1>4, <2>1, <2>2, <2>3 DEF ResultAt
<1> QED BY <1>6, <1>7, <1>8, <1>9

LEMMA AnsweredByResults ==
  ASSUME turn \in Nat, NEW c \in Seq(AgentMessage), c # <<>>, NEW n \in 0 .. MaxCalls,
         Last(c) = Assistant(turn, n, "ok"), NEW s, s = c \o Results(n)
  PROVE  AnsweredAt(s, Len(c))
<1>1. /\ s[Len(c)] = Assistant(turn, n, "ok")
      /\ \A i \in 1 .. n : Len(c) + i \in DOMAIN s /\ s[Len(c) + i] = ToolResult(turn, i)
  <2>1. PICK k \in 0 .. MaxCalls : k = n
    OBVIOUS
  <2> DEFINE t == c \o Results(k)
  <2>2. /\ t[Len(c)] = Last(c)
        /\ \A i \in 1 .. k : Len(c) + i \in DOMAIN t /\ t[Len(c) + i] = ToolResult(turn, i)
    BY ContextOfAnswer
  <2>3. t = s
    BY <2>1
  <2> HIDE DEF t
  <2> QED BY <2>1, <2>2, <2>3
<1> QED BY <1>1 DEF AnsweredAt, Assistant

(* An assistant message at the end may be dropped. *)
LEMMA FrontKeeps ==
  ASSUME NEW s \in Seq(AgentMessage), s # <<>>, Last(s).role = "assistant"
  PROVE  /\ Front(s) \in Seq(AgentMessage) /\ DOMAIN Front(s) \subseteq DOMAIN s
         /\ \A p \in DOMAIN Front(s) : Front(s)[p] = s[p]
         /\ Followed(s) => Followed(Front(s))
         /\ \A p \in DOMAIN Front(s) :
              s[p].role = "assistant" /\ AnsweredAt(s, p) => AnsweredAt(Front(s), p)
<1> DEFINE f == Front(s)
<1>1. Len(s) \in Nat \ {0} /\ DOMAIN s = 1 .. Len(s)
  BY EmptySeq, LenProperties
<1>2. /\ f \in Seq(AgentMessage) /\ DOMAIN f = 1 .. Len(s) - 1
      /\ \A i \in 1 .. Len(s) - 1 : f[i] = s[i]
  <2>1. 1 \in Int /\ Len(s) - 1 \in Int /\ \A i \in 1 .. Len(s) - 1 : s[i] \in AgentMessage
    BY <1>1, ElementOfSeq
  <2>2. /\ f \in Seq(AgentMessage)
        /\ Len(f) = IF 1 <= Len(s) - 1 THEN Len(s) - 1 - 1 + 1 ELSE 0
        /\ \A i \in 1 .. Len(s) - 1 - 1 + 1 : f[i] = s[1 + i - 1]
    BY <2>1, SubSeqProperties DEF Front
  <2> HIDE DEF f
  <2>3. \A i \in 1 .. Len(s) - 1 : f[i] = s[i]
    <3> SUFFICES ASSUME NEW i \in 1 .. Len(s) - 1 PROVE f[i] = s[i]
      OBVIOUS
    <3>1. i \in 1 .. Len(s) - 1 - 1 + 1 /\ 1 + i - 1 = i
      BY <1>1
    <3> QED BY <2>2, <3>1
  <2>4. DOMAIN f = 1 .. Len(s) - 1
    <3>1. \A l \in Nat \ {0} : (IF 1 <= l - 1 THEN l - 1 - 1 + 1 ELSE 0) = l - 1
      OBVIOUS
    <3> QED BY <1>1, <2>2, <3>1, LenProperties
  <2> QED BY <2>2, <2>3, <2>4
<1> HIDE DEF f
<1>3. DOMAIN f \subseteq DOMAIN s /\ \A p \in DOMAIN f : f[p] = s[p]
  BY <1>1, <1>2
<1>4. Followed(s) => Followed(f)
  <2> SUFFICES ASSUME Followed(s), NEW p \in DOMAIN f, f[p].role = "toolResult"
               PROVE  ResultAt(f, p)
    BY DEF Followed
  <2>1. f[p] = s[p] /\ p \in DOMAIN s /\ ResultAt(s, p)
    BY <1>3 DEF Followed
  <2>2. s[p].call \in Nat \ {0}
    BY <1>1, <2>1, CallOf, ElementOfSeq
  <2>3. p - s[p].call \in DOMAIN s
    BY <2>1 DEF ResultAt
  <2>4. p - s[p].call \in DOMAIN f /\ \A i \in 1 .. s[p].call : p - s[p].call + i \in DOMAIN f
    <3> DEFINE l == Len(s)
               c == s[p].call
    <3>1. l \in Nat \ {0} /\ c \in Nat \ {0} /\ p \in 1 .. l - 1 /\ p - c \in 1 .. l
      BY <1>1, <1>2, <2>2, <2>3
    <3>2. DOMAIN f = 1 .. l - 1
      BY <1>2
    <3> HIDE DEF l, c
    <3>3. p - c \in 1 .. l - 1 /\ \A i \in 1 .. c : p - c + i \in 1 .. l - 1
      BY <3>1
    <3> QED BY <3>2, <3>3 DEF c
  <2> QED BY <1>3, <2>1, <2>4 DEF ResultAt
<1>5. ASSUME NEW p \in DOMAIN f, s[p].role = "assistant", AnsweredAt(s, p)
      PROVE  AnsweredAt(f, p)
  <2>1. f[p] = s[p]
    BY <1>3
  <2>2. ASSUME NEW i \in 1 .. s[p].calls
        PROVE  p + i \in DOMAIN f /\ f[p + i] = ToolResult(s[p].turn, i)
    <3>1. p + i \in DOMAIN s /\ s[p + i] = ToolResult(s[p].turn, i)
      BY <1>5 DEF AnsweredAt
    <3>2. p + i # Len(s)
      BY <3>1 DEF Last, ToolResult
    <3>3. p + i \in DOMAIN f
      BY <1>1, <1>2, <3>1, <3>2
    <3> QED BY <1>3, <3>1, <3>3
  <2> QED BY <2>1, <2>2 DEF AnsweredAt
<1> QED BY <1>2, <1>3, <1>4, <1>5 DEF f
-----------------------------------------------------------------------------
Handled(p) ==
  \/ AnsweredAt(messages, p)
  \/ messages[p].turn \in interrupted
  \/ messages[p].turn = turn /\ Answering
AnswersHandled == \A p \in DOMAIN messages : IsAnswer(messages[p]) => Handled(p)
TranscriptInv == AnswerInv /\ InterruptInv /\ Followed(messages) /\ AnswersHandled

(* A step that leaves the transcript alone leaves no turn unless its       *)
(* answer is handled.                                                      *)
LEMMA KeepTranscript ==
  ASSUME TranscriptInv, UNCHANGED <<messages, turn>>, interrupted \subseteq interrupted',
         pc' = "streaming" => pc = "streaming" /\ afterAbort' = afterAbort,
         Answering' => Answering /\ UNCHANGED <<context, calls>>,
         aborted' => aborted \/ turn \in interrupted',
         \/ Answering => Answering' \/ turn \in interrupted'
         \/ \A p \in DOMAIN messages :
              IsAnswer(messages[p]) /\ messages[p].turn = turn => AnsweredAt(messages, p)
  PROVE  TranscriptInv'
<1>1. AnswerInv'
  BY DEF TranscriptInv, AnswerInv, IsAnswer
<1>2. InterruptInv'
  BY DEF TranscriptInv, InterruptInv
<1>3. Followed(messages)'
  BY DEF TranscriptInv
<1>4. AnswersHandled'
  <2> SUFFICES ASSUME NEW p \in DOMAIN messages, IsAnswer(messages[p]) PROVE Handled(p)'
    BY DEF AnswersHandled, IsAnswer
  <2>1. Handled(p)
    BY DEF TranscriptInv, AnswersHandled
  <2> QED BY <2>1 DEF Handled
<1> QED BY <1>1, <1>2, <1>3, <1>4 DEF TranscriptInv

(* Neither does a message that is no answer and no result.                 *)
LEMMA AppendOther ==
  ASSUME TypeInv, TranscriptInv, NEW m \in AgentMessage, ~IsAnswer(m), m.role # "toolResult",
         messages' = Append(messages, m), turn' = turn, interrupted \subseteq interrupted',
         ~Answering, ~Answering', pc' # "streaming"
  PROVE  TranscriptInv'
<1>0. messages \in Seq(AgentMessage)
  BY DEF TypeInv, TypeOK, StateType
<1>1. /\ messages' \in Seq(AgentMessage) /\ Len(messages) <= Len(messages')
      /\ \A i \in DOMAIN messages : messages'[i] = messages[i]
      /\ DOMAIN messages' = DOMAIN messages \union {Len(messages) + 1}
      /\ messages'[Len(messages) + 1] = m
  BY <1>0, Appended
<1>2. AnswerInv'
  BY <1>1 DEF TranscriptInv, AnswerInv, IsAnswer
<1>3. InterruptInv'
  BY DEF InterruptInv
<1>4. Followed(messages)'
  BY <1>0, FollowedOther DEF TranscriptInv
<1>5. AnswersHandled'
  <2> SUFFICES ASSUME NEW p \in DOMAIN messages', IsAnswer(messages'[p]) PROVE Handled(p)'
    BY DEF AnswersHandled, IsAnswer
  <2>1. p \in DOMAIN messages /\ IsAnswer(messages[p]) /\ messages'[p] = messages[p]
    BY <1>1 DEF IsAnswer
  <2>2. AnsweredAt(messages, p) \/ messages[p].turn \in interrupted
    BY <2>1 DEF TranscriptInv, AnswersHandled, Handled
  <2>3. AnsweredAt(messages, p) => AnsweredAt(messages', p)
    BY <1>0, <1>1, <2>1, PrefixKeeps DEF IsAnswer
  <2> QED BY <2>1, <2>2, <2>3 DEF Handled
<1> QED BY <1>2, <1>3, <1>4, <1>5 DEF TranscriptInv

LEMMA TranscriptStream ==
  ASSUME TypeInv, TranscriptInv, StreamStart
  PROVE  TranscriptInv'
<1>1. /\ pc = "inner" /\ pc' = "streaming" /\ turn' = turn + 1
      /\ afterAbort' = IF aborted THEN afterAbort + 1 ELSE afterAbort
      /\ UNCHANGED <<messages, aborted, interrupted>>
  BY DEF StreamStart, run
<1>2. turn \in Nat /\ afterAbort \in Nat /\ messages \in Seq(AgentMessage)
  BY DEF TypeInv, TypeOK, LoopType, HistoryType, StateType
<1>3. \A p \in DOMAIN messages : IsAnswer(messages[p]) =>
        messages[p].turn \in Nat /\ messages[p].turn <= turn
  <2>1. \A p \in DOMAIN messages : messages[p] \in AgentMessage
    BY <1>2, LenProperties, ElementOfSeq
  <2> QED BY <2>1, CallsOf DEF TranscriptInv, AnswerInv, IsAnswer
<1>4. AnswerInv'
  <2>1. \A t \in Nat : t <= turn => t <= turn + 1 /\ t # turn + 1
    BY <1>2
  <2> QED BY <1>1, <1>3, <2>1 DEF AnswerInv, IsAnswer, Answering
<1>5. InterruptInv'
  BY <1>1, <1>2 DEF InterruptInv, Answering
<1>6. Followed(messages)'
  BY <1>1 DEF TranscriptInv
<1>7. AnswersHandled'
  BY <1>1 DEF TranscriptInv, AnswersHandled, Handled, IsAnswer, Answering
<1> QED BY <1>4, <1>5, <1>6, <1>7 DEF TranscriptInv

(* The answer of the turn, complete or failed. *)
LEMMA TranscriptAnswer ==
  ASSUME RequestInv, RequestInv', TranscriptInv, StreamEnd
  PROVE  TranscriptInv'
<1> USE DEF RequestInv
<1>1. PICK answer \in Answers :
        /\ messages' = Append(messages, answer)
        /\ calls' = answer.calls
        /\ pc' = IF EndsRun(answer) THEN "failedAnswer" ELSE "answered"
  BY DEF StreamEnd
<1>2. pc = "streaming" /\ UNCHANGED <<turn, aborted, interrupted>>
  BY DEF StreamEnd, run, history
<1>3. turn \in Nat /\ messages \in Seq(AgentMessage)
  BY DEF TypeInv, TypeOK, LoopType, StateType
<1>4. answer \in AgentMessage /\ answer.role = "assistant"
  <2>1. answer \in AssistantMessage
    BY <1>3, AnswerTypes
  <2> QED BY <2>1 DEF AgentMessage, AssistantMessage
<1>5. CASE answer.stop # "ok"
  <2>1. EndsRun(answer)
    BY <1>5 DEF Answers, Assistant, EndsRun
  <2> QED BY <1>1, <1>2, <1>4, <1>5, <2>1, AppendOther DEF IsAnswer, Answering
<1>6. CASE answer.stop = "ok"
  <2>1. answer = Assistant(turn, answer.calls, "ok") /\ answer.turn = turn /\ afterAbort = 0
    BY <1>6 DEF Answers, Assistant
  <2>2. pc' = "answered"
    BY <1>1, <1>6 DEF EndsRun
  <2>3. /\ messages' \in Seq(AgentMessage) /\ Len(messages) <= Len(messages')
        /\ \A i \in DOMAIN messages : messages'[i] = messages[i]
        /\ DOMAIN messages' = DOMAIN messages \union {Len(messages) + 1}
        /\ messages'[Len(messages) + 1] = answer
    BY <1>1, <1>3, <1>4, Appended
  <2>4. messages' # <<>> /\ Last(messages') = answer /\ Len(messages') = Len(messages) + 1
    BY <1>1, <1>3, <1>4, LastOfAppend, AppendProperties
  <2>5. context' = messages'
    BY <2>2 DEF ContextInv
  <2>6. AnswerInv'
    <3>1. \A p \in DOMAIN messages' : IsAnswer(messages'[p]) =>
            messages'[p].turn <= turn /\ (messages'[p].turn = turn => p = Len(messages) + 1)
      BY <1>2, <1>3, <2>1, <2>3 DEF TranscriptInv, AnswerInv, IsAnswer
    <3>2. Last(context') = Assistant(turn', calls', "ok")
      BY <1>1, <1>2, <2>1, <2>4, <2>5 DEF Assistant
    <3> QED BY <1>2, <2>2, <2>4, <2>5, <3>1, <3>2 DEF AnswerInv, IsAnswer
  <2>7. InterruptInv'
    BY <1>2, <2>1, <2>2 DEF TranscriptInv, InterruptInv
  <2>8. Followed(messages)'
    BY <1>1, <1>3, <1>4, FollowedOther DEF TranscriptInv
  <2>9. AnswersHandled'
    <3> SUFFICES ASSUME NEW p \in DOMAIN messages', IsAnswer(messages'[p]) PROVE Handled(p)'
      BY DEF AnswersHandled, IsAnswer
    <3>1. CASE p = Len(messages) + 1
      BY <1>2, <2>1, <2>2, <2>3, <3>1 DEF Handled, Answering
    <3>2. CASE p \in DOMAIN messages
      <4>1. IsAnswer(messages[p]) /\ messages'[p] = messages[p]
        BY <2>3, <3>2 DEF IsAnswer
      <4>2. AnsweredAt(messages, p) \/ messages[p].turn \in interrupted
        BY <1>2, <3>2, <4>1 DEF TranscriptInv, AnswersHandled, Handled, Answering
      <4>3. AnsweredAt(messages, p) => AnsweredAt(messages', p)
        BY <1>3, <2>3, <3>2, <4>1, PrefixKeeps DEF IsAnswer
      <4> QED BY <1>2, <4>1, <4>2, <4>3 DEF Handled
    <3> QED BY <2>3, <3>1, <3>2
  <2> QED BY <2>6, <2>7, <2>8, <2>9 DEF TranscriptInv
<1> QED BY <1>5, <1>6

(* A result is the one that is due. *)
LEMMA NextIsDue ==
  ASSUME RequestInv, pc = "resultShown"
  PROVE  \E k \in 0 .. MaxCalls :
           /\ k + 1 <= calls /\ k + 1 \in CallIndex
           /\ messages = context \o Results(k) /\ streamingMessage = ToolResult(turn, k + 1)
<1> USE DEF RequestInv
<1> DEFINE i == streamingMessage.call
<1>1. calls \in 0 .. MaxCalls /\ i \in CallIndex
  BY DEF TypeInv, TypeOK, BatchType, ShownInv, ToolResultMessage
<1>2. /\ streamingMessage = ToolResult(turn, i) /\ callState[i] = "ended"
      /\ \A j \in 1 .. i - 1 : callState[j] = "sent"
  BY DEF BatchInv, AtResult
<1> HIDE DEF i
<1>3. PICK k \in 0 .. calls : Sent = 1 .. k /\ messages = context \o Results(k)
  BY DEF ContextInv, InBatch
<1>4. i = k + 1
  <2>1. i \notin 1 .. k
    BY <1>2, <1>3 DEF Sent
  <2>2. \A j \in 1 .. i - 1 : j \in CallIndex
    BY <1>1, BoundsAssumption DEF CallIndex
  <2>3. \A j \in 1 .. i - 1 : j \in 1 .. k
    BY <1>2, <1>3, <2>2 DEF Sent
  <2> QED BY <1>1, <2>1, <2>3, BoundsAssumption DEF CallIndex
<1>5. i <= calls
  BY <1>1, <1>2 DEF BatchInv, CallOrder, InBatch
<1>6. k \in 0 .. MaxCalls
  BY <1>1, BoundsAssumption
<1> QED BY <1>1, <1>2, <1>3, <1>4, <1>5, <1>6

LEMMA TranscriptResult ==
  ASSUME RequestInv, TranscriptInv, ResultEnd
  PROVE  TranscriptInv'
<1>1. /\ pc = "resultShown" /\ Answering /\ Answering' /\ pc' # "streaming"
      /\ messages' = Append(messages, streamingMessage)
      /\ UNCHANGED <<turn, context, calls, aborted, interrupted>>
  BY DEF ResultEnd, Answering, run, loop, history
<1>2. /\ turn \in Nat /\ messages \in Seq(AgentMessage) /\ context \in Seq(AgentMessage)
      /\ calls \in 0 .. MaxCalls
  BY DEF RequestInv, TypeInv, TypeOK, LoopType, StateType, BatchType
<1>3. PICK k \in 0 .. MaxCalls :
        /\ k + 1 <= calls /\ k + 1 \in CallIndex
        /\ messages = context \o Results(k) /\ streamingMessage = ToolResult(turn, k + 1)
  BY <1>1, NextIsDue
<1>4. streamingMessage \in AgentMessage /\ streamingMessage.role = "toolResult"
  BY <1>2, <1>3, MessageTypes DEF AgentMessage, ToolResult
<1>5. /\ Len(messages) <= Len(messages') /\ messages' \in Seq(AgentMessage)
      /\ \A i \in DOMAIN messages : messages'[i] = messages[i]
      /\ DOMAIN messages' = DOMAIN messages \union {Len(messages) + 1}
      /\ messages'[Len(messages) + 1] = streamingMessage
  BY <1>1, <1>2, <1>4, Appended
<1>6. \A p \in DOMAIN messages' : IsAnswer(messages'[p]) =>
        p \in DOMAIN messages /\ IsAnswer(messages[p]) /\ messages'[p] = messages[p]
  BY <1>4, <1>5 DEF IsAnswer
<1>7. AnswerInv'
  BY <1>1, <1>6 DEF TranscriptInv, AnswerInv, IsAnswer
<1>8. InterruptInv'
  BY <1>1 DEF TranscriptInv, InterruptInv
<1>9. Followed(messages)'
  <2>1. context # <<>> /\ Last(context) = Assistant(turn, calls, "ok")
    BY <1>1 DEF TranscriptInv, AnswerInv
  <2>2. Followed(Append(messages, ToolResult(turn, k + 1)))
    BY <1>2, <1>3, <2>1, FollowedResult DEF TranscriptInv
  <2> QED BY <1>1, <1>3, <2>2
<1>10. AnswersHandled'
  <2> SUFFICES ASSUME NEW p \in DOMAIN messages', IsAnswer(messages'[p]) PROVE Handled(p)'
    BY DEF AnswersHandled, IsAnswer
  <2>1. p \in DOMAIN messages /\ IsAnswer(messages[p]) /\ messages'[p] = messages[p]
    BY <1>6
  <2>2. Handled(p)
    BY <2>1 DEF TranscriptInv, AnswersHandled
  <2>3. AnsweredAt(messages, p) => AnsweredAt(messages', p)
    BY <1>2, <1>5, <2>1, PrefixKeeps DEF IsAnswer
  <2> QED BY <1>1, <2>1, <2>2, <2>3 DEF Handled
<1> QED BY <1>7, <1>8, <1>9, <1>10 DEF TranscriptInv

(* The loop leaves a batch when every call has its result, or aborted.     *)
LEMMA TranscriptFinish ==
  ASSUME RequestInv, TranscriptInv, LaunchInv, FinishBatch
  PROVE  TranscriptInv'
<1> USE DEF RequestInv, TypeInv, TypeOK
<1>1. /\ \/ pc = "prepare" /\ batchMode = "sequential" /\ StopPreparing
         \/ /\ pc = "execute" /\ batchMode = "parallel"
            /\ \A i \in Batch : callState[i] \notin {"running", "ended"}
      /\ pc' = "poll" /\ UNCHANGED <<messages, turn, aborted, interrupted>>
  BY DEF FinishBatch, state, run, history
<1>2. /\ callState \in [CallIndex -> CallState] /\ calls \in 0 .. MaxCalls /\ turn \in Nat
      /\ context \in Seq(AgentMessage)
  BY DEF BatchType, LoopType
<1>3. Batch \subseteq CallIndex
  BY <1>2, BoundsAssumption DEF Batch, CallIndex
<1>4. CASE aborted
  BY <1>1, <1>4, KeepTranscript DEF TranscriptInv, InterruptInv, Answering
<1>5. CASE ~aborted
  <2>1. \A i \in Batch : callState[i] = "sent"
    <3>1. CASE pc = "prepare"
      BY <1>1, <1>3, <1>5, <3>1 DEF StopPreparing, Untouched, BatchInv, AtPrepare, Settled
    <3>2. CASE pc = "execute"
      BY <1>1, <1>3, <1>5, <3>2 DEF LaunchInv, BatchInv, AtExecute
    <3> QED BY <1>1, <3>1, <3>2
  <2>2. PICK k \in 0 .. calls : Sent = 1 .. k /\ messages = context \o Results(k)
    BY <1>1 DEF ContextInv, InBatch
  <2>3. k = calls
    <3>1. Batch \subseteq 1 .. k
      BY <1>3, <2>1, <2>2 DEF Sent
    <3>2. calls = 0 \/ calls \in 1 .. k
      BY <1>2, <3>1, BoundsAssumption DEF Batch
    <3> QED BY <1>2, <3>2, BoundsAssumption
  <2>4. /\ context # <<>> /\ Last(context) = Assistant(turn, calls, "ok")
        /\ \A p \in DOMAIN messages :
             IsAnswer(messages[p]) /\ messages[p].turn = turn => p = Len(context)
    BY <1>1 DEF TranscriptInv, AnswerInv, Answering
  <2>5. AnsweredAt(messages, Len(context))
    BY <1>2, <2>2, <2>3, <2>4, AnsweredByResults
  <2>6. \A p \in DOMAIN messages :
          IsAnswer(messages[p]) /\ messages[p].turn = turn => AnsweredAt(messages, p)
    BY <2>4, <2>5
  <2> QED BY <1>1, <2>6, KeepTranscript DEF Answering
<1> QED BY <1>4, <1>5

(* An answer without calls is handled at once. *)
LEMMA TranscriptNoTools ==
  ASSUME RequestInv, TranscriptInv, TurnWithoutTools
  PROVE  TranscriptInv'
<1>1. /\ pc = "answered" /\ calls = 0 /\ pc' = "poll"
      /\ UNCHANGED <<messages, turn, aborted, interrupted>>
  BY DEF TurnWithoutTools, state, run, history
<1>2. context = messages
  BY <1>1 DEF RequestInv, ContextInv
<1>3. /\ Last(messages) = Assistant(turn, 0, "ok")
      /\ \A p \in DOMAIN messages :
           IsAnswer(messages[p]) /\ messages[p].turn = turn => p = Len(messages)
  BY <1>1, <1>2 DEF TranscriptInv, AnswerInv, Answering
<1>4. \A p \in DOMAIN messages :
        IsAnswer(messages[p]) /\ messages[p].turn = turn => AnsweredAt(messages, p)
  BY <1>3 DEF Last, Assistant, AnsweredAt
<1> QED BY <1>1, <1>4, KeepTranscript DEF Answering

(* What the owner of the agent does to the transcript when it is idle.     *)
LEMMA TranscriptOwner ==
  ASSUME TypeInv, TranscriptInv, Reset \/ OwnerAppends \/ OwnerDropsError
  PROVE  TranscriptInv'
<1>1. pc = "idle" /\ pc' = "idle" /\ UNCHANGED <<turn, interrupted>>
  BY DEF Reset, OwnerAppends, OwnerDropsError, TypeInv, RunInv, loop, history
<1>2. messages \in Seq(AgentMessage) /\ nextId \in Nat
  BY DEF TypeInv, TypeOK, StateType, HistoryType
<1>3. CASE Reset
  <2>1. messages' = <<>> /\ DOMAIN messages' = {}
    BY <1>3, EmptySeq, LenProperties DEF Reset
  <2> QED BY <1>1, <2>1
          DEF TranscriptInv, AnswerInv, InterruptInv, Followed, AnswersHandled, Answering
<1>4. CASE OwnerAppends
  <2>1. messages' = Append(messages, User(nextId, "prompt"))
    BY <1>4 DEF OwnerAppends
  <2>2. User(nextId, "prompt") \in AgentMessage
    BY <1>2, MessageTypes DEF AgentMessage, Lane
  <2>3. User(nextId, "prompt").role = "user"
    BY DEF User
  <2> QED BY <1>1, <2>1, <2>2, <2>3, AppendOther DEF IsAnswer, Answering
<1>5. CASE OwnerDropsError
  <2>1. messages # <<>> /\ Last(messages).role = "assistant" /\ messages' = Front(messages)
    BY <1>5 DEF OwnerDropsError, AtAssistant
  <2>2. /\ DOMAIN messages' \subseteq DOMAIN messages
        /\ \A p \in DOMAIN messages' : messages'[p] = messages[p]
        /\ Followed(messages) => Followed(messages')
        /\ \A p \in DOMAIN messages' : IsAnswer(messages[p]) /\ AnsweredAt(messages, p) =>
             AnsweredAt(messages', p)
    BY <1>2, <2>1, FrontKeeps DEF IsAnswer
  <2>3. AnswerInv'
    BY <1>1, <2>2 DEF TranscriptInv, AnswerInv, IsAnswer, Answering
  <2>4. InterruptInv' /\ Followed(messages)'
    BY <1>1, <2>2 DEF TranscriptInv, InterruptInv, Answering
  <2>5. AnswersHandled'
    <3> SUFFICES ASSUME NEW p \in DOMAIN messages', IsAnswer(messages'[p]) PROVE Handled(p)'
      BY DEF AnswersHandled, IsAnswer
    <3>1. p \in DOMAIN messages /\ IsAnswer(messages[p]) /\ messages'[p] = messages[p]
      BY <2>2 DEF IsAnswer
    <3>2. AnsweredAt(messages, p) \/ messages[p].turn \in interrupted
      BY <1>1, <3>1 DEF TranscriptInv, AnswersHandled, Handled, Answering
    <3> QED BY <1>1, <2>2, <3>1, <3>2 DEF Handled
  <2> QED BY <2>3, <2>4, <2>5 DEF TranscriptInv
<1> QED BY <1>3, <1>4, <1>5

(* The failure a run reports is no answer. *)
LEMMA TranscriptFailure ==
  ASSUME TypeInv, TranscriptInv, FailInv, FailureEnd
  PROVE  TranscriptInv'
<1>1. /\ pc = "failShown" /\ pc' = "failEnd" /\ messages' = Append(messages, streamingMessage)
      /\ UNCHANGED <<turn, interrupted>>
  BY DEF FailureEnd, loop, history
<1>2. streamingMessage \in AgentMessage
  BY <1>1 DEF TypeInv, ShownInv, AgentMessage
<1> QED BY <1>1, <1>2, AppendOther DEF FailInv, IsAnswer, Answering

LEMMA TranscriptInject ==
  ASSUME TypeInv, TranscriptInv, InjectEnd
  PROVE  TranscriptInv'
<1>1. /\ pc \in {"promptShown", "innerShown"} /\ pc' \in {"prompts", "inner"}
      /\ messages' = Append(messages, Head(hand)) /\ UNCHANGED <<turn, interrupted>>
  BY DEF InjectEnd
<1>2. Head(hand) \in UserMessage
  BY <1>1, HeadTailProperties DEF TypeInv, TypeOK, ShownInv, LoopType
<1>3. Head(hand) \in AgentMessage /\ Head(hand).role = "user"
  BY <1>2 DEF AgentMessage, UserMessage
<1> QED BY <1>1, <1>3, AppendOther DEF IsAnswer, Answering

(* Steps within a batch. *)
LEMMA TranscriptBatch ==
  ASSUME TranscriptInv, Answering, Answering',
         UNCHANGED <<messages, turn, context, calls, aborted, interrupted>>
  PROVE  TranscriptInv'
<1>1. pc # "streaming" /\ pc' # "streaming"
  BY DEF Answering
<1> QED BY <1>1, KeepTranscript

(* Steps away from an answer. *)
LEMMA TranscriptElsewhere ==
  ASSUME TranscriptInv, ~Answering, ~Answering', pc' # "streaming",
         UNCHANGED <<messages, turn>>, interrupted \subseteq interrupted',
         aborted' => aborted \/ turn \in interrupted'
  PROVE  TranscriptInv'
BY KeepTranscript

(* Steps that leave the loop where it is. *)
LEMMA TranscriptOther ==
  ASSUME TranscriptInv, UNCHANGED <<messages, turn, pc, context, calls, afterAbort>>,
         interrupted \subseteq interrupted', aborted' => aborted \/ turn \in interrupted'
  PROVE  TranscriptInv'
<1>1. Answering' = Answering
  BY DEF Answering
<1> QED BY <1>1, KeepTranscript

LEMMA TranscriptInit == Init => TranscriptInv
<1> SUFFICES ASSUME Init PROVE TranscriptInv
  OBVIOUS
<1>1. pc = "idle" /\ DOMAIN messages = {}
  BY EmptySeq, LenProperties DEF Init
<1> QED BY <1>1 DEF TranscriptInv, AnswerInv, InterruptInv, Followed, AnswersHandled, Answering

LEMMA TranscriptNext ==
  ASSUME RequestInv, RequestInv', TranscriptInv, LaunchInv, FailInv, [Next]_vars
  PROVE  TranscriptInv'
<1>0. TypeInv
  BY DEF RequestInv
<1>1. CASE Caller
  <2>1. CASE Prompt \/ ContinueWithSteering \/ ContinueWithFollowUp \/ ContinueTranscript
    <3>1. PICK given, skip : StartRun(given, skip)
      BY <2>1 DEF Prompt, ContinueWithSteering, ContinueWithFollowUp, ContinueTranscript
    <3>2. pc = "idle"
      BY <1>0, <3>1 DEF StartRun, TypeInv, RunInv
    <3> QED BY <3>1, <3>2, TranscriptElsewhere DEF StartRun, Answering
  <2>2. CASE Steer \/ FollowUp \/ ClearSteeringQueue \/ ClearFollowUpQueue \/ Abort
    <3>1. /\ UNCHANGED <<messages, turn, pc, context, calls, afterAbort>>
          /\ interrupted \subseteq interrupted' /\ (aborted' => aborted \/ turn \in interrupted')
      BY <2>2 DEF Steer, FollowUp, ClearSteeringQueue, ClearFollowUpQueue, Abort,
                  state, run, loop, batch
    <3> QED BY <3>1, TranscriptOther
  <2>3. CASE Reset \/ OwnerAppends \/ OwnerDropsError
    BY <1>0, <2>3, TranscriptOwner
  <2> QED BY <1>1, <2>1, <2>2, <2>3 DEF Caller
<1>2. CASE LoopStep
  <2>1. CASE InjectStart \/ InitialPoll \/ SteeringPoll \/ FollowUpPoll
    BY <2>1, TranscriptElsewhere
       DEF InjectStart, InitialPoll, SteeringPoll, FollowUpPoll, state, run, loop, history, Answering
  <2>2. CASE InjectEnd
    BY <1>0, <2>2, TranscriptInject
  <2>3. CASE StreamStart \/ StreamEnd \/ TurnWithoutTools
    BY <1>0, <2>3, TranscriptStream, TranscriptAnswer, TranscriptNoTools
  <2>4. CASE StartBatch \/ Launch
    BY <2>4, TranscriptBatch DEF StartBatch, Launch, state, run, loop, history, Answering
  <2>5. CASE ResultEnd \/ FinishBatch
    BY <2>5, TranscriptResult, TranscriptFinish
  <2>6. CASE \E i \in CallIndex : CallStart(i) \/ PreparedImmediate(i) \/ Prepared(i) \/ ResultStart(i)
    <3>1. /\ Answering /\ Answering'
          /\ UNCHANGED <<messages, turn, context, calls, aborted, interrupted>>
      BY <2>6 DEF CallStart, PreparedImmediate, Prepared, ResultStart, state, run, loop, batch,
                  history, Answering
    <3> QED BY <3>1, TranscriptBatch
  <2>7. CASE AnswerFailed \/ FailureAgentEnd \/ FinishRun
    BY <2>7, TranscriptElsewhere
       DEF AnswerFailed, FailureAgentEnd, FinishRun, state, run, loop, history, Answering
  <2>8. CASE FailureEnd
    BY <1>0, <2>8, TranscriptFailure
  <2> QED BY <1>2, <2>1, <2>2, <2>3, <2>4, <2>5, <2>6, <2>7, <2>8 DEF LoopStep
<1>3. CASE ToolStep
  <2>1. PICK i \in CallIndex : ToolEnd(i)
    BY <1>3 DEF ToolStep
  <2> QED BY <2>1, TranscriptBatch DEF ToolEnd, run, loop, history, Answering
<1>4. CASE Failure
  <2>1. /\ UNCHANGED <<messages, turn, aborted>> /\ pc' = "failShown"
        /\ interrupted' = interrupted \union {turn}
    BY <1>4 DEF Failure, Throw, ToolThrow, ReportFailure, run
  <2> QED BY <2>1, KeepTranscript DEF Answering
<1>5. CASE \E o \in orphans : OrphanEnd(o)
  BY <1>5, TranscriptOther DEF OrphanEnd, run, loop, batch, history
<1>6. CASE UNCHANGED vars
  BY <1>6, TranscriptOther DEF vars, state, run, loop, batch, history
<1> QED BY <1>1, <1>2, <1>3, <1>4, <1>5, <1>6 DEF Next

-----------------------------------------------------------------------------
(* Within a launched batch no call becomes one that waits. *)
LEMMA KeepLaunch ==
  ASSUME LaunchInv,
         pc' \in {"execute", "resultShown"} /\ batchMode' = "parallel" =>
           /\ pc \in {"execute", "resultShown"} /\ batchMode = "parallel"
           /\ calls' = calls /\ (aborted => aborted')
           /\ \A i \in Batch : callState[i] # "waiting" => callState'[i] # "waiting"
  PROVE  LaunchInv'
BY DEF LaunchInv, Batch

LEMMA LaunchNext ==
  ASSUME TypeInv, LaunchInv, [Next]_vars
  PROVE  LaunchInv'
<1>0. callState \in [CallIndex -> CallState] /\ calls \in 0 .. MaxCalls /\ Batch \subseteq CallIndex
  BY BoundsAssumption DEF TypeInv, TypeOK, BatchType, Batch, CallIndex
<1> DEFINE Elsewhere == pc' \notin {"execute", "resultShown"}
           Same == /\ UNCHANGED <<pc, batchMode, calls, callState>>
                   /\ (aborted => aborted')
<1>1. ASSUME Elsewhere \/ Same PROVE LaunchInv'
  BY <1>1, KeepLaunch
<1>2. CASE Caller
  <2>1. CASE Prompt \/ ContinueWithSteering \/ ContinueWithFollowUp \/ ContinueTranscript
    BY <1>1, <2>1 DEF Prompt, ContinueWithSteering, ContinueWithFollowUp, ContinueTranscript, StartRun
  <2>2. CASE Steer \/ FollowUp \/ ClearSteeringQueue \/ ClearFollowUpQueue \/ Abort
    BY <1>1, <2>2 DEF Steer, FollowUp, ClearSteeringQueue, ClearFollowUpQueue, Abort, run, batch
  <2>3. CASE Reset \/ OwnerAppends \/ OwnerDropsError
    BY <1>1, <2>3 DEF Reset, OwnerAppends, OwnerDropsError, run, batch
  <2> QED BY <1>2, <2>1, <2>2, <2>3 DEF Caller
<1>3. CASE LoopStep
  <2>1. CASE \/ InjectStart \/ InjectEnd \/ InitialPoll \/ SteeringPoll \/ FollowUpPoll
             \/ StreamStart \/ StreamEnd \/ AnswerFailed \/ TurnWithoutTools \/ StartBatch
             \/ FinishBatch \/ FailureEnd \/ FailureAgentEnd \/ FinishRun
    <3>1. Elsewhere
      BY <2>1 DEF InjectStart, InjectEnd, InitialPoll, SteeringPoll, FollowUpPoll, StreamStart,
                  StreamEnd, AnswerFailed, TurnWithoutTools, StartBatch, FinishBatch,
                  FailureEnd, FailureAgentEnd, FinishRun
    <3> QED BY <1>1, <3>1
  <2>2. CASE Launch
    <3>1. /\ StopPreparing /\ UNCHANGED <<calls, aborted>>
          /\ callState' = [i \in CallIndex |->
                             IF callState[i] = "prepared" THEN "running" ELSE callState[i]]
      BY <2>2 DEF Launch, run
    <3>2. \A i \in Batch : callState[i] # "waiting" => callState'[i] # "waiting"
      BY <1>0, <3>1
    <3> QED BY <3>1, <3>2 DEF StopPreparing, Untouched, LaunchInv, Batch
  <2>3. CASE ResultEnd
    <3>1. /\ pc = "resultShown" /\ UNCHANGED <<batchMode, calls, aborted>>
          /\ callState' = [callState EXCEPT ![streamingMessage.call] = "sent"]
      BY <2>3 DEF ResultEnd, run
    <3>2. \A i \in Batch : callState[i] # "waiting" => callState'[i] # "waiting"
      BY <1>0, <3>1
    <3> QED BY <3>1, <3>2, KeepLaunch
  <2>4. ASSUME NEW i \in CallIndex,
               CallStart(i) \/ PreparedImmediate(i) \/ Prepared(i)
        PROVE  LaunchInv'
    <3>1. ~(pc' \in {"execute", "resultShown"} /\ batchMode' = "parallel")
      BY <2>4 DEF CallStart, PreparedImmediate, Prepared
    <3> QED BY <3>1, KeepLaunch
  <2>5. ASSUME NEW i \in CallIndex, ResultStart(i) PROVE LaunchInv'
    <3>1. pc = "execute" /\ UNCHANGED <<batchMode, calls, callState, aborted>>
      BY <2>5 DEF ResultStart, run, batch
    <3> QED BY <3>1, KeepLaunch
  <2> QED BY <1>3, <2>1, <2>2, <2>3, <2>4, <2>5 DEF LoopStep
<1>4. CASE ToolStep
  <2>1. PICK i \in CallIndex : ToolEnd(i)
    BY <1>4 DEF ToolStep
  <2>2. /\ pc = "execute" /\ UNCHANGED <<batchMode, calls, aborted>>
        /\ callState' = [callState EXCEPT ![i] = "ended"]
    BY <2>1 DEF ToolEnd, ExecutionEnds, run
  <2>3. \A j \in Batch : callState[j] # "waiting" => callState'[j] # "waiting"
    BY <1>0, <2>2
  <2> QED BY <2>2, <2>3, KeepLaunch
<1>5. CASE Failure
  BY <1>1, <1>5 DEF Failure, Throw, ToolThrow, ReportFailure
<1>6. CASE \E o \in orphans : OrphanEnd(o)
  BY <1>1, <1>6 DEF OrphanEnd, run, batch
<1>7. CASE UNCHANGED vars
  BY <1>1, <1>7 DEF vars, run, batch
<1> QED BY <1>2, <1>3, <1>4, <1>5, <1>6, <1>7 DEF Next

LEMMA FailNext ==
  ASSUME TypeInv, FailInv, [Next]_vars
  PROVE  FailInv'
<1>1. CASE Caller
  <2>1. CASE Prompt \/ ContinueWithSteering \/ ContinueWithFollowUp \/ ContinueTranscript
    BY <2>1 DEF Prompt, ContinueWithSteering, ContinueWithFollowUp, ContinueTranscript,
                StartRun, FailInv
  <2>2. CASE Steer \/ FollowUp \/ ClearSteeringQueue \/ ClearFollowUpQueue \/ Abort
    BY <2>2 DEF Steer, FollowUp, ClearSteeringQueue, ClearFollowUpQueue, Abort, state, FailInv
  <2>3. CASE Reset \/ OwnerAppends \/ OwnerDropsError
    BY <2>3 DEF Reset, OwnerAppends, OwnerDropsError, TypeInv, RunInv, FailInv
  <2> QED BY <1>1, <2>1, <2>2, <2>3 DEF Caller
<1>2. CASE LoopStep
  <2>1. pc' # "failShown"
    BY <1>2 DEF LoopStep, InjectStart, InjectEnd, InitialPoll, SteeringPoll, FollowUpPoll,
                StreamStart, StreamEnd, AnswerFailed, TurnWithoutTools, StartBatch, Launch,
                ResultEnd, FinishBatch, CallStart, PreparedImmediate, Prepared, ResultStart,
                FailureEnd, FailureAgentEnd, FinishRun
  <2> QED BY <2>1 DEF FailInv
<1>3. CASE ToolStep
  BY <1>3 DEF ToolStep, ToolEnd, FailInv
<1>4. CASE Failure
  <2>1. streamingMessage' = FailureMessage
    BY <1>4 DEF Failure, Throw, ToolThrow, ReportFailure
  <2> QED BY <2>1 DEF FailureMessage, Assistant, FailInv
<1>5. CASE \E o \in orphans : OrphanEnd(o)
  BY <1>5 DEF OrphanEnd, FailInv
<1>6. CASE UNCHANGED vars
  BY <1>6 DEF vars, state, FailInv
<1> QED BY <1>1, <1>2, <1>3, <1>4, <1>5, <1>6 DEF Next

-----------------------------------------------------------------------------
ResultInv == TranscriptInv /\ LaunchInv /\ FailInv

LEMMA ResultInvariance == Spec => []ResultInv
<1>1. Init => ResultInv
  BY TranscriptInit DEF Init, ResultInv, LaunchInv, FailInv
<1>2. RequestInv /\ RequestInv' /\ ResultInv /\ [Next]_vars => ResultInv'
  BY TranscriptNext, LaunchNext, FailNext DEF ResultInv, RequestInv
<1> QED BY <1>1, <1>2, RequestInvariance, PTL DEF Spec

(* A tool result follows the answer that asked for it, with nothing but    *)
(* the results of its earlier calls in between.                            *)
THEOREM ResultsInCallOrder == Spec => []ResultsFollowCalls
<1>1. ResultInv => ResultsFollowCalls
  BY DEF ResultInv, TranscriptInv, Followed, ResultAt, ResultsFollowCalls
<1> QED BY <1>1, ResultInvariance, PTL

(* A call the loop has left without a result was asked for in a turn       *)
(* during which the run was aborted or failed.                             *)
THEOREM NoCallForgotten == Spec => []UnansweredOnlyIfInterrupted
<1>1. ResultInv => UnansweredOnlyIfInterrupted
  BY DEF ResultInv, TranscriptInv, AnswersHandled, Handled, AnsweredAt, IsAnswer, Answering,
         Answered, UnansweredOnlyIfInterrupted
<1> QED BY <1>1, ResultInvariance, PTL
=============================================================================
