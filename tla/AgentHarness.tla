---------------------------- MODULE AgentHarness ----------------------------
(***************************************************************************)
(* AgentHarness (packages/agent/src/harness/agent-harness.ts): prompts,    *)
(* compactions, tree navigation and session writes over one session.       *)
(*                                                                         *)
(* A call is one invocation of prompt(), compact(), navigateTree() or of   *)
(* an idle setter that appends; it goes from one await to the next.  The   *)
(* loop inside a prompt (agent-loop.ts) is the part the harness sees:      *)
(* messages shown one by one, the end of a turn, the two polls.            *)
(* While a call awaits, listeners, hooks and other callers may use the     *)
(* harness.  "Patient" callers start a call when the others have returned. *)
(***************************************************************************)
EXTENDS HarnessSession

CONSTANTS
  None,
  Ops,          \* the kinds of calls made: "prompt", "compact", "navigate", "append"
  Modes,        \* the queue modes in use
  WriteKinds,   \* the kinds of entries the writes add: "custom" messages, "setting"s
  Limits        \* bounds, one of which a behaviour keeps to: whether its callers are
                \* patient; calls made; messages queued; writes asked for while busy;
                \* answers of a prompt that ask for a tool; listeners, hooks and
                \* appends that fail

ASSUME HarnessAssumption ==
  /\ Ops \subseteq {"prompt", "compact", "navigate", "append"}
  /\ WriteKinds \subseteq {"custom", "setting"}
  /\ Modes \subseteq {"one-at-a-time", "all"}
  /\ Calls \subseteq Nat /\ IsFiniteSet(Calls) /\ None \notin Calls
  /\ Limits \subseteq [patient : BOOLEAN, calls : Nat, messages : Nat, writes : Nat,
                      rounds : Nat, faults : Nat]

VARIABLES
  phase, pendingSessionWrites,
  steerQueue, followUpQueue, nextTurnQueue,
  runAbortController,   \* the call whose controller it is
  runPromise,           \* the call it belongs to
  call,                 \* the locals of each call
  aborted,              \* the calls whose signal is aborted
  limits,
  nextMessage, nextWrite,  \* the next message of a user, the next write
  faults,
  asked,                \* history: the messages queued, in order
  accepted,             \* history: the writes queued, in order
  cleared, dropped      \* history: messages cleared by abort, lost by a failure

counters == <<nextMessage, nextWrite>>
queues == <<steerQueue, followUpQueue, nextTurnQueue>>
past   == <<asked, accepted, cleared, dropped>>
vars   == <<session, phase, pendingSessionWrites, queues, runAbortController, runPromise,
            call, aborted, limits, counters, faults, past>>

-----------------------------------------------------------------------------
(* A call: what it awaits (pc); the messages it has still to show; the     *)
(* loop's context; whether tools were called, the run is ending, a failure *)
(* is being reported; the error prompt() will throw; where a compaction or *)
(* navigation goes; whether runAgentLoop was reached; and whether abort()  *)
(* has replaced the queue it drains.                                       *)

Free == [op |-> "prompt", pc |-> "free", hand |-> <<>>, context |-> <<>>, rounds |-> 0,
         more |-> FALSE, ends |-> FALSE, reporting |-> FALSE, error |-> FALSE,
         thrown |-> FALSE, goal |-> 0, ran |-> FALSE, stale |-> FALSE]

Messages(hand)  == {m.item : m \in {x \in ToSet(hand) : x.kind = "user"}}

BeforeLoop == {"snapshot", "takeNext", "beforeHook"}
Showing    == {"prompts", "inject", "output"}
Flushing   == {"turnFlush", "prepare", "endFlush", "final"}

(* A call with some of its locals changed.                                 *)
Changed(locals, fields) ==
  [x \in DOMAIN locals |-> IF x \in DOMAIN fields THEN fields[x] ELSE locals[x]]

Set(c, fields) == call' = [call EXCEPT ![c] = Changed(@, fields)]
Finish(c)      == call' = [call EXCEPT ![c] =
                    Changed(Free, [pc |-> "done", op |-> @.op, ran |-> @.ran])]
At(c, pc)      == call[c].pc = pc
Active(c)      == call[c].pc \notin {"free", "done"}

Init ==
  /\ SessionInit
  /\ phase = "idle" /\ pendingSessionWrites = <<>>
  /\ steerQueue = <<>> /\ followUpQueue = <<>> /\ nextTurnQueue = <<>>
  /\ runAbortController = None /\ runPromise = None
  /\ call = [c \in Calls |-> Free]
  /\ aborted = {} /\ limits \in Limits /\ nextMessage = 1 /\ nextWrite = 1 /\ faults = 0
  /\ asked = <<>> /\ accepted = <<>> /\ cleared = {} /\ dropped = {}

(* A fault is a listener, a hook, a provider of the system prompt or the   *)
(* file system that fails.                                                 *)
Fault == faults < limits.faults /\ faults' = faults + 1

-----------------------------------------------------------------------------
(* The end of a prompt, and the way there when something throws.           *)

(* The error leaves executeTurn before its loop: prompt() goes idle.       *)
Reject(c) ==
  /\ Finish(c)
  /\ phase' = "idle"
  /\ runPromise' = None

(* The loop throws: emitRunFailure reports it as an answer and ends the    *)
(* run; if that fails too, prompt() will throw.                            *)
LoopThrows(c, rest) ==
  /\ Set(c, IF call[c].reporting
            THEN [pc |-> "final", hand |-> <<>>, thrown |-> FALSE, error |-> TRUE]
            ELSE [pc |-> "output", hand |-> <<Msg("assistant", 0)>>,
                  thrown |-> FALSE, reporting |-> TRUE, ends |-> TRUE])
  /\ dropped' = dropped \union (ToSet(asked) \intersect Messages(rest))
  /\ UNCHANGED counters

(* Where the loop goes when the messages in hand are shown.                *)
AfterShowing(c) ==
  CASE At(c, "prompts") -> "poll"
    [] At(c, "inject")  -> "stream"
    [] At(c, "output")  -> "turnEnd"

-----------------------------------------------------------------------------
(* prompt(), skill(), promptFromTemplate().                                *)

MayCall(c, op) ==
  /\ At(c, "free") /\ c <= limits.calls /\ op \in Ops
  /\ \A d \in Calls : d < c => ~At(d, "free")  \* calls are numbered as they come
  /\ limits.patient => \A d \in Calls \ {c} : ~Active(d) \/ (op = "append" /\ At(d, "agentEnd"))

(* Mutant: prompt() claims the harness by a phase of its own.              *)
Prompt(c) ==
  /\ MayCall(c, "prompt") /\ phase = "idle"
  /\ phase' = "turn" /\ runPromise' = c
  /\ Set(c, [op |-> "prompt", pc |-> "snapshot"])
  /\ UNCHANGED <<session, pendingSessionWrites, queues, runAbortController, aborted,
                 limits, counters, faults, past>>

(* createTurnState, then executeTurn up to the update about the messages   *)
(* kept for this turn, or the hook when there are none.                    *)
Snapshot(c) ==
  /\ At(c, "snapshot")
  /\ Set(c, [pc |-> IF nextTurnQueue = <<>> THEN "beforeHook" ELSE "takeNext",
             context |-> Context,
             hand |-> [p \in DOMAIN nextTurnQueue |-> Msg("user", nextTurnQueue[p])]
                      \o <<Msg("user", nextMessage)>>])
  /\ nextTurnQueue' = <<>>
  /\ nextMessage' = nextMessage + 1 /\ UNCHANGED nextWrite
  /\ UNCHANGED <<session, phase, pendingSessionWrites, steerQueue, followUpQueue,
                 runAbortController, runPromise, aborted, limits, faults, past>>

SnapshotThrows(c) ==
  /\ At(c, "snapshot") /\ Fault /\ Reject(c)
  /\ UNCHANGED <<session, pendingSessionWrites, queues, runAbortController, aborted,
                 limits, counters, past>>

NextTaken(c) ==
  /\ At(c, "takeNext") /\ Set(c, [pc |-> "beforeHook"])
  /\ UNCHANGED <<session, phase, pendingSessionWrites, queues, runAbortController,
                 runPromise, aborted, limits, counters, faults, past>>

(* Mutant: the messages taken for the turn are not given back.             *)
NextKeptNotGivenBack(c) ==
  /\ At(c, "takeNext") /\ Fault /\ Reject(c)
  /\ UNCHANGED <<session, pendingSessionWrites, queues, runAbortController, aborted,
                 limits, counters, past>>

NextGivenBack(c) ==
  /\ At(c, "takeNext") /\ Fault /\ Reject(c)
  /\ nextTurnQueue' = [p \in DOMAIN Front(call[c].hand) |-> call[c].hand[p].item]
                      \o nextTurnQueue
  /\ UNCHANGED <<session, pendingSessionWrites, steerQueue, followUpQueue,
                 runAbortController, aborted, limits, counters, past>>

(* The loop starts as if tools were to follow: a prompt always makes a     *)
(* request, whether or not its first poll finds a message.                 *)
RunLoop(c) ==
  /\ At(c, "beforeHook")
  /\ Set(c, [pc |-> "prompts", ran |-> TRUE, more |-> TRUE,
             context |-> call[c].context \o call[c].hand])
  /\ runAbortController' = c
  /\ UNCHANGED <<session, phase, pendingSessionWrites, queues, runPromise, aborted,
                 limits, counters, faults, past>>

(* before_agent_start throws: the messages kept for this turn are gone.    *)
BeforeHookThrows(c) ==
  /\ At(c, "beforeHook") /\ Fault /\ Reject(c)
  /\ dropped' = dropped \union Messages(Front(call[c].hand))
  /\ UNCHANGED <<session, pendingSessionWrites, queues, runAbortController, aborted,
                 limits, counters, asked, accepted, cleared>>

-----------------------------------------------------------------------------
(* The loop, with the harness as its listener.  A message is appended to   *)
(* the session before the listeners hear that it is complete.              *)

ShowMessage(c) ==
  /\ call[c].pc \in Showing
  /\ BeginAppend(c, Head(call[c].hand).kind, Head(call[c].hand).item, 0)
  /\ UNCHANGED <<phase, pendingSessionWrites, queues, runAbortController, runPromise, call,
                 aborted, limits, counters, faults, past>>

Shown(c) ==
  /\ call[c].pc \in Showing /\ Commit(c)
  /\ Set(c, [hand |-> Tail(call[c].hand),
             context |-> IF At(c, "prompts") THEN call[c].context
                         ELSE Append(call[c].context, Head(call[c].hand)),
             pc |-> IF Len(call[c].hand) > 1 THEN call[c].pc ELSE AfterShowing(c)])
  /\ UNCHANGED <<phase, pendingSessionWrites, queues, runAbortController, runPromise,
                 aborted, limits, counters, faults, past>>

(* A listener of the message throws, before it is appended or after, or    *)
(* the append fails.                                                       *)
ShowThrows(c) ==
  /\ call[c].pc \in Showing
  /\ \/ ~Appends(c) /\ Fault /\ UNCHANGED session /\ LoopThrows(c, call[c].hand)
     \/ Commit(c) /\ Fault /\ LoopThrows(c, Tail(call[c].hand))
     \/ Abandon(c) /\ UNCHANGED faults /\ LoopThrows(c, call[c].hand)
  /\ UNCHANGED <<phase, pendingSessionWrites, queues, runAbortController, runPromise,
                 aborted, limits, asked, accepted, cleared>>

(* streamAssistantResponse and, when tools are called, their results.  A   *)
(* request made or answered under an aborted signal fails.                 *)
Answer(c) ==
  /\ At(c, "stream")
  /\ \/ /\ c \notin aborted /\ call[c].rounds < limits.rounds
        /\ Set(c, [pc |-> "output", more |-> TRUE, rounds |-> call[c].rounds + 1,
                   hand |-> <<Msg("assistant", 0), Msg("result", 0)>>])
     \/ \E failed \in BOOLEAN :
          /\ c \in aborted => failed
          /\ Set(c, [pc |-> "output", more |-> FALSE, ends |-> failed,
                     hand |-> <<Msg("assistant", 0)>>])
  /\ UNCHANGED <<session, phase, pendingSessionWrites, queues, runAbortController,
                 runPromise, aborted, limits, counters, faults, past>>

AnswerThrows(c) ==
  /\ At(c, "stream") /\ Fault /\ LoopThrows(c, <<>>)
  /\ UNCHANGED <<session, phase, pendingSessionWrites, queues, runAbortController,
                 runPromise, aborted, limits, asked, accepted, cleared>>

(* turn_end: what its listeners throw is kept until the writes are done.   *)
TurnEnd(c) ==
  /\ At(c, "turnEnd")
  /\ \/ Set(c, [pc |-> "turnFlush"]) /\ UNCHANGED faults
     \/ Set(c, [pc |-> "turnFlush", thrown |-> TRUE]) /\ Fault
  /\ UNCHANGED <<session, phase, pendingSessionWrites, queues, runAbortController,
                 runPromise, aborted, limits, counters, past>>

-----------------------------------------------------------------------------
(* flushPendingSessionWrites, from its four callers.                       *)

(* Mutant: the write leaves the queue before it is appended.               *)
FlushWriteTaken(c) ==
  /\ call[c].pc \in Flushing /\ pendingSessionWrites # <<>>
  /\ BeginAppend(c, Head(pendingSessionWrites).kind, Head(pendingSessionWrites).item, 0)
  /\ pendingSessionWrites' = Tail(pendingSessionWrites)
  /\ UNCHANGED <<phase, queues, runAbortController, runPromise, call,
                 aborted, limits, counters, faults, past>>

FlushWrite(c) ==
  /\ call[c].pc \in Flushing /\ pendingSessionWrites # <<>>
  /\ BeginAppend(c, Head(pendingSessionWrites).kind, Head(pendingSessionWrites).item, 0)
  /\ UNCHANGED <<phase, pendingSessionWrites, queues, runAbortController, runPromise, call,
                 aborted, limits, counters, faults, past>>

WriteFlushed(c) ==
  /\ call[c].pc \in Flushing /\ Commit(c)
  /\ pendingSessionWrites' = IF pendingSessionWrites = <<>> THEN <<>>
                             ELSE Tail(pendingSessionWrites)
  /\ UNCHANGED <<phase, queues, runAbortController, runPromise, call, aborted, limits,
                 counters, faults, past>>

FlushFails(c) ==
  /\ call[c].pc \in Flushing \ {"final"} /\ Abandon(c) /\ LoopThrows(c, <<>>)
  /\ UNCHANGED <<phase, pendingSessionWrites, queues, runAbortController, runPromise,
                 aborted, limits, faults, asked, accepted, cleared>>

(* Mutant: a flush may stop with writes left.                              *)
FlushedSome(c) == call[c].pc \in Flushing /\ ~Appends(c)

Flushed(c) == call[c].pc \in Flushing /\ pendingSessionWrites = <<>> /\ ~Appends(c)

(* After the writes of a turn, its save point.                             *)
SavePoint(c) ==
  /\ At(c, "turnFlush") /\ Flushed(c) /\ ~call[c].thrown
  /\ Set(c, [pc |-> IF call[c].ends THEN "endFlush" ELSE "prepare"])
  /\ UNCHANGED <<session, phase, pendingSessionWrites, queues, runAbortController,
                 runPromise, aborted, limits, counters, faults, past>>

SavePointThrows(c) ==
  /\ At(c, "turnFlush") /\ Flushed(c)
  /\ \/ call[c].thrown /\ UNCHANGED faults
     \/ ~call[c].thrown /\ Fault
  /\ LoopThrows(c, <<>>)
  /\ UNCHANGED <<session, phase, pendingSessionWrites, queues, runAbortController,
                 runPromise, aborted, limits, asked, accepted, cleared>>

(* Mutant: the loop keeps its own context.                                 *)
PrepareKeepsContext(c) ==
  /\ At(c, "prepare") /\ Flushed(c)
  /\ Set(c, [pc |-> "poll"])
  /\ UNCHANGED <<session, phase, pendingSessionWrites, queues, runAbortController,
                 runPromise, aborted, limits, counters, faults, past>>

(* prepareNextTurn: the loop goes on with the session as its context.      *)
PrepareNextTurn(c) ==
  /\ At(c, "prepare") /\ Flushed(c)
  /\ Set(c, [pc |-> "poll", context |-> Context])
  /\ UNCHANGED <<session, phase, pendingSessionWrites, queues, runAbortController,
                 runPromise, aborted, limits, counters, faults, past>>

PrepareThrows(c) ==
  /\ At(c, "prepare") /\ Flushed(c) /\ Fault /\ LoopThrows(c, <<>>)
  /\ UNCHANGED <<session, phase, pendingSessionWrites, queues, runAbortController,
                 runPromise, aborted, limits, asked, accepted, cleared>>

-----------------------------------------------------------------------------
(* The polls: drainQueuedMessages.                                         *)

Taken(mode, q) == IF mode = "all" THEN q ELSE SubSeq(q, 1, 1)

PollSteering(c) ==
  /\ At(c, "poll")
  /\ IF steerQueue = <<>>
     THEN /\ Set(c, [pc |-> IF call[c].more THEN "stream" ELSE "pollFollowUp"])
          /\ UNCHANGED queues
     ELSE \E mode \in Modes :
            LET taken == Taken(mode, steerQueue)
            IN /\ Set(c, [pc |-> "steerTaken", stale |-> FALSE,
                          hand |-> [p \in DOMAIN taken |-> Msg("user", taken[p])]])
               /\ steerQueue' = SubSeq(steerQueue, Len(taken) + 1, Len(steerQueue))
               /\ UNCHANGED <<followUpQueue, nextTurnQueue>>
  /\ UNCHANGED <<session, phase, pendingSessionWrites, runAbortController,
                 runPromise, aborted, limits, counters, faults, past>>

PollFollowUp(c) ==
  /\ At(c, "pollFollowUp")
  /\ IF followUpQueue = <<>>
     THEN Set(c, [pc |-> "endFlush"]) /\ UNCHANGED queues
     ELSE \E mode \in Modes :
            LET taken == Taken(mode, followUpQueue)
            IN /\ Set(c, [pc |-> "followUpTaken", stale |-> FALSE,
                          hand |-> [p \in DOMAIN taken |-> Msg("user", taken[p])]])
               /\ followUpQueue' = SubSeq(followUpQueue, Len(taken) + 1, Len(followUpQueue))
               /\ UNCHANGED <<steerQueue, nextTurnQueue>>
  /\ UNCHANGED <<session, phase, pendingSessionWrites, runAbortController,
                 runPromise, aborted, limits, counters, faults, past>>

Polled(c) ==
  /\ call[c].pc \in {"steerTaken", "followUpTaken"}
  /\ Set(c, [pc |-> "inject"])
  /\ UNCHANGED <<session, phase, pendingSessionWrites, queues, runAbortController,
                 runPromise, aborted, limits, counters, faults, past>>

(* The queue update throws: the messages go back to the queue they came    *)
(* from, which abort() may have replaced.                                  *)
PollThrows(c) ==
  /\ call[c].pc \in {"steerTaken", "followUpTaken"} /\ Fault
  /\ LET back == [p \in DOMAIN call[c].hand |-> call[c].hand[p].item]
         kept == ~call[c].stale
     IN /\ steerQueue' = IF kept /\ At(c, "steerTaken") THEN back \o steerQueue
                         ELSE steerQueue
        /\ followUpQueue' = IF kept /\ At(c, "followUpTaken") THEN back \o followUpQueue
                            ELSE followUpQueue
        /\ LoopThrows(c, IF kept THEN <<>> ELSE call[c].hand)
  /\ UNCHANGED <<session, phase, pendingSessionWrites, nextTurnQueue, runAbortController,
                 runPromise, aborted, limits, asked, accepted, cleared>>

-----------------------------------------------------------------------------
(* The end of a run.                                                       *)

(* agent_end: the last writes, and idle before the listeners hear it.      *)
GoIdle(c) ==
  /\ At(c, "endFlush") /\ Flushed(c)
  /\ phase' = "idle"
  /\ Set(c, [pc |-> "agentEnd"])
  /\ UNCHANGED <<session, pendingSessionWrites, queues, runAbortController, runPromise,
                 aborted, limits, counters, faults, past>>

(* The listeners of agent_end and settled return; a patient one has waited *)
(* for what it started.                                                    *)
ListenersDone(c) ==
  limits.patient => \A d \in Calls : call[d].op = "append" => ~Active(d)

AgentEnded(c) ==
  /\ At(c, "agentEnd") /\ ListenersDone(c)
  /\ Set(c, [pc |-> "final"])
  /\ UNCHANGED <<session, phase, pendingSessionWrites, queues, runAbortController,
                 runPromise, aborted, limits, counters, faults, past>>

AgentEndThrows(c) ==
  /\ At(c, "agentEnd") /\ ListenersDone(c) /\ Fault /\ LoopThrows(c, <<>>)
  /\ UNCHANGED <<session, phase, pendingSessionWrites, queues, runAbortController,
                 runPromise, aborted, limits, asked, accepted, cleared>>

(* executeTurn's finally, then prompt's: the controller and the promise    *)
(* are cleared, and an error leaves the harness idle.                      *)
Return(c) ==
  /\ At(c, "final")
  /\ \/ Flushed(c) /\ UNCHANGED session /\ phase' = IF call[c].error THEN "idle" ELSE phase
     \/ Abandon(c) /\ phase' = "idle"
  /\ runAbortController' = None /\ runPromise' = None
  /\ Finish(c)
  /\ UNCHANGED <<pendingSessionWrites, queues, aborted, limits, counters, faults, past>>

-----------------------------------------------------------------------------
(* What others may do while a call awaits.                                 *)

Ask(queue, allowed) ==
  /\ allowed /\ Len(asked) < limits.messages
  /\ queue' = Append(queue, nextMessage)
  /\ asked' = Append(asked, nextMessage)
  /\ nextMessage' = nextMessage + 1 /\ UNCHANGED nextWrite
  /\ UNCHANGED <<session, phase, pendingSessionWrites, runAbortController, runPromise, call,
                 aborted, limits, faults, accepted, cleared, dropped>>

Steer    == Ask(steerQueue, phase # "idle") /\ UNCHANGED <<followUpQueue, nextTurnQueue>>
FollowUp == Ask(followUpQueue, phase # "idle") /\ UNCHANGED <<steerQueue, nextTurnQueue>>
NextTurn == Ask(nextTurnQueue, TRUE) /\ UNCHANGED <<steerQueue, followUpQueue>>

(* appendMessage, setModel, setThinkingLevel while busy.  "by" is the call *)
(* that keeps the harness busy (history).                                  *)
AcceptWrite(kind) ==
  /\ phase # "idle" /\ Len(accepted) < limits.writes
  /\ LET holder == Max({c \in Calls : Active(c) /\ call[c].op # "append"})
     IN pendingSessionWrites' = Append(pendingSessionWrites,
                                       [kind |-> kind, item |-> nextWrite, by |-> holder])
  /\ accepted' = Append(accepted, nextWrite)
  /\ nextWrite' = nextWrite + 1 /\ UNCHANGED nextMessage
  /\ UNCHANGED <<session, phase, queues, runAbortController, runPromise, call, aborted,
                 limits, faults, asked, cleared, dropped>>

Abort ==
  /\ steerQueue # <<>> \/ followUpQueue # <<>> \/ runAbortController \notin aborted \union {None}
  /\ steerQueue' = <<>> /\ followUpQueue' = <<>>
  /\ cleared' = cleared \union ToSet(steerQueue) \union ToSet(followUpQueue)
  /\ aborted' = aborted \union ({runAbortController} \ {None})
  /\ call' = [c \in Calls |->
       IF call[c].pc \in {"steerTaken", "followUpTaken"}
       THEN [call[c] EXCEPT !.stale = TRUE] ELSE call[c]]
  /\ UNCHANGED <<session, phase, pendingSessionWrites, nextTurnQueue, runAbortController,
                 runPromise, limits, counters, faults, asked, accepted, dropped>>

-----------------------------------------------------------------------------
(* The same writes while idle: a call that appends at once.                *)

AppendIdle(c, kind) ==
  /\ MayCall(c, "append") /\ phase = "idle"
  /\ Set(c, [op |-> "append", pc |-> "append"])
  /\ BeginAppend(c, kind, nextWrite, 0)
  /\ nextWrite' = nextWrite + 1 /\ UNCHANGED nextMessage
  /\ UNCHANGED <<phase, pendingSessionWrites, queues, runAbortController, runPromise,
                 aborted, limits, faults, past>>

AppendedIdle(c) ==
  /\ At(c, "append")
  /\ Commit(c) \/ Abandon(c)
  /\ Finish(c)
  /\ UNCHANGED <<phase, pendingSessionWrites, queues, runAbortController, runPromise,
                 aborted, limits, counters, faults, past>>

(* compact(): the first entry to keep is chosen from the branch at the     *)
(* start, the entry is appended after the hook and the summary.            *)
Compact(c) ==
  /\ MayCall(c, "compact") /\ phase = "idle"
  /\ phase' = "compaction"
  /\ \E e \in ToSet(Path(leafId)) :
       /\ e.kind \in {"user", "assistant", "custom", "summary"}
       /\ Last(Path(leafId)).kind # "compaction"
       /\ Set(c, [op |-> "compact", pc |-> "compacting", goal |-> e.id])
  /\ UNCHANGED <<session, pendingSessionWrites, queues, runAbortController, runPromise,
                 aborted, limits, counters, faults, past>>

AppendCompaction(c) ==
  /\ At(c, "compacting")
  /\ BeginAppend(c, "compaction", 0, call[c].goal)
  /\ UNCHANGED <<phase, pendingSessionWrites, queues, runAbortController, runPromise, call,
                 aborted, limits, counters, faults, past>>

(* navigateTree(): a message of the user is left for its parent, to be     *)
(* edited; any other entry becomes the leaf.                               *)
NavigateTree(c) ==
  /\ MayCall(c, "navigate") /\ phase = "idle"
  /\ phase' = "branch_summary"
  /\ \E e \in ToSet(entries) :
       /\ e.id # leafId /\ e.kind # "leaf"
       /\ Set(c, [op |-> "navigate", pc |-> "navigating",
                  goal |-> IF e.kind \in {"user", "custom"} THEN e.parentId ELSE e.id])
  /\ UNCHANGED <<session, pendingSessionWrites, queues, runAbortController, runPromise,
                 aborted, limits, counters, faults, past>>

(* Mutant: the leaf moves in memory only, and no leaf entry is appended.   *)
MoveToInMemory(c) ==
  /\ At(c, "navigating")
  /\ leafId' = call[c].goal
  /\ phase' = "idle"
  /\ Finish(c)
  /\ UNCHANGED <<file, entries, appending, overlapped, refused, pendingSessionWrites, queues,
                 runAbortController, runPromise, aborted, limits, counters, faults, past>>

MoveTo(c) ==
  /\ At(c, "navigating")
  /\ BeginAppend(c, "leaf", 0, call[c].goal)
  /\ UNCHANGED <<phase, pendingSessionWrites, queues, runAbortController, runPromise, call,
                 aborted, limits, counters, faults, past>>

Summarise(c) ==
  /\ At(c, "navigating") /\ Commit(c)
  /\ Set(c, [pc |-> "summarising"])
  /\ UNCHANGED <<phase, pendingSessionWrites, queues, runAbortController, runPromise,
                 aborted, limits, counters, faults, past>>

AppendSummary(c) ==
  /\ At(c, "summarising")
  /\ BeginAppendAt(c, "summary", 0, 0, call[c].goal)
  /\ UNCHANGED <<phase, pendingSessionWrites, queues, runAbortController, runPromise, call,
                 aborted, limits, counters, faults, past>>

(* Both end idle, whatever happened: their hooks cancel or throw, the      *)
(* summary or an append fails, or the last append is done.                 *)
Settle(c) ==
  /\ call[c].pc \in {"compacting", "navigating", "summarising"}
  /\ \/ ~Appends(c) /\ ~At(c, "summarising") /\ UNCHANGED session
     \/ Commit(c)
     \/ Abandon(c)
  /\ phase' = "idle"
  /\ Finish(c)
  /\ UNCHANGED <<pendingSessionWrites, queues, runAbortController, runPromise, aborted,
                 limits, counters, faults, past>>

(* The file system finishes an append, or fails.                           *)
Write(c) ==
  /\ \/ AppendLine(c) /\ UNCHANGED faults
     \/ FailLine(c) /\ Fault
  /\ UNCHANGED <<phase, pendingSessionWrites, queues, runAbortController, runPromise, call,
                 aborted, limits, counters, past>>

-----------------------------------------------------------------------------
(* A call goes on with whatever it awaits.                                 *)
Loop(c) ==
  \/ ShowMessage(c) \/ Shown(c) \/ ShowThrows(c)
  \/ Answer(c) \/ AnswerThrows(c) \/ TurnEnd(c)
  \/ FlushWrite(c) \/ WriteFlushed(c) \/ FlushFails(c)
  \/ SavePoint(c) \/ SavePointThrows(c)
  \/ PrepareNextTurn(c) \/ PrepareThrows(c)
  \/ PollSteering(c) \/ PollFollowUp(c) \/ Polled(c) \/ PollThrows(c)
  \/ GoIdle(c) \/ AgentEnded(c) \/ AgentEndThrows(c)

GoOn(c) ==
  \/ Write(c) \/ Loop(c)
  \/ Snapshot(c) \/ SnapshotThrows(c) \/ NextTaken(c) \/ NextGivenBack(c)
  \/ RunLoop(c) \/ BeforeHookThrows(c) \/ Return(c)
  \/ AppendedIdle(c) \/ AppendCompaction(c) \/ MoveTo(c)
  \/ Summarise(c) \/ AppendSummary(c) \/ Settle(c)

Begin(c) ==
  \/ Prompt(c) \/ Compact(c) \/ NavigateTree(c)
  \/ \E kind \in WriteKinds : AppendIdle(c, kind)

Reenter ==
  \/ Steer \/ FollowUp \/ NextTurn \/ Abort
  \/ \E kind \in WriteKinds : AcceptWrite(kind)

Next == (\E c \in Calls : Begin(c) \/ GoOn(c)) \/ Reenter

Spec == Init /\ [][Next]_vars

-----------------------------------------------------------------------------
(* Properties.                                                             *)

(* Every variable has its type.                                            *)
TypeOK ==
  /\ SessionTypeOK
  /\ phase \in {"idle", "turn", "compaction", "branch_summary"}
  /\ \A p \in DOMAIN pendingSessionWrites :
       pendingSessionWrites[p] \in [kind : EntryKind, item : Nat, by : Calls]
  /\ \A q \in ToSet(queues) : q \in Seq(Nat)
  /\ runAbortController \in Calls \union {None} /\ runPromise \in Calls \union {None}
  /\ DOMAIN call = Calls /\ \A c \in Calls : DOMAIN call[c] = DOMAIN Free
  /\ aborted \subseteq Calls /\ limits \in Limits /\ nextMessage \in Nat /\ nextWrite \in Nat
  /\ faults \in Nat

(* What the entries of some kinds hold of a set of items, in the order     *)
(* appended.                                                               *)
Persisted(kinds, items) ==
  LET es == Only(entries, {e \in SessionEntry : e.kind \in kinds /\ e.item \in items})
  IN [p \in DOMAIN es |-> es[p].item]

(* "Those calls must not reorder persisted transcript entries, lose        *)
(* pending writes ..." (agent/docs/agent-harness.md): the harness never    *)
(* overlaps its own appends; only callers that do not wait for a call to   *)
(* return can make two overlap.                                            *)
AppendsAreSerial == limits.patient => ~overlapped

(* Writes asked for while busy reach the session once each, in the order   *)
(* asked, whatever fails and whenever the queue is flushed: what is        *)
(* persisted, then what waits, is what was asked for.                      *)
WritesOnceInOrder ==
  ~overlapped =>
    accepted = Persisted({"custom", "setting"}, ToSet(accepted))
               \o [p \in DOMAIN pendingSessionWrites |-> pendingSessionWrites[p].item]

(* Both: the harness appends one entry at a time, and while it does no     *)
(* write is lost, repeated or moved.                                       *)
WritesAreOrderly == AppendsAreSerial /\ WritesOnceInOrder

(* "Pending session writes are always persisted" holds of the writes asked *)
(* for while a loop runs: when every call has returned, whatever threw on  *)
(* the way, and the file system refused nothing, a write that still waits  *)
(* was asked for during a compaction, a navigation, or a prompt that       *)
(* failed before its loop.                                                 *)
LoopsLeaveNoWrites ==
  (~refused /\ ~overlapped /\ \A c \in Calls : ~Active(c)) =>
    \A p \in DOMAIN pendingSessionWrites : ~call[pendingSessionWrites[p].by].ran

(* A request is made about the branch of the session, with whatever was    *)
(* appended, steered in, compacted or navigated before it.                 *)
RequestSeesBranch ==
  limits.patient => \A c \in Calls : At(c, "stream") => call[c].context = Context

(* A message queued by steer, followUp or nextTurn is in one place: a      *)
(* queue, the hand of the loop that took it, the session, or among those   *)
(* abort() cleared or a failing run lost; and patient callers find each    *)
(* queue in order.  (Of two loops that run at once, the one that took the  *)
(* later message may fail after the other and give it back in front.)      *)
MessagesAccountedFor ==
  LET queued == steerQueue \o followUpQueue \o nextTurnQueue
      held   == (UNION {Messages(call[c].hand) : c \in Calls}) \intersect ToSet(asked)
      kept   == ToSet(Persisted({"user"}, ToSet(asked)))
      places == <<ToSet(queued), held, kept, cleared, dropped>>
  IN /\ ToSet(asked) = UNION ToSet(places)
     /\ \A i, j \in DOMAIN places : i # j => places[i] \intersect places[j] = {}
     /\ Cardinality(kept) = Len(Persisted({"user"}, ToSet(asked)))
     /\ limits.patient =>
          \A q \in {steerQueue, followUpQueue, nextTurnQueue} :
            \A i, j \in DOMAIN q : i < j => q[i] < q[j]

(* The phase is never left behind: patient callers find the harness busy   *)
(* exactly while a call is between its start and its agent_end, and once   *)
(* all have returned neither a controller nor a promise remains.           *)
PhaseIsHonest ==
  limits.patient =>
    /\ phase # "idle" => \E c \in Calls : Active(c) /\ call[c].op # "append"
    /\ (\A c \in Calls : ~Active(c)) => runAbortController = None /\ runPromise = None
    /\ \A c \in Calls : call[c].pc \in BeforeLoop => phase = "turn"

(* When its calls have returned the harness is as new: free, without a     *)
(* controller, and without a write that a loop left behind; every variable *)
(* has its type.                                                           *)
HarnessSettles == TypeOK /\ PhaseIsHonest /\ LoopsLeaveNoWrites
=============================================================================
