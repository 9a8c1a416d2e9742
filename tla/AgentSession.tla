---------------------------- MODULE AgentSession ----------------------------
(***************************************************************************)
(* AgentSession (packages/coding-agent/src/core/agent-session.ts) over one *)
(* Agent: prompt() and what follows a run (retry with backoff, compaction, *)
(* continuing), compact() by hand, steering, the saving of messages to the *)
(* session, and results of the user's own shell commands.                  *)
(*                                                                         *)
(* A step goes from one await of the code to the next.  A run of the agent *)
(* (modelled in AgentRun) is seen through its events and its polls.  The   *)
(* session is one branch, as SessionManager keeps it.                      *)
(***************************************************************************)
EXTENDS SequencesExt

CONSTANTS
  None,
  Calls,       \* invocations of prompt() and compact(), numbered as they come
  MaxRetries,  \* settings: retries of a failing request
  Answers,     \* how the model may answer: stop reason and size of the context
  Limits       \* bounds, one of which a behaviour keeps to: whether prompts wait
               \* for the last one to return; calls; compactions among them;
               \* answers; messages queued; shell results; aborts

Stops == {"stop", "silent", "toolUse", "error", "fatal", "overflow", "aborted"}

ASSUME SessionAssumption ==
  /\ Calls \subseteq Nat /\ MaxRetries \in Nat
  /\ Answers \subseteq [stop : Stops, large : BOOLEAN]
  /\ Limits \subseteq [patient : BOOLEAN, calls : Nat, compacts : Nat, answers : Nat,
                       queued : Nat, bash : Nat, aborts : Nat]

VARIABLES
  (* Agent *)
  messages, steeringQueue, followUpQueue, run,
  (* AgentSession *)
  connected, lastAssistant, overflowTried, retryAttempt, retrying,
  steeringMessages, followUpMessages, pendingBash,
  call,
  (* SessionManager *)
  entries,
  limits, nextId,
  spent,      \* answers, messages queued, shell results, aborts so far
  (* history *)
  missed,     \* messages of runs that AgentSession did not hear of
  raced,      \* compact() was called before a prompt had returned
  late,       \* messages queued when nothing would look at the queues
  recoveries  \* overflows recovered from since a user's message or an answer

agent   == <<messages, steeringQueue, followUpQueue, run>>
shown   == <<steeringMessages, followUpMessages>>
retries == <<retryAttempt, retrying>>
past    == <<missed, raced, late, recoveries>>
vars    == <<agent, connected, lastAssistant, overflowTried, retries, shown, pendingBash,
             call, entries, limits, nextId, spent, past>>

-----------------------------------------------------------------------------
(* Messages and entries.  "silent" is an answer that ended well although   *)
(* the context overflowed, "fatal" an error that is not retried.  A        *)
(* compaction entry has the first message it keeps and those summarised.   *)

Message(role, id)  == [role |-> role, id |-> id]
Assistant(id, a)   == [role |-> "assistant", id |-> id, stop |-> a.stop, large |-> a.large]
Compaction(id, p)  == [role |-> "compaction", id |-> id, first |-> p.first, covers |-> p.covers]

IsAssistant(m) == m.role = "assistant"
Failed(m)      == m.stop \in {"error", "fatal", "overflow"}
Overflowed(m)  == m.stop \in {"overflow", "silent"}

LastCompaction(es) == SelectLastInSeq(es, LAMBDA e : e.role = "compaction")
At0(es, id)        == SelectInSeq(es, LAMBDA e : e.id = id)

(* buildSessionContext *)
Context(es) ==
  LET c == LastCompaction(es)
      k == At0(es, es[c].first)
      IsMessage(e) == e.role # "compaction"
  IN IF c = 0 THEN es
     ELSE <<es[c]>> \o SelectSeq(SubSeq(es, k, c - 1), IsMessage) \o SubSeq(es, c + 1, Len(es))

(* prepareCompaction, findCutPoint: from the first entry the last          *)
(* compaction kept, up to any place but a tool's result; where, is a       *)
(* matter of sizes.  A turn that is cut has a summary of its own; it       *)
(* stands alone, without the old summary, when no message is before it.    *)
BoundaryStartAfter(es) == LastCompaction(es) + 1   \* mutant: what was kept is skipped

BoundaryStart(es) ==
  IF LastCompaction(es) = 0 THEN 1 ELSE At0(es, es[LastCompaction(es)].first)

\* findTurnStartIndex: the message of the user, or the shell result, before an entry.
TurnStarts(es, p) == {q \in BoundaryStart(es) .. p : es[q].role \in {"user", "bash"}}

Preparation(es, p) ==
  LET from == BoundaryStart(es)
      turn == IF es[p].role = "user" \/ TurnStarts(es, p) = {} THEN p ELSE Max(TurnStarts(es, p))
      Ids(first, last) == {es[q].id : q \in {r \in first .. last : es[r].role # "compaction"}}
      prefix  == Ids(turn, p - 1)
      history == Ids(from, turn - 1)
      old == IF LastCompaction(es) = 0 THEN {} ELSE es[LastCompaction(es)].covers
  IN [first  |-> es[p].id,
      covers |-> prefix \union history \union IF prefix # {} /\ history = {} THEN {} ELSE old]

Preparations(es) ==
  LET from == BoundaryStart(es)
      cuts == {p \in from .. Len(es) : es[p].role \notin {"result", "compaction"}}
  IN IF es = <<>> \/ Last(es).role = "compaction" THEN {}
     ELSE {Preparation(es, p) : p \in IF cuts = {} THEN {from} ELSE cuts}

-----------------------------------------------------------------------------
(* The run of the agent: who awaits it; its signal; what it does; the      *)
(* messages in hand and where it goes when they are shown; whether         *)
(* AgentSession heard of the one being shown; whether tools were called.   *)

Run(c, hand, next) ==
  [owner |-> c, aborted |-> FALSE, pc |-> IF hand = <<>> THEN next ELSE "show",
   hand |-> hand, next |-> next, heard |-> TRUE, more |-> FALSE]

isStreaming == run # None
Users(ids)  == [p \in DOMAIN ids |-> Message("user", ids[p])]
Queued      == ToSet(steeringQueue) \union ToSet(followUpQueue)

(* A call: of a prompt, whether it is before its own run (pre), checking   *)
(* the last answer or continuing after it; of a compaction, its reason and *)
(* what it prepared; the answer a backoff is about.                        *)
Free == [op |-> "prompt", pc |-> "free", pre |-> "no", reason |-> "manual", prep |-> None,
         answer |-> None]

At(c, pc)      == call[c].pc = pc
Active(c)      == call[c].pc \notin {"free", "done", "threw", "refused"}
Set(c, fields) == call' = [call EXCEPT ![c] = fields @@ @]
Finish(c, how) == call' = [call EXCEPT ![c] = [op |-> @.op, pc |-> how] @@ Free]

Init ==
  /\ messages = <<>> /\ steeringQueue = <<>> /\ followUpQueue = <<>> /\ run = None
  /\ connected = TRUE /\ lastAssistant = None /\ overflowTried = FALSE
  /\ retryAttempt = 0 /\ retrying = None
  /\ steeringMessages = <<>> /\ followUpMessages = <<>> /\ pendingBash = <<>>
  /\ call = [c \in Calls |-> Free]
  /\ entries = <<>> /\ limits \in Limits /\ nextId = 1
  /\ spent = [answers |-> 0, queued |-> 0, bash |-> 0, aborts |-> 0]
  /\ missed = {} /\ raced = FALSE /\ late = {} /\ recoveries = 0

(* Between the end of a run and what follows it only promises settle:      *)
(* nothing comes in from outside.                                          *)
Settling == \E c \in Calls : At(c, "ended")

Spend(what) == ~Settling /\ spent[what] < limits[what] /\ spent' = [spent EXCEPT ![what] = @ + 1]

-----------------------------------------------------------------------------
(* The loop, and _handleAgentEvent, which is called for a message as it is *)
(* complete in the transcript and saves it when the extensions have heard  *)
(* of it.                                                                  *)

ShowMessage ==
  /\ isStreaming /\ run.pc = "show"
  /\ LET m == Head(run.hand)
         mine == connected /\ m.role = "user"
         steered == m.id \in ToSet(steeringMessages)
     IN /\ messages' = Append(messages, m)
        /\ run' = [run EXCEPT !.pc = "save", !.heard = connected]
        /\ overflowTried' = (overflowTried /\ ~mine)
        /\ steeringMessages' = IF mine THEN Remove(steeringMessages, m.id) ELSE steeringMessages
        /\ followUpMessages' = IF mine /\ ~steered THEN Remove(followUpMessages, m.id)
                               ELSE followUpMessages
        /\ recoveries' = IF mine THEN 0 ELSE recoveries
        /\ missed' = IF connected THEN missed ELSE missed \union {m.id}
  /\ UNCHANGED <<steeringQueue, followUpQueue, connected, lastAssistant, retries, pendingBash,
                 call, entries, limits, nextId, spent, raced, late>>

Shown == [run EXCEPT !.hand = Tail(run.hand),
                     !.pc = IF Len(run.hand) > 1 THEN "show" ELSE run.next]

SaveMessage ==
  /\ isStreaming /\ run.pc = "save" /\ run.heard
  /\ LET m == Head(run.hand)
         good == IsAssistant(m) /\ ~Failed(m)
     IN /\ entries' = Append(entries, m)
        /\ lastAssistant' = IF IsAssistant(m) THEN m ELSE lastAssistant
        /\ overflowTried' = (overflowTried /\ ~good)
        /\ retryAttempt' = IF good THEN 0 ELSE retryAttempt
        /\ recoveries' = IF good THEN 0 ELSE recoveries
  /\ run' = Shown
  /\ UNCHANGED <<messages, steeringQueue, followUpQueue, connected, retrying, shown,
                 pendingBash, call, limits, nextId, spent, missed, raced, late>>

MissMessage ==
  /\ isStreaming /\ run.pc = "save" /\ ~run.heard
  /\ run' = Shown
  /\ UNCHANGED <<messages, steeringQueue, followUpQueue, connected, lastAssistant,
                 overflowTried, retries, shown, pendingBash, call, entries, limits, nextId,
                 spent, past>>

(* The model answers; a tool it asks for answers too, aborted or not.  An  *)
(* aborted request is answered whatever answers are left.                  *)
Answer ==
  /\ isStreaming /\ run.pc = "stream" /\ ~Settling
  /\ IF run.aborted THEN UNCHANGED spent ELSE Spend("answers")
  /\ \E a \in Answers :
       /\ run.aborted <=> a.stop = "aborted"
       /\ run' = [run EXCEPT !.pc = "show",
            !.hand = <<Assistant(nextId, a)>>
                     \o IF a.stop = "toolUse" THEN <<Message("result", nextId + 1)>> ELSE <<>>,
            !.next = IF a.stop \in {"stop", "silent", "toolUse"} THEN "poll" ELSE "end",
            !.more = a.stop = "toolUse"]
       /\ nextId' = nextId + 2
  /\ UNCHANGED <<messages, steeringQueue, followUpQueue, connected, lastAssistant,
                 overflowTried, retries, shown, pendingBash, call, entries, limits,
                 missed, raced, late, recoveries>>

(* The polls, one message at a time: steering, and follow-ups when the     *)
(* loop would stop.                                                        *)
Poll ==
  /\ isStreaming /\ run.pc \in {"first", "poll"}
  /\ LET stops == run.pc = "poll" /\ ~run.more
         Inject(id) == [run EXCEPT !.pc = "show", !.next = "stream", !.hand = Users(<<id>>)]
     IN \/ /\ steeringQueue # <<>>
           /\ run' = Inject(Head(steeringQueue)) /\ steeringQueue' = Tail(steeringQueue)
           /\ UNCHANGED followUpQueue
        \/ /\ steeringQueue = <<>> /\ stops /\ followUpQueue # <<>>
           /\ run' = Inject(Head(followUpQueue)) /\ followUpQueue' = Tail(followUpQueue)
           /\ UNCHANGED steeringQueue
        \/ /\ steeringQueue = <<>> /\ (stops => followUpQueue = <<>>)
           /\ run' = [run EXCEPT !.pc = IF stops THEN "end" ELSE "stream"]
           /\ UNCHANGED <<steeringQueue, followUpQueue>>
  /\ UNCHANGED <<messages, connected, lastAssistant, overflowTried, retries, shown,
                 pendingBash, call, entries, limits, nextId, spent, past>>

(* agent_end was heard by all: finishRun.  Whoever called prompt() or      *)
(* continue() goes on, and so does a compact() that aborted the run.       *)
FinishRun ==
  /\ isStreaming /\ run.pc = "end"
  /\ run' = None
  /\ call' = [c \in Calls |->
       CASE c = run.owner -> [call[c] EXCEPT !.pc = "ended"]
         [] At(c, "aborting") -> [call[c] EXCEPT !.pc = "preparing"]
         [] OTHER -> call[c]]
  /\ UNCHANGED <<messages, steeringQueue, followUpQueue, connected, lastAssistant,
                 overflowTried, retries, shown, pendingBash, entries, limits, nextId,
                 spent, past>>

-----------------------------------------------------------------------------
(* What follows a run.  ms are the messages as they stand at that point.   *)

(* _checkCompaction: why an answer asks for a compaction, if it does.  The *)
(* size of the context after an error is that of the answer before.        *)
Compacted(m) == LastCompaction(entries) # 0 /\ m.id <= entries[LastCompaction(entries)].id
UsageMessage == SelectLastInSeq(messages, LAMBDA m : IsAssistant(m) /\ ~Failed(m)
                                                     /\ m.stop # "aborted")
Large(m)     == m.large \/ m.stop = "silent"
Oversized(m) == IF Failed(m)
                THEN UsageMessage # 0 /\ ~Compacted(messages[UsageMessage])
                     /\ Large(messages[UsageMessage])
                ELSE Large(m)
Reason(m, skipAborted) ==
  CASE (skipAborted /\ m.stop = "aborted") \/ Compacted(m) -> "none"
    [] ~Compacted(m) /\ Overflowed(m) -> IF overflowTried THEN "none" ELSE "overflow"
    [] OTHER -> IF Oversized(m) THEN "threshold" ELSE "none"

WithoutLastAssistant(ms) == IF ms # <<>> /\ IsAssistant(Last(ms)) THEN Front(ms) ELSE ms

(* Mutant: an overflow is recovered from again and again.                  *)
StartCompactionAgain(c, why, pre, ms) ==
  /\ messages' = IF why = "overflow" THEN WithoutLastAssistant(ms) ELSE ms
  /\ recoveries' = IF why = "overflow" THEN recoveries + 1 ELSE recoveries
  /\ UNCHANGED overflowTried
  /\ Set(c, [pc |-> "preparing", reason |-> why, pre |-> pre])

StartCompaction(c, why, pre, ms) ==
  /\ messages' = IF why = "overflow" THEN WithoutLastAssistant(ms) ELSE ms
  /\ recoveries' = IF why = "overflow" THEN recoveries + 1 ELSE recoveries
  /\ overflowTried' = (overflowTried \/ why = "overflow")
  /\ Set(c, [pc |-> "preparing", reason |-> why, pre |-> pre])

(* The call leaves _runAgentPrompt, or the like in prompt(), with the      *)
(* results of shell commands held back until now.                          *)
FlushBash(ms) ==
  /\ messages' = ms \o pendingBash
  /\ entries' = entries \o pendingBash
  /\ pendingBash' = <<>>
KeepBash(ms) == messages' = ms /\ UNCHANGED <<entries, pendingBash>>

Throw(c, ms) == FlushBash(ms) /\ Finish(c, "threw")
NoMore(c, ms) ==
  \/ call[c].pre = "no" /\ FlushBash(ms) /\ Finish(c, "done")
  \/ call[c].pre = "loop" /\ FlushBash(ms) /\ Set(c, [pc |-> "before", pre |-> "no"])
  \/ call[c].pre = "check" /\ KeepBash(ms) /\ Set(c, [pc |-> "before", pre |-> "no"])

StartRun(c, hand, next) ==
  /\ run' = Run(c, hand, next)
  /\ late' = {}
  /\ Set(c, [pc |-> "running", pre |-> IF call[c].pre = "check" THEN "loop" ELSE call[c].pre,
             reason |-> "manual", prep |-> None, answer |-> None])

(* Agent.continue().                                                       *)
MayContinue(ms) ==
  /\ ~isStreaming /\ ms # <<>>
  /\ IsAssistant(Last(ms)) => steeringQueue # <<>> \/ followUpQueue # <<>>

Continue(c, ms) ==
  \/ /\ ~MayContinue(ms) /\ Throw(c, ms)
     /\ UNCHANGED <<run, late, steeringQueue, followUpQueue>>
  \/ /\ MayContinue(ms) /\ ~IsAssistant(Last(ms))
     /\ StartRun(c, <<>>, "first") /\ KeepBash(ms)
     /\ UNCHANGED <<steeringQueue, followUpQueue>>
  \/ /\ MayContinue(ms) /\ IsAssistant(Last(ms)) /\ steeringQueue # <<>>
     /\ StartRun(c, Users(<<Head(steeringQueue)>>), "stream") /\ KeepBash(ms)
     /\ steeringQueue' = Tail(steeringQueue) /\ UNCHANGED followUpQueue
  \/ /\ MayContinue(ms) /\ IsAssistant(Last(ms)) /\ steeringQueue = <<>>
     /\ StartRun(c, Users(<<Head(followUpQueue)>>), "first") /\ KeepBash(ms)
     /\ followUpQueue' = Tail(followUpQueue) /\ UNCHANGED steeringQueue

(* _handlePostAgentRun: a retry, a compaction, or nothing more.            *)
Retries(m) == m # None /\ m.stop = "error" /\ retryAttempt < MaxRetries

(* Mutant: the failure stays in the messages.                              *)
PrepareRetryKeeping(c) ==
  /\ At(c, "ended") /\ Retries(lastAssistant)
  /\ lastAssistant' = None
  /\ retryAttempt' = retryAttempt + 1 /\ retrying' = c
  /\ Set(c, [pc |-> "backoff", answer |-> lastAssistant])
  /\ UNCHANGED <<messages, steeringQueue, followUpQueue, run, connected, overflowTried, shown,
                 pendingBash, entries, limits, nextId, spent, past>>

PrepareRetry(c) ==
  /\ At(c, "ended") /\ Retries(lastAssistant)
  /\ lastAssistant' = None
  /\ retryAttempt' = retryAttempt + 1 /\ retrying' = c
  /\ messages' = WithoutLastAssistant(messages)
  /\ Set(c, [pc |-> "backoff", answer |-> lastAssistant])
  /\ UNCHANGED <<steeringQueue, followUpQueue, run, connected, overflowTried, shown,
                 pendingBash, entries, limits, nextId, spent, past>>

PostRun(c) ==
  /\ At(c, "ended") /\ ~Retries(lastAssistant)
  /\ lastAssistant' = None
  /\ LET m == lastAssistant
         why == IF m = None THEN "none" ELSE Reason(m, TRUE)
     IN /\ retryAttempt' = IF m # None /\ Failed(m) THEN 0 ELSE retryAttempt
        /\ IF why = "none"
           THEN NoMore(c, messages) /\ UNCHANGED <<overflowTried, recoveries>>
           ELSE /\ StartCompaction(c, why, call[c].pre, messages)
                /\ UNCHANGED <<entries, pendingBash>>
  /\ UNCHANGED <<steeringQueue, followUpQueue, run, connected, retrying, shown, limits,
                 nextId, spent, missed, raced, late>>

(* The backoff is over, or was aborted.                                    *)
RetryNow(c) ==
  /\ At(c, "backoff") /\ Continue(c, messages)
  /\ retrying' = None
  /\ UNCHANGED <<connected, lastAssistant, overflowTried, retryAttempt, shown, limits, nextId,
                 spent, missed, raced, recoveries>>

RetryCancelled(c) ==
  /\ At(c, "cancelled")
  /\ retryAttempt' = 0 /\ retrying' = None
  /\ LET why == Reason(call[c].answer, TRUE)
     IN IF why = "none"
        THEN NoMore(c, messages) /\ UNCHANGED <<overflowTried, recoveries>>
        ELSE /\ StartCompaction(c, why, call[c].pre, messages)
             /\ UNCHANGED <<entries, pendingBash>>
  /\ UNCHANGED <<steeringQueue, followUpQueue, run, connected, lastAssistant, shown, limits,
                 nextId, spent, missed, raced, late>>

-----------------------------------------------------------------------------
(* prompt(), up to the await of the input handlers; then up to that of     *)
(* before_agent_start; then its run.                                       *)

MayCall(c) ==
  /\ ~Settling /\ At(c, "free") /\ c <= limits.calls /\ \A d \in Calls : d < c => ~At(d, "free")

Prompt(c) ==
  /\ MayCall(c)
  /\ limits.patient => \A d \in Calls : ~Active(d)
  /\ Set(c, [pc |-> "input"])
  /\ UNCHANGED <<agent, connected, lastAssistant, overflowTried, retries, shown, pendingBash,
                 entries, limits, nextId, spent, past>>

(* A message joins a queue and the list of those shown as pending.         *)
PollsLeft == isStreaming /\ run.pc # "end" /\ run.next # "end"
Steered ==
  /\ steeringQueue' = Append(steeringQueue, nextId)
  /\ steeringMessages' = Append(steeringMessages, nextId)
  /\ late' = IF PollsLeft THEN late ELSE late \union {nextId}
  /\ nextId' = nextId + 1
  /\ UNCHANGED <<followUpQueue, followUpMessages>>
FollowedUp ==
  /\ followUpQueue' = Append(followUpQueue, nextId)
  /\ followUpMessages' = Append(followUpMessages, nextId)
  /\ late' = IF PollsLeft THEN late ELSE late \union {nextId}
  /\ nextId' = nextId + 1
  /\ UNCHANGED <<steeringQueue, steeringMessages>>

(* While a run streams the prompt is queued, or refused when the caller    *)
(* does not say how.                                                       *)
PromptWhileStreaming(c) ==
  /\ At(c, "input") /\ isStreaming
  /\ \/ (Steered \/ FollowedUp) /\ Finish(c, "done")
     \/ Finish(c, "refused") /\ UNCHANGED <<steeringQueue, followUpQueue, shown, late, nextId>>
  /\ UNCHANGED <<messages, run, connected, lastAssistant, overflowTried, retries,
                 pendingBash, entries, limits, spent, missed, raced, recoveries>>

InputHandled(c) ==
  /\ At(c, "input") /\ ~isStreaming
  /\ entries' = entries \o pendingBash /\ pendingBash' = <<>>
  /\ LET ms == messages \o pendingBash
         last == SelectLastInSeq(ms, IsAssistant)
         why == IF last = 0 THEN "none" ELSE Reason(ms[last], FALSE)
     IN IF why = "none"
        THEN messages' = ms /\ Set(c, [pc |-> "before"]) /\ UNCHANGED <<overflowTried, recoveries>>
        ELSE StartCompaction(c, why, "check", ms)
  /\ UNCHANGED <<steeringQueue, followUpQueue, run, connected, lastAssistant, retries, shown,
                 limits, nextId, spent, missed, raced, late>>

RunPrompt(c) ==
  /\ At(c, "before")
  /\ \/ ~isStreaming /\ StartRun(c, Users(<<nextId>>), "first") /\ KeepBash(messages)
     \/ isStreaming /\ Throw(c, messages) /\ UNCHANGED <<run, late>>
  /\ nextId' = nextId + 1
  /\ UNCHANGED <<steeringQueue, followUpQueue, connected, lastAssistant, overflowTried, retries,
                 shown, limits, spent, missed, raced, recoveries>>

-----------------------------------------------------------------------------
(* Aborting: the backoff of a retry, the signal of a run.                  *)

Cancelled(calls) ==
  [d \in Calls |-> IF d = retrying /\ calls[d].pc = "backoff"
                   THEN [calls[d] EXCEPT !.pc = "cancelled"] ELSE calls[d]]
SignalAborted == IF isStreaming THEN [run EXCEPT !.aborted = TRUE] ELSE None

Abort ==
  /\ retrying # None \/ (isStreaming /\ ~run.aborted)
  /\ Spend("aborts")
  /\ call' = Cancelled(call) /\ run' = SignalAborted
  /\ UNCHANGED <<messages, steeringQueue, followUpQueue, connected, lastAssistant,
                 overflowTried, retries, shown, pendingBash, entries, limits, nextId, past>>

(* compact(): AgentSession stops listening, aborts, and waits for the run. *)
Compact(c) ==
  /\ MayCall(c)
  /\ Cardinality({d \in Calls : call[d].op = "compact"}) < limits.compacts
  /\ limits.patient => \A d \in Calls : call[d].op = "compact" => ~Active(d)
  /\ connected' = FALSE
  /\ call' = Cancelled([call EXCEPT ![c] =
       [op |-> "compact", pc |-> IF isStreaming THEN "aborting" ELSE "preparing"] @@ @])
  /\ run' = SignalAborted
  /\ raced' = (raced \/ \E d \in Calls : call[d].op = "prompt" /\ Active(d))
  /\ UNCHANGED <<messages, steeringQueue, followUpQueue, lastAssistant, overflowTried,
                 retries, shown, pendingBash, entries, limits, nextId, spent, missed, late,
                 recoveries>>

-----------------------------------------------------------------------------
(* A compaction, by hand or not.                                           *)

(* The branch is read; the summary is awaited.                             *)
Prepare(c) ==
  /\ At(c, "preparing")
  /\ \E p \in Preparations(entries) : Set(c, [pc |-> "summarising", prep |-> p])
  /\ UNCHANGED <<agent, connected, lastAssistant, overflowTried, retries, shown, pendingBash,
                 entries, limits, nextId, spent, past>>

(* It is cancelled or fails, or there is nothing to compact.               *)
CompactionStops(c) ==
  /\ \/ At(c, "summarising") /\ ~Settling
     \/ At(c, "preparing") /\ Preparations(entries) = {}
  /\ IF call[c].op = "compact"
     THEN connected' = TRUE /\ Finish(c, "threw") /\ KeepBash(messages)
     ELSE UNCHANGED connected /\ NoMore(c, messages)
  /\ UNCHANGED <<steeringQueue, followUpQueue, run, lastAssistant, overflowTried, retries,
                 shown, limits, nextId, spent, past>>

(* Mutant: the agent keeps its messages.                                   *)
AppendCompactionOnly(c) ==
  /\ At(c, "summarising") /\ ~Settling
  /\ entries' = Append(entries, Compaction(nextId, call[c].prep))
  /\ nextId' = nextId + 1
  /\ late' = IF call[c].op = "compact" THEN late ELSE {}
  /\ Set(c, [pc |-> "compacted", prep |-> None])
  /\ UNCHANGED <<agent, connected, lastAssistant, overflowTried,
                 retries, shown, pendingBash, limits, spent, missed, raced, recoveries>>

AppendCompaction(c) ==
  /\ At(c, "summarising") /\ ~Settling
  /\ entries' = Append(entries, Compaction(nextId, call[c].prep))
  /\ messages' = Context(entries')
  /\ nextId' = nextId + 1
  /\ late' = IF call[c].op = "compact" THEN late ELSE {}
  /\ Set(c, [pc |-> "compacted", prep |-> None])
  /\ UNCHANGED <<steeringQueue, followUpQueue, run, connected, lastAssistant, overflowTried,
                 retries, shown, pendingBash, limits, spent, missed, raced, recoveries>>

CompactedByHand(c) ==
  /\ At(c, "compacted") /\ call[c].op = "compact"
  /\ connected' = TRUE /\ Finish(c, "done")
  /\ UNCHANGED <<agent, lastAssistant, overflowTried, retries, shown, pendingBash, entries,
                 limits, nextId, spent, past>>

(* Mutant: it continues only to retry.                                     *)
CompactedNoMore(c) ==
  /\ At(c, "compacted") /\ call[c].op # "compact"
  /\ LET ends == messages # <<>> /\ IsAssistant(Last(messages)) /\ Failed(Last(messages))
     IN IF call[c].reason = "overflow"
        THEN Continue(c, IF ends THEN Front(messages) ELSE messages)
        ELSE NoMore(c, messages) /\ UNCHANGED <<run, late, steeringQueue, followUpQueue>>
  /\ UNCHANGED <<connected, lastAssistant, overflowTried, retries, shown, limits, nextId,
                 spent, missed, raced, recoveries>>

(* After an overflow the request is made again; else messages that waited  *)
(* are delivered.                                                          *)
CompactedGoOn(c) ==
  /\ At(c, "compacted") /\ call[c].op # "compact"
  /\ LET ends == messages # <<>> /\ IsAssistant(Last(messages)) /\ Failed(Last(messages))
     IN \/ /\ call[c].reason = "overflow"
           /\ Continue(c, IF ends THEN Front(messages) ELSE messages)
        \/ /\ call[c].reason = "threshold" /\ Queued # {}
           /\ Continue(c, messages)
        \/ /\ call[c].reason = "threshold" /\ Queued = {}
           /\ NoMore(c, messages) /\ UNCHANGED <<run, late, steeringQueue, followUpQueue>>
  /\ UNCHANGED <<connected, lastAssistant, overflowTried, retries, shown, limits, nextId,
                 spent, missed, raced, recoveries>>

-----------------------------------------------------------------------------
(* steer(), followUp(), clearQueue(), recordBashResult().                  *)

Queue ==
  /\ Spend("queued") /\ (Steered \/ FollowedUp)
  /\ UNCHANGED <<messages, run, connected, lastAssistant, overflowTried, retries, pendingBash,
                 call, entries, limits, missed, raced, recoveries>>

ClearQueue ==
  /\ Queued # {}
  /\ steeringQueue' = <<>> /\ followUpQueue' = <<>>
  /\ steeringMessages' = <<>> /\ followUpMessages' = <<>>
  /\ UNCHANGED <<messages, run, connected, lastAssistant, overflowTried, retries, pendingBash,
                 call, entries, limits, nextId, spent, past>>

(* Mutant: a result is never held back.                                    *)
RecordBashAtOnce ==
  /\ Spend("bash") /\ nextId' = nextId + 1
  /\ LET result == Message("bash", nextId)
     IN /\ messages' = Append(messages, result) /\ entries' = Append(entries, result)
        /\ UNCHANGED pendingBash
  /\ UNCHANGED <<steeringQueue, followUpQueue, run, connected, lastAssistant, overflowTried,
                 retries, shown, call, limits, past>>

RecordBash ==
  /\ Spend("bash") /\ nextId' = nextId + 1
  /\ LET result == Message("bash", nextId)
     IN IF isStreaming
        THEN pendingBash' = Append(pendingBash, result) /\ UNCHANGED <<messages, entries>>
        ELSE /\ messages' = Append(messages, result) /\ entries' = Append(entries, result)
             /\ UNCHANGED pendingBash
  /\ UNCHANGED <<steeringQueue, followUpQueue, run, connected, lastAssistant, overflowTried,
                 retries, shown, call, limits, past>>

-----------------------------------------------------------------------------
Loop == ShowMessage \/ SaveMessage \/ MissMessage \/ Answer \/ Poll \/ FinishRun

GoOn(c) ==
  \/ PromptWhileStreaming(c) \/ InputHandled(c) \/ RunPrompt(c)
  \/ PrepareRetry(c) \/ PostRun(c) \/ RetryNow(c) \/ RetryCancelled(c)
  \/ Prepare(c) \/ CompactionStops(c) \/ AppendCompaction(c)
  \/ CompactedByHand(c) \/ CompactedGoOn(c)

Next ==
  \/ Loop \/ Abort \/ Queue \/ ClearQueue \/ RecordBash
  \/ \E c \in Calls : Prompt(c) \/ Compact(c) \/ GoOn(c)

Spec == Init /\ [][Next]_vars

-----------------------------------------------------------------------------
(* Properties.                                                             *)

Quiet == ~isStreaming /\ \A c \in Calls : ~Active(c)

(* Every variable has its type.                                            *)
TypeOK ==
  /\ ToSet(steeringQueue \o followUpQueue \o steeringMessages \o followUpMessages) \subseteq Nat
  /\ ToSet(messages) \union ToSet(entries) \subseteq
       [role : {"user", "result", "bash"}, id : Nat]
       \union [role : {"assistant"}, id : Nat, stop : Stops, large : BOOLEAN]
       \union [role : {"compaction"}, id : Nat, first : Nat, covers : SUBSET Nat]
  /\ run # None => run.owner \in Calls /\ At(run.owner, "running")
  /\ retryAttempt \in 0 .. MaxRetries /\ retrying \in Calls \union {None}
  /\ {connected, overflowTried} \subseteq BOOLEAN
  /\ DOMAIN call = Calls /\ \A c \in Calls : DOMAIN call[c] = DOMAIN Free

(* The agent's messages are what the session would be resumed with: when   *)
(* all is quiet, the transcript is the context of the branch, but for the  *)
(* failures taken out to be tried again and for what the agent still said  *)
(* while compact() made AgentSession deaf to it.                           *)
TranscriptIsBranch ==
  LET Kept(m) == /\ ~(IsAssistant(m) /\ (Overflowed(m) \/ Failed(m)))
                 /\ m.id \notin missed
  IN (limits.patient /\ Quiet) =>
       SelectSeq(messages, Kept) = SelectSeq(Context(entries), Kept)

(* "If agent is streaming, defer adding to avoid breaking                  *)
(* tool_use/tool_result ordering" (agent-session.ts:2583): in the branch   *)
(* every answer that asked for a tool is followed by the result, once the  *)
(* run is over, unless compact() stopped listening in between.             *)
ResultFollowsCall ==
  limits.patient =>
    \A p \in DOMAIN entries :
      (IsAssistant(entries[p]) /\ entries[p].stop = "toolUse") =>
        \/ p < Len(entries) /\ entries[p + 1] = Message("result", entries[p].id + 1)
        \/ p = Len(entries) /\ isStreaming
        \/ entries[p].id + 1 \in missed

(* Nothing of the branch is forgotten: each saved message is in the        *)
(* context, or what is at its head was summarised from it; but for what    *)
(* was summarised before the turn that a later compaction cut, when all it *)
(* summarised was the beginning of that turn.                              *)
Compactions == {p \in DOMAIN entries : entries[p].role = "compaction"}
CutsOneTurn(b, c) ==
  LET from == At0(entries, entries[b].first)
      to   == At0(entries, entries[c].first)
  IN /\ b < c /\ from < to
     /\ entries[to].role = "assistant"
     /\ {p \in from .. to : entries[p].role \in {"user", "bash"}} = {from}
NothingForgotten ==
  LET ctx == Context(entries)
      summarised == IF Compactions = {} THEN {} ELSE Head(ctx).covers
      dropped == UNION {entries[b].covers : b \in {p \in Compactions :
                                                    \E c \in Compactions : CutsOneTurn(p, c)}}
  IN \A p \in DOMAIN entries \ Compactions :
       LET m == entries[p] IN
         \/ m \in ToSet(ctx) /\ m.id \notin summarised
         \/ m \notin ToSet(ctx) /\ m.id \in summarised \union dropped

(* "passing the previous summary as iterative context when present"        *)
(* (docs/compaction.md:43): a summary tells of all that the one before it  *)
(* told of, at least when nothing else is under way.                       *)
SummaryIsCarriedOn ==
  ~raced => \A b, c \in Compactions : b < c => entries[b].covers \subseteq entries[c].covers

(* Whatever retries, compactions and aborts do, the next prompt starts     *)
(* with its whole budget of retries and no backoff is left behind.         *)
RetriesStartAgain ==
  (limits.patient /\ Quiet /\ ~raced) => retryAttempt = 0 /\ retrying = None

(* A context that still overflows after one compaction is not compacted    *)
(* and sent again: the agent does not loop.                                *)
OneRecovery == recoveries <= 1

(* Recovery from failures and overflows comes to an end, and leaves the    *)
(* session ready to recover again; every variable has its type, among them *)
(* the number of retries.                                                  *)
RecoveryEnds == TypeOK /\ RetriesStartAgain /\ OneRecovery

(* A prompt does not fail while its caller waits for one call at a time:   *)
(* continue() always has something to continue from, but in two cases.     *)
(* When an answer ended well although the context overflowed, compacting   *)
(* brings it back as the last message.  When a request overflows that had  *)
(* failed before and been retried, compacting brings back both failures,   *)
(* and only the last is taken out again.                                   *)
PromptsDoNotThrow ==
  LET Answered(p) == p \in DOMAIN entries /\ IsAssistant(entries[p])
      silent  == \E p \in DOMAIN entries : Answered(p) /\ entries[p].stop = "silent"
      retried == \E p \in DOMAIN entries :
                   Answered(p) /\ Answered(p - 1) /\ entries[p].stop = "overflow"
  IN (limits.patient /\ ~raced /\ ~silent /\ ~retried) =>
       \A c \in Calls : call[c].op = "prompt" => ~At(c, "threw")

(* A message that still waits when all is quiet was queued when nothing    *)
(* would look at the queues any more, or the last request had failed, or   *)
(* a run was aborted by compact(), which does not deliver what waits.      *)
QueuedIsDelivered ==
  LET last == SelectLastInSeq(entries, IsAssistant)
      well == last # 0 /\ ~Failed(entries[last]) /\ entries[last].stop # "aborted"
      threw == \E c \in Calls : call[c].op = "prompt" /\ At(c, "threw")
  IN (limits.patient /\ Quiet /\ missed = {} /\ well /\ ~threw) => Queued \subseteq late

(* The pending messages shown are those that wait, and the one the loop    *)
(* has taken and not yet shown; and one that was shown unheard.            *)
PendingShownIsPending ==
  LET taken == IF isStreaming /\ run.pc = "show" THEN ToSet(run.hand) ELSE {}
      pending == ToSet(steeringMessages) \union ToSet(followUpMessages)
  IN Queued \subseteq pending /\ pending \subseteq Queued \union {m.id : m \in taken} \union missed

(* What was queued is shown while it waits, and does not wait for nothing. *)
QueuedIsShownAndDelivered == PendingShownIsPending /\ QueuedIsDelivered
=============================================================================
