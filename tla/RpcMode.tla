------------------------------- MODULE RpcMode ------------------------------
(***************************************************************************)
(* runRpcMode (coding-agent/src/modes/rpc/rpc-mode.ts) and prompt() of the *)
(* session below it: every line of stdin is a command that is handled      *)
(* beside those before it and answered once; what the subscribed session   *)
(* does is written between the answers.  "get_state" stands for the        *)
(* commands that are answered at once, "new_session" for all that replace  *)
(* the session.                                                            *)
(***************************************************************************)
EXTENDS SessionRuntime

VARIABLES
  toServer,   \* lines of stdin not yet read: commands
  toClient,   \* lines of stdout not yet read: answers and events
  command,    \* what the handling of each command awaits
  at,         \* the session a prompt or an abort was given to
  run,        \* the prompt each session is running, 0 for none
  alive,      \* the process has not exited
  answers,    \* history: answers written to each command
  continued   \* history: prompts in which agent.continue() was called

modeVars == <<toServer, toClient, command, at, run, alive, answers, continued>>

Response(id, ok) == [type |-> "response", of |-> id, ok |-> ok]
Event(id, type) == [type |-> type, of |-> id]

ModeInit ==
  /\ toServer = <<>> /\ toClient = <<>> /\ alive = TRUE
  /\ command = [i \in Id |-> "none"] /\ at = [i \in Id |-> 0]
  /\ run = [s \in 1 .. MaxIds + 1 |-> 0]
  /\ answers = [i \in Id |-> 0] /\ continued = {}

\* The handling goes on to `stage`, and writes events, nothing, or an answer.
GoesOnWith(id, stage, events) ==
  /\ command' = [command EXCEPT ![id] = stage]
  /\ toClient' = toClient \o events
  /\ UNCHANGED answers

GoesOn(id, stage) == GoesOnWith(id, stage, <<>>)

Answers(id, ok, stage) ==
  /\ command' = [command EXCEPT ![id] = stage]
  /\ toClient' = Append(toClient, Response(id, ok))
  /\ answers' = [answers EXCEPT ![id] = @ + 1]

\* handleInputLine and handleCommand, up to the first await.
HandleLine ==
  /\ toServer # <<>>
  /\ toServer' = Tail(toServer)
  /\ LET id == Head(toServer).id
         type == Head(toServer).type
     IN /\ \/ type = "get_state" /\ Answers(id, TRUE, "done") /\ UNCHANGED runtimeVars
           \/ type = "prompt" /\ GoesOn(id, "preflight") /\ UNCHANGED runtimeVars
           \/ type = "abort" /\ GoesOn(id, "aborting") /\ UNCHANGED runtimeVars
           \/ type = "new_session" /\ GoesOn(id, "replacing") /\ EmitBeforeSwitch(id)
        /\ at' = [at EXCEPT ![id] = hosted]
  /\ UNCHANGED <<run, alive, continued>>

\* A command that replaces the session, and an extension that does so in a prompt.
Replace(id) ==
  /\ command[id] \in {"replacing", "handling"}
  /\ ReplacementStep(id, command[id] = "replacing")
  /\ UNCHANGED modeVars

Replaced(id) ==
  /\ \/ command[id] = "replacing"
        /\ Answers(id, replacement[id] # "failed", "done")
     \/ command[id] = "handling" /\ Answers(id, TRUE, "done")
  /\ replacement[id] \in {"done", "cancelled", "failed"}
  /\ UNCHANGED <<runtimeVars, toServer, at, run, alive, continued>>

\* prompt(): an extension command or an input handler takes it, perhaps after it has
\* replaced the session.
HandledByExtension(id) ==
  /\ command[id] = "preflight"
  /\ \/ Answers(id, TRUE, "done") /\ UNCHANGED runtimeVars
     \/ GoesOn(id, "handling") /\ EmitBeforeSwitch(id)
  /\ UNCHANGED <<toServer, at, run, alive, continued>>

\* It is refused: the agent is busy, or there is no model or key, or a hook throws.
RefusePrompt(id) ==
  /\ command[id] \in {"preflight", "starting"}
  /\ Answers(id, FALSE, "done")
  /\ UNCHANGED <<runtimeVars, toServer, at, run, alive, continued>>

\* The agent is idle: the hooks of before_agent_start are awaited.
PassPreflight(id) ==
  /\ command[id] = "preflight" /\ run[at[id]] = 0
  /\ GoesOn(id, "starting")
  /\ UNCHANGED <<runtimeVars, toServer, at, run, alive, continued>>

\* What the subscribed session emits is written, unless it has been disposed.
Heard(s) == subscribed = s /\ ~sessions[s].disposed
Emits(id, type) == IF Heard(at[id]) THEN <<Event(id, type)>> ELSE <<>>

\* Mutant: a prompt that fails after it was accepted is answered again.
StartRunAnswers(id) ==
  LET s == at[id] IN
  /\ command[id] = "starting"
  /\ answers' = [answers EXCEPT ![id] = IF run[s] = 0 THEN @ + 1 ELSE @ + 2]
  /\ IF run[s] = 0
     THEN /\ run' = [run EXCEPT ![s] = id] /\ command' = [command EXCEPT ![id] = "running"]
          /\ toClient' = Append(toClient, Response(id, TRUE)) \o Emits(id, "agent_start")
     ELSE /\ UNCHANGED run /\ command' = [command EXCEPT ![id] = "done"]
          /\ toClient' = toClient \o <<Response(id, TRUE), Response(id, FALSE)>>
  /\ UNCHANGED <<runtimeVars, toServer, at, alive, continued>>

\* The prompt is accepted.  If another one has got in between, the agent throws, and
\* that is reported to nobody.
StartRun(id) ==
  LET s == at[id] IN
  /\ command[id] = "starting"
  /\ answers' = [answers EXCEPT ![id] = @ + 1]
  /\ IF run[s] = 0
     THEN /\ run' = [run EXCEPT ![s] = id] /\ command' = [command EXCEPT ![id] = "running"]
          /\ toClient' = Append(toClient, Response(id, TRUE)) \o Emits(id, "agent_start")
     ELSE /\ UNCHANGED run /\ command' = [command EXCEPT ![id] = "done"]
          /\ toClient' = Append(toClient, Response(id, TRUE))
  /\ UNCHANGED <<runtimeVars, toServer, at, alive, continued>>

\* agent_end is emitted; the agent is busy until its listeners are done.
EmitAgentEnd(id) ==
  /\ command[id] \in {"recovering", "running"}
  /\ GoesOnWith(id, IF command[id] = "running" THEN "ending" ELSE "recovered",
                Emits(id, "agent_end"))
  /\ UNCHANGED <<runtimeVars, toServer, at, run, alive, continued>>

\* The agent is idle.  The prompt is done, waits for a retry or a compaction after its
\* run, or goes on to its own run.
FinishRun(id) ==
  /\ command[id] \in {"recovered", "ending"}
  /\ run' = [run EXCEPT ![at[id]] = 0]
  /\ \E next \in {"done", "between", "starting"} :
       /\ next = "starting" <=> command[id] = "recovered"
       /\ next = "between" => continued = {}
       /\ GoesOn(id, next)
  /\ UNCHANGED <<runtimeVars, toServer, at, alive, continued>>

\* agent.continue(): after the run of a prompt, or before it when the context of an
\* earlier one had to be compacted.  Bound: once.
ContinueRun(id) ==
  LET s == at[id] IN
  /\ command[id] \in {"preflight", "between"} /\ continued = {} /\ run[s] = 0
  /\ GoesOnWith(id, IF command[id] = "between" THEN "running" ELSE "recovering",
                Emits(id, "agent_start"))
  /\ run' = [run EXCEPT ![s] = id] /\ continued' = continued \union {id}
  /\ UNCHANGED <<runtimeVars, toServer, at, alive>>

\* Nothing is continued: an abort, a failed compaction, or another prompt is running.
GiveUp(id) ==
  /\ command[id] = "between"
  /\ GoesOn(id, "done")
  /\ UNCHANGED <<runtimeVars, toServer, at, run, alive, continued>>

\* abort() waits for the agent to be idle.
Aborted(id) ==
  /\ command[id] = "aborting" /\ run[at[id]] = 0
  /\ Answers(id, TRUE, "done")
  /\ UNCHANGED <<runtimeVars, toServer, at, run, alive, continued>>

\* The end of stdin, a signal, or an extension that asked for it.
Shutdown ==
  /\ replacement[Quit] = "none"
  /\ TellShutdown(Quit) /\ subscribed' = 0
  /\ UNCHANGED modeVars

\* The process exits: when its session is disposed, at a second signal, or by a crash.
Exit ==
  /\ alive' = FALSE /\ toServer' = <<>>
  /\ UNCHANGED <<runtimeVars, toClient, command, at, run, answers, continued>>

ModeNext ==
  /\ alive
  /\ \/ HandleLine
     \/ Shutdown
     \/ Exit
     \/ \E id \in Id :
          \/ Replace(id)
          \/ Replaced(id)
          \/ HandledByExtension(id)
          \/ RefusePrompt(id)
          \/ PassPreflight(id)
          \/ StartRun(id)
          \/ EmitAgentEnd(id)
          \/ FinishRun(id)
          \/ ContinueRun(id)
          \/ GiveUp(id)
          \/ Aborted(id)

=============================================================================
