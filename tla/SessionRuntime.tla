--------------------------- MODULE SessionRuntime ---------------------------
(***************************************************************************)
(* AgentSessionRuntime (coding-agent/src/core/agent-session-runtime.ts)    *)
(* under the RPC mode: newSession, switchSession, fork and                 *)
(* importFromJsonl replace the current session, and await the extensions,  *)
(* the making of the new session and its binding on the way.  They differ  *)
(* in what they check before anything is torn down.                        *)
(***************************************************************************)
EXTENDS Integers, Sequences, FiniteSets

CONSTANT MaxIds   \* bound: calls of the client

ASSUME MaxIdsAssumption == MaxIds \in Nat \ {0}

Id == 1 .. MaxIds
Quit == 0          \* the shutdown of the process, which ends the session too

VARIABLES
  session,       \* the current session, by the order of creation
  sessions,      \* of each session: session_shutdown events, whether it is disposed
  replacement,   \* what each call that replaces the session awaits
  hosted,        \* the RPC mode's own reference to the session
  subscribed,    \* the session whose events the RPC mode writes, 0 for none
  overlapped,    \* history: a session was torn down while another was being replaced
  creationFailed \* history: createRuntime threw

runtimeVars ==
  <<session, sessions, replacement, hosted, subscribed, overlapped, creationFailed>>

Fresh == [told |-> 0, disposed |-> FALSE]

\* A replacement past its first await changes the runtime.
Tearing == {"shutdown", "creating", "binding", "rebinding"}
Replacing == Tearing \union {"beforeSwitch"}

RuntimeInit ==
  /\ session = 1 /\ hosted = 1 /\ subscribed = 1 /\ sessions = <<Fresh>>
  /\ replacement = [c \in Id \union {Quit} |-> "none"]
  /\ overlapped = FALSE /\ creationFailed = FALSE

\* emitBeforeSwitch, emitBeforeFork
EmitBeforeSwitch(c) ==
  /\ replacement[c] = "none"
  /\ replacement' = [replacement EXCEPT ![c] = "beforeSwitch"]
  /\ UNCHANGED <<session, sessions, hosted, subscribed, overlapped, creationFailed>>

\* An extension cancels, or the target is refused: nothing is torn down.
Refuse(c) ==
  /\ replacement[c] = "beforeSwitch"
  /\ \E outcome \in {"cancelled", "failed"} :
       replacement' = [replacement EXCEPT ![c] = outcome]
  /\ UNCHANGED <<session, sessions, hosted, subscribed, overlapped, creationFailed>>

\* teardownCurrent and dispose: the extensions of the session are told.
TellShutdown(c) ==
  /\ sessions' = [sessions EXCEPT ![session].told = @ + 1]
  /\ overlapped' = (overlapped \/ \E d \in DOMAIN replacement \ {c} :
                                    replacement[d] \in Tearing)
  /\ replacement' = [replacement EXCEPT ![c] = "shutdown"]
  /\ UNCHANGED <<session, hosted, creationFailed>>

TeardownCurrent(c) ==
  replacement[c] = "beforeSwitch" /\ TellShutdown(c) /\ UNCHANGED subscribed

\* Mutant: the session is left as it is.
DisposeNothing(c) ==
  /\ c # Quit /\ replacement[c] = "shutdown"
  /\ replacement' = [replacement EXCEPT ![c] = "creating"]
  /\ UNCHANGED <<session, sessions, hosted, subscribed, overlapped, creationFailed>>

\* They have heard: this.session, as it is by now, is disposed and the next one is made.
Dispose(c) ==
  /\ c # Quit /\ replacement[c] = "shutdown"
  /\ sessions' = [sessions EXCEPT ![session].disposed = TRUE]
  /\ replacement' = [replacement EXCEPT ![c] = "creating"]
  /\ UNCHANGED <<session, hosted, subscribed, overlapped, creationFailed>>

CreateFails(c) ==
  /\ replacement[c] = "creating"
  /\ replacement' = [replacement EXCEPT ![c] = "failed"] /\ creationFailed' = TRUE
  /\ UNCHANGED <<session, sessions, hosted, subscribed, overlapped>>

\* apply, and rebindSession, which awaits bindExtensions.
Apply(c) ==
  /\ replacement[c] = "creating"
  /\ sessions' = Append(sessions, Fresh)
  /\ session' = Len(sessions') /\ hosted' = session'
  /\ replacement' = [replacement EXCEPT ![c] = "binding"]
  /\ UNCHANGED <<subscribed, overlapped, creationFailed>>

\* Bound: the mode subscribes to the session it refers to by now.  A command of the
\* client binds again when the replacement returns, an extension does not.
Bound(c, again) ==
  /\ replacement[c] = "binding"
  /\ subscribed' = hosted
  /\ hosted' = IF again THEN session ELSE hosted
  /\ replacement' = [replacement EXCEPT ![c] = IF again THEN "rebinding" ELSE "done"]
  /\ UNCHANGED <<session, sessions, overlapped, creationFailed>>

BoundAgain(c) ==
  /\ replacement[c] = "rebinding"
  /\ subscribed' = hosted
  /\ replacement' = [replacement EXCEPT ![c] = "done"]
  /\ UNCHANGED <<session, sessions, hosted, overlapped, creationFailed>>

\* The steps of a replacement up to its return.
ReplacementStep(c, again) ==
  \/ Refuse(c)
  \/ TeardownCurrent(c)
  \/ Dispose(c)
  \/ CreateFails(c)
  \/ Apply(c)
  \/ Bound(c, again)
  \/ BoundAgain(c)

\* PROPERTIES

\* When no replacement is under way, the client talks to the session whose events it
\* gets, and that is the runtime's, however replacements overlapped.  And while they do
\* not overlap, every session is told of its end once, before it is disposed, and only
\* the current one is left.
SessionsAreHandedOver ==
  /\ (\A c \in DOMAIN replacement : replacement[c] \notin Replacing) =>
       /\ hosted = session /\ subscribed = session
       /\ ~creationFailed => ~sessions[session].disposed
  /\ ~overlapped /\ ~creationFailed => \A s \in DOMAIN sessions :
       /\ sessions[s].told <= 1
       /\ sessions[s].disposed => sessions[s].told = 1
       /\ s # session => sessions[s].disposed
=============================================================================
