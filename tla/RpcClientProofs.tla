-------------------------- MODULE RpcClientProofs --------------------------
(* Proofs about RpcClient and the modules below it: the session the client *)
(* talks to while others replace it, the answers to its commands, and what *)
(* its calls collect, for any number of calls, programs and timers.        *)
EXTENDS RpcClient, SelectionProofs

-----------------------------------------------------------------------------
\* THE RUNTIME

SessionState == [told : Nat, disposed : BOOLEAN]
Caller == Id \union {Quit}

RuntimeTypes ==
  /\ sessions \in Seq(SessionState)
  /\ session \in 1 .. Len(sessions)
  /\ hosted = session
  /\ subscribed \in 0 .. Len(sessions)
  /\ replacement \in [Caller -> {"none", "beforeSwitch", "cancelled", "failed", "shutdown",
                                 "creating", "binding", "rebinding", "done"}]
  /\ replacement[Quit] \in {"none", "shutdown"}
  /\ overlapped \in BOOLEAN /\ creationFailed \in BOOLEAN

\* The mode hears the current session, unless a new one is being bound or the mode is
\* shutting down.
SubscribedFollows ==
  subscribed # session =>
    (\E c \in Caller : replacement[c] = "binding") \/ replacement[Quit] = "shutdown"

\* A current session that is disposed will be replaced.
DisposedIsReplaced ==
  sessions[session].disposed => creationFailed \/ \E c \in Caller : replacement[c] = "creating"

\* Unless replacements overlapped, one is past its first await.
OneTearing ==
  ~overlapped =>
    \A c, d \in Caller : replacement[c] \in Tearing /\ replacement[d] \in Tearing => c = d

\* And then only the current session is left, told of its end, and disposed, by the
\* replacement that is so far.
OneLeft ==
  ~overlapped /\ ~creationFailed =>
    /\ \A s \in 1 .. Len(sessions) : s # session => sessions[s].told = 1 /\ sessions[s].disposed
    /\ sessions[session].told = 0 \/ /\ sessions[session].told = 1
                                     /\ \E c \in Caller : replacement[c] \in {"shutdown", "creating"}
    /\ sessions[session].disposed => \E c \in Caller : replacement[c] = "creating"
    /\ sessions[session].disposed => sessions[session].told = 1
    /\ (\E c \in Caller : replacement[c] = "shutdown") => sessions[session].told = 1
    /\ (\E c \in Caller : replacement[c] = "creating") => sessions[session].disposed

RuntimeInv ==
  RuntimeTypes /\ SubscribedFollows /\ DisposedIsReplaced /\ OneTearing /\ OneLeft

-----------------------------------------------------------------------------
\* THE SERVER

\* A command that is read, and not yet answered.
UnderWay == {"preflight", "recovering", "recovered", "starting", "handling", "replacing", "aborting"}
Answered == {"done", "running", "ending", "between"}

Command == [id : Id, type : {"prompt", "abort", "get_state", "new_session"}]

\* What may be on the way to the client: events, and answers that were given.
Line ==
  [type : {"response"}, of : {i \in Id : answers[i] = 1}, ok : BOOLEAN]
    \union [type : {"agent_start", "agent_end"}, of : Id]

ServerTypes ==
  /\ toServer \in Seq(Command)
  /\ toClient \in Seq(Line)
  /\ command \in [Id -> {"none"} \union UnderWay \union Answered]
  /\ run \in [1 .. MaxIds + 1 -> Id \union {0}]
  /\ at \in [Id -> Nat]
  /\ answers \in [Id -> Nat]
  /\ calls \in Seq(Method) /\ Len(calls) <= MaxIds
  /\ program \in Seq(Method) /\ Len(program) <= MaxIds

\* A line of stdin is a command of a call that was not read yet, and comes once.
LinesAreNew ==
  /\ \A n \in 1 .. Len(toServer) :
       toServer[n].id <= Len(calls) /\ command[toServer[n].id] = "none"
  /\ \A m, n \in 1 .. Len(toServer) : m < n => toServer[m].id < toServer[n].id
  /\ \A i \in Id : command[i] # "none" => i <= Len(calls)

\* The answers match the stages.
AnswersMatch ==
  \A i \in Id :
    /\ command[i] \in {"none"} \union UnderWay => answers[i] = 0
    /\ command[i] \in Answered => answers[i] = 1

\* A session runs the prompt that is in one of the stages of a run there.
RunsArePrompts ==
  \A s \in DOMAIN run : run[s] # 0 =>
    command[run[s]] \in {"recovering", "recovered", "running", "ending"} /\ at[run[s]] = s

ServerInv == ServerTypes /\ LinesAreNew /\ AnswersMatch /\ RunsArePrompts

-----------------------------------------------------------------------------
\* THE CLIENT

ClientTypes ==
  /\ pendingRequests \subseteq Id
  /\ answer \in [Id -> {"none", "waiting", "ok", "error", "rejected"}]
  /\ wait \in [Id -> {"none", "waiting", "resolved", "rejected"}]
  /\ eventListeners \in Seq(Id)
  /\ exitError \in BOOLEAN

\* A wait is in the list once, until it is settled.
ListenersWait ==
  /\ \A k \in 1 .. Len(eventListeners) :
       eventListeners[k] <= Len(calls) /\ wait[eventListeners[k]] = "waiting"
  /\ \A k, l \in 1 .. Len(eventListeners) : eventListeners[k] = eventListeners[l] => k = l
  /\ \A i \in Id : events[i] # <<>> => wait[i] # "none"

\* A request waits while it is pending, and is settled by an answer that was given.
RequestsWait ==
  /\ \A i \in pendingRequests : answer[i] = "waiting"
  /\ \A i \in Id : answer[i] \in {"ok", "error"} => answers[i] = 1
  /\ exitError => pendingRequests = {}

ClientInv == ClientTypes /\ ListenersWait /\ RequestsWait

\* The inductive invariant of EveryCommandIsAnswered and SessionsAreHandedOver.
RpcInv == RuntimeInv /\ ServerInv /\ ClientInv

-----------------------------------------------------------------------------
\* THE STEPS OF THE RUNTIME

\* A replacement asks, or ends before anything is torn down: the runtime does not change.
LEMMA AskKeeps ==
  ASSUME RuntimeInv, NEW c \in Caller, EmitBeforeSwitch(c) \/ Refuse(c), c # Quit
  PROVE  RuntimeInv'
<1> USE DEF RuntimeInv
<1>1. /\ replacement[c] \in {"none", "beforeSwitch"}
      /\ replacement' = [replacement EXCEPT ![c] = replacement'[c]]
      /\ replacement'[c] \in {"beforeSwitch", "cancelled", "failed"}
      /\ UNCHANGED <<session, sessions, hosted, subscribed, overlapped, creationFailed>>
  BY DEF RuntimeTypes, EmitBeforeSwitch, Refuse
<1>2. RuntimeTypes'
  <2>1. replacement' \in [Caller -> {"none", "beforeSwitch", "cancelled", "failed", "shutdown",
                                     "creating", "binding", "rebinding", "done"}]
    BY <1>1 DEF RuntimeTypes
  <2>2. replacement'[Quit] = replacement[Quit]
    BY <1>1 DEF RuntimeTypes, Caller
  <2> QED BY <1>1, <2>1, <2>2 DEF RuntimeTypes
<1>3. \A d \in Caller : \A stage \in Tearing : replacement'[d] = stage <=> replacement[d] = stage
  BY <1>1 DEF RuntimeTypes, Tearing
<1>4. Quit \in Caller
  BY DEF Caller
<1>5. SubscribedFollows' /\ DisposedIsReplaced' /\ OneTearing'
  BY <1>1, <1>3, <1>4 DEF SubscribedFollows, DisposedIsReplaced, OneTearing, Tearing
<1>6. OneLeft'
  BY <1>1, <1>3 DEF OneLeft, Tearing
<1> QED BY <1>2, <1>5, <1>6

\* The extensions of the current session are told that it ends.
LEMMA TellKeeps ==
  ASSUME RuntimeInv, NEW c \in Caller, TellShutdown(c),
         (c # Quit /\ UNCHANGED subscribed) \/ (c = Quit /\ subscribed' = 0),
         replacement[c] \in {"none", "beforeSwitch"}
  PROVE  RuntimeInv'
<1> USE DEF RuntimeInv
<1>1. /\ sessions' = [sessions EXCEPT ![session].told = @ + 1]
      /\ overlapped' = (overlapped \/ \E d \in DOMAIN replacement \ {c} : replacement[d] \in Tearing)
      /\ replacement' = [replacement EXCEPT ![c] = "shutdown"]
      /\ UNCHANGED <<session, hosted, creationFailed>>
  BY DEF TellShutdown
<1>2. /\ sessions' \in Seq(SessionState) /\ Len(sessions') = Len(sessions)
      /\ \A s \in 1 .. Len(sessions) : s # session => sessions'[s] = sessions[s]
      /\ sessions'[session].told = sessions[session].told + 1
      /\ sessions'[session].disposed = sessions[session].disposed
  <2> DEFINE next == [sessions[session] EXCEPT !.told = @ + 1]
  <2>1. sessions' = [sessions EXCEPT ![session] = next]
    BY <1>1
  <2>0. sessions[session] \in SessionState
    BY DEF RuntimeTypes
  <2>2. next \in SessionState /\ next.told = sessions[session].told + 1
        /\ next.disposed = sessions[session].disposed
    BY <2>0 DEF SessionState
  <2> HIDE DEF next
  <2> QED BY <2>1, <2>2, ExceptSeq DEF RuntimeTypes
<1>3. /\ replacement'[c] = "shutdown" /\ DOMAIN replacement = Caller
      /\ \A d \in Caller : d # c => replacement'[d] = replacement[d]
      /\ Quit \in Caller
  BY <1>1 DEF RuntimeTypes, Caller
<1>4. RuntimeTypes'
  <2>1. replacement' \in [Caller -> {"none", "beforeSwitch", "cancelled", "failed", "shutdown",
                                     "creating", "binding", "rebinding", "done"}]
    BY <1>1 DEF RuntimeTypes
  <2>2. replacement'[Quit] \in {"none", "shutdown"}
    BY <1>3 DEF RuntimeTypes
  <2>3. subscribed' \in 0 .. Len(sessions')
    BY <1>2 DEF RuntimeTypes
  <2> QED BY <1>1, <1>2, <2>1, <2>2, <2>3 DEF RuntimeTypes
<1>5. SubscribedFollows'
  BY <1>1, <1>3 DEF SubscribedFollows
<1>6. DisposedIsReplaced'
  BY <1>1, <1>2, <1>3 DEF DisposedIsReplaced
<1>7. ASSUME ~overlapped'
      PROVE  ~overlapped /\ \A d \in Caller : d # c => replacement[d] \notin Tearing
  BY <1>1, <1>3, <1>7
<1>8. OneTearing'
  BY <1>3, <1>7 DEF OneTearing
<1>9. OneLeft'
  <2> SUFFICES ASSUME ~overlapped', ~creationFailed
               PROVE  /\ \A s \in 1 .. Len(sessions') : s # session =>
                            sessions'[s].told = 1 /\ sessions'[s].disposed
                      /\ sessions'[session].told = 1 /\ ~sessions'[session].disposed
                      /\ \A d \in Caller : replacement'[d] # "creating"
    BY <1>1, <1>3 DEF OneLeft
  <2>1. ~overlapped /\ \A d \in Caller : replacement[d] \notin {"shutdown", "creating"}
    BY <1>7 DEF Tearing
  <2>2. sessions[session].told = 0 /\ ~sessions[session].disposed
    BY <2>1 DEF OneLeft
  <2>3. \A s \in 1 .. Len(sessions) : s # session => sessions[s].told = 1 /\ sessions[s].disposed
    BY <2>1 DEF OneLeft
  <2> QED BY <1>2, <1>3, <2>1, <2>2, <2>3
<1> QED BY <1>4, <1>5, <1>6, <1>8, <1>9

LEMMA DisposeKeeps ==
  ASSUME RuntimeInv, NEW c \in Caller, Dispose(c)
  PROVE  RuntimeInv'
<1> USE DEF RuntimeInv
<1>1. /\ c # Quit /\ replacement[c] = "shutdown"
      /\ sessions' = [sessions EXCEPT ![session].disposed = TRUE]
      /\ replacement' = [replacement EXCEPT ![c] = "creating"]
      /\ UNCHANGED <<session, hosted, subscribed, overlapped, creationFailed>>
  BY DEF Dispose
<1>2. /\ sessions' \in Seq(SessionState) /\ Len(sessions') = Len(sessions)
      /\ \A s \in 1 .. Len(sessions) : s # session => sessions'[s] = sessions[s]
      /\ sessions'[session].told = sessions[session].told
      /\ sessions'[session].disposed
  <2> DEFINE next == [sessions[session] EXCEPT !.disposed = TRUE]
  <2>1. sessions' = [sessions EXCEPT ![session] = next]
    BY <1>1
  <2>0. sessions[session] \in SessionState
    BY DEF RuntimeTypes
  <2>2. next \in SessionState /\ next.told = sessions[session].told /\ next.disposed
    BY <2>0 DEF SessionState
  <2> HIDE DEF next
  <2> QED BY <2>1, <2>2, ExceptSeq DEF RuntimeTypes
<1>3. /\ replacement'[c] = "creating"
      /\ \A d \in Caller : d # c => replacement'[d] = replacement[d]
      /\ Quit \in Caller
  BY <1>1 DEF RuntimeTypes, Caller
<1>4. RuntimeTypes'
  BY <1>1, <1>2, <1>3 DEF RuntimeTypes
<1>5. SubscribedFollows' /\ DisposedIsReplaced'
  BY <1>1, <1>3 DEF SubscribedFollows, DisposedIsReplaced
<1>6. OneTearing'
  BY <1>1, <1>3 DEF OneTearing, Tearing
<1>7. OneLeft'
  BY <1>1, <1>2, <1>3 DEF OneLeft, OneTearing, Tearing
<1> QED BY <1>4, <1>5, <1>6, <1>7

LEMMA CreateFailsKeeps ==
  ASSUME RuntimeInv, NEW c \in Caller, CreateFails(c)
  PROVE  RuntimeInv'
<1> USE DEF RuntimeInv
<1>1. /\ replacement[c] = "creating"
      /\ replacement' = [replacement EXCEPT ![c] = "failed"] /\ creationFailed' = TRUE
      /\ UNCHANGED <<session, sessions, hosted, subscribed, overlapped>>
  BY DEF CreateFails
<1>2. /\ replacement'[c] = "failed"
      /\ \A d \in Caller : d # c => replacement'[d] = replacement[d]
      /\ Quit \in Caller
  BY <1>1 DEF RuntimeTypes, Caller
<1>3. RuntimeTypes'
  BY <1>1, <1>2 DEF RuntimeTypes
<1>4. SubscribedFollows' /\ DisposedIsReplaced' /\ OneTearing' /\ OneLeft'
  BY <1>1, <1>2 DEF SubscribedFollows, DisposedIsReplaced, OneTearing, OneLeft, Tearing
<1> QED BY <1>3, <1>4

LEMMA ApplyKeeps ==
  ASSUME RuntimeInv, NEW c \in Caller, Apply(c)
  PROVE  RuntimeInv'
<1> USE DEF RuntimeInv
<1>1. /\ replacement[c] = "creating"
      /\ sessions' = Append(sessions, Fresh)
      /\ session' = Len(sessions') /\ hosted' = session'
      /\ replacement' = [replacement EXCEPT ![c] = "binding"]
      /\ UNCHANGED <<subscribed, overlapped, creationFailed>>
  BY DEF Apply
<1>2. Fresh \in SessionState /\ Fresh.told = 0 /\ ~Fresh.disposed
  BY DEF Fresh, SessionState
<1>3. /\ sessions' \in Seq(SessionState) /\ Len(sessions') = Len(sessions) + 1 /\ Len(sessions) \in Nat
      /\ \A s \in 1 .. Len(sessions) : sessions'[s] = sessions[s]
      /\ sessions'[session'] = Fresh
  BY <1>1, <1>2 DEF RuntimeTypes
<1>4. /\ replacement'[c] = "binding" /\ c # Quit
      /\ \A d \in Caller : d # c => replacement'[d] = replacement[d]
      /\ Quit \in Caller
  BY <1>1 DEF RuntimeTypes, Caller
<1>5. RuntimeTypes'
  <2>1. session' \in 1 .. Len(sessions') /\ subscribed' \in 0 .. Len(sessions')
    BY <1>1, <1>3 DEF RuntimeTypes
  <2>2. replacement' \in [Caller -> {"none", "beforeSwitch", "cancelled", "failed", "shutdown",
                                     "creating", "binding", "rebinding", "done"}]
    BY <1>1 DEF RuntimeTypes
  <2> QED BY <1>1, <1>3, <1>4, <2>1, <2>2 DEF RuntimeTypes
<1>6. SubscribedFollows' /\ DisposedIsReplaced'
  BY <1>2, <1>3, <1>4 DEF SubscribedFollows, DisposedIsReplaced
<1>7. OneTearing'
  BY <1>1, <1>4 DEF OneTearing, Tearing
<1>8. OneLeft'
  <2> SUFFICES ASSUME ~overlapped, ~creationFailed
               PROVE  /\ \A s \in 1 .. Len(sessions') : s # session' =>
                            sessions'[s].told = 1 /\ sessions'[s].disposed
                      /\ \A d \in Caller : replacement'[d] \notin {"shutdown", "creating"}
    BY <1>1, <1>2, <1>3 DEF OneLeft
  <2>1. \A d \in Caller : replacement'[d] \notin {"shutdown", "creating"}
    BY <1>1, <1>4 DEF OneTearing, Tearing
  <2>2. /\ \A s \in 1 .. Len(sessions) : s # session => sessions[s].told = 1 /\ sessions[s].disposed
        /\ sessions[session].disposed /\ sessions[session].told = 1
    BY <1>1 DEF OneLeft
  <2>3. \A s \in 1 .. Len(sessions') : s # session' => s \in 1 .. Len(sessions)
    BY <1>1, <1>3
  <2> QED BY <1>3, <2>1, <2>2, <2>3
<1> QED BY <1>5, <1>6, <1>7, <1>8

\* The mode has bound to the session it refers to, which is the runtime's.
LEMMA BoundKeeps ==
  ASSUME RuntimeInv, NEW c \in Caller, NEW again \in BOOLEAN, Bound(c, again) \/ BoundAgain(c)
  PROVE  RuntimeInv'
<1> USE DEF RuntimeInv
<1>1. /\ replacement[c] \in {"binding", "rebinding"} /\ replacement'[c] \in {"rebinding", "done"}
      /\ replacement' = [replacement EXCEPT ![c] = replacement'[c]]
      /\ subscribed' = session /\ hosted' = session
      /\ UNCHANGED <<session, sessions, overlapped, creationFailed>>
  BY DEF Bound, BoundAgain, RuntimeTypes
<1>2. /\ \A d \in Caller : d # c => replacement'[d] = replacement[d]
      /\ Quit \in Caller /\ c # Quit
  BY <1>1 DEF RuntimeTypes, Caller
<1>3. RuntimeTypes'
  BY <1>1, <1>2 DEF RuntimeTypes
<1>4. SubscribedFollows' /\ DisposedIsReplaced'
  BY <1>1, <1>2 DEF SubscribedFollows, DisposedIsReplaced
<1>5. OneTearing'
  BY <1>1, <1>2 DEF OneTearing, Tearing
<1>6. OneLeft'
  <2>1. \A d \in Caller : \A stage \in {"shutdown", "creating"} :
          replacement'[d] = stage <=> replacement[d] = stage
    BY <1>1, <1>2
  <2> QED BY <1>1, <2>1 DEF OneLeft
<1> QED BY <1>3, <1>4, <1>5, <1>6

LEMMA ReplacementKeeps ==
  ASSUME RuntimeInv, NEW c \in Id, NEW again \in BOOLEAN, ReplacementStep(c, again)
  PROVE  RuntimeInv'
<1>1. c \in Caller /\ c # Quit
  BY MaxIdsAssumption DEF Caller, Id, Quit
<1>2. CASE TeardownCurrent(c)
  BY <1>1, <1>2, TellKeeps DEF TeardownCurrent
<1> QED
  BY <1>1, <1>2, AskKeeps, DisposeKeeps, CreateFailsKeeps, ApplyKeeps, BoundKeeps
     DEF ReplacementStep

LEMMA RuntimeUnchanged ==
  ASSUME RuntimeInv, UNCHANGED runtimeVars
  PROVE  RuntimeInv'
BY DEF RuntimeInv, runtimeVars, RuntimeTypes, SubscribedFollows, DisposedIsReplaced, OneTearing,
       OneLeft

LEMMA RuntimeStep ==
  ASSUME RuntimeInv, toServer \in Seq(Command), [Next]_vars
  PROVE  RuntimeInv'
<1>1. CASE UNCHANGED runtimeVars
  BY <1>1, RuntimeUnchanged
<1>2. ASSUME NEW c \in Id, EmitBeforeSwitch(c)
      PROVE  RuntimeInv'
  <2>1. c \in Caller /\ c # Quit
    BY MaxIdsAssumption DEF Caller, Id, Quit
  <2> QED BY <1>2, <2>1, AskKeeps
<1>3. CASE HandleLine
  <2>1. toServer # <<>>
    BY <1>3 DEF HandleLine
  <2>2. Head(toServer) \in Command
    BY <2>1
  <2>3. Head(toServer).id \in Id
    BY <2>2 DEF Command
  <2> QED BY <1>1, <1>2, <1>3, <2>3 DEF HandleLine
<1>4. CASE Shutdown
  BY <1>4, TellKeeps DEF Shutdown, Caller
<1>5. ASSUME NEW id \in Id, Replace(id)
      PROVE  RuntimeInv'
  <2>1. ReplacementStep(id, command[id] = "replacing")
    BY <1>5 DEF Replace
  <2> QED BY <2>1, ReplacementKeeps
<1>6. ASSUME NEW id \in Id, HandledByExtension(id)
      PROVE  RuntimeInv'
  BY <1>1, <1>2, <1>6 DEF HandledByExtension
<1>7. CASE UNCHANGED vars
  BY <1>1, <1>7 DEF vars
<1> QED
  BY <1>1, <1>3, <1>4, <1>5, <1>6, <1>7
     DEF Next, ModeNext, Exit, Replaced, RefusePrompt, PassPreflight, StartRun, EmitAgentEnd,
         FinishRun, ContinueRun, GiveUp, Aborted, Call, ReadLine, NoticeExit, RequestTimeout,
         WaitTimeout

LEMMA RuntimePromise == RuntimeInv => SessionsAreHandedOver
<1> SUFFICES ASSUME RuntimeInv PROVE SessionsAreHandedOver
  OBVIOUS
<1>1. DOMAIN replacement = Caller /\ DOMAIN sessions = 1 .. Len(sessions) /\ Quit \in Caller
  BY DEF RuntimeInv, RuntimeTypes, Caller
<1>2. ASSUME \A c \in Caller : replacement[c] \notin Replacing
      PROVE  /\ hosted = session /\ subscribed = session
             /\ ~creationFailed => ~sessions[session].disposed
  BY <1>1, <1>2 DEF RuntimeInv, RuntimeTypes, SubscribedFollows, DisposedIsReplaced, Replacing, Tearing
<1>3. ASSUME ~overlapped, ~creationFailed, NEW s \in 1 .. Len(sessions)
      PROVE  /\ sessions[s].told <= 1
             /\ sessions[s].disposed => sessions[s].told = 1
             /\ s # session => sessions[s].disposed
  BY <1>3 DEF RuntimeInv, OneLeft
<1> QED BY <1>1, <1>2, <1>3 DEF SessionsAreHandedOver

-----------------------------------------------------------------------------
\* THE STEPS OF THE SERVER

RunStages == {"recovering", "recovered", "running", "ending"}

\* A sequence over a set is one over a larger set.
LEMMA LargerSeq ==
  ASSUME NEW S, NEW T, S \subseteq T, NEW s \in Seq(S)
  PROVE  s \in Seq(T)
OBVIOUS

LEMMA EventsAreLines ==
  ASSUME NEW id \in Id, NEW type \in {"agent_start", "agent_end"}
  PROVE  Emits(id, type) \in Seq(EventLine)
<1>1. Event(id, type) \in EventLine
  BY DEF Event, EventLine
<1> QED BY <1>1 DEF Emits

LEMMA CommandIds ==
  ASSUME ServerInv
  PROVE  \A n \in 1 .. Len(toServer) : toServer[n] \in Command /\ toServer[n].id \in Id
<1>1. \A n \in 1 .. Len(toServer) : toServer[n] \in Command
  BY DEF ServerInv, ServerTypes
<1> QED BY <1>1 DEF Command

\* The handling of a command moves on: the lines not read stay new.
LEMMA LinesStay ==
  ASSUME ServerInv, NEW id \in Id, NEW stage, command[id] # "none",
         command' = [command EXCEPT ![id] = stage], UNCHANGED <<toServer, calls>>
  PROVE  LinesAreNew'
<1>1. \A i \in Id : i # id => command'[i] = command[i]
  BY DEF ServerInv, ServerTypes
<1>2. \A n \in 1 .. Len(toServer) : toServer[n].id \in Id /\ toServer[n].id # id
  BY CommandIds DEF ServerInv, LinesAreNew
<1>3. id <= Len(calls)
  BY DEF ServerInv, LinesAreNew
<1> QED BY <1>1, <1>2, <1>3 DEF ServerInv, LinesAreNew

\* A command that runs nothing moves on: the runs stay what they are.
LEMMA RunsStay ==
  ASSUME ServerInv, NEW id \in Id, NEW stage, command[id] \notin RunStages,
         command' = [command EXCEPT ![id] = stage], UNCHANGED <<at, run>>
  PROVE  RunsArePrompts' /\ run' \in [1 .. MaxIds + 1 -> Id \union {0}]
<1>1. \A i \in Id : i # id => command'[i] = command[i]
  BY DEF ServerInv, ServerTypes
<1>2. \A s \in DOMAIN run : run[s] # 0 => run[s] \in Id /\ run[s] # id
  BY DEF ServerInv, ServerTypes, RunsArePrompts, RunStages
<1>3. RunsArePrompts'
  BY <1>1, <1>2 DEF ServerInv, RunsArePrompts
<1> QED BY <1>3 DEF ServerInv, ServerTypes

\* A command goes on without an answer.
LEMMA GoesOnKeeps ==
  ASSUME ServerInv, NEW id \in Id, NEW stage, NEW emitted \in Seq(EventLine),
         GoesOnWith(id, stage, emitted),
         \/ command[id] \in {"none"} \union UnderWay /\ stage \in UnderWay
         \/ command[id] \in Answered /\ stage \in Answered,
         run' \in [1 .. MaxIds + 1 -> Id \union {0}], RunsArePrompts', LinesAreNew',
         toServer' \in Seq(Command), at' \in [Id -> Nat], UNCHANGED <<calls, program>>
  PROVE  ServerInv'
<1> USE DEF ServerInv
<1>1. /\ command' = [command EXCEPT ![id] = stage] /\ toClient' = toClient \o emitted
      /\ answers' = answers
  BY DEF GoesOnWith
<1>2. /\ command'[id] = stage /\ \A i \in Id : i # id => command'[i] = command[i]
      /\ command' \in [Id -> {"none"} \union UnderWay \union Answered]
  BY <1>1 DEF ServerTypes
<1>3. toClient' \in Seq(Line)'
  <2>1. EventLine \subseteq Line /\ Line' = Line
    BY <1>1 DEF EventLine, Line
  <2>2. emitted \in Seq(Line)
    BY <2>1, LargerSeq
  <2> QED BY <1>1, <2>1, <2>2, ConcatProperties DEF ServerTypes
<1>4. ServerTypes'
  BY <1>1, <1>2, <1>3 DEF ServerTypes
<1>5. AnswersMatch'
  BY <1>1, <1>2 DEF AnswersMatch, UnderWay, Answered
<1> QED BY <1>4, <1>5

\* A command is answered.
LEMMA AnswersKeeps ==
  ASSUME ServerInv, NEW id \in Id, NEW ok \in BOOLEAN, NEW stage \in Answered,
         NEW emitted \in Seq(EventLine), command[id] \in {"none"} \union UnderWay,
         command' = [command EXCEPT ![id] = stage],
         toClient' = Append(toClient, Response(id, ok)) \o emitted,
         answers' = [answers EXCEPT ![id] = @ + 1],
         run' \in [1 .. MaxIds + 1 -> Id \union {0}], RunsArePrompts', LinesAreNew',
         toServer' \in Seq(Command), at' \in [Id -> Nat], UNCHANGED <<calls, program>>
  PROVE  ServerInv'
<1> USE DEF ServerInv
<1>1. /\ command'[id] = stage /\ \A i \in Id : i # id => command'[i] = command[i]
      /\ command' \in [Id -> {"none"} \union UnderWay \union Answered]
  BY DEF ServerTypes
<1>2. /\ answers[id] = 0 /\ answers'[id] = 1 /\ answers' \in [Id -> Nat]
      /\ \A i \in Id : i # id => answers'[i] = answers[i]
  BY DEF ServerTypes, AnswersMatch
<1>3. toClient' \in Seq(Line)'
  <2>1. Line \subseteq Line'
    BY <1>2 DEF Line
  <2>2. toClient \in Seq(Line')
    BY <2>1, LargerSeq DEF ServerTypes
  <2>3. Response(id, ok) \in Line' /\ EventLine \subseteq Line'
    BY <1>2 DEF Response, Line, EventLine
  <2>4. Append(toClient, Response(id, ok)) \in Seq(Line')
    BY <2>2, <2>3
  <2>5. emitted \in Seq(Line')
    BY <2>3, LargerSeq
  <2> QED BY <2>4, <2>5, ConcatProperties
<1>4. ServerTypes'
  BY <1>1, <1>2, <1>3 DEF ServerTypes
<1>5. AnswersMatch'
  BY <1>1, <1>2 DEF AnswersMatch, UnderWay, Answered
<1> QED BY <1>4, <1>5

LEMMA NothingAfterAnAnswer ==
  ASSUME ServerInv, NEW id \in Id, NEW ok \in BOOLEAN
  PROVE  Append(toClient, Response(id, ok)) \o <<>> = Append(toClient, Response(id, ok))
<1> DEFINE Wider == [type : {"response"}, of : Id, ok : BOOLEAN] \union Line
<1>1. Response(id, ok) \in Wider
  BY DEF Response
<1>2. toClient \in Seq(Wider)
  BY LargerSeq DEF ServerInv, ServerTypes
<1>3. Append(toClient, Response(id, ok)) \in Seq(Wider)
  BY <1>1, <1>2
<1> HIDE DEF Wider
<1> QED BY <1>3, ConcatEmptySeq

\* An answer that ends the handling of a command that ran nothing.
LEMMA AnswersOnceKeeps ==
  ASSUME ServerInv, NEW id \in Id, NEW ok \in BOOLEAN, Answers(id, ok, "done"),
         command[id] \in UnderWay \ RunStages,
         UNCHANGED <<toServer, at, run, calls, program>>
  PROVE  ServerInv'
<1>1. command' = [command EXCEPT ![id] = "done"] /\ command[id] # "none"
  BY DEF Answers, UnderWay
<1>2. RunsArePrompts' /\ run' \in [1 .. MaxIds + 1 -> Id \union {0}]
  BY <1>1, RunsStay
<1>3. LinesAreNew'
  BY <1>1, LinesStay
<1>4. "done" \in Answered /\ <<>> \in Seq(EventLine)
  BY DEF Answered
<1>5. toServer' \in Seq(Command) /\ at' \in [Id -> Nat]
  BY DEF ServerInv, ServerTypes
<1> QED BY <1>2, <1>3, <1>4, <1>5, NothingAfterAnAnswer, AnswersKeeps DEF Answers

\* A command that runs nothing goes on to another such stage.
LEMMA MovesOnKeeps ==
  ASSUME ServerInv, NEW id \in Id, NEW stage, GoesOn(id, stage),
         \/ command[id] \in UnderWay \ RunStages /\ stage \in UnderWay
         \/ command[id] \in Answered \ RunStages /\ stage \in Answered,
         UNCHANGED <<toServer, at, run, calls, program>>
  PROVE  ServerInv'
<1>1. command' = [command EXCEPT ![id] = stage] /\ command[id] # "none"
  BY DEF GoesOn, GoesOnWith, UnderWay, Answered
<1>2. RunsArePrompts' /\ run' \in [1 .. MaxIds + 1 -> Id \union {0}]
  BY <1>1, RunsStay
<1>3. LinesAreNew'
  BY <1>1, LinesStay
<1>4. toServer' \in Seq(Command) /\ at' \in [Id -> Nat] /\ <<>> \in Seq(EventLine)
  BY DEF ServerInv, ServerTypes
<1>5. GoesOnWith(id, stage, <<>>)
  BY DEF GoesOn
<1> QED BY <1>2, <1>3, <1>4, <1>5, GoesOnKeeps

LEMMA HandleLineKeeps ==
  ASSUME RuntimeInv, ServerInv, HandleLine, UNCHANGED <<calls, program>>
  PROVE  ServerInv'
<1> DEFINE id == Head(toServer).id
           type == Head(toServer).type
<1>1. /\ toServer # <<>> /\ toServer' = Tail(toServer) /\ at' = [at EXCEPT ![id] = hosted]
      /\ UNCHANGED run
      /\ \/ type = "get_state" /\ Answers(id, TRUE, "done")
         \/ \E stage \in {"preflight", "aborting", "replacing"} : GoesOn(id, stage)
  BY DEF HandleLine
<1>2. /\ toServer \in Seq(Command) /\ toServer' \in Seq(Command)
      /\ Len(toServer) >= 1 /\ Len(toServer') = Len(toServer) - 1
      /\ \A n \in 1 .. Len(toServer') : toServer'[n] = toServer[n + 1] /\ n + 1 \in 1 .. Len(toServer)
      /\ Head(toServer) = toServer[1] /\ 1 \in 1 .. Len(toServer)
  BY <1>1 DEF ServerInv, ServerTypes
<1>3. id \in Id /\ id <= Len(calls) /\ command[id] = "none" /\ id = toServer[1].id
  BY <1>2, CommandIds DEF ServerInv, LinesAreNew
<1>4. \A n \in 1 .. Len(toServer') : toServer'[n].id \in Id /\ toServer'[n].id > id
  <2> TAKE n \in 1 .. Len(toServer')
  <2>1. n + 1 \in 1 .. Len(toServer) /\ toServer'[n] = toServer[n + 1] /\ 1 < n + 1
    BY <1>2
  <2>2. toServer[1].id < toServer[n + 1].id
    BY <1>2, <2>1 DEF ServerInv, LinesAreNew
  <2>3. toServer[n + 1].id \in Id /\ toServer[1].id \in Id
    BY <1>2, <2>1, CommandIds
  <2> QED BY <1>3, <2>1, <2>2, <2>3 DEF Id
<1> HIDE DEF id, type
<1>5. PICK stage \in {"done", "preflight", "aborting", "replacing"} :
        command' = [command EXCEPT ![id] = stage]
  BY <1>1 DEF Answers, GoesOn, GoesOnWith
<1>6. /\ \A i \in Id : i # id => command'[i] = command[i] /\ at'[i] = at[i]
      /\ command'[id] = stage
  BY <1>1, <1>3, <1>5 DEF ServerInv, ServerTypes
<1>7. LinesAreNew'
  <2>1. \A n \in 1 .. Len(toServer') : toServer'[n].id <= Len(calls') /\ command'[toServer'[n].id] = "none"
    <3> TAKE n \in 1 .. Len(toServer')
    <3>1. toServer'[n].id \in Id /\ toServer'[n].id # id
      BY <1>3, <1>4 DEF Id
    <3>2. toServer'[n].id <= Len(calls) /\ command[toServer'[n].id] = "none"
      BY <1>2 DEF ServerInv, LinesAreNew
    <3> QED BY <1>6, <3>1, <3>2
  <2>2. \A m, n \in 1 .. Len(toServer') : m < n => toServer'[m].id < toServer'[n].id
    <3> TAKE m, n \in 1 .. Len(toServer')
    <3>1. /\ m + 1 \in 1 .. Len(toServer) /\ toServer'[m] = toServer[m + 1]
          /\ n + 1 \in 1 .. Len(toServer) /\ toServer'[n] = toServer[n + 1]
          /\ m < n => m + 1 < n + 1
      BY <1>2
    <3>2. m + 1 < n + 1 => toServer[m + 1].id < toServer[n + 1].id
      BY <3>1 DEF ServerInv, LinesAreNew
    <3> QED BY <3>1, <3>2
  <2>3. \A i \in Id : command'[i] # "none" => i <= Len(calls')
    BY <1>3, <1>6 DEF ServerInv, LinesAreNew
  <2> QED BY <2>1, <2>2, <2>3 DEF LinesAreNew
<1>8. RunsArePrompts' /\ run' \in [1 .. MaxIds + 1 -> Id \union {0}]
  <2>1. \A s \in DOMAIN run : run[s] # 0 => run[s] \in Id /\ run[s] # id
    BY <1>3 DEF ServerInv, ServerTypes, RunsArePrompts
  <2>2. RunsArePrompts'
    BY <1>1, <1>6, <2>1 DEF ServerInv, RunsArePrompts
  <2> QED BY <1>1, <2>2 DEF ServerInv, ServerTypes
<1>9. at' \in [Id -> Nat]
  <2>1. hosted \in Nat
    BY DEF RuntimeInv, RuntimeTypes
  <2> QED BY <1>1, <2>1 DEF ServerInv, ServerTypes
<1>10. CASE Answers(id, TRUE, "done")
  <2>1. "done" \in Answered /\ <<>> \in Seq(EventLine) /\ command[id] \in {"none"} \union UnderWay
    BY <1>3 DEF Answered
  <2> QED BY <1>2, <1>3, <1>7, <1>8, <1>9, <1>10, <2>1, NothingAfterAnAnswer, AnswersKeeps DEF Answers
<1>11. CASE \E next \in {"preflight", "aborting", "replacing"} : GoesOn(id, next)
  <2>1. PICK next \in {"preflight", "aborting", "replacing"} : GoesOnWith(id, next, <<>>)
    BY <1>11 DEF GoesOn
  <2>2. next \in UnderWay /\ <<>> \in Seq(EventLine) /\ command[id] \in {"none"} \union UnderWay
    BY <1>3 DEF UnderWay
  <2> QED BY <1>2, <1>3, <1>7, <1>8, <1>9, <2>1, <2>2, GoesOnKeeps
<1> QED BY <1>1, <1>10, <1>11

\* The steps of a run: the prompt that runs in a session is in a stage of a run there.
LEMMA StartRunKeeps ==
  ASSUME ServerInv, NEW id \in Id, StartRun(id), UNCHANGED <<calls, program>>
  PROVE  ServerInv'
<1> DEFINE s == at[id]
<1>1. command[id] = "starting" /\ command[id] \in UnderWay /\ command[id] \notin RunStages
      /\ answers' = [answers EXCEPT ![id] = @ + 1] /\ UNCHANGED <<toServer, at>>
  BY DEF StartRun, UnderWay, RunStages
<1>2. toServer' \in Seq(Command) /\ at' \in [Id -> Nat] /\ <<>> \in Seq(EventLine)
  BY <1>1 DEF ServerInv, ServerTypes
<1>3. CASE run[s] = 0
  <2>1. /\ run' = [run EXCEPT ![s] = id] /\ command' = [command EXCEPT ![id] = "running"]
        /\ toClient' = Append(toClient, Response(id, TRUE)) \o Emits(id, "agent_start")
    BY <1>3 DEF StartRun
  <2>2. LinesAreNew'
    BY <1>1, <2>1, LinesStay
  <2>3. run' \in [1 .. MaxIds + 1 -> Id \union {0}] /\ DOMAIN run' = DOMAIN run
    BY <2>1 DEF ServerInv, ServerTypes
  <2>4. RunsArePrompts'
    <3> SUFFICES ASSUME NEW t \in DOMAIN run, run'[t] # 0
                 PROVE  /\ command'[run'[t]] \in {"recovering", "recovered", "running", "ending"}
                        /\ at'[run'[t]] = t
      BY <2>3 DEF RunsArePrompts
    <3>1. CASE t = s
      <4>1. run'[t] = id /\ command'[id] = "running"
        BY <2>1, <3>1 DEF ServerInv, ServerTypes
      <4> QED BY <1>1, <3>1, <4>1
    <3>2. CASE t # s
      <4>1. run'[t] = run[t] /\ run[t] \in Id
        BY <2>1, <2>3, <3>2 DEF ServerInv, ServerTypes
      <4>2. run[t] # id
        BY <1>1, <4>1 DEF ServerInv, RunsArePrompts
      <4>3. command'[run[t]] = command[run[t]]
        BY <2>1, <4>1, <4>2 DEF ServerInv, ServerTypes
      <4> QED BY <1>1, <4>1, <4>3 DEF ServerInv, RunsArePrompts
    <3> QED BY <3>1, <3>2
  <2>5. "running" \in Answered
    BY DEF Answered
  <2> QED BY <1>1, <1>2, <2>1, <2>2, <2>3, <2>4, <2>5, EventsAreLines, AnswersKeeps
<1>4. CASE run[s] # 0
  <2>1. /\ command' = [command EXCEPT ![id] = "done"] /\ UNCHANGED run
        /\ toClient' = Append(toClient, Response(id, TRUE))
    BY <1>4 DEF StartRun
  <2>2. Answers(id, TRUE, "done")
    BY <1>1, <2>1 DEF Answers
  <2> QED BY <1>1, <2>1, <2>2, AnswersOnceKeeps
<1> QED BY <1>3, <1>4

LEMMA EmitAgentEndKeeps ==
  ASSUME ServerInv, NEW id \in Id, EmitAgentEnd(id), UNCHANGED <<calls, program>>
  PROVE  ServerInv'
<1> DEFINE stage == IF command[id] = "running" THEN "ending" ELSE "recovered"
<1>1. /\ GoesOnWith(id, stage, Emits(id, "agent_end")) /\ command[id] \in {"recovering", "running"}
      /\ UNCHANGED <<toServer, at, run>>
  BY DEF EmitAgentEnd
<1>2. command' = [command EXCEPT ![id] = stage] /\ command[id] # "none"
  BY <1>1 DEF GoesOnWith
<1>3. \/ command[id] \in {"none"} \union UnderWay /\ stage \in UnderWay
      \/ command[id] \in Answered /\ stage \in Answered
  BY <1>1 DEF UnderWay, Answered
<1>4. stage \in {"ending", "recovered"}
  OBVIOUS
<1> HIDE DEF stage
<1>5. /\ toServer' \in Seq(Command) /\ at' \in [Id -> Nat]
      /\ run' \in [1 .. MaxIds + 1 -> Id \union {0}]
  BY <1>1 DEF ServerInv, ServerTypes
<1>6. LinesAreNew'
  BY <1>1, <1>2, LinesStay
<1>7. RunsArePrompts'
  <2>1. \A s \in DOMAIN run : run[s] # 0 => run[s] \in Id
    BY DEF ServerInv, ServerTypes
  <2>2. command'[id] = stage /\ \A i \in Id : i # id => command'[i] = command[i]
    BY <1>2 DEF ServerInv, ServerTypes
  <2> QED BY <1>1, <1>4, <2>1, <2>2 DEF ServerInv, RunsArePrompts
<1> QED BY <1>1, <1>3, <1>5, <1>6, <1>7, EventsAreLines, GoesOnKeeps

LEMMA FinishRunKeeps ==
  ASSUME ServerInv, NEW id \in Id, FinishRun(id), UNCHANGED <<calls, program>>
  PROVE  ServerInv'
<1>1. PICK stage \in {"done", "between", "starting"} :
        /\ stage = "starting" <=> command[id] = "recovered"
        /\ GoesOnWith(id, stage, <<>>)
  BY DEF FinishRun, GoesOn
<1>2. /\ command[id] \in {"recovered", "ending"} /\ run' = [run EXCEPT ![at[id]] = 0]
      /\ UNCHANGED <<toServer, at>>
  BY DEF FinishRun
<1>3. command' = [command EXCEPT ![id] = stage] /\ command[id] # "none"
  BY <1>1, <1>2 DEF GoesOnWith
<1>4. \/ command[id] \in {"none"} \union UnderWay /\ stage \in UnderWay
      \/ command[id] \in Answered /\ stage \in Answered
  BY <1>1, <1>2 DEF UnderWay, Answered
<1>5. /\ toServer' \in Seq(Command) /\ at' \in [Id -> Nat] /\ <<>> \in Seq(EventLine)
      /\ run' \in [1 .. MaxIds + 1 -> Id \union {0}] /\ DOMAIN run' = DOMAIN run
  <2>1. run' \in [1 .. MaxIds + 1 -> Id \union {0}] /\ DOMAIN run' = DOMAIN run
    BY <1>2 DEF ServerInv, ServerTypes
  <2> QED BY <1>2, <2>1 DEF ServerInv, ServerTypes
<1>6. LinesAreNew'
  BY <1>2, <1>3, LinesStay
<1>7. RunsArePrompts'
  <2> SUFFICES ASSUME NEW t \in DOMAIN run, run'[t] # 0
               PROVE  /\ command'[run'[t]] \in {"recovering", "recovered", "running", "ending"}
                      /\ at'[run'[t]] = t
    BY <1>5 DEF RunsArePrompts
  <2>1. t # at[id] /\ run'[t] = run[t] /\ run[t] \in Id
    BY <1>2 DEF ServerInv, ServerTypes
  <2>2. run[t] # id
    BY <2>1 DEF ServerInv, RunsArePrompts
  <2>3. command'[run[t]] = command[run[t]]
    BY <1>3, <2>1, <2>2 DEF ServerInv, ServerTypes
  <2> QED BY <1>2, <2>1, <2>3 DEF ServerInv, RunsArePrompts
<1> QED BY <1>1, <1>4, <1>5, <1>6, <1>7, GoesOnKeeps

LEMMA ContinueRunKeeps ==
  ASSUME ServerInv, NEW id \in Id, ContinueRun(id), UNCHANGED <<calls, program>>
  PROVE  ServerInv'
<1> DEFINE stage == IF command[id] = "between" THEN "running" ELSE "recovering"
           s == at[id]
<1>1. /\ GoesOnWith(id, stage, Emits(id, "agent_start")) /\ command[id] \in {"preflight", "between"}
      /\ run[s] = 0 /\ run' = [run EXCEPT ![s] = id] /\ UNCHANGED <<toServer, at>>
  BY DEF ContinueRun
<1>2. command' = [command EXCEPT ![id] = stage] /\ command[id] # "none"
  BY <1>1 DEF GoesOnWith
<1>3. \/ command[id] \in {"none"} \union UnderWay /\ stage \in UnderWay
      \/ command[id] \in Answered /\ stage \in Answered
  BY <1>1 DEF UnderWay, Answered
<1>4. stage \in {"running", "recovering"}
  OBVIOUS
<1> HIDE DEF stage
<1>5. /\ toServer' \in Seq(Command) /\ at' \in [Id -> Nat]
      /\ run' \in [1 .. MaxIds + 1 -> Id \union {0}] /\ DOMAIN run' = DOMAIN run
  BY <1>1 DEF ServerInv, ServerTypes
<1>6. LinesAreNew'
  BY <1>1, <1>2, LinesStay
<1>7. RunsArePrompts'
  <2> SUFFICES ASSUME NEW t \in DOMAIN run, run'[t] # 0
               PROVE  /\ command'[run'[t]] \in {"recovering", "recovered", "running", "ending"}
                      /\ at'[run'[t]] = t
    BY <1>5 DEF RunsArePrompts
  <2>1. CASE t = s
    <3>1. run'[t] = id /\ command'[id] = stage
      BY <1>1, <1>2, <2>1 DEF ServerInv, ServerTypes
    <3> QED BY <1>1, <1>4, <2>1, <3>1
  <2>2. CASE t # s
    <3>1. run'[t] = run[t] /\ run[t] \in Id
      BY <1>1, <2>2 DEF ServerInv, ServerTypes
    <3>2. run[t] # id
      BY <1>1, <3>1 DEF ServerInv, RunsArePrompts
    <3>3. command'[run[t]] = command[run[t]]
      BY <1>2, <3>1, <3>2 DEF ServerInv, ServerTypes
    <3> QED BY <1>1, <3>1, <3>3 DEF ServerInv, RunsArePrompts
  <2> QED BY <2>1, <2>2
<1> QED BY <1>1, <1>3, <1>5, <1>6, <1>7, EventsAreLines, GoesOnKeeps

\* What is in the mode itself stays as it is.
LEMMA ServerUnchanged ==
  ASSUME ServerInv, toServer' \in Seq(Command), toClient' \in Seq(Line), LinesAreNew',
         UNCHANGED <<command, at, run, answers, program>>,
         calls' \in Seq(Method), Len(calls') <= MaxIds
  PROVE  ServerInv'
<1>1. Line' = Line
  BY DEF Line
<1> QED BY <1>1 DEF ServerInv, ServerTypes, AnswersMatch, RunsArePrompts

LEMMA ServerSteps ==
  ASSUME RuntimeInv, ServerInv, ModeNext, UNCHANGED <<calls, program>>
  PROVE  ServerInv'
<1>1. ASSUME UNCHANGED modeVars
      PROVE  ServerInv'
  <2>1. /\ UNCHANGED <<command, at, run, answers, program, toServer, toClient, calls>>
        /\ toServer' \in Seq(Command) /\ toClient' \in Seq(Line)
        /\ calls' \in Seq(Method) /\ Len(calls') <= MaxIds
    BY <1>1 DEF modeVars, ServerInv, ServerTypes
  <2>2. LinesAreNew'
    BY <2>1 DEF ServerInv, LinesAreNew
  <2> QED BY <2>1, <2>2, ServerUnchanged
<1>2. CASE Exit
  <2>1. /\ UNCHANGED <<command, at, run, answers, program, toClient, calls>>
        /\ toServer' = <<>> /\ toServer' \in Seq(Command) /\ toClient' \in Seq(Line)
        /\ calls' \in Seq(Method) /\ Len(calls') <= MaxIds
    BY <1>2 DEF Exit, ServerInv, ServerTypes
  <2>2. Len(toServer') = 0
    BY <2>1
  <2>3. LinesAreNew'
    BY <2>1, <2>2 DEF ServerInv, LinesAreNew
  <2> QED BY <2>1, <2>3, ServerUnchanged
<1>3. CASE Shutdown
  BY <1>1, <1>3 DEF Shutdown
<1>4. ASSUME NEW id \in Id, Replace(id) PROVE ServerInv'
  BY <1>1, <1>4 DEF Replace
<1>5. ASSUME NEW id \in Id, Replaced(id) PROVE ServerInv'
  <2>1. PICK ok \in BOOLEAN : Answers(id, ok, "done")
    BY <1>5 DEF Replaced
  <2>2. command[id] \in UnderWay \ RunStages /\ UNCHANGED <<toServer, at, run>>
    BY <1>5 DEF Replaced, UnderWay, RunStages
  <2> QED BY <2>1, <2>2, AnswersOnceKeeps
<1>6. ASSUME NEW id \in Id, HandledByExtension(id) PROVE ServerInv'
  <2>1. /\ command[id] \in UnderWay \ RunStages /\ UNCHANGED <<toServer, at, run>>
        /\ "handling" \in UnderWay
    BY <1>6 DEF HandledByExtension, UnderWay, RunStages
  <2>2. Answers(id, TRUE, "done") \/ GoesOn(id, "handling")
    BY <1>6 DEF HandledByExtension
  <2> QED BY <2>1, <2>2, AnswersOnceKeeps, MovesOnKeeps
<1>7. ASSUME NEW id \in Id, RefusePrompt(id) PROVE ServerInv'
  <2>1. command[id] \in UnderWay \ RunStages /\ UNCHANGED <<toServer, at, run>>
    BY <1>7 DEF RefusePrompt, UnderWay, RunStages
  <2>2. Answers(id, FALSE, "done")
    BY <1>7 DEF RefusePrompt
  <2> QED BY <2>1, <2>2, AnswersOnceKeeps
<1>8. ASSUME NEW id \in Id, PassPreflight(id) PROVE ServerInv'
  <2>1. /\ command[id] \in UnderWay \ RunStages /\ UNCHANGED <<toServer, at, run>>
        /\ "starting" \in UnderWay /\ GoesOn(id, "starting")
    BY <1>8 DEF PassPreflight, UnderWay, RunStages
  <2> QED BY <2>1, MovesOnKeeps
<1>9. ASSUME NEW id \in Id, GiveUp(id) PROVE ServerInv'
  <2>1. /\ command[id] \in Answered \ RunStages /\ UNCHANGED <<toServer, at, run>>
        /\ "done" \in Answered /\ GoesOn(id, "done")
    BY <1>9 DEF GiveUp, Answered, RunStages
  <2> QED BY <2>1, MovesOnKeeps
<1>10. ASSUME NEW id \in Id, Aborted(id) PROVE ServerInv'
  <2>1. /\ command[id] \in UnderWay \ RunStages /\ UNCHANGED <<toServer, at, run>>
        /\ Answers(id, TRUE, "done")
    BY <1>10 DEF Aborted, UnderWay, RunStages
  <2> QED BY <2>1, AnswersOnceKeeps
<1> QED
  BY <1>2, <1>3, <1>4, <1>5, <1>6, <1>7, <1>8, <1>9, <1>10, HandleLineKeeps, StartRunKeeps,
     EmitAgentEndKeeps, FinishRunKeeps, ContinueRunKeeps
     DEF ModeNext

-----------------------------------------------------------------------------
\* THE STEPS OF THE CLIENT

\* An answer that was given stays given.
LEMMA AnswersStay ==
  ASSUME ServerInv, ServerInv',
         answers' = answers \/ \E x \in Id : answers' = [answers EXCEPT ![x] = @ + 1]
  PROVE  \A i \in Id : answers[i] = 1 => answers'[i] = 1
<1>1. \A i \in Id : answers'[i] \in {0, 1}
  BY DEF ServerInv, ServerTypes, AnswersMatch
<1>2. answers \in [Id -> Nat]
  BY DEF ServerInv, ServerTypes
<1> QED BY <1>1, <1>2

\* A step of the server settles nothing.
LEMMA ClientUnchanged ==
  ASSUME ClientInv, UNCHANGED clientVars, \A i \in Id : answers[i] = 1 => answers'[i] = 1
  PROVE  ClientInv'
<1>1. UNCHANGED <<program, timeouts, calls, pendingRequests, answer, eventListeners, events, wait,
                  exitError, alone>>
  BY DEF clientVars
<1>2. ClientTypes' /\ ListenersWait' /\ RequestsWait'
  BY <1>1 DEF ClientInv, ClientTypes, ListenersWait, RequestsWait
<1> QED BY <1>2 DEF ClientInv

LEMMA ModeStep ==
  ASSUME RpcInv, ModeNext, UNCHANGED clientVars
  PROVE  ServerInv' /\ ClientInv'
<1>1. ServerInv'
  BY ServerSteps DEF RpcInv, clientVars
<1>2. answers' = answers \/ \E x \in Id : answers' = [answers EXCEPT ![x] = @ + 1]
  <2>1. CASE HandleLine
    <3>1. toServer # <<>>
      BY <2>1 DEF HandleLine
    <3>2. Head(toServer) \in Command
      BY <3>1 DEF RpcInv, ServerInv, ServerTypes
    <3>3. Head(toServer).id \in Id
      BY <3>2 DEF Command
    <3> QED BY <2>1, <3>3 DEF HandleLine, Answers, GoesOn, GoesOnWith
  <2>2. CASE Shutdown
    BY <2>2 DEF Shutdown, modeVars
  <2>3. CASE Exit
    BY <2>3 DEF Exit
  <2>4. ASSUME NEW id \in Id, Replace(id) PROVE answers' = answers
    BY <2>4 DEF Replace, modeVars
  <2> QED
    BY <2>1, <2>2, <2>3, <2>4
       DEF ModeNext, Replaced, HandledByExtension, RefusePrompt, PassPreflight, StartRun,
           EmitAgentEnd, FinishRun, ContinueRun, GiveUp, Aborted, Answers, GoesOn, GoesOnWith
<1> QED BY <1>1, <1>2, AnswersStay, ClientUnchanged DEF RpcInv

LEMMA CallKeeps ==
  ASSUME ServerInv, ClientInv, Call
  PROVE  ServerInv' /\ ClientInv'
<1> DEFINE id == Len(calls) + 1
           method == program[id]
           sends == method # "waitForIdle" /\ ~exitError
<1>1. /\ id \in DOMAIN program /\ calls' = Append(calls, method)
      /\ \/ UNCHANGED <<eventListeners, wait>>
         \/ /\ eventListeners' = Append(eventListeners, id)
            /\ wait' = [wait EXCEPT ![id] = "waiting"]
      /\ pendingRequests' = IF sends THEN pendingRequests \union {id} ELSE pendingRequests
      /\ answer' = [answer EXCEPT ![id] = IF method = "waitForIdle" THEN @
                                          ELSE IF sends THEN "waiting" ELSE "rejected"]
      /\ toServer' = IF sends /\ alive THEN Append(toServer, [id |-> id, type |-> Type(method)])
                     ELSE toServer
      /\ UNCHANGED <<toClient, command, at, run, answers, events, program, exitError>>
  BY DEF Call
<1>2. id \in Id /\ method \in Method /\ Len(calls) \in Nat /\ id = Len(calls) + 1
  <2>1. program \in Seq(Method) /\ Len(program) <= MaxIds /\ calls \in Seq(Method)
    BY DEF ServerInv, ServerTypes
  <2>2. id \in 1 .. Len(program) /\ Len(calls) \in Nat
    BY <1>1, <2>1
  <2> QED BY <2>1, <2>2, MaxIdsAssumption DEF Id
<1>3. calls' \in Seq(Method) /\ Len(calls') = id /\ Len(calls') <= MaxIds
  BY <1>1, <1>2 DEF ServerInv, ServerTypes, Id
<1>4. method # "waitForIdle" => [id |-> id, type |-> Type(method)] \in Command
  BY <1>2 DEF Method, Type, Command
<1>5. command[id] = "none"
  <2>1. ~(id <= Len(calls))
    BY <1>2
  <2> QED BY <1>2, <2>1 DEF ServerInv, LinesAreNew
<1> HIDE DEF id, method
<1>6. ServerInv'
  <2>1. toServer' \in Seq(Command) /\ toClient' \in Seq(Line)
    BY <1>1, <1>4 DEF ServerInv, ServerTypes
  <2>2. LinesAreNew'
    <3>1. \A n \in 1 .. Len(toServer) : toServer[n].id \in Id /\ toServer[n].id <= Len(calls)
                                        /\ command[toServer[n].id] = "none"
      BY CommandIds DEF ServerInv, LinesAreNew
    <3>2. \A i \in Id : command'[i] # "none" => i <= Len(calls')
      BY <1>1, <1>2, <1>3 DEF ServerInv, LinesAreNew, Id
    <3>3. CASE toServer' = toServer
      <4>1. \A n \in 1 .. Len(toServer') : toServer'[n].id <= Len(calls')
                                           /\ command'[toServer'[n].id] = "none"
        BY <1>1, <1>2, <1>3, <3>1, <3>3 DEF Id
      <4> QED BY <3>2, <3>3, <4>1 DEF ServerInv, LinesAreNew
    <3>4. CASE toServer' = Append(toServer, [id |-> id, type |-> Type(method)])
      <4>1. /\ Len(toServer') = Len(toServer) + 1 /\ Len(toServer) \in Nat
            /\ toServer'[Len(toServer) + 1].id = id
            /\ \A n \in 1 .. Len(toServer) : toServer'[n] = toServer[n]
        BY <3>4 DEF ServerInv, ServerTypes
      <4>2. \A n \in 1 .. Len(toServer') : n \in 1 .. Len(toServer) \/ n = Len(toServer) + 1
        BY <4>1
      <4>3. \A n \in 1 .. Len(toServer) : toServer[n].id < id
        BY <1>2, <3>1 DEF Id
      <4>4. \A n \in 1 .. Len(toServer') : toServer'[n].id <= Len(calls')
                                           /\ command'[toServer'[n].id] = "none"
        <5> TAKE n \in 1 .. Len(toServer')
        <5>1. CASE n = Len(toServer) + 1
          BY <1>1, <1>2, <1>3, <1>5, <4>1, <5>1
        <5>2. CASE n \in 1 .. Len(toServer)
          BY <1>1, <1>2, <1>3, <3>1, <4>1, <5>2 DEF Id
        <5> QED BY <4>2, <5>1, <5>2
      <4>5. \A m, n \in 1 .. Len(toServer') : m < n => toServer'[m].id < toServer'[n].id
        <5> SUFFICES ASSUME NEW m \in 1 .. Len(toServer'), NEW n \in 1 .. Len(toServer'), m < n
                     PROVE  toServer'[m].id < toServer'[n].id
          OBVIOUS
        <5>1. m \in 1 .. Len(toServer)
          BY <4>1
        <5>2. CASE n = Len(toServer) + 1
          BY <4>1, <4>3, <5>1, <5>2
        <5>3. CASE n \in 1 .. Len(toServer)
          <6>1. toServer[m].id < toServer[n].id
            BY <5>1, <5>3 DEF ServerInv, LinesAreNew
          <6> QED BY <4>1, <5>1, <5>3, <6>1
        <5> QED BY <4>2, <5>2, <5>3
      <4> QED BY <3>2, <4>4, <4>5 DEF LinesAreNew
    <3> QED BY <1>1, <3>3, <3>4
  <2> QED BY <1>1, <1>3, <2>1, <2>2, ServerUnchanged
<1>7. ClientTypes'
  <2>1. pendingRequests' \subseteq Id /\ exitError' \in BOOLEAN
    BY <1>1, <1>2 DEF ClientInv, ClientTypes
  <2>2. answer' \in [Id -> {"none", "waiting", "ok", "error", "rejected"}]
    BY <1>1, <1>2 DEF ClientInv, ClientTypes
  <2>3. wait' \in [Id -> {"none", "waiting", "resolved", "rejected"}]
    BY <1>1, <1>2 DEF ClientInv, ClientTypes
  <2>4. eventListeners' \in Seq(Id)
    <3>1. eventListeners \in Seq(Id)
      BY DEF ClientInv, ClientTypes
    <3>2. Append(eventListeners, id) \in Seq(Id)
      BY <1>2, <3>1
    <3>3. eventListeners' = eventListeners \/ eventListeners' = Append(eventListeners, id)
      BY <1>1
    <3> QED BY <3>1, <3>2, <3>3
  <2> QED BY <2>1, <2>2, <2>3, <2>4 DEF ClientTypes
<1>8. ListenersWait'
  <2>1. \A k \in 1 .. Len(eventListeners) :
          eventListeners[k] \in Id /\ eventListeners[k] <= Len(calls) /\ eventListeners[k] < id
    <3> TAKE k \in 1 .. Len(eventListeners)
    <3>1. eventListeners[k] \in Id
      BY DEF ClientInv, ClientTypes
    <3>2. eventListeners[k] <= Len(calls)
      BY DEF ClientInv, ListenersWait
    <3> QED BY <1>2, <3>1, <3>2 DEF Id
  <2>2. \A i \in Id : wait'[i] = wait[i] \/ (i = id /\ wait'[i] = "waiting")
    BY <1>1 DEF ClientInv, ClientTypes
  <2>3. \A i \in Id : events'[i] # <<>> => wait'[i] # "none"
    BY <1>1, <2>2 DEF ClientInv, ListenersWait
  <2>4. \A k \in 1 .. Len(eventListeners) :
          eventListeners[k] <= Len(calls') /\ wait'[eventListeners[k]] = "waiting"
    BY <1>2, <1>3, <2>1, <2>2 DEF ClientInv, ListenersWait, Id
  <2>5. CASE eventListeners' = eventListeners
    BY <2>3, <2>4, <2>5 DEF ClientInv, ListenersWait
  <2>6. CASE eventListeners' = Append(eventListeners, id) /\ wait' = [wait EXCEPT ![id] = "waiting"]
    <3>1. /\ Len(eventListeners') = Len(eventListeners) + 1 /\ Len(eventListeners) \in Nat
          /\ eventListeners'[Len(eventListeners) + 1] = id
          /\ \A k \in 1 .. Len(eventListeners) : eventListeners'[k] = eventListeners[k]
          /\ wait'[id] = "waiting"
      BY <1>2, <2>6 DEF ClientInv, ClientTypes
    <3>2. \A k \in 1 .. Len(eventListeners') :
            k \in 1 .. Len(eventListeners) \/ k = Len(eventListeners) + 1
      BY <3>1
    <3>3. \A k \in 1 .. Len(eventListeners') :
            eventListeners'[k] <= Len(calls') /\ wait'[eventListeners'[k]] = "waiting"
      BY <1>2, <1>3, <2>4, <3>1, <3>2 DEF Id
    <3>4. \A k, l \in 1 .. Len(eventListeners') : eventListeners'[k] = eventListeners'[l] => k = l
      <4> SUFFICES ASSUME NEW k \in 1 .. Len(eventListeners'), NEW l \in 1 .. Len(eventListeners'),
                          eventListeners'[k] = eventListeners'[l]
                   PROVE  k = l
        OBVIOUS
      <4>1. CASE k \in 1 .. Len(eventListeners) /\ l \in 1 .. Len(eventListeners)
        BY <3>1, <4>1 DEF ClientInv, ListenersWait
      <4>2. CASE k \in 1 .. Len(eventListeners) /\ l = Len(eventListeners) + 1
        BY <1>2, <2>1, <3>1, <4>2 DEF Id
      <4>3. CASE k = Len(eventListeners) + 1 /\ l \in 1 .. Len(eventListeners)
        BY <1>2, <2>1, <3>1, <4>3 DEF Id
      <4> QED BY <3>2, <4>1, <4>2, <4>3
    <3> QED BY <2>3, <3>3, <3>4 DEF ListenersWait
  <2> QED BY <1>1, <2>5, <2>6
<1>9. RequestsWait'
  <2>1. \A i \in Id : i # id => answer'[i] = answer[i]
    BY <1>1 DEF ClientInv, ClientTypes
  <2>2. answer'[id] = IF method = "waitForIdle" THEN answer[id]
                      ELSE IF sends THEN "waiting" ELSE "rejected"
    BY <1>1, <1>2 DEF ClientInv, ClientTypes
  <2>3. \A i \in pendingRequests' : answer'[i] = "waiting"
    BY <1>1, <1>2, <2>1, <2>2 DEF ClientInv, ClientTypes, RequestsWait
  <2>4. \A i \in Id : answer'[i] \in {"ok", "error"} => answers'[i] = 1
    BY <1>1, <2>1, <2>2 DEF ClientInv, RequestsWait
  <2>5. exitError' => pendingRequests' = {}
    BY <1>1 DEF ClientInv, RequestsWait
  <2> QED BY <2>3, <2>4, <2>5 DEF RequestsWait
<1> QED BY <1>6, <1>7, <1>8, <1>9 DEF ClientInv

\* A wait that resolves in the middle of the list is told, and the one after it is left.
LEMMA NotifiedKeeps ==
  ASSUME ClientInv, NEW line, GiveToListeners(line), UNCHANGED calls
  PROVE  ListenersWait' /\ wait' \in [Id -> {"none", "waiting", "resolved", "rejected"}]
         /\ eventListeners' \in Seq(Id)
<1> DEFINE ends == line.type = "agent_end"
           notified == Notified(eventListeners, ends)
           told == {eventListeners[k] : k \in notified.told}
           n == Len(eventListeners)
<1>1. /\ events' = [i \in Id |-> IF i \in told THEN Append(events[i], line) ELSE events[i]]
      /\ wait' = [i \in Id |-> IF i \in told /\ ends THEN "resolved" ELSE wait[i]]
      /\ eventListeners' = notified.left
  BY DEF GiveToListeners
<1>2. /\ eventListeners \in Seq(Id) /\ n \in Nat /\ DOMAIN eventListeners = 1 .. n
      /\ \A k \in 1 .. n : eventListeners[k] \in Id /\ eventListeners[k] <= Len(calls)
                           /\ wait[eventListeners[k]] = "waiting"
      /\ \A k, l \in 1 .. n : eventListeners[k] = eventListeners[l] => k = l
  BY DEF ClientInv, ClientTypes, ListenersWait
<1>3. notified.told \subseteq 1 .. n
  BY <1>2 DEF Notified
<1>4. \A i \in told : i \in Id /\ wait[i] = "waiting"
  BY <1>2, <1>3
<1>5. wait' \in [Id -> {"none", "waiting", "resolved", "rejected"}]
  BY <1>1 DEF ClientInv, ClientTypes
<1>6. \A i \in Id : events'[i] # <<>> => wait'[i] # "none"
  BY <1>1, <1>4 DEF ClientInv, ListenersWait
<1>7. CASE ~ends
  <2>1. eventListeners' = eventListeners /\ \A i \in Id : wait'[i] = wait[i]
    BY <1>1, <1>7 DEF Notified
  <2> QED BY <1>2, <1>5, <1>6, <2>1 DEF ListenersWait
<1>8. CASE ends
  <2> DEFINE half == n \div 2
  <2>1. /\ notified.told = {k \in 1 .. n : k % 2 = 1}
        /\ eventListeners' = [k \in 1 .. half |-> eventListeners[2 * k]]
    BY <1>1, <1>2, <1>8 DEF Notified
  <2>2. half \in Nat /\ \A k \in 1 .. half : 2 * k \in 1 .. n /\ (2 * k) % 2 # 1
    BY <1>2
  <2>3. /\ eventListeners' \in Seq(Id) /\ Len(eventListeners') = half
        /\ \A k \in 1 .. half : eventListeners'[k] = eventListeners[2 * k]
    BY <1>2, <2>1, <2>2
  <2>4. \A k \in 1 .. half : eventListeners[2 * k] \notin told
    BY <1>2, <2>1, <2>2
  <2>5. \A k \in 1 .. half : eventListeners'[k] <= Len(calls') /\ wait'[eventListeners'[k]] = "waiting"
    BY <1>1, <1>2, <2>2, <2>3, <2>4
  <2>6. \A k, l \in 1 .. half : eventListeners'[k] = eventListeners'[l] => k = l
    <3> TAKE k, l \in 1 .. half
    <3>1. 2 * k = 2 * l => k = l
      OBVIOUS
    <3> QED BY <1>2, <2>2, <2>3, <3>1
  <2> QED BY <1>5, <1>6, <2>3, <2>5, <2>6 DEF ListenersWait
<1> QED BY <1>7, <1>8

LEMMA ReadLineKeeps ==
  ASSUME ServerInv, ClientInv, ReadLine
  PROVE  ServerInv' /\ ClientInv'
<1> DEFINE line == Head(toClient)
<1>1. /\ toClient # <<>> /\ toClient' = Tail(toClient)
      /\ UNCHANGED <<toServer, command, at, run, answers, calls, exitError, program>>
      /\ \/ /\ IsAnswer(line)
            /\ pendingRequests' = pendingRequests \ {line.of}
            /\ answer' = [answer EXCEPT ![line.of] = IF line.ok THEN "ok" ELSE "error"]
            /\ UNCHANGED <<eventListeners, events, wait>>
         \/ GiveToListeners(line)
  BY DEF ReadLine
<1>2. line \in Line /\ toClient' \in Seq(Line)
  BY <1>1 DEF ServerInv, ServerTypes
<1>3. ServerInv'
  <2>1. toServer' \in Seq(Command) /\ calls' \in Seq(Method) /\ Len(calls') <= MaxIds
    BY <1>1 DEF ServerInv, ServerTypes
  <2>2. LinesAreNew'
    BY <1>1 DEF ServerInv, LinesAreNew
  <2> QED BY <1>1, <1>2, <2>1, <2>2, ServerUnchanged
<1> HIDE DEF line
<1>4. CASE /\ IsAnswer(line)
           /\ pendingRequests' = pendingRequests \ {line.of}
           /\ answer' = [answer EXCEPT ![line.of] = IF line.ok THEN "ok" ELSE "error"]
           /\ UNCHANGED <<eventListeners, events, wait>>
  <2>1. line.of \in Id /\ answers[line.of] = 1
    BY <1>2, <1>4 DEF IsAnswer, Line
  <2>2. ClientTypes'
    BY <1>1, <1>4 DEF ClientInv, ClientTypes
  <2>3. ListenersWait'
    BY <1>1, <1>4 DEF ClientInv, ListenersWait
  <2>4. \A i \in Id : i # line.of => answer'[i] = answer[i]
    BY <1>4 DEF ClientInv, ClientTypes
  <2>5. RequestsWait'
    BY <1>1, <1>4, <2>1, <2>4 DEF ClientInv, ClientTypes, RequestsWait
  <2> QED BY <1>3, <2>2, <2>3, <2>5 DEF ClientInv
<1>5. CASE GiveToListeners(line)
  <2>1. UNCHANGED <<pendingRequests, answer, answers, exitError>>
    BY <1>1, <1>5 DEF GiveToListeners
  <2>2. /\ ListenersWait' /\ wait' \in [Id -> {"none", "waiting", "resolved", "rejected"}]
        /\ eventListeners' \in Seq(Id)
    BY <1>1, <1>5, NotifiedKeeps
  <2>3. ClientTypes' /\ RequestsWait'
    BY <2>1, <2>2 DEF ClientInv, ClientTypes, RequestsWait
  <2> QED BY <1>3, <2>2, <2>3 DEF ClientInv
<1> QED BY <1>1, <1>4, <1>5

\* The server does not see the timers of the client, nor that it notices an exit.
LEMMA ServerUnseen ==
  ASSUME ServerInv, UNCHANGED <<modeVars, calls, program>>
  PROVE  ServerInv'
<1>1. /\ UNCHANGED <<command, at, run, answers, program, toServer, toClient, calls>>
      /\ toServer' \in Seq(Command) /\ toClient' \in Seq(Line)
      /\ calls' \in Seq(Method) /\ Len(calls') <= MaxIds
  BY DEF modeVars, ServerInv, ServerTypes
<1>2. LinesAreNew'
  BY <1>1 DEF ServerInv, LinesAreNew
<1> QED BY <1>1, <1>2, ServerUnchanged

LEMMA RequestTimeoutKeeps ==
  ASSUME ServerInv, ClientInv, NEW id \in Id, RequestTimeout(id)
  PROVE  ServerInv' /\ ClientInv'
<1>1. /\ pendingRequests' = pendingRequests \ {id} /\ answer' = [answer EXCEPT ![id] = "rejected"]
      /\ UNCHANGED <<modeVars, program, calls, eventListeners, events, wait, exitError, answers>>
  BY DEF RequestTimeout, modeVars
<1>2. /\ answer'[id] = "rejected" /\ \A i \in Id : i # id => answer'[i] = answer[i]
      /\ answer' \in [Id -> {"none", "waiting", "ok", "error", "rejected"}]
  BY <1>1 DEF ClientInv, ClientTypes
<1>3. ClientTypes' /\ ListenersWait' /\ RequestsWait'
  BY <1>1, <1>2 DEF ClientInv, ClientTypes, ListenersWait, RequestsWait
<1> QED BY <1>1, <1>3, ServerUnseen DEF ClientInv

\* What RemoveAt leaves of a sequence.
LEMMA RemoveAtProperties ==
  ASSUME NEW S, NEW s \in Seq(S), NEW k \in 1 .. Len(s)
  PROVE  /\ RemoveAt(s, k) \in Seq(S) /\ Len(RemoveAt(s, k)) = Len(s) - 1
         /\ \A j \in 1 .. Len(s) - 1 : RemoveAt(s, k)[j] = IF j < k THEN s[j] ELSE s[j + 1]
<1> DEFINE before == SubSeq(s, 1, k - 1)
           after == SubSeq(s, k + 1, Len(s))
<1>1. /\ before \in Seq(S) /\ Len(before) = k - 1
      /\ \A j \in 1 .. k - 1 : before[j] = s[j]
  BY SubSeqProperties
<1>2. /\ after \in Seq(S) /\ Len(after) = Len(s) - k
      /\ \A j \in 1 .. Len(s) - k : after[j] = s[k + j]
  BY SubSeqProperties
<1>3. RemoveAt(s, k) = before \o after
  BY DEF RemoveAt
<1> HIDE DEF before, after
<1>4. /\ before \o after \in Seq(S) /\ Len(before \o after) = Len(s) - 1
      /\ \A j \in 1 .. Len(s) - 1 : (before \o after)[j] =
                                    IF j <= k - 1 THEN before[j] ELSE after[j - (k - 1)]
  <2>1. (k - 1) + (Len(s) - k) = Len(s) - 1
    OBVIOUS
  <2>2. /\ before \o after \in Seq(S) /\ Len(before \o after) = Len(before) + Len(after)
        /\ \A j \in 1 .. Len(before) + Len(after) : (before \o after)[j] =
                                    IF j <= Len(before) THEN before[j] ELSE after[j - Len(before)]
    BY <1>1, <1>2, ConcatProperties
  <2>3. Len(before) = k - 1 /\ Len(before) + Len(after) = Len(s) - 1
    BY <1>1, <1>2, <2>1
  <2> HIDE <1>1, <1>2
  <2> QED BY <2>2, <2>3
<1>5. \A j \in 1 .. Len(s) - 1 : (before \o after)[j] = IF j < k THEN s[j] ELSE s[j + 1]
  <2> TAKE j \in 1 .. Len(s) - 1
  <2>1. CASE j < k
    BY <1>1, <1>4, <2>1
  <2>2. CASE ~(j < k)
    <3>1. j - (k - 1) \in 1 .. Len(s) - k /\ k + (j - (k - 1)) = j + 1
      BY <2>2
    <3> QED BY <1>2, <1>4, <2>2, <3>1
  <2> QED BY <2>1, <2>2
<1> QED BY <1>3, <1>4, <1>5

LEMMA WaitTimeoutKeeps ==
  ASSUME ServerInv, ClientInv, NEW id \in Id, WaitTimeout(id)
  PROVE  ServerInv' /\ ClientInv'
<1>1. /\ wait[id] = "waiting" /\ wait' = [wait EXCEPT ![id] = "rejected"]
      /\ UNCHANGED <<modeVars, program, calls, pendingRequests, answer, events, exitError, answers>>
  BY DEF WaitTimeout, modeVars
<1>2. PICK k \in DOMAIN eventListeners :
        eventListeners[k] = id /\ eventListeners' = RemoveAt(eventListeners, k)
  BY DEF WaitTimeout
<1>3. eventListeners \in Seq(Id) /\ k \in 1 .. Len(eventListeners)
  BY DEF ClientInv, ClientTypes
<1> DEFINE left == Len(eventListeners) - 1
           from(j) == IF j < k THEN j ELSE j + 1
<1>4. /\ eventListeners' \in Seq(Id) /\ Len(eventListeners') = left
      /\ \A j \in 1 .. left : eventListeners'[j] = IF j < k THEN eventListeners[j]
                                                   ELSE eventListeners[j + 1]
  BY <1>2, <1>3, RemoveAtProperties
<1>5. \A j \in 1 .. left : from(j) \in 1 .. Len(eventListeners) /\ from(j) # k
                           /\ eventListeners'[j] = eventListeners[from(j)]
  BY <1>3, <1>4
<1>6. \A j, l \in 1 .. left : from(j) = from(l) => j = l
  BY <1>3
<1> HIDE DEF from
<1>7. /\ wait'[id] = "rejected" /\ \A i \in Id : i # id => wait'[i] = wait[i]
      /\ wait' \in [Id -> {"none", "waiting", "resolved", "rejected"}]
  BY <1>1 DEF ClientInv, ClientTypes
<1>8. ListenersWait'
  <2>1. \A j \in 1 .. Len(eventListeners) :
          /\ eventListeners[j] \in Id /\ eventListeners[j] <= Len(calls)
          /\ wait[eventListeners[j]] = "waiting" /\ (j # k => eventListeners[j] # id)
    BY <1>2, <1>3 DEF ClientInv, ClientTypes, ListenersWait
  <2>2. \A j \in 1 .. left :
          eventListeners'[j] <= Len(calls') /\ wait'[eventListeners'[j]] = "waiting"
    BY <1>1, <1>5, <1>7, <2>1
  <2>3. \A j, l \in 1 .. left : eventListeners'[j] = eventListeners'[l] => j = l
    BY <1>5, <1>6 DEF ClientInv, ListenersWait
  <2>4. \A i \in Id : events'[i] # <<>> => wait'[i] # "none"
    BY <1>1, <1>7 DEF ClientInv, ListenersWait
  <2> QED BY <1>4, <2>2, <2>3, <2>4 DEF ListenersWait
<1>9. ClientTypes' /\ RequestsWait'
  BY <1>1, <1>4, <1>7 DEF ClientInv, ClientTypes, RequestsWait
<1> QED BY <1>1, <1>8, <1>9, ServerUnseen DEF ClientInv

LEMMA NoticeExitKeeps ==
  ASSUME ServerInv, ClientInv, NoticeExit
  PROVE  ServerInv' /\ ClientInv'
<1>1. /\ exitError' = TRUE /\ pendingRequests' = {}
      /\ answer' = [i \in Id |-> IF i \in pendingRequests THEN "rejected" ELSE answer[i]]
      /\ UNCHANGED <<modeVars, program, calls, eventListeners, events, wait, answers>>
  BY DEF NoticeExit, modeVars
<1>2. ClientTypes' /\ ListenersWait' /\ RequestsWait'
  BY <1>1 DEF ClientInv, ClientTypes, ListenersWait, RequestsWait
<1> QED BY <1>1, <1>2, ServerUnseen DEF ClientInv

-----------------------------------------------------------------------------
\* THE THEOREMS

LEMMA RpcInit == Init => RpcInv
<1> SUFFICES ASSUME Init PROVE RpcInv
  OBVIOUS
<1> USE MaxIdsAssumption
<1>1. RuntimeInv
  <2>1. /\ session = 1 /\ hosted = 1 /\ subscribed = 1 /\ sessions = <<Fresh>>
        /\ replacement = [c \in Id \union {Quit} |-> "none"]
        /\ overlapped = FALSE /\ creationFailed = FALSE
    BY DEF Init, RuntimeInit
  <2>2. Fresh \in SessionState /\ Fresh.told = 0 /\ ~Fresh.disposed
    BY DEF Fresh, SessionState
  <2>3. sessions \in Seq(SessionState) /\ Len(sessions) = 1 /\ sessions[1] = Fresh
    BY <2>1, <2>2
  <2>4. \A c \in Caller : replacement[c] = "none"
    BY <2>1 DEF Caller
  <2>5. RuntimeTypes
    <3>1. replacement \in [Caller -> {"none", "beforeSwitch", "cancelled", "failed", "shutdown",
                                     "creating", "binding", "rebinding", "done"}]
      BY <2>1 DEF Caller
    <3>2. session \in 1 .. Len(sessions) /\ subscribed \in 0 .. Len(sessions) /\ Quit \in Caller
      BY <2>1, <2>3 DEF Caller
    <3> QED BY <2>1, <2>3, <2>4, <3>1, <3>2 DEF RuntimeTypes
  <2> QED BY <2>1, <2>2, <2>3, <2>4, <2>5
          DEF RuntimeInv, SubscribedFollows, DisposedIsReplaced, OneTearing, OneLeft, Tearing
<1>2. /\ toServer = <<>> /\ toClient = <<>> /\ command = [i \in Id |-> "none"]
      /\ at = [i \in Id |-> 0] /\ run = [s \in 1 .. MaxIds + 1 |-> 0]
      /\ answers = [i \in Id |-> 0] /\ calls = <<>> /\ program \in Programs
  BY DEF Init, ModeInit
<1>3. program \in Seq(Method) /\ Len(program) <= MaxIds
  BY <1>2, ProgramsAssumption
<1>4. ServerTypes
  BY <1>2, <1>3 DEF ServerTypes
<1>5. LinesAreNew /\ AnswersMatch /\ RunsArePrompts
  BY <1>2 DEF LinesAreNew, AnswersMatch, RunsArePrompts, Answered
<1>6. /\ pendingRequests = {} /\ eventListeners = <<>> /\ exitError = FALSE
      /\ answer = [i \in Id |-> "none"] /\ wait = [i \in Id |-> "none"]
      /\ events = [i \in Id |-> <<>>]
  BY DEF Init
<1>7. ClientTypes
  <2>1. /\ answer \in [Id -> {"none", "waiting", "ok", "error", "rejected"}]
        /\ wait \in [Id -> {"none", "waiting", "resolved", "rejected"}]
    BY <1>6
  <2>2. eventListeners \in Seq(Id)
    BY <1>6
  <2> QED BY <1>6, <2>1, <2>2 DEF ClientTypes
<1>8. Len(eventListeners) = 0
  BY <1>6
<1>9. ListenersWait
  BY <1>6, <1>8 DEF ListenersWait
<1>10. RequestsWait
  BY <1>6 DEF RequestsWait
<1> QED BY <1>1, <1>4, <1>5, <1>7, <1>9, <1>10 DEF RpcInv, ServerInv, ClientInv

LEMMA RpcStep == RpcInv /\ [Next]_vars => RpcInv'
<1> SUFFICES ASSUME RpcInv, [Next]_vars PROVE RpcInv'
  OBVIOUS
<1> USE DEF RpcInv
<1>1. RuntimeInv'
  BY RuntimeStep DEF ServerInv, ServerTypes
<1>2. CASE UNCHANGED vars
  <2>1. UNCHANGED clientVars /\ UNCHANGED modeVars /\ UNCHANGED <<calls, program, answers>>
    BY <1>2 DEF vars, clientVars, modeVars
  <2> QED BY <1>1, <2>1, ServerUnseen, ClientUnchanged
<1>3. CASE ModeNext /\ UNCHANGED clientVars
  BY <1>1, <1>3, ModeStep
<1>4. CASE Call
  BY <1>1, <1>4, CallKeeps
<1>5. CASE ReadLine
  BY <1>1, <1>5, ReadLineKeeps
<1>6. CASE NoticeExit
  BY <1>1, <1>6, NoticeExitKeeps
<1>7. CASE \E id \in Id : RequestTimeout(id) \/ WaitTimeout(id)
  BY <1>1, <1>7, RequestTimeoutKeeps, WaitTimeoutKeeps
<1> QED BY <1>2, <1>3, <1>4, <1>5, <1>6, <1>7 DEF Next

LEMMA RpcInvariant == Spec => []RpcInv
BY RpcInit, RpcStep, PTL DEF Spec

LEMMA AnswersPromise == RpcInv => EveryCommandIsAnswered
<1> SUFFICES ASSUME RpcInv PROVE EveryCommandIsAnswered
  OBVIOUS
<1> USE DEF RpcInv
<1>1. TypeOK
  <2>1. pendingRequests \subseteq {i \in Id : answer[i] = "waiting"}
    BY DEF ClientInv, ClientTypes, RequestsWait
  <2>2. \A i \in DOMAIN eventListeners : wait[eventListeners[i]] = "waiting"
    BY DEF ClientInv, ClientTypes, ListenersWait
  <2>3. \A i \in Id : events[i] # <<>> => wait[i] # "none"
    BY DEF ClientInv, ListenersWait
  <2>4. \A i \in Id : command[i] # "none" => i \in DOMAIN calls
    BY DEF ServerInv, ServerTypes, LinesAreNew, Id
  <2>5. \A s \in DOMAIN run : run[s] # 0 =>
          command[run[s]] \in {"recovering", "recovered", "running", "ending"} /\ at[run[s]] = s
    BY DEF ServerInv, RunsArePrompts
  <2>6. /\ session \in DOMAIN sessions /\ hosted \in DOMAIN sessions
        /\ subscribed \in DOMAIN sessions \union {0}
    BY DEF RuntimeInv, RuntimeTypes
  <2> QED BY <2>1, <2>2, <2>3, <2>4, <2>5, <2>6 DEF TypeOK
<1>2. ASSUME NEW id \in Id
      PROVE  /\ answers[id] <= 1
             /\ command[id] \in UnderWay => answers[id] = 0
             /\ command[id] \notin UnderWay \union {"none"} => answers[id] = 1
             /\ answer[id] \in {"ok", "error"} => answers[id] = 1
  <2>1. command[id] \in {"none"} \union UnderWay \union Answered
    BY DEF ServerInv, ServerTypes
  <2>2. answer[id] \in {"ok", "error"} => answers[id] = 1
    BY DEF ClientInv, RequestsWait
  <2> QED BY <2>1, <2>2 DEF ServerInv, AnswersMatch
<1>3. exitError => pendingRequests = {}
  BY DEF ClientInv, RequestsWait
<1> QED BY <1>1, <1>2, <1>3 DEF EveryCommandIsAnswered, UnderWay

\* However replacements of the session overlap, when none is under way the client talks to
\* the runtime's session and hears it; and while they do not overlap, every session but the
\* current one was told of its end once, and disposed.
THEOREM SessionsHandedOver == Spec => []SessionsAreHandedOver
BY RpcInvariant, RuntimePromise, PTL DEF RpcInv

\* Every command is answered once, by whichever of its ways through the handlers of the
\* mode, and the client settles a request only by the answer to it, or by a timer or the
\* exit of the process; for any number of calls and timers.
THEOREM CommandsAnswered == Spec => []EveryCommandIsAnswered
BY RpcInvariant, AnswersPromise, PTL
-----------------------------------------------------------------------------
\* WHAT A CALL COLLECTS: THE INVARIANT

AnyLine == [type : {"response"}, of : Id, ok : BOOLEAN] \union EventLine

CollectTypes ==
  /\ events \in [Id -> Seq(AnyLine)]
  /\ alone \in [Id -> BOOLEAN]
  /\ continued \subseteq Id

\* A command is handled as what was called, in the order of the calls; only a command under
\* way replaces the session, and one not sent is not handled.
PromptStages ==
  {"preflight", "recovering", "recovered", "starting", "handling", "running", "ending", "between"}

KindsMatch ==
  /\ \A n \in 1 .. Len(toServer) : toServer[n].type = Type(calls[toServer[n].id])
  /\ \A i \in Id : command[i] \in PromptStages => calls[i] \in Prompts
  /\ \A i \in Id : command[i] \in {"aborting", "replacing"} => calls[i] \notin Prompts

ReadInOrder ==
  \A n \in 1 .. Len(toServer), i \in Id : command[i] # "none" => i < toServer[n].id

SentFirst ==
  /\ \A n \in 1 .. Len(toServer) : answer[toServer[n].id] # "none"
  /\ \A i \in Id : answer[i] = "none" => command[i] = "none"

ReplacersHandle ==
  \A c \in Id : replacement[c] \in Replacing => command[c] \in {"replacing", "handling"}

HandledInv == KindsMatch /\ ReadInOrder /\ SentFirst /\ ReplacersHandle

\* The events on the way to the client: they are of prompts.
Pipe == Only(toClient, EventLine)

PipeOfPrompts ==
  \A k \in 1 .. Len(Pipe) : Pipe[k].of <= Len(calls) /\ calls[Pipe[k].of] \in Prompts

WaitsListen ==
  /\ \A i \in Id : wait[i] # "none" => i <= Len(calls)
  /\ \A i \in Id : wait[i] = "waiting" => \E k \in 1 .. Len(eventListeners) : eventListeners[k] = i

\* The calls CollectedIsTheRun is about: what came before is over, and no prompt comes
\* until this one is.
Alone(i) ==
  i <= Len(calls) /\ calls[i] = "promptAndWait" /\ alone[i] /\ continued \intersect 1 .. i = {}

OneAtATime ==
  \A i \in Id : Alone(i) =>
    /\ \A j \in 1 .. i - 1 : Over(j)
    /\ ~Over(i) => \A j \in i + 1 .. Len(calls) : calls[j] \notin Prompts

Start(i) == <<Event(i, "agent_start")>>
StartEnd(i) == <<Event(i, "agent_start"), Event(i, "agent_end")>>

\* A call that has returned has its run, and nothing of it is still to come.
Collected ==
  \A i \in Id : Alone(i) /\ wait[i] = "resolved" =>
    /\ Only(events[i], EventLine) = StartEnd(i)
    /\ command[i] \in {"ending", "between", "done"}
    /\ \A k \in 1 .. Len(Pipe) : Pipe[k].of # i

\* A call that waits has, or has on the way, what its run has emitted so far; unless the
\* mode did not hear it, or the end of it passed the call over.
Seen(i) == Only(events[i], EventLine) \o Pipe

Collecting ==
  \A i \in Id : Alone(i) /\ wait[i] = "waiting" =>
    \/ command[i] \in {"none", "preflight", "starting", "handling"} /\ Seen(i) = <<>>
    \/ /\ command[i] = "running" /\ Seen(i) \in {<<>>, Start(i)}
       /\ Heard(at[i]) => Seen(i) = Start(i)
    \/ command[i] \in {"ending", "between", "done"} /\ Seen(i) \in {<<>>, Start(i), StartEnd(i)}

\* A session that is not heard any more is never heard again: whatever the mode is being
\* bound to is a later one.
BoundLater(s) ==
  /\ s \in 1 .. session
  /\ (\E c \in Id : replacement[c] \in {"binding", "rebinding"}) => s < session

HeardNoMore ==
  \A i \in Id : Alone(i) /\ wait[i] = "waiting" /\ command[i] # "none" => BoundLater(at[i])

CollectInv ==
  CollectTypes /\ HandledInv /\ PipeOfPrompts /\ WaitsListen /\ OneAtATime /\ Collected
    /\ Collecting /\ HeardNoMore

-----------------------------------------------------------------------------
\* THE EVENTS ON THE WAY

LEMMA OnlyEvents ==
  ASSUME NEW s \in Seq(AnyLine)
  PROVE  Only(s, EventLine) \in Seq(EventLine)
<1>1. Only(s, EventLine) \in Seq(AnyLine)
  BY OnlyType
<1>2. ToSet(Only(s, EventLine)) \subseteq EventLine
  BY OnlyMembers
<1> QED BY <1>1, <1>2, OfMembers

LEMMA PipeType ==
  ASSUME ServerInv
  PROVE  /\ toClient \in Seq(AnyLine) /\ Pipe \in Seq(EventLine)
         /\ \A n \in 1 .. Len(toClient) : toClient[n] \in AnyLine
<1>1. Line \subseteq AnyLine
  BY DEF Line, AnyLine, EventLine
<1>2. toClient \in Seq(AnyLine)
  BY <1>1, LargerSeq DEF ServerInv, ServerTypes
<1> QED BY <1>2, OnlyEvents DEF Pipe

LEMMA AnswerIsNoEvent ==
  ASSUME NEW id \in Id, NEW ok \in BOOLEAN
  PROVE  Response(id, ok) \in AnyLine /\ Response(id, ok) \notin EventLine
BY DEF Response, AnyLine, EventLine

\* Events are added, and answers are none.
LEMMA PipeGrows ==
  ASSUME ServerInv, NEW emitted \in Seq(EventLine), toClient' = toClient \o emitted
  PROVE  Pipe' = Pipe \o emitted
<1>1. EventLine \subseteq AnyLine
  BY DEF AnyLine
<1>2. toClient \in Seq(AnyLine) /\ emitted \in Seq(AnyLine)
  BY <1>1, PipeType, LargerSeq
<1>3. Only(emitted, EventLine) = emitted
  BY OnlyAll
<1>4. Only(toClient \o emitted, EventLine) = Only(toClient, EventLine) \o Only(emitted, EventLine)
  BY <1>2, OnlyConcat
<1> QED BY <1>3, <1>4 DEF Pipe

LEMMA PipeAnswered ==
  ASSUME ServerInv, NEW id \in Id, NEW ok \in BOOLEAN, NEW emitted \in Seq(EventLine),
         toClient' = Append(toClient, Response(id, ok)) \o emitted
  PROVE  Pipe' = Pipe \o emitted
<1> DEFINE answered == Append(toClient, Response(id, ok))
<1>1. EventLine \subseteq AnyLine
  BY DEF AnyLine
<1>2. toClient \in Seq(AnyLine) /\ emitted \in Seq(AnyLine) /\ answered \in Seq(AnyLine)
  BY <1>1, PipeType, LargerSeq, AnswerIsNoEvent
<1>3. Only(emitted, EventLine) = emitted
  BY OnlyAll
<1>4. Only(answered, EventLine) = Only(toClient, EventLine)
  BY <1>2, AnswerIsNoEvent, OnlyAppend
<1> HIDE DEF answered
<1>5. Only(answered \o emitted, EventLine) = Only(answered, EventLine) \o Only(emitted, EventLine)
  BY <1>2, OnlyConcat
<1> QED BY <1>3, <1>4, <1>5 DEF Pipe, answered

LEMMA PipeRead ==
  ASSUME ServerInv, toClient # <<>>, toClient' = Tail(toClient)
  PROVE  /\ Head(toClient) \in AnyLine
         /\ IF Head(toClient) \in EventLine THEN Pipe = <<Head(toClient)>> \o Pipe' ELSE Pipe' = Pipe
         /\ Pipe' \in Seq(EventLine)
<1> DEFINE head == Head(toClient)
           rest == Tail(toClient)
<1>1. toClient \in Seq(AnyLine)
  BY PipeType
<1>2. head \in AnyLine /\ rest \in Seq(AnyLine) /\ toClient = <<head>> \o rest
  BY <1>1
<1> HIDE DEF head, rest
<1>3. <<head>> \in Seq(AnyLine) /\ <<>> \in Seq(AnyLine) /\ <<head>> = Append(<<>>, head)
  BY <1>2
<1>4. Only(<<>>, EventLine) = <<>>
  BY OnlyEmpty
<1>5. Only(<<head>>, EventLine) = IF head \in EventLine THEN <<head>> ELSE <<>>
  <2>1. Only(Append(<<>>, head), EventLine) =
          IF head \in EventLine THEN Append(Only(<<>>, EventLine), head) ELSE Only(<<>>, EventLine)
    BY <1>2, <1>3, OnlyAppend
  <2> QED BY <1>3, <1>4, <2>1
<1> DEFINE first == <<head>>
<1> HIDE DEF first
<1>6. Only(first \o rest, EventLine) = Only(first, EventLine) \o Only(rest, EventLine)
  <2>1. first \in Seq(AnyLine)
    BY <1>3 DEF first
  <2> QED BY <1>2, <2>1, OnlyConcat
<1>7. Only(rest, EventLine) \in Seq(EventLine) /\ <<>> \o Only(rest, EventLine) = Only(rest, EventLine)
  BY <1>2, OnlyEvents
<1>8. Pipe = Only(toClient, EventLine) /\ Pipe' = Only(rest, EventLine)
  BY DEF Pipe, rest
<1> QED BY <1>2, <1>5, <1>6, <1>7, <1>8 DEF head, first

-----------------------------------------------------------------------------
\* THE STEPS OF THE SERVER, AS THE CALLS SEE THEM

\* A command moves on, and the session it works on emits nothing.
QuietMoves ==
  {<<"none", "done">>, <<"none", "preflight">>, <<"none", "aborting">>, <<"none", "replacing">>,
   <<"replacing", "done">>, <<"handling", "done">>, <<"aborting", "done">>,
   <<"preflight", "done">>, <<"preflight", "handling">>, <<"preflight", "starting">>,
   <<"starting", "done">>, <<"recovered", "starting">>, <<"ending", "done">>,
   <<"ending", "between">>, <<"between", "done">>}

Quiet(j) ==
  /\ \E stage : <<command[j], stage>> \in QuietMoves /\ command' = [command EXCEPT ![j] = stage]
  /\ Pipe' = Pipe /\ continued' = continued

Emitting(j, stage, type) ==
  command' = [command EXCEPT ![j] = stage] /\ Pipe' = Pipe \o Emits(j, type)

\* Or it emits the start or the end of a run, of the first one or of one that is continued.
Loud(j) ==
  \/ command[j] = "starting" /\ Emitting(j, "running", "agent_start") /\ continued' = continued
  \/ command[j] = "running" /\ Emitting(j, "ending", "agent_end") /\ continued' = continued
  \/ command[j] = "recovering" /\ Emitting(j, "recovered", "agent_end") /\ continued' = continued
  \/ /\ command[j] \in {"preflight", "between"} /\ continued' = continued \union {j}
     /\ \E stage \in {"running", "recovering"} : Emitting(j, stage, "agent_start")

Still == UNCHANGED <<command, continued>> /\ Pipe' = Pipe

LEMMA AnswersQuietly ==
  ASSUME ServerInv, NEW j \in Id, NEW ok \in BOOLEAN, NEW stage, Answers(j, ok, stage),
         <<command[j], stage>> \in QuietMoves, UNCHANGED continued
  PROVE  Quiet(j)
<1>1. /\ command' = [command EXCEPT ![j] = stage] /\ toClient' = Append(toClient, Response(j, ok))
  BY DEF Answers
<1>2. toClient' = Append(toClient, Response(j, ok)) \o <<>> /\ <<>> \in Seq(EventLine)
  BY <1>1, NothingAfterAnAnswer
<1>3. Pipe' = Pipe \o <<>> /\ Pipe \in Seq(EventLine)
  BY <1>2, PipeAnswered, PipeType
<1>4. Pipe' = Pipe
  BY <1>3
<1> QED BY <1>1, <1>4 DEF Quiet

LEMMA GoesOnQuietly ==
  ASSUME ServerInv, NEW j \in Id, NEW stage, GoesOn(j, stage),
         <<command[j], stage>> \in QuietMoves, UNCHANGED continued
  PROVE  Quiet(j)
<1>1. /\ command' = [command EXCEPT ![j] = stage] /\ toClient' = toClient \o <<>>
      /\ <<>> \in Seq(EventLine)
  BY DEF GoesOn, GoesOnWith
<1>3. Pipe' = Pipe \o <<>> /\ Pipe \in Seq(EventLine)
  BY <1>1, PipeGrows, PipeType
<1>4. Pipe' = Pipe
  BY <1>3
<1> QED BY <1>1, <1>4 DEF Quiet

LEMMA HandlesQuietly ==
  ASSUME ServerInv, HandleLine
  PROVE  Head(toServer).id \in Id /\ Quiet(Head(toServer).id)
<1> DEFINE id == Head(toServer).id
           type == Head(toServer).type
<1>1. /\ toServer # <<>> /\ UNCHANGED continued
      /\ \/ type = "get_state" /\ Answers(id, TRUE, "done")
         \/ \E stage \in {"preflight", "aborting", "replacing"} : GoesOn(id, stage)
  BY DEF HandleLine
<1>2. Head(toServer) = toServer[1] /\ 1 \in 1 .. Len(toServer)
  BY <1>1 DEF ServerInv, ServerTypes
<1>3. id \in Id /\ command[id] = "none"
  BY <1>2, CommandIds DEF ServerInv, LinesAreNew
<1> HIDE DEF id, type
<1>4. \A stage \in {"done", "preflight", "aborting", "replacing"} : <<command[id], stage>> \in QuietMoves
  BY <1>3 DEF QuietMoves
<1>5. CASE Answers(id, TRUE, "done")
  BY <1>1, <1>3, <1>4, <1>5, AnswersQuietly DEF id
<1>6. CASE \E stage \in {"preflight", "aborting", "replacing"} : GoesOn(id, stage)
  BY <1>1, <1>3, <1>4, <1>6, GoesOnQuietly DEF id
<1> QED BY <1>1, <1>5, <1>6

LEMMA StartsRun ==
  ASSUME ServerInv, NEW id \in Id, StartRun(id)
  PROVE  Quiet(id) \/ Loud(id)
<1>1. command[id] = "starting" /\ UNCHANGED continued
  BY DEF StartRun
<1>2. CASE run[at[id]] = 0
  <2>1. /\ command' = [command EXCEPT ![id] = "running"]
        /\ toClient' = Append(toClient, Response(id, TRUE)) \o Emits(id, "agent_start")
    BY <1>2 DEF StartRun
  <2>2. Pipe' = Pipe \o Emits(id, "agent_start")
    BY <2>1, EventsAreLines, PipeAnswered
  <2> QED BY <1>1, <2>1, <2>2 DEF Loud, Emitting
<1>3. CASE run[at[id]] # 0
  <2>1. Answers(id, TRUE, "done")
    BY <1>3 DEF StartRun, Answers
  <2>2. <<command[id], "done">> \in QuietMoves
    BY <1>1 DEF QuietMoves
  <2> QED BY <1>1, <2>1, <2>2, AnswersQuietly
<1> QED BY <1>2, <1>3

LEMMA OtherMoves ==
  ASSUME ServerInv, ModeNext, ~HandleLine
  PROVE  /\ at' = at /\ toServer' \in {toServer, <<>>}
         /\ Still \/ \E j \in Id : command[j] # "none" /\ (Quiet(j) \/ Loud(j))
<1>1. at' = at /\ toServer' \in {toServer, <<>>}
  BY DEF ModeNext, Shutdown, Exit, Replace, Replaced, HandledByExtension, RefusePrompt,
         PassPreflight, StartRun, EmitAgentEnd, FinishRun, ContinueRun, GiveUp, Aborted, modeVars
<1>2. CASE Shutdown \/ Exit \/ \E id \in Id : Replace(id)
  <2>1. UNCHANGED <<command, continued, toClient>>
    BY <1>2 DEF Shutdown, Exit, Replace, modeVars
  <2> QED BY <1>1, <2>1 DEF Still, Pipe
<1>3. ASSUME NEW id \in Id, Replaced(id) PROVE command[id] # "none" /\ Quiet(id)
  <2>0. command[id] # "none"
    BY <1>3 DEF Replaced
  <2>1. PICK ok \in BOOLEAN : Answers(id, ok, "done")
    BY <1>3 DEF Replaced
  <2>2. <<command[id], "done">> \in QuietMoves /\ UNCHANGED continued
    BY <1>3 DEF Replaced, QuietMoves
  <2> QED BY <2>0, <2>1, <2>2, AnswersQuietly
<1>4. ASSUME NEW id \in Id, HandledByExtension(id) PROVE command[id] # "none" /\ Quiet(id)
  <2>0. command[id] # "none"
    BY <1>4 DEF HandledByExtension
  <2>1. /\ <<command[id], "done">> \in QuietMoves /\ <<command[id], "handling">> \in QuietMoves
        /\ UNCHANGED continued
    BY <1>4 DEF HandledByExtension, QuietMoves
  <2>2. Answers(id, TRUE, "done") \/ GoesOn(id, "handling")
    BY <1>4 DEF HandledByExtension
  <2> QED BY <2>0, <2>1, <2>2, AnswersQuietly, GoesOnQuietly
<1>5. ASSUME NEW id \in Id, RefusePrompt(id) PROVE command[id] # "none" /\ Quiet(id)
  <2>0. command[id] # "none"
    BY <1>5 DEF RefusePrompt
  <2>1. <<command[id], "done">> \in QuietMoves /\ UNCHANGED continued /\ Answers(id, FALSE, "done")
    BY <1>5 DEF RefusePrompt, QuietMoves
  <2> QED BY <2>0, <2>1, AnswersQuietly
<1>6. ASSUME NEW id \in Id, PassPreflight(id) PROVE command[id] # "none" /\ Quiet(id)
  <2>0. command[id] # "none"
    BY <1>6 DEF PassPreflight
  <2>1. <<command[id], "starting">> \in QuietMoves /\ UNCHANGED continued /\ GoesOn(id, "starting")
    BY <1>6 DEF PassPreflight, QuietMoves
  <2> QED BY <2>0, <2>1, GoesOnQuietly
<1>7. ASSUME NEW id \in Id, EmitAgentEnd(id) PROVE command[id] # "none" /\ Loud(id)
  <2>0. command[id] # "none"
    BY <1>7 DEF EmitAgentEnd
  <2>1. PICK stage \in {"ending", "recovered"} :
          /\ stage = IF command[id] = "running" THEN "ending" ELSE "recovered"
          /\ GoesOnWith(id, stage, Emits(id, "agent_end"))
    BY <1>7 DEF EmitAgentEnd
  <2>2. command[id] \in {"recovering", "running"} /\ UNCHANGED continued
    BY <1>7 DEF EmitAgentEnd
  <2>3. Pipe' = Pipe \o Emits(id, "agent_end") /\ command' = [command EXCEPT ![id] = stage]
    BY <2>1, EventsAreLines, PipeGrows DEF GoesOnWith
  <2> QED BY <2>0, <2>1, <2>2, <2>3 DEF Loud, Emitting
<1>8. ASSUME NEW id \in Id, FinishRun(id) PROVE command[id] # "none" /\ Quiet(id)
  <2>0. command[id] # "none"
    BY <1>8 DEF FinishRun
  <2>1. PICK next \in {"done", "between", "starting"} :
          (next = "starting" <=> command[id] = "recovered") /\ GoesOn(id, next)
    BY <1>8 DEF FinishRun
  <2>2. <<command[id], next>> \in QuietMoves /\ UNCHANGED continued
    BY <1>8, <2>1 DEF FinishRun, QuietMoves
  <2> QED BY <2>0, <2>1, <2>2, GoesOnQuietly
<1>9. ASSUME NEW id \in Id, ContinueRun(id) PROVE command[id] # "none" /\ Loud(id)
  <2>0. command[id] # "none"
    BY <1>9 DEF ContinueRun
  <2>1. PICK stage \in {"running", "recovering"} : GoesOnWith(id, stage, Emits(id, "agent_start"))
    BY <1>9 DEF ContinueRun
  <2>2. command[id] \in {"preflight", "between"} /\ continued' = continued \union {id}
    BY <1>9 DEF ContinueRun
  <2>3. Pipe' = Pipe \o Emits(id, "agent_start") /\ command' = [command EXCEPT ![id] = stage]
    BY <2>1, EventsAreLines, PipeGrows DEF GoesOnWith
  <2> QED BY <2>0, <2>2, <2>3 DEF Loud, Emitting
<1>10. ASSUME NEW id \in Id, GiveUp(id) PROVE command[id] # "none" /\ Quiet(id)
  <2>0. command[id] # "none"
    BY <1>10 DEF GiveUp
  <2>1. <<command[id], "done">> \in QuietMoves /\ UNCHANGED continued /\ GoesOn(id, "done")
    BY <1>10 DEF GiveUp, QuietMoves
  <2> QED BY <2>0, <2>1, GoesOnQuietly
<1>11. ASSUME NEW id \in Id, Aborted(id) PROVE command[id] # "none" /\ Quiet(id)
  <2>0. command[id] # "none"
    BY <1>11 DEF Aborted
  <2>1. <<command[id], "done">> \in QuietMoves /\ UNCHANGED continued /\ Answers(id, TRUE, "done")
    BY <1>11 DEF Aborted, QuietMoves
  <2> QED BY <2>0, <2>1, AnswersQuietly
<1>12. ASSUME NEW id \in Id, StartRun(id) PROVE command[id] # "none" /\ (Quiet(id) \/ Loud(id))
  BY <1>12, StartsRun DEF StartRun
<1> QED
  BY <1>1, <1>2, <1>3, <1>4, <1>5, <1>6, <1>7, <1>8, <1>9, <1>10, <1>11, <1>12 DEF ModeNext

LEMMA ModeMoves ==
  ASSUME ServerInv, ModeNext
  PROVE  Still \/ \E j \in Id : Quiet(j) \/ Loud(j)
BY HandlesQuietly, OtherMoves

-----------------------------------------------------------------------------
\* WHAT STAYS

\* What is settled stays settled, and a call is less alone with every step.
Settled ==
  /\ Len(calls) <= Len(calls') /\ continued \subseteq continued'
  /\ \A i \in 1 .. Len(calls) :
       /\ calls'[i] = calls[i]
       /\ wait[i] = "resolved" => wait'[i] = "resolved"
       /\ wait'[i] = "waiting" => wait[i] = "waiting"
       /\ answer[i] # "waiting" => answer'[i] = answer[i]
       /\ alone'[i] => alone[i]
       /\ alone[i] /\ Over(i) => alone'[i]

LEMMA CallIds ==
  ASSUME ServerInv
  PROVE  Len(calls) \in Nat /\ 1 .. Len(calls) \subseteq Id
BY MaxIdsAssumption DEF ServerInv, ServerTypes, Id

\* A call that is made is the next one.
LEMMA Called ==
  ASSUME ServerInv, ClientInv, CollectTypes, Call, NEW id, id = Len(calls) + 1
  PROVE  /\ id \in Id /\ id \in DOMAIN program /\ program[id] \in Method
         /\ calls' \in Seq(Method) /\ Len(calls') = id
         /\ calls'[id] = program[id] /\ \A i \in 1 .. Len(calls) : calls'[i] = calls[i]
         /\ \A i \in Id : i # id => wait'[i] = wait[i] /\ answer'[i] = answer[i]
         /\ wait'[id] = IF program[id] \in Waits THEN "waiting" ELSE wait[id]
         /\ answer'[id] # "none" \/ (program[id] = "waitForIdle" /\ answer'[id] = answer[id])
         /\ alone'[id] = (\A j \in 1 .. Len(calls) : Over(j))
         /\ \A i \in Id : i # id => alone'[i] = (alone[i] /\ (program[id] \notin Prompts \/ Over(i)))
<1>1. /\ id \in DOMAIN program /\ calls' = Append(calls, program[id])
      /\ wait' = IF program[id] \in Waits THEN [wait EXCEPT ![id] = "waiting"] ELSE wait
      /\ answer' = [answer EXCEPT ![id] = IF program[id] = "waitForIdle" THEN @
                                          ELSE IF ~exitError THEN "waiting" ELSE "rejected"]
      /\ alone' = [i \in Id |-> IF i = id THEN \A j \in DOMAIN calls : Over(j)
                                ELSE alone[i] /\ (program[id] \notin Prompts \/ Over(i))]
  BY DEF Call
<1>2. /\ program \in Seq(Method) /\ Len(program) <= MaxIds /\ calls \in Seq(Method)
      /\ Len(calls) \in Nat /\ DOMAIN calls = 1 .. Len(calls)
  BY DEF ServerInv, ServerTypes
<1>3. id \in 1 .. Len(program) /\ id \in Id /\ program[id] \in Method
  BY <1>1, <1>2, MaxIdsAssumption DEF Id
<1>4. /\ calls' \in Seq(Method) /\ Len(calls') = id
      /\ calls'[id] = program[id] /\ \A i \in 1 .. Len(calls) : calls'[i] = calls[i]
  BY <1>1, <1>2, <1>3
<1>5. /\ \A i \in Id : i # id => wait'[i] = wait[i]
      /\ wait'[id] = IF program[id] \in Waits THEN "waiting" ELSE wait[id]
  BY <1>1, <1>3 DEF ClientInv, ClientTypes
<1>6. /\ \A i \in Id : i # id => answer'[i] = answer[i]
      /\ answer'[id] # "none" \/ (program[id] = "waitForIdle" /\ answer'[id] = answer[id])
  BY <1>1, <1>3 DEF ClientInv, ClientTypes
<1>7. /\ alone'[id] = (\A j \in 1 .. Len(calls) : Over(j))
      /\ \A i \in Id : i # id => alone'[i] = (alone[i] /\ (program[id] \notin Prompts \/ Over(i)))
  BY <1>1, <1>2, <1>3
<1> QED BY <1>1, <1>3, <1>4, <1>5, <1>6, <1>7

\* Who is told an event waits, and those that are left wait.
LEMMA ToldWait ==
  ASSUME ClientInv, NEW line, GiveToListeners(line)
  PROVE  /\ UNCHANGED <<pendingRequests, answer>>
         /\ \A i \in Id :
              \/ UNCHANGED <<wait[i], events[i]>>
              \/ /\ wait[i] = "waiting" /\ events'[i] = Append(events[i], line)
                 /\ wait'[i] = IF line.type = "agent_end" THEN "resolved" ELSE "waiting"
<1> DEFINE ends == line.type = "agent_end"
           notified == Notified(eventListeners, ends)
           told == {eventListeners[k] : k \in notified.told}
<1>1. /\ events' = [i \in Id |-> IF i \in told THEN Append(events[i], line) ELSE events[i]]
      /\ wait' = [i \in Id |-> IF i \in told /\ ends THEN "resolved" ELSE wait[i]]
      /\ UNCHANGED <<pendingRequests, answer>>
  BY DEF GiveToListeners
<1>2. notified.told \subseteq DOMAIN eventListeners
  BY DEF Notified
<1>3. \A i \in told : wait[i] = "waiting"
  BY <1>2 DEF ClientInv, ClientTypes, ListenersWait
<1> HIDE DEF told
<1> QED BY <1>1, <1>3

LEMMA CallsSettle ==
  ASSUME RpcInv, CollectTypes, [Next]_vars
  PROVE  Settled
<1> USE DEF RpcInv
<1>0. Len(calls) \in Nat /\ 1 .. Len(calls) \subseteq Id
  BY CallIds
<1>1. CASE UNCHANGED clientVars /\ continued \subseteq continued'
  BY <1>0, <1>1 DEF clientVars, Settled
<1>2. CASE UNCHANGED vars
  BY <1>1, <1>2 DEF vars, modeVars
<1>3. CASE ModeNext /\ UNCHANGED clientVars
  BY <1>1, <1>3, ModeMoves DEF Still, Quiet, Loud
<1>4. CASE Call
  <2> DEFINE id == Len(calls) + 1
  <2>1. UNCHANGED continued
    BY <1>4 DEF Call
  <2>2. \A i \in 1 .. Len(calls) : i # id
    BY <1>0
  <2>3. Len(calls) <= id
    BY <1>0
  <2> HIDE DEF id
  <2>4. id = Len(calls) + 1
    BY DEF id
  <2>5. /\ Len(calls') = id
        /\ \A i \in 1 .. Len(calls) : calls'[i] = calls[i]
        /\ \A i \in Id : i # id => wait'[i] = wait[i] /\ answer'[i] = answer[i]
        /\ \A i \in Id : i # id => alone'[i] = (alone[i] /\ (program[id] \notin Prompts \/ Over(i)))
    BY <1>4, <2>4, Called
  <2>6. ASSUME NEW i \in 1 .. Len(calls)
        PROVE  /\ calls'[i] = calls[i] /\ wait'[i] = wait[i] /\ answer'[i] = answer[i]
               /\ alone'[i] = (alone[i] /\ (program[id] \notin Prompts \/ Over(i)))
    BY <1>0, <2>2, <2>5, <2>6
  <2> QED BY <2>1, <2>3, <2>5, <2>6 DEF Settled
<1>5. CASE ReadLine
  <2> DEFINE line == Head(toClient)
  <2>1. /\ UNCHANGED <<calls, alone, continued>>
        /\ \/ /\ IsAnswer(line) /\ UNCHANGED <<eventListeners, events, wait>>
              /\ answer' = [answer EXCEPT ![line.of] = IF line.ok THEN "ok" ELSE "error"]
           \/ GiveToListeners(line)
    BY <1>5 DEF ReadLine
  <2> HIDE DEF line
  <2>2. CASE GiveToListeners(line)
    <3>1. UNCHANGED answer
          /\ \A i \in Id : wait'[i] = wait[i] \/ (wait[i] = "waiting" /\ wait'[i] \in {"waiting", "resolved"})
      BY <2>2, ToldWait
    <3> QED BY <1>0, <2>1, <3>1 DEF Settled
  <2>3. CASE /\ IsAnswer(line) /\ UNCHANGED <<eventListeners, events, wait>>
             /\ answer' = [answer EXCEPT ![line.of] = IF line.ok THEN "ok" ELSE "error"]
    <3>1. answer[line.of] = "waiting"
      BY <2>3 DEF IsAnswer, ClientInv, RequestsWait
    <3>2. \A i \in Id : answer[i] # "waiting" => answer'[i] = answer[i]
      BY <2>3, <3>1 DEF ClientInv, ClientTypes
    <3> QED BY <1>0, <2>1, <2>3, <3>2 DEF Settled
  <2> QED BY <2>1, <2>2, <2>3
<1>6. CASE NoticeExit
  <2>1. /\ UNCHANGED <<calls, alone, continued, wait>>
        /\ answer' = [i \in Id |-> IF i \in pendingRequests THEN "rejected" ELSE answer[i]]
    BY <1>6 DEF NoticeExit, modeVars
  <2>2. \A i \in Id : answer[i] # "waiting" => answer'[i] = answer[i]
    BY <2>1 DEF ClientInv, RequestsWait
  <2> QED BY <1>0, <2>1, <2>2 DEF Settled
<1>7. ASSUME NEW id \in Id, RequestTimeout(id) PROVE Settled
  <2>1. /\ UNCHANGED <<calls, alone, continued, wait>> /\ answer[id] = "waiting"
        /\ answer' = [answer EXCEPT ![id] = "rejected"]
    BY <1>7 DEF RequestTimeout, modeVars
  <2>2. \A i \in Id : answer[i] # "waiting" => answer'[i] = answer[i]
    BY <2>1 DEF ClientInv, ClientTypes
  <2> QED BY <1>0, <2>1, <2>2 DEF Settled
<1>8. ASSUME NEW id \in Id, WaitTimeout(id) PROVE Settled
  <2>1. /\ UNCHANGED <<calls, alone, continued, answer>> /\ wait[id] = "waiting"
        /\ wait' = [wait EXCEPT ![id] = "rejected"]
    BY <1>8 DEF WaitTimeout, modeVars
  <2>2. \A i \in Id : (wait[i] = "resolved" => wait'[i] = "resolved")
                      /\ (wait'[i] = "waiting" => wait[i] = "waiting")
    BY <2>1 DEF ClientInv, ClientTypes
  <2> QED BY <1>0, <2>1, <2>2 DEF Settled
<1> QED BY <1>2, <1>3, <1>4, <1>5, <1>6, <1>7, <1>8 DEF Next

LEMMA OverStays ==
  ASSUME ServerInv, Settled, NEW i \in 1 .. Len(calls), Over(i)
  PROVE  Over(i)'
<1>1. /\ calls'[i] = calls[i]
      /\ wait[i] = "resolved" => wait'[i] = "resolved"
      /\ answer[i] # "waiting" => answer'[i] = answer[i]
      /\ alone[i] => alone'[i]
  BY DEF Settled
<1>2. CASE calls[i] \in Waits
  <2>1. wait[i] = "resolved" /\ answer[i] \in {"none", "ok"} /\ (calls[i] = "promptAndWait" => alone[i])
    BY <1>2 DEF Over
  <2>2. wait'[i] = "resolved" /\ answer'[i] \in {"none", "ok"}
    BY <1>1, <2>1
  <2>3. calls'[i] \in Waits' /\ (calls'[i] = "promptAndWait" => alone'[i])
    BY <1>1, <1>2, <2>1, Zenon DEF Waits
  <2> QED BY <2>2, <2>3 DEF Over
<1>3. CASE calls[i] \notin Waits
  <2>1. calls[i] # "prompt" /\ answer[i] \in {"ok", "error"}
    BY <1>3 DEF Over
  <2> QED BY <1>1, <1>3, <2>1 DEF Over, Waits
<1> QED BY <1>2, <1>3

LEMMA AloneBefore ==
  ASSUME ServerInv, Settled, NEW i \in 1 .. Len(calls), Alone(i)'
  PROVE  Alone(i)
<1>1. calls'[i] = calls[i] /\ (alone'[i] => alone[i]) /\ continued \subseteq continued'
  BY DEF Settled
<1> QED BY <1>1 DEF Alone

\* Prompts come one at a time.
LEMMA OneAtATimeKeeps ==
  ASSUME RpcInv, CollectTypes, OneAtATime, Settled, [Next]_vars
  PROVE  OneAtATime'
<1> USE DEF RpcInv
<1>0. Len(calls) \in Nat /\ 1 .. Len(calls) \subseteq Id
  BY CallIds
<1>1. CASE UNCHANGED calls
  <2> SUFFICES ASSUME NEW i \in Id, Alone(i)'
               PROVE  /\ \A j \in 1 .. i - 1 : Over(j)'
                      /\ ~Over(i)' => \A j \in i + 1 .. Len(calls') : calls'[j] \notin Prompts
    BY DEF OneAtATime
  <2>1. i \in 1 .. Len(calls)
    BY <1>0, <1>1 DEF Alone, Id
  <2>2. Alone(i)
    BY <2>1, AloneBefore
  <2>3. \A j \in 1 .. i - 1 : j \in 1 .. Len(calls) /\ Over(j)
    BY <1>0, <2>1, <2>2 DEF OneAtATime, Id
  <2>4. \A j \in 1 .. i - 1 : Over(j)'
    BY <2>3, OverStays
  <2>5. Over(i) => Over(i)'
    BY <2>1, OverStays
  <2> QED BY <1>1, <2>2, <2>4, <2>5 DEF OneAtATime
<1>2. CASE Call
  <2> DEFINE id == Len(calls) + 1
  <2>0. id = Len(calls) + 1
    OBVIOUS
  <2> HIDE DEF id
  <2>1. /\ id \in Id /\ Len(calls') = id
        /\ calls'[id] = program[id] /\ \A j \in 1 .. Len(calls) : calls'[j] = calls[j]
        /\ alone'[id] = (\A j \in 1 .. Len(calls) : Over(j))
        /\ \A j \in Id : j # id => alone'[j] = (alone[j] /\ (program[id] \notin Prompts \/ Over(j)))
    BY <1>2, <2>0, Called
  <2> SUFFICES ASSUME NEW i \in Id, Alone(i)'
               PROVE  /\ \A j \in 1 .. i - 1 : Over(j)'
                      /\ ~Over(i)' => \A j \in i + 1 .. Len(calls') : calls'[j] \notin Prompts
    BY DEF OneAtATime
  <2>2. i \in 1 .. Len(calls) \/ i = id
    BY <1>0, <2>0, <2>1 DEF Alone, Id
  <2>3. CASE i = id
    <3>1. \A j \in 1 .. Len(calls) : Over(j)'
      BY <2>1, <2>3, OverStays DEF Alone
    <3>2. 1 .. i - 1 = 1 .. Len(calls) /\ i + 1 .. Len(calls') = {}
      BY <1>0, <2>0, <2>1, <2>3
    <3> QED BY <3>1, <3>2
  <2>4. CASE i \in 1 .. Len(calls)
    <3>1. Alone(i) /\ i # id
      BY <1>0, <2>0, <2>4, AloneBefore
    <3>2. \A j \in 1 .. i - 1 : j \in 1 .. Len(calls) /\ Over(j)
      BY <1>0, <2>4, <3>1 DEF OneAtATime, Id
    <3>3. \A j \in 1 .. i - 1 : Over(j)'
      BY <3>2, OverStays
    <3>4. Over(i) => Over(i)'
      BY <2>4, OverStays
    <3>5. program[id] \notin Prompts \/ Over(i)
      BY <2>1, <3>1 DEF Alone
    <3>6. \A j \in i + 1 .. Len(calls') : j = id \/ (j \in i + 1 .. Len(calls) /\ j \in 1 .. Len(calls))
      BY <1>0, <2>0, <2>1, <2>4
    <3>7. ~Over(i) => \A j \in i + 1 .. Len(calls) : calls[j] \notin Prompts
      BY <3>1 DEF OneAtATime
    <3> QED BY <2>1, <3>3, <3>4, <3>5, <3>6, <3>7
  <2> QED BY <2>2, <2>3, <2>4
<1>3. Call \/ UNCHANGED calls
  BY DEF Next, clientVars, vars, ReadLine, NoticeExit, RequestTimeout, WaitTimeout
<1> QED BY <1>1, <1>2, <1>3

-----------------------------------------------------------------------------
\* COMMANDS ARE HANDLED IN ORDER, AS WHAT WAS CALLED

\* The first line of stdin is taken; those behind it are of later calls.
LEMMA Handled ==
  ASSUME ServerInv, HandledInv, HandleLine, NEW id, id = Head(toServer).id
  PROVE  /\ id \in Id /\ id <= Len(calls) /\ command[id] = "none" /\ answer[id] # "none"
         /\ \A n \in 1 .. Len(toServer') : /\ toServer'[n].id \in Id /\ id < toServer'[n].id
                                           /\ answer[toServer'[n].id] # "none"
                                           /\ toServer'[n].type = Type(calls[toServer'[n].id])
         /\ \A i \in Id : command[i] # "none" => i < id
         /\ \E stage \in {"done", "preflight", "aborting", "replacing"} :
              /\ command' = [command EXCEPT ![id] = stage]
              /\ stage = "preflight" => calls[id] \in Prompts
              /\ stage \in {"aborting", "replacing"} => calls[id] \notin Prompts
              /\ \/ UNCHANGED runtimeVars
                 \/ stage = "replacing" /\ EmitBeforeSwitch(id)
         /\ at' = [at EXCEPT ![id] = hosted]
<1> DEFINE type == Head(toServer).type
<1>1. /\ toServer # <<>> /\ toServer' = Tail(toServer) /\ at' = [at EXCEPT ![id] = hosted]
      /\ \/ type = "get_state" /\ Answers(id, TRUE, "done") /\ UNCHANGED runtimeVars
         \/ type = "prompt" /\ GoesOn(id, "preflight") /\ UNCHANGED runtimeVars
         \/ type = "abort" /\ GoesOn(id, "aborting") /\ UNCHANGED runtimeVars
         \/ type = "new_session" /\ GoesOn(id, "replacing") /\ EmitBeforeSwitch(id)
  BY DEF HandleLine
<1>2. /\ toServer \in Seq(Command)
      /\ Len(toServer') = Len(toServer) - 1
      /\ \A n \in 1 .. Len(toServer') : /\ toServer'[n] = toServer[n + 1]
                                        /\ n + 1 \in 1 .. Len(toServer) /\ 1 < n + 1
      /\ Head(toServer) = toServer[1] /\ 1 \in 1 .. Len(toServer)
  BY <1>1 DEF ServerInv, ServerTypes
<1>3. /\ id \in Id /\ id <= Len(calls) /\ command[id] = "none" /\ answer[id] # "none"
      /\ type = Type(calls[id])
  BY <1>2, CommandIds DEF ServerInv, LinesAreNew, HandledInv, SentFirst, KindsMatch
<1>4. ASSUME NEW n \in 1 .. Len(toServer')
      PROVE  /\ toServer'[n].id \in Id /\ id < toServer'[n].id
             /\ answer[toServer'[n].id] # "none"
             /\ toServer'[n].type = Type(calls[toServer'[n].id])
  <2>1. n + 1 \in 1 .. Len(toServer) /\ toServer'[n] = toServer[n + 1] /\ 1 < n + 1
    BY <1>2
  <2>2. toServer[1].id < toServer[n + 1].id
    BY <1>2, <2>1 DEF ServerInv, LinesAreNew
  <2>3. /\ toServer[n + 1].id \in Id /\ answer[toServer[n + 1].id] # "none"
        /\ toServer[n + 1].type = Type(calls[toServer[n + 1].id])
    BY <2>1, CommandIds DEF HandledInv, SentFirst, KindsMatch
  <2> QED BY <1>2, <2>1, <2>2, <2>3
<1>5. \A i \in Id : command[i] # "none" => i < id
  BY <1>2 DEF HandledInv, ReadInOrder
<1>6. calls[id] \in Method
  BY <1>3, CallIds DEF ServerInv, ServerTypes, Id
<1> HIDE DEF type
<1>7. /\ type = "prompt" => calls[id] \in Prompts
      /\ type \in {"abort", "new_session"} => calls[id] \notin Prompts
  BY <1>3, <1>6 DEF Type, Prompts, Method
<1>8. \E stage \in {"done", "preflight", "aborting", "replacing"} :
              /\ command' = [command EXCEPT ![id] = stage]
              /\ stage = "preflight" => calls[id] \in Prompts
              /\ stage \in {"aborting", "replacing"} => calls[id] \notin Prompts
              /\ \/ UNCHANGED runtimeVars
                 \/ stage = "replacing" /\ EmitBeforeSwitch(id)
  <2>1. CASE type = "get_state" /\ Answers(id, TRUE, "done") /\ UNCHANGED runtimeVars
    BY <2>1 DEF Answers
  <2>2. CASE type = "prompt" /\ GoesOn(id, "preflight") /\ UNCHANGED runtimeVars
    BY <1>7, <2>2 DEF GoesOn, GoesOnWith
  <2>3. CASE type = "abort" /\ GoesOn(id, "aborting") /\ UNCHANGED runtimeVars
    BY <1>7, <2>3 DEF GoesOn, GoesOnWith
  <2>4. CASE type = "new_session" /\ GoesOn(id, "replacing") /\ EmitBeforeSwitch(id)
    BY <1>7, <2>4 DEF GoesOn, GoesOnWith
  <2> QED BY <1>1, <2>1, <2>2, <2>3, <2>4
<1> QED BY <1>1, <1>3, <1>4, <1>5, <1>8

\* The stages of a prompt, and those of other commands, follow each other.
LEMMA StagesFollow ==
  ASSUME ServerInv, NEW j \in Id, command[j] # "none", Quiet(j) \/ Loud(j)
  PROVE  \E stage : /\ command' = [command EXCEPT ![j] = stage] /\ stage # "none"
                    /\ stage \notin {"aborting", "replacing"}
                    /\ stage \in PromptStages => command[j] \in PromptStages
<1>1. CASE Quiet(j)
  <2>1. PICK stage : <<command[j], stage>> \in QuietMoves /\ command' = [command EXCEPT ![j] = stage]
    BY <1>1 DEF Quiet
  <2>2. stage # "none" /\ stage \notin {"aborting", "replacing"}
        /\ (stage \in PromptStages => command[j] \in PromptStages)
    BY <2>1 DEF QuietMoves, PromptStages
  <2> QED BY <2>1, <2>2
<1>2. CASE Loud(j)
  <2>1. PICK stage \in {"running", "ending", "recovered", "recovering"} :
          command' = [command EXCEPT ![j] = stage] /\ command[j] \in PromptStages
    BY <1>2 DEF Loud, Emitting, PromptStages
  <2> QED BY <2>1
<1> QED BY <1>1, <1>2

LEMMA ReplacersKeep ==
  ASSUME RuntimeInv, ServerInv, HandledInv, ModeNext
  PROVE  ReplacersHandle'
<1>0. /\ replacement \in [Caller -> {"none", "beforeSwitch", "cancelled", "failed", "shutdown",
                                     "creating", "binding", "rebinding", "done"}]
      /\ Id \subseteq Caller /\ Quit \notin Id
  BY MaxIdsAssumption DEF RuntimeInv, RuntimeTypes, Caller, Quit, Id
<1>a. /\ command \in [Id -> {"none"} \union UnderWay \union Answered]
      /\ \A c \in Id : replacement[c] \in Replacing => command[c] \in {"replacing", "handling"}
  BY DEF ServerInv, ServerTypes, HandledInv, ReplacersHandle
<1>1. ASSUME NEW j \in Id, NEW stage, command' = [command EXCEPT ![j] = stage],
             \/ /\ replacement' = replacement
                /\ command[j] \in {"replacing", "handling"} => replacement[j] \notin Replacing
             \/ replacement' = [replacement EXCEPT ![j] = "beforeSwitch"] /\ stage \in {"replacing", "handling"}
      PROVE  ReplacersHandle'
  <2>1. \A i \in Id : i # j => replacement'[i] = replacement[i] /\ command'[i] = command[i]
    BY <1>0, <1>a, <1>1
  <2>2. replacement'[j] \in Replacing => command'[j] \in {"replacing", "handling"}
    BY <1>0, <1>a, <1>1
  <2> QED BY <1>a, <2>1, <2>2 DEF ReplacersHandle
<1>2. CASE HandleLine
  <2> DEFINE id == Head(toServer).id
  <2>1. id \in Id /\ command[id] = "none"
    BY <1>2, Handled
  <2>2. PICK stage \in {"done", "preflight", "aborting", "replacing"} :
          /\ command' = [command EXCEPT ![id] = stage]
          /\ UNCHANGED runtimeVars \/ (stage = "replacing" /\ EmitBeforeSwitch(id))
    BY <1>2, Handled
  <2> HIDE DEF id
  <2> QED BY <1>1, <2>1, <2>2 DEF runtimeVars, EmitBeforeSwitch
<1>3. CASE Shutdown
  <2>1. replacement' = [replacement EXCEPT ![Quit] = "shutdown"] /\ UNCHANGED command
    BY <1>3 DEF Shutdown, TellShutdown, modeVars
  <2>2. \A i \in Id : replacement'[i] = replacement[i]
    BY <1>0, <2>1
  <2> QED BY <1>a, <2>1, <2>2 DEF ReplacersHandle
<1>4. CASE Exit
  BY <1>4, <1>a DEF Exit, runtimeVars, ReplacersHandle
<1>5. ASSUME NEW id \in Id, Replace(id) PROVE ReplacersHandle'
  <2>1. UNCHANGED command /\ command[id] \in {"replacing", "handling"}
    BY <1>5 DEF Replace, modeVars
  <2>2. \E stage : replacement' = [replacement EXCEPT ![id] = stage]
    BY <1>5 DEF Replace, ReplacementStep, Refuse, TeardownCurrent, TellShutdown, Dispose,
                CreateFails, Apply, Bound, BoundAgain
  <2>3. \A i \in Id : i # id => replacement'[i] = replacement[i]
    BY <1>0, <2>2
  <2> QED BY <1>a, <2>1, <2>3 DEF ReplacersHandle
<1>6. ASSUME NEW id \in Id, Replaced(id) PROVE ReplacersHandle'
  BY <1>1, <1>6 DEF Replaced, Answers, runtimeVars, Replacing, Tearing
<1>7. ASSUME NEW id \in Id, HandledByExtension(id) PROVE ReplacersHandle'
  <2>1. command[id] = "preflight"
    BY <1>7 DEF HandledByExtension
  <2>2. CASE Answers(id, TRUE, "done") /\ UNCHANGED runtimeVars
    BY <1>1, <2>1, <2>2 DEF Answers, runtimeVars
  <2>3. CASE GoesOn(id, "handling") /\ EmitBeforeSwitch(id)
    BY <1>1, <2>3 DEF GoesOn, GoesOnWith, EmitBeforeSwitch
  <2> QED BY <1>7, <2>2, <2>3 DEF HandledByExtension
<1>8. ASSUME NEW id \in Id, UNCHANGED runtimeVars, command[id] \notin {"replacing", "handling"},
             \E stage : command' = [command EXCEPT ![id] = stage]
      PROVE  ReplacersHandle'
  BY <1>1, <1>8 DEF runtimeVars
<1>9. ASSUME NEW id \in Id, RefusePrompt(id) PROVE ReplacersHandle'
  BY <1>8, <1>9 DEF RefusePrompt, Answers
<1>10. ASSUME NEW id \in Id, PassPreflight(id) \/ GiveUp(id) \/ Aborted(id) PROVE ReplacersHandle'
  BY <1>8, <1>10 DEF PassPreflight, GiveUp, Aborted, GoesOn, GoesOnWith, Answers
<1>11. ASSUME NEW id \in Id, StartRun(id) PROVE ReplacersHandle'
  <2>1. \E stage : command' = [command EXCEPT ![id] = stage]
    BY <1>11 DEF StartRun
  <2> QED BY <1>8, <1>11, <2>1 DEF StartRun
<1>12. ASSUME NEW id \in Id, EmitAgentEnd(id) PROVE ReplacersHandle'
  BY <1>8, <1>12 DEF EmitAgentEnd, GoesOnWith
<1>13. ASSUME NEW id \in Id, FinishRun(id) PROVE ReplacersHandle'
  <2>1. \E stage : command' = [command EXCEPT ![id] = stage]
    BY <1>13 DEF FinishRun, GoesOn, GoesOnWith
  <2> QED BY <1>8, <1>13, <2>1 DEF FinishRun
<1>14. ASSUME NEW id \in Id, ContinueRun(id) PROVE ReplacersHandle'
  BY <1>8, <1>14 DEF ContinueRun, GoesOnWith
<1> QED
  BY <1>2, <1>3, <1>4, <1>5, <1>6, <1>7, <1>9, <1>10, <1>11, <1>12, <1>13, <1>14 DEF ModeNext

LEMMA ModeKeepsHandled ==
  ASSUME RuntimeInv, ServerInv, HandledInv, ModeNext, UNCHANGED clientVars
  PROVE  HandledInv'
<1>0. /\ UNCHANGED <<calls, answer>>
      /\ command \in [Id -> {"none"} \union UnderWay \union Answered] /\ Len(toServer) \in Nat
  BY DEF clientVars, ServerInv, ServerTypes
<1>1. ReplacersHandle'
  BY ReplacersKeep
<1>2. CASE HandleLine
  <2> DEFINE id == Head(toServer).id
  <2>1. /\ id \in Id /\ answer[id] # "none"
        /\ \A n \in 1 .. Len(toServer') : /\ toServer'[n].id \in Id /\ id < toServer'[n].id
                                          /\ answer[toServer'[n].id] # "none"
                                          /\ toServer'[n].type = Type(calls[toServer'[n].id])
        /\ \A i \in Id : command[i] # "none" => i < id
    BY <1>2, Handled
  <2>2. PICK stage \in {"done", "preflight", "aborting", "replacing"} :
          /\ command' = [command EXCEPT ![id] = stage]
          /\ stage = "preflight" => calls[id] \in Prompts
          /\ stage \in {"aborting", "replacing"} => calls[id] \notin Prompts
    BY <1>2, Handled
  <2> HIDE DEF id
  <2>3. command'[id] = stage /\ \A i \in Id : i # id => command'[i] = command[i]
    BY <1>0, <2>1, <2>2
  <2>4. KindsMatch'
    BY <1>0, <2>1, <2>2, <2>3 DEF HandledInv, KindsMatch, PromptStages
  <2>5. ReadInOrder'
    <3> SUFFICES ASSUME NEW n \in 1 .. Len(toServer'), NEW i \in Id, command'[i] # "none"
                 PROVE  i < toServer'[n].id
      BY DEF ReadInOrder
    <3>1. i = id \/ i < id
      BY <2>1, <2>3
    <3> QED BY <2>1, <3>1 DEF Id
  <2>6. SentFirst'
    BY <1>0, <2>1, <2>3 DEF HandledInv, SentFirst
  <2> QED BY <1>1, <2>4, <2>5, <2>6 DEF HandledInv
<1>3. CASE ~HandleLine
  <2>1. /\ toServer' \in {toServer, <<>>}
        /\ Still \/ \E j \in Id : command[j] # "none" /\ (Quiet(j) \/ Loud(j))
    BY <1>3, OtherMoves
  <2>2. \A n \in 1 .. Len(toServer') : n \in 1 .. Len(toServer) /\ toServer'[n] = toServer[n]
    BY <1>0, <2>1
  <2>3. \A i \in Id :
          /\ command'[i] = "none" <=> command[i] = "none"
          /\ command'[i] \in PromptStages => command[i] \in PromptStages
          /\ command'[i] \in {"aborting", "replacing"} => command'[i] = command[i]
    <3>1. CASE Still
      BY <3>1 DEF Still
    <3>2. ASSUME NEW j \in Id, command[j] # "none", Quiet(j) \/ Loud(j)
          PROVE  \A i \in Id :
                   /\ command'[i] = "none" <=> command[i] = "none"
                   /\ command'[i] \in PromptStages => command[i] \in PromptStages
                   /\ command'[i] \in {"aborting", "replacing"} => command'[i] = command[i]
      <4>1. PICK stage : /\ command' = [command EXCEPT ![j] = stage] /\ stage # "none"
                         /\ stage \notin {"aborting", "replacing"}
                         /\ stage \in PromptStages => command[j] \in PromptStages
        BY <3>2, StagesFollow
      <4>2. command'[j] = stage /\ \A i \in Id : i # j => command'[i] = command[i]
        BY <1>0, <4>1
      <4> QED BY <3>2, <4>1, <4>2
    <3> QED BY <2>1, <3>1, <3>2
  <2>4. KindsMatch'
    BY <1>0, <2>2, <2>3 DEF HandledInv, KindsMatch
  <2>5. ReadInOrder'
    BY <2>2, <2>3 DEF HandledInv, ReadInOrder
  <2>6. SentFirst'
    BY <1>0, <2>2, <2>3 DEF HandledInv, SentFirst
  <2> QED BY <1>1, <2>4, <2>5, <2>6 DEF HandledInv
<1> QED BY <1>2, <1>3

\* Nothing of this is changed by the client but by a call.
LEMMA UnseenKeepsHandled ==
  ASSUME HandledInv, UNCHANGED <<toServer, command, calls, replacement>>,
         \A i \in Id : answer'[i] = "none" <=> answer[i] = "none", ServerInv
  PROVE  HandledInv'
<1>1. \A n \in 1 .. Len(toServer) : toServer[n].id \in Id
  BY CommandIds
<1>2. KindsMatch' /\ ReadInOrder' /\ ReplacersHandle'
  BY DEF HandledInv, KindsMatch, ReadInOrder, ReplacersHandle
<1>3. SentFirst'
  BY <1>1 DEF HandledInv, SentFirst
<1> QED BY <1>2, <1>3 DEF HandledInv

LEMMA CallKeepsHandled ==
  ASSUME ServerInv, ClientInv, CollectTypes, HandledInv, Call
  PROVE  HandledInv'
<1> DEFINE id == Len(calls) + 1
<1>0. id = Len(calls) + 1
  OBVIOUS
<1> HIDE DEF id
<1>1. /\ id \in Id /\ Len(calls') = id
      /\ calls'[id] = program[id] /\ \A i \in 1 .. Len(calls) : calls'[i] = calls[i]
      /\ \A i \in Id : i # id => answer'[i] = answer[i]
      /\ answer'[id] # "none" \/ (program[id] = "waitForIdle" /\ answer'[id] = answer[id])
  BY <1>0, Called
<1>2. /\ UNCHANGED <<command, replacement>>
      /\ \/ toServer' = toServer
         \/ /\ toServer' = Append(toServer, [id |-> id, type |-> Type(program[id])])
            /\ program[id] # "waitForIdle"
  BY <1>0 DEF Call, runtimeVars
<1>3. /\ Len(calls) \in Nat /\ 1 .. Len(calls) \subseteq Id /\ toServer \in Seq(Command)
      /\ \A n \in 1 .. Len(toServer) : toServer[n].id \in 1 .. Len(calls)
      /\ \A i \in Id : command[i] # "none" => i \in 1 .. Len(calls)
  BY CallIds, CommandIds DEF ServerInv, ServerTypes, LinesAreNew, Id
<1>4. \A i \in 1 .. Len(calls) : i # id /\ i < id /\ i \in Id
  BY <1>0, <1>3
<1>5. ASSUME NEW n \in 1 .. Len(toServer')
      PROVE  \/ n \in 1 .. Len(toServer) /\ toServer'[n] = toServer[n]
             \/ /\ toServer'[n] = [id |-> id, type |-> Type(program[id])]
                /\ program[id] # "waitForIdle"
  <2>1. CASE toServer' = toServer
    BY <2>1
  <2>2. CASE /\ toServer' = Append(toServer, [id |-> id, type |-> Type(program[id])])
             /\ program[id] # "waitForIdle"
    <3>1. n \in 1 .. Len(toServer) \/ n = Len(toServer) + 1
      BY <1>3, <2>2
    <3> QED BY <1>3, <2>2, <3>1
  <2> QED BY <1>2, <2>1, <2>2
<1>6. KindsMatch'
  <2>1. \A n \in 1 .. Len(toServer') : toServer'[n].type = Type(calls'[toServer'[n].id])
    BY <1>1, <1>3, <1>5 DEF HandledInv, KindsMatch
  <2>2. \A i \in Id : command'[i] # "none" => command'[i] = command[i] /\ calls'[i] = calls[i]
    BY <1>1, <1>2, <1>3
  <2> QED BY <1>2, <2>1, <2>2 DEF HandledInv, KindsMatch, PromptStages
<1>7. ReadInOrder'
  <2> SUFFICES ASSUME NEW n \in 1 .. Len(toServer'), NEW i \in Id, command'[i] # "none"
               PROVE  i < toServer'[n].id
    BY DEF ReadInOrder
  <2>1. command[i] # "none" /\ i < id
    BY <1>2, <1>3, <1>4
  <2> QED BY <1>5, <2>1 DEF HandledInv, ReadInOrder
<1>8. SentFirst'
  <2>1. \A n \in 1 .. Len(toServer') : answer'[toServer'[n].id] # "none"
    <3> TAKE n \in 1 .. Len(toServer')
    <3>1. CASE n \in 1 .. Len(toServer) /\ toServer'[n] = toServer[n]
      <4>1. toServer[n].id \in Id /\ toServer[n].id # id /\ answer[toServer[n].id] # "none"
        BY <1>3, <1>4, <3>1 DEF HandledInv, SentFirst
      <4> QED BY <1>1, <3>1, <4>1
    <3>2. CASE toServer'[n].id = id /\ program[id] # "waitForIdle"
      BY <1>1, <3>2
    <3> QED BY <1>5, <3>1, <3>2
  <2>2. \A i \in Id : answer'[i] = "none" => command'[i] = "none"
    BY <1>1, <1>2, <1>3, <1>4 DEF HandledInv, SentFirst
  <2> QED BY <2>1, <2>2 DEF SentFirst
<1>9. ReplacersHandle'
  BY <1>2 DEF HandledInv, ReplacersHandle
<1> QED BY <1>6, <1>7, <1>8, <1>9 DEF HandledInv

LEMMA HandledKeeps ==
  ASSUME RpcInv, CollectTypes, HandledInv, [Next]_vars
  PROVE  HandledInv'
<1> USE DEF RpcInv
<1>1. CASE UNCHANGED vars
  <2>1. UNCHANGED <<toServer, command, calls, replacement, answer>>
    BY <1>1 DEF vars, runtimeVars, modeVars, clientVars
  <2> QED BY <2>1, UnseenKeepsHandled
<1>2. CASE ModeNext /\ UNCHANGED clientVars
  BY <1>2, ModeKeepsHandled
<1>3. CASE Call
  BY <1>3, CallKeepsHandled
<1>4. CASE ReadLine
  <2> DEFINE line == Head(toClient)
  <2>1. /\ UNCHANGED <<toServer, command, calls, replacement>>
        /\ \/ /\ IsAnswer(line)
              /\ answer' = [answer EXCEPT ![line.of] = IF line.ok THEN "ok" ELSE "error"]
           \/ UNCHANGED answer
    BY <1>4 DEF ReadLine, runtimeVars, GiveToListeners
  <2> HIDE DEF line
  <2>2. IsAnswer(line) => answer[line.of] = "waiting"
    BY DEF IsAnswer, ClientInv, RequestsWait
  <2>3. \A i \in Id : answer'[i] = "none" <=> answer[i] = "none"
    BY <2>1, <2>2 DEF ClientInv, ClientTypes
  <2> QED BY <2>1, <2>3, UnseenKeepsHandled
<1>5. CASE NoticeExit
  <2>1. /\ UNCHANGED <<toServer, command, calls, replacement>>
        /\ answer' = [i \in Id |-> IF i \in pendingRequests THEN "rejected" ELSE answer[i]]
    BY <1>5 DEF NoticeExit, runtimeVars, modeVars
  <2>2. \A i \in Id : answer'[i] = "none" <=> answer[i] = "none"
    BY <2>1 DEF ClientInv, RequestsWait
  <2> QED BY <2>1, <2>2, UnseenKeepsHandled
<1>6. ASSUME NEW id \in Id, RequestTimeout(id) PROVE HandledInv'
  <2>1. /\ UNCHANGED <<toServer, command, calls, replacement>> /\ answer[id] = "waiting"
        /\ answer' = [answer EXCEPT ![id] = "rejected"]
    BY <1>6 DEF RequestTimeout, runtimeVars, modeVars
  <2>2. \A i \in Id : answer'[i] = "none" <=> answer[i] = "none"
    BY <2>1 DEF ClientInv, ClientTypes
  <2> QED BY <2>1, <2>2, UnseenKeepsHandled
<1>7. ASSUME NEW id \in Id, WaitTimeout(id) PROVE HandledInv'
  <2>1. UNCHANGED <<toServer, command, calls, replacement, answer>>
    BY <1>7 DEF WaitTimeout, runtimeVars, modeVars
  <2> QED BY <2>1, UnseenKeepsHandled
<1> QED BY <1>1, <1>2, <1>3, <1>4, <1>5, <1>6, <1>7 DEF Next

-----------------------------------------------------------------------------
\* THE EVENTS ARE OF PROMPTS, AND WAITS LISTEN

LEMMA EmitsOne ==
  ASSUME NEW j \in Id, NEW type \in {"agent_start", "agent_end"}
  PROVE  /\ Emits(j, type) = IF Heard(at[j]) THEN <<Event(j, type)>> ELSE <<>>
         /\ Event(j, type) \in EventLine /\ Event(j, type).of = j
BY DEF Emits, Event, EventLine

\* What a command emits is of its own.
LEMMA LoudEmits ==
  ASSUME ServerInv, NEW j \in Id, Loud(j)
  PROVE  /\ \E type \in {"agent_start", "agent_end"} : Pipe' = Pipe \o Emits(j, type)
         /\ command[j] \in PromptStages
         /\ \A k \in 1 .. Len(Pipe') :
              (k \in 1 .. Len(Pipe) /\ Pipe'[k] = Pipe[k]) \/ Pipe'[k].of = j
<1>1. PICK type \in {"agent_start", "agent_end"} : Pipe' = Pipe \o Emits(j, type)
  BY DEF Loud, Emitting
<1>2. command[j] \in PromptStages
  BY DEF Loud, PromptStages
<1>3. Pipe \in Seq(EventLine)
  BY PipeType
<1>4. CASE Heard(at[j])
  <2> DEFINE e == Event(j, type)
  <2>1. Emits(j, type) = <<e>> /\ e \in EventLine /\ e.of = j
    BY <1>4, EmitsOne
  <2> HIDE DEF e
  <2>2. Pipe' = Append(Pipe, e)
    BY <1>1, <1>3, <2>1
  <2>3. \A k \in 1 .. Len(Append(Pipe, e)) :
          (k \in 1 .. Len(Pipe) /\ Append(Pipe, e)[k] = Pipe[k]) \/ Append(Pipe, e)[k] = e
    BY <1>3, <2>1
  <2> QED BY <1>1, <1>2, <2>1, <2>2, <2>3
<1>5. CASE ~Heard(at[j])
  <2>1. Pipe' = Pipe
    BY <1>1, <1>3, <1>5, EmitsOne
  <2> QED BY <1>1, <1>2, <2>1
<1> QED BY <1>4, <1>5

\* A sequence behind another element.
LEMMA Prepended ==
  ASSUME NEW S, NEW s \in Seq(S), NEW x \in S
  PROVE  /\ <<x>> \o s \in Seq(S) /\ Len(<<x>> \o s) = Len(s) + 1 /\ (<<x>> \o s)[1] = x
         /\ \A k \in 1 .. Len(s) : k + 1 \in 1 .. Len(<<x>> \o s) /\ (<<x>> \o s)[k + 1] = s[k]
OBVIOUS

LEMMA PipeKeeps ==
  ASSUME RpcInv, CollectTypes, HandledInv, PipeOfPrompts, Settled, [Next]_vars
  PROVE  PipeOfPrompts'
<1> USE DEF RpcInv
<1>0. /\ Len(calls) \in Nat /\ Len(calls') \in Nat /\ Len(calls) <= Len(calls')
      /\ \A i \in 1 .. Len(calls) : calls'[i] = calls[i]
      /\ Pipe \in Seq(EventLine) /\ \A k \in 1 .. Len(Pipe) : Pipe[k] \in EventLine /\ Pipe[k].of \in Id
  <2>1. Pipe \in Seq(EventLine)
    BY PipeType
  <2>2. \A k \in 1 .. Len(Pipe) : Pipe[k] \in EventLine
    BY <2>1
  <2>3. Len(calls') \in Nat
    <3>1. CASE Call
      BY <3>1, Called, CallIds DEF Id
    <3>2. CASE UNCHANGED calls
      BY <3>2, CallIds
    <3> QED BY <3>1, <3>2 DEF Next, clientVars, vars, ReadLine, NoticeExit, RequestTimeout, WaitTimeout
  <2> QED BY <2>1, <2>2, <2>3, CallIds DEF Settled, EventLine
<1>1. ASSUME NEW line, line \in EventLine, line.of <= Len(calls), calls[line.of] \in Prompts
      PROVE  line.of <= Len(calls') /\ calls'[line.of] \in Prompts
  <2>1. line.of \in Id
    BY <1>1 DEF EventLine
  <2>2. line.of \in 1 .. Len(calls)
    BY <1>0, <1>1, <2>1 DEF Id
  <2> QED BY <1>0, <1>1, <2>2
<1>2. CASE Pipe' = Pipe
  BY <1>0, <1>1, <1>2 DEF PipeOfPrompts
<1>3. CASE ModeNext /\ UNCHANGED clientVars
  <2>1. ASSUME NEW j \in Id, Loud(j)
        PROVE  PipeOfPrompts'
    <3>1. /\ command[j] \in PromptStages
          /\ \A k \in 1 .. Len(Pipe') :
               (k \in 1 .. Len(Pipe) /\ Pipe'[k] = Pipe[k]) \/ Pipe'[k].of = j
      BY <2>1, LoudEmits
    <3>2. j <= Len(calls) /\ calls[j] \in Prompts /\ UNCHANGED calls
      BY <1>3, <3>1 DEF HandledInv, KindsMatch, PromptStages, ServerInv, LinesAreNew, clientVars
    <3> QED BY <3>1, <3>2 DEF PipeOfPrompts
  <2> QED BY <1>2, <1>3, <2>1, ModeMoves DEF Still, Quiet
<1>4. CASE ReadLine
  <2>1. toClient # <<>> /\ toClient' = Tail(toClient)
    BY <1>4 DEF ReadLine
  <2> DEFINE head == Head(toClient)
             first == <<head>>
  <2>2. Pipe' \in Seq(EventLine) /\ (Pipe' = Pipe \/ (head \in EventLine /\ Pipe = first \o Pipe'))
    BY <2>1, PipeRead
  <2>3. CASE head \in EventLine /\ Pipe = first \o Pipe'
    <3> HIDE DEF head
    <3>2. \A k \in 1 .. Len(Pipe') : k + 1 \in 1 .. Len(Pipe) /\ Pipe'[k] = Pipe[k + 1]
      BY <2>2, <2>3, Prepended
    <3> QED BY <1>0, <1>1, <3>2 DEF PipeOfPrompts
  <2> QED BY <1>2, <2>2, <2>3
<1>5. CASE UNCHANGED toClient
  BY <1>2, <1>5 DEF Pipe
<1> QED BY <1>3, <1>4, <1>5 DEF Next, vars, modeVars, Call, NoticeExit, RequestTimeout, WaitTimeout

LEMMA TellingKeepsWaits ==
  ASSUME ClientInv, WaitsListen, NEW line, GiveToListeners(line), UNCHANGED calls
  PROVE  WaitsListen'
<1> DEFINE ends == line.type = "agent_end"
           notified == Notified(eventListeners, ends)
           told == {eventListeners[k] : k \in notified.told}
           n == Len(eventListeners)
<1>1. /\ wait' = [i \in Id |-> IF i \in told /\ ends THEN "resolved" ELSE wait[i]]
      /\ eventListeners' = notified.left
  BY DEF GiveToListeners
<1>2. eventListeners \in Seq(Id) /\ n \in Nat /\ DOMAIN eventListeners = 1 .. n
      /\ \A k \in 1 .. n : eventListeners[k] \in Id /\ wait[eventListeners[k]] = "waiting"
  BY DEF ClientInv, ClientTypes, ListenersWait
<1>3. notified.told \subseteq 1 .. n
  BY <1>2 DEF Notified
<1>4. \A i \in Id : (wait'[i] # "none" => wait[i] # "none") /\ (wait'[i] = "waiting" => wait[i] = "waiting")
  BY <1>1, <1>2, <1>3
<1>5. CASE ~ends
  <2>1. eventListeners' = eventListeners
    BY <1>1, <1>5 DEF Notified
  <2> QED BY <1>4, <2>1 DEF WaitsListen
<1>6. CASE ends
  <2> DEFINE half == n \div 2
  <2>1. /\ notified.told = {k \in 1 .. n : k % 2 = 1}
        /\ eventListeners' = [k \in 1 .. half |-> eventListeners[2 * k]]
    BY <1>1, <1>2, <1>6 DEF Notified
  <2>2. half \in Nat /\ \A k \in 1 .. n : k % 2 # 1 => k \div 2 \in 1 .. half /\ 2 * (k \div 2) = k
    BY <1>2
  <2>3. Len(eventListeners') = half /\ \A k \in 1 .. half : eventListeners'[k] = eventListeners[2 * k]
    <3>1. \A k \in 1 .. half : 2 * k \in 1 .. n
      BY <1>2
    <3>2. eventListeners' \in Seq(Id)
      BY <1>2, <2>1, <2>2, <3>1
    <3> QED BY <2>1, <2>2, <3>2
  <2>4. ASSUME NEW i \in Id, wait'[i] = "waiting"
        PROVE  \E k \in 1 .. Len(eventListeners') : eventListeners'[k] = i
    <3>1. wait[i] = "waiting" /\ i \notin told
      BY <1>1, <1>6, <2>4
    <3>2. PICK k \in 1 .. n : eventListeners[k] = i
      BY <3>1 DEF WaitsListen
    <3>3. k % 2 # 1
      BY <2>1, <3>1, <3>2
    <3> DEFINE l == k \div 2
    <3>4. l \in 1 .. half /\ 2 * l = k
      BY <2>2, <3>3
    <3> HIDE DEF l, half
    <3> QED BY <2>3, <3>2, <3>4
  <2> QED BY <1>4, <2>4 DEF WaitsListen
<1> QED BY <1>5, <1>6

LEMMA WaitsKeep ==
  ASSUME RpcInv, CollectTypes, WaitsListen, [Next]_vars
  PROVE  WaitsListen'
<1> USE DEF RpcInv
<1>1. CASE UNCHANGED <<calls, wait, eventListeners>>
  BY <1>1 DEF WaitsListen
<1>2. CASE Call
  <2> DEFINE id == Len(calls) + 1
  <2>0. id = Len(calls) + 1
    OBVIOUS
  <2> HIDE DEF id
  <2>1. /\ id \in Id /\ Len(calls') = id
        /\ \A i \in Id : i # id => wait'[i] = wait[i]
        /\ wait'[id] = IF program[id] \in Waits THEN "waiting" ELSE wait[id]
    BY <1>2, <2>0, Called
  <2>2. eventListeners' = IF program[id] \in Waits THEN Append(eventListeners, id) ELSE eventListeners
    BY <1>2, <2>0 DEF Call
  <2>3. eventListeners \in Seq(Id) /\ Len(calls) \in Nat
    BY CallIds DEF ClientInv, ClientTypes
  <2>4. \A i \in Id : wait'[i] # "none" => i <= Len(calls')
    BY <2>0, <2>1, <2>3 DEF WaitsListen, Id
  <2>5. \A k \in 1 .. Len(eventListeners) :
          k \in 1 .. Len(eventListeners') /\ eventListeners'[k] = eventListeners[k]
    BY <2>1, <2>2, <2>3
  <2>6. program[id] \in Waits => /\ Len(eventListeners') \in 1 .. Len(eventListeners')
                                 /\ eventListeners'[Len(eventListeners')] = id
    BY <2>1, <2>2, <2>3
  <2>7. ~(id <= Len(calls))
    BY <2>0, <2>3
  <2>8. wait[id] = "none"
    BY <2>1, <2>7 DEF WaitsListen
  <2>9. \A i \in Id : wait'[i] = "waiting" => \E k \in 1 .. Len(eventListeners') : eventListeners'[k] = i
    BY <2>1, <2>5, <2>6, <2>8 DEF WaitsListen
  <2> QED BY <2>4, <2>9 DEF WaitsListen
<1>3. CASE ReadLine
  <2>1. UNCHANGED calls /\ (UNCHANGED <<wait, eventListeners>> \/ GiveToListeners(Head(toClient)))
    BY <1>3 DEF ReadLine
  <2> QED BY <1>1, <2>1, TellingKeepsWaits
<1>4. ASSUME NEW id \in Id, WaitTimeout(id) PROVE WaitsListen'
  <2>1. wait' = [wait EXCEPT ![id] = "rejected"] /\ UNCHANGED calls /\ wait[id] = "waiting"
    BY <1>4 DEF WaitTimeout
  <2>2. PICK k \in DOMAIN eventListeners :
          eventListeners[k] = id /\ eventListeners' = RemoveAt(eventListeners, k)
    BY <1>4 DEF WaitTimeout
  <2>3. eventListeners \in Seq(Id) /\ k \in 1 .. Len(eventListeners)
    BY <2>2 DEF ClientInv, ClientTypes
  <2>4. /\ Len(eventListeners') = Len(eventListeners) - 1
        /\ \A j \in 1 .. Len(eventListeners) - 1 :
             eventListeners'[j] = IF j < k THEN eventListeners[j] ELSE eventListeners[j + 1]
    BY <2>2, <2>3, RemoveAtProperties
  <2>5. \A i \in Id : IF i = id THEN wait'[i] = "rejected" ELSE wait'[i] = wait[i]
    BY <2>1 DEF ClientInv, ClientTypes
  <2>6. ASSUME NEW i \in Id, wait'[i] = "waiting"
        PROVE  \E j \in 1 .. Len(eventListeners') : eventListeners'[j] = i
    <3>1. i # id /\ wait[i] = "waiting"
      BY <2>5, <2>6
    <3>2. PICK j \in 1 .. Len(eventListeners) : eventListeners[j] = i
      BY <3>1 DEF WaitsListen
    <3>3. j # k
      BY <2>2, <3>1, <3>2
    <3>4. CASE j < k
      <4>1. j \in 1 .. Len(eventListeners')
        BY <2>3, <2>4, <3>4
      <4> QED BY <2>4, <3>2, <3>4, <4>1
    <3>5. CASE ~(j < k)
      <4>1. j - 1 \in 1 .. Len(eventListeners') /\ ~(j - 1 < k) /\ (j - 1) + 1 = j
        BY <2>3, <2>4, <3>3, <3>5
      <4> QED BY <2>4, <3>2, <4>1
    <3> QED BY <3>4, <3>5
  <2> QED BY <2>1, <2>5, <2>6 DEF WaitsListen
<1> QED
  BY <1>1, <1>2, <1>3, <1>4 DEF Next, vars, clientVars, NoticeExit, RequestTimeout

LEMMA CollectTypesKeep ==
  ASSUME RpcInv, CollectTypes, [Next]_vars
  PROVE  CollectTypes'
<1> USE DEF RpcInv
<1>1. CASE UNCHANGED <<events, alone>> /\ continued' \subseteq Id
  BY <1>1 DEF CollectTypes
<1>2. CASE ModeNext /\ UNCHANGED clientVars
  <2>1. continued' \subseteq Id
    BY <1>2, ModeMoves DEF CollectTypes, Still, Quiet, Loud
  <2> QED BY <1>1, <1>2, <2>1 DEF clientVars
<1>3. CASE Call
  <2>1. /\ UNCHANGED <<events, continued>>
        /\ alone' = [i \in Id |-> IF i = Len(calls) + 1 THEN \A j \in DOMAIN calls : Over(j)
                                  ELSE alone[i] /\ (program[Len(calls) + 1] \notin Prompts \/ Over(i))]
    BY <1>3 DEF Call
  <2>2. alone' \in [Id -> BOOLEAN]
    BY <2>1
  <2> QED BY <2>1, <2>2 DEF CollectTypes
<1>4. CASE ReadLine
  <2>1. toClient # <<>> /\ toClient' = Tail(toClient) /\ UNCHANGED <<alone, continued>>
        /\ (UNCHANGED events \/ GiveToListeners(Head(toClient)))
    BY <1>4 DEF ReadLine
  <2>2. CASE GiveToListeners(Head(toClient))
    <3>1. Head(toClient) \in AnyLine
      BY <2>1, PipeRead
    <3>2. \A i \in Id : events'[i] = events[i] \/ events'[i] = Append(events[i], Head(toClient))
      BY <2>2, ToldWait
    <3>3. \A i \in Id : events'[i] \in Seq(AnyLine)
      <4> TAKE i \in Id
      <4>1. events[i] \in Seq(AnyLine)
        BY DEF CollectTypes
      <4>2. Append(events[i], Head(toClient)) \in Seq(AnyLine)
        BY <3>1, <4>1
      <4> QED BY <3>2, <4>1, <4>2
    <3>4. \E told : events' = [i \in Id |-> IF i \in told THEN Append(events[i], Head(toClient)) ELSE events[i]]
      BY <2>2 DEF GiveToListeners
    <3>5. events' \in [Id -> Seq(AnyLine)]
      BY <3>3, <3>4
    <3> QED BY <2>1, <3>5 DEF CollectTypes
  <2>3. CASE UNCHANGED events
    BY <1>1, <2>1, <2>3 DEF CollectTypes
  <2> QED BY <2>1, <2>2, <2>3
<1>5. CASE UNCHANGED <<events, alone, continued>>
  BY <1>1, <1>5 DEF CollectTypes
<1> QED
  BY <1>2, <1>3, <1>4, <1>5
     DEF Next, vars, modeVars, clientVars, NoticeExit, RequestTimeout, WaitTimeout

-----------------------------------------------------------------------------
\* A SESSION THAT IS NOT HEARD ANY MORE

LEMMA RuntimeFades ==
  ASSUME RuntimeInv, NEW s, BoundLater(s),
         \/ \E c \in Id : EmitBeforeSwitch(c) \/ ReplacementStep(c, TRUE) \/ ReplacementStep(c, FALSE)
         \/ TellShutdown(Quit) /\ subscribed' = 0
         \/ UNCHANGED runtimeVars
  PROVE  BoundLater(s)' /\ (Heard(s)' => Heard(s))
<1>0. /\ sessions \in Seq(SessionState) /\ session \in 1 .. Len(sessions) /\ hosted = session
      /\ replacement \in [Caller -> {"none", "beforeSwitch", "cancelled", "failed", "shutdown",
                                     "creating", "binding", "rebinding", "done"}]
      /\ Id \subseteq Caller /\ Quit \notin Id /\ s \in 1 .. session /\ Len(sessions) \in Nat
  BY MaxIdsAssumption DEF RuntimeInv, RuntimeTypes, Caller, Quit, Id, BoundLater
<1>1. ASSUME UNCHANGED <<session, sessions>>, subscribed' \in {subscribed, 0},
             \A c \in Id : replacement'[c] \in {"binding", "rebinding"} => replacement[c] \in {"binding", "rebinding"}
      PROVE  BoundLater(s)' /\ (Heard(s)' => Heard(s))
  BY <1>0, <1>1 DEF BoundLater, Heard
<1>2. ASSUME NEW c \in Caller, TellShutdown(c), subscribed' \in {subscribed, 0}
      PROVE  BoundLater(s)' /\ (Heard(s)' => Heard(s))
  <2>1. /\ sessions' = [sessions EXCEPT ![session].told = @ + 1]
        /\ replacement' = [replacement EXCEPT ![c] = "shutdown"] /\ UNCHANGED session
    BY <1>2 DEF TellShutdown
  <2>2. s \in 1 .. Len(sessions) /\ sessions'[s].disposed = sessions[s].disposed
    BY <1>0, <2>1 DEF SessionState
  <2>3. \A d \in Id : replacement'[d] \in {"binding", "rebinding"} => replacement[d] \in {"binding", "rebinding"}
    BY <1>0, <2>1
  <2> QED BY <1>0, <1>2, <2>1, <2>2, <2>3 DEF BoundLater, Heard
<1>3. ASSUME NEW c \in Id, EmitBeforeSwitch(c) \/ Refuse(c) \/ CreateFails(c)
      PROVE  BoundLater(s)' /\ (Heard(s)' => Heard(s))
  <2>1. /\ UNCHANGED <<session, sessions, subscribed>>
        /\ \E stage \in {"beforeSwitch", "cancelled", "failed"} : replacement' = [replacement EXCEPT ![c] = stage]
    BY <1>3 DEF EmitBeforeSwitch, Refuse, CreateFails
  <2>2. \A d \in Id : replacement'[d] \in {"binding", "rebinding"} => replacement[d] \in {"binding", "rebinding"}
    BY <1>0, <2>1
  <2> QED BY <1>1, <2>1, <2>2
<1>4. ASSUME NEW c \in Id, Dispose(c)
      PROVE  BoundLater(s)' /\ (Heard(s)' => Heard(s))
  <2>1. /\ sessions' = [sessions EXCEPT ![session].disposed = TRUE]
        /\ replacement' = [replacement EXCEPT ![c] = "creating"] /\ UNCHANGED <<session, subscribed>>
    BY <1>4 DEF Dispose
  <2>2. s \in 1 .. Len(sessions) /\ (sessions[s].disposed => sessions'[s].disposed)
    BY <1>0, <2>1 DEF SessionState
  <2>3. \A d \in Id : replacement'[d] \in {"binding", "rebinding"} => replacement[d] \in {"binding", "rebinding"}
    BY <1>0, <2>1
  <2> QED BY <1>0, <2>1, <2>2, <2>3 DEF BoundLater, Heard
<1>5. ASSUME NEW c \in Id, Apply(c)
      PROVE  BoundLater(s)' /\ (Heard(s)' => Heard(s))
  <2>1. sessions' = Append(sessions, Fresh) /\ session' = Len(sessions') /\ UNCHANGED subscribed
    BY <1>5 DEF Apply
  <2>2. /\ session' = Len(sessions) + 1 /\ s \in 1 .. Len(sessions) /\ sessions'[s] = sessions[s]
    BY <1>0, <2>1
  <2>3. s \in 1 .. session' /\ s < session'
    BY <1>0, <2>2
  <2> QED BY <2>1, <2>2, <2>3 DEF BoundLater, Heard
<1>6. ASSUME NEW c \in Id, BoundAgain(c) \/ Bound(c, TRUE) \/ Bound(c, FALSE)
      PROVE  BoundLater(s)' /\ (Heard(s)' => Heard(s))
  <2>1. UNCHANGED <<session, sessions>> /\ subscribed' = session /\ replacement[c] \in {"binding", "rebinding"}
    BY <1>0, <1>6 DEF BoundAgain, Bound
  <2>2. s < session
    BY <2>1 DEF BoundLater
  <2> QED BY <1>0, <2>1, <2>2 DEF BoundLater, Heard
<1>7. CASE UNCHANGED runtimeVars
  BY <1>1, <1>7 DEF runtimeVars
<1>8. CASE TellShutdown(Quit) /\ subscribed' = 0
  BY <1>2, <1>8 DEF Caller
<1>9. ASSUME NEW c \in Id, EmitBeforeSwitch(c) \/ ReplacementStep(c, TRUE) \/ ReplacementStep(c, FALSE)
      PROVE  BoundLater(s)' /\ (Heard(s)' => Heard(s))
  <2>1. TeardownCurrent(c) => TellShutdown(c) /\ subscribed' = subscribed
    BY DEF TeardownCurrent
  <2> QED BY <1>0, <1>2, <1>3, <1>4, <1>5, <1>6, <1>9, <2>1 DEF ReplacementStep
<1> QED BY <1>7, <1>8, <1>9

LEMMA HeardFades ==
  ASSUME RpcInv, HandledInv, [Next]_vars, NEW s, BoundLater(s)
  PROVE  BoundLater(s)' /\ (Heard(s)' => Heard(s))
<1>1. \/ \E c \in Id : EmitBeforeSwitch(c) \/ ReplacementStep(c, TRUE) \/ ReplacementStep(c, FALSE)
      \/ TellShutdown(Quit) /\ subscribed' = 0
      \/ UNCHANGED runtimeVars
  <2>1. CASE HandleLine
    BY <2>1, Handled DEF RpcInv
  <2>2. CASE Shutdown
    BY <2>2 DEF Shutdown
  <2>3. ASSUME NEW c \in Id, Replace(c)
        PROVE  ReplacementStep(c, TRUE) \/ ReplacementStep(c, FALSE)
    <3>1. ReplacementStep(c, command[c] = "replacing")
      BY <2>3 DEF Replace
    <3>2. (command[c] = "replacing") = TRUE \/ (command[c] = "replacing") = FALSE
      OBVIOUS
    <3> QED BY <3>1, <3>2
  <2>4. ASSUME NEW c \in Id, HandledByExtension(c)
        PROVE  EmitBeforeSwitch(c) \/ UNCHANGED runtimeVars
    BY <2>4 DEF HandledByExtension
  <2>5. CASE UNCHANGED vars
    BY <2>5 DEF vars
  <2> QED
    BY <2>1, <2>2, <2>3, <2>4, <2>5
       DEF Next, ModeNext, Exit, Replaced, RefusePrompt, PassPreflight, StartRun, EmitAgentEnd,
           FinishRun, ContinueRun, GiveUp, Aborted, Call, ReadLine, NoticeExit, RequestTimeout,
           WaitTimeout
<1> QED BY <1>1, RuntimeFades DEF RpcInv

\* The handling of a command begins when its line is read.
LEMMA Begins ==
  ASSUME ServerInv, HandledInv, [Next]_vars, NEW i \in Id, command'[i] # "none"
  PROVE  \/ command[i] # "none" /\ at'[i] = at[i]
         \/ HandleLine /\ i = Head(toServer).id /\ at'[i] = hosted
<1>0. /\ command \in [Id -> {"none"} \union UnderWay \union Answered] /\ at \in [Id -> Nat]
  BY DEF ServerInv, ServerTypes
<1>1. CASE HandleLine
  <2> DEFINE id == Head(toServer).id
  <2>1. /\ id \in Id /\ at' = [at EXCEPT ![id] = hosted]
        /\ \E stage : command' = [command EXCEPT ![id] = stage]
    BY <1>1, Handled
  <2> HIDE DEF id
  <2>2. \A k \in Id : k # id => command'[k] = command[k] /\ at'[k] = at[k]
    BY <1>0, <2>1
  <2> QED BY <1>0, <1>1, <2>1, <2>2 DEF id
<1>2. CASE ModeNext /\ ~HandleLine
  <2>1. at' = at /\ (Still \/ \E j \in Id : command[j] # "none" /\ (Quiet(j) \/ Loud(j)))
    BY <1>2, OtherMoves
  <2>2. ASSUME NEW j \in Id, command[j] # "none", Quiet(j) \/ Loud(j)
        PROVE  command[i] # "none"
    <3>1. \E stage : command' = [command EXCEPT ![j] = stage]
      BY <2>2, StagesFollow
    <3>2. i # j => command'[i] = command[i]
      BY <1>0, <3>1
    <3> QED BY <2>2, <3>2
  <2> QED BY <2>1, <2>2 DEF Still
<1>3. CASE UNCHANGED <<command, at>>
  BY <1>3
<1> QED
  BY <1>1, <1>2, <1>3 DEF Next, vars, modeVars, Call, ReadLine, NoticeExit, RequestTimeout, WaitTimeout

\* A call that is over is not under way.
LEMMA OverIsAnswered ==
  ASSUME RpcInv, HandledInv, NEW c \in Id, Over(c)
  PROVE  command[c] \notin UnderWay
<1>1. answer[c] \in {"none", "ok", "error"}
  BY DEF Over
<1>2. answer[c] \in {"ok", "error"} => answers[c] = 1
  BY DEF RpcInv, ClientInv, RequestsWait
<1>3. command[c] \in UnderWay => answers[c] = 0
  BY DEF RpcInv, ServerInv, AnswersMatch
<1>4. answer[c] = "none" => command[c] = "none"
  BY DEF HandledInv, SentFirst
<1> QED BY <1>1, <1>2, <1>3, <1>4 DEF UnderWay

LEMMA HeardNoMoreKeeps ==
  ASSUME RpcInv, CollectInv, Settled, [Next]_vars
  PROVE  HeardNoMore'
<1> USE DEF RpcInv, CollectInv
<1> SUFFICES ASSUME NEW i \in Id, Alone(i)', wait'[i] = "waiting", command'[i] # "none"
             PROVE  BoundLater(at[i])'
  BY DEF HeardNoMore
<1>1. i \in 1 .. Len(calls)
  <2>1. CASE command[i] # "none"
    BY <2>1 DEF ServerInv, LinesAreNew, Id
  <2>2. CASE HandleLine /\ i = Head(toServer).id
    BY <2>2, Handled DEF Id
  <2> QED BY <2>1, <2>2, Begins
<1>2. Alone(i) /\ wait[i] = "waiting"
  BY <1>1, AloneBefore DEF Settled
<1>3. CASE command[i] # "none" /\ at'[i] = at[i]
  <2> DEFINE s == at[i]
  <2>1. BoundLater(s)
    BY <1>2, <1>3 DEF HeardNoMore
  <2> HIDE DEF s
  <2>2. s \in 1 .. session' /\ ((\E c \in Id : replacement'[c] \in {"binding", "rebinding"}) => s < session')
    BY <2>1, HeardFades DEF BoundLater
  <2>3. at'[i] = s
    BY <1>3 DEF s
  <2> QED BY <2>2, <2>3 DEF BoundLater
<1>4. CASE HandleLine /\ i = Head(toServer).id /\ at'[i] = hosted
  <2>1. ASSUME NEW c \in Id, replacement[c] \in {"binding", "rebinding"}
        PROVE  FALSE
    <3>1. command[c] \in {"replacing", "handling"}
      BY <2>1 DEF HandledInv, ReplacersHandle, Replacing, Tearing
    <3>2. c < i
      BY <1>4, <3>1, Handled
    <3>3. c \in 1 .. i - 1
      BY <3>2 DEF Id
    <3>4. Over(c)
      BY <1>2, <3>3 DEF OneAtATime
    <3> QED BY <3>1, <3>4, OverIsAnswered DEF UnderWay
  <2>2. hosted = session /\ session \in 1 .. session
    BY DEF RuntimeInv, RuntimeTypes
  <2>3. UNCHANGED <<runtimeVars>> \/ EmitBeforeSwitch(i)
    BY <1>4, Handled
  <2>4. /\ UNCHANGED session
        /\ \A c \in Id : replacement'[c] \in {"binding", "rebinding"} => replacement[c] \in {"binding", "rebinding"}
    <3>1. replacement \in [Caller -> {"none", "beforeSwitch", "cancelled", "failed", "shutdown",
                                     "creating", "binding", "rebinding", "done"}] /\ Id \subseteq Caller
      BY DEF RuntimeInv, RuntimeTypes, Caller
    <3> QED BY <2>3, <3>1 DEF runtimeVars, EmitBeforeSwitch
  <2> QED BY <1>4, <2>1, <2>2, <2>4 DEF BoundLater
<1> QED BY <1>3, <1>4, Begins

-----------------------------------------------------------------------------
\* WHAT A CALL COLLECTS

\* A prompt that is over does not run any more, and one called later has not begun; unless
\* a run is continued.
LEMMA NoOtherRun ==
  ASSUME RpcInv, CollectInv, NEW i \in Id, Alone(i), wait[i] = "waiting",
         NEW j \in Id, j # i, Loud(j)
  PROVE  continued' \intersect 1 .. i # {}
<1> USE DEF RpcInv, CollectInv
<1>1. j \in 1 .. Len(calls) /\ calls[j] \in Prompts
  BY LoudEmits DEF HandledInv, KindsMatch, PromptStages, ServerInv, LinesAreNew, Id
<1>2. ~Over(i)
  BY DEF Over, Alone, Waits
<1>3. j < i
  <2>1. \A k \in i + 1 .. Len(calls) : calls[k] \notin Prompts
    BY <1>2 DEF OneAtATime
  <2>2. i \in Nat /\ Len(calls) \in Nat
    BY CallIds DEF Id
  <2> QED BY <1>1, <2>1, <2>2
<1>4. j \in 1 .. i - 1 /\ j \in 1 .. i
  BY <1>1, <1>3 DEF Id
<1>5. Over(j)
  BY <1>4 DEF OneAtATime
<1>6. calls[j] = "promptAndWait" /\ wait[j] = "resolved" /\ alone[j]
  BY <1>1, <1>5 DEF Over, Prompts, Waits
<1>7. continued \intersect 1 .. j = {}
  <2>1. 1 .. j \subseteq 1 .. i
    BY <1>3 DEF Id
  <2> QED BY <2>1 DEF Alone
<1>8. Alone(j)
  BY <1>1, <1>6, <1>7 DEF Alone, Id
<1>9. command[j] \in {"ending", "between", "done"}
  BY <1>6, <1>8 DEF Collected
<1>10. continued' = continued \union {j}
  BY <1>9 DEF Loud
<1> QED BY <1>4, <1>10

\* What a waiting call will have is what it has and what is on the way.
LEMMA SeenType ==
  ASSUME ServerInv, CollectTypes, NEW i \in Id
  PROVE  /\ Only(events[i], EventLine) \in Seq(EventLine) /\ Pipe \in Seq(EventLine)
         /\ Seen(i) \in Seq(EventLine) /\ events[i] \in Seq(AnyLine)
<1>1. events[i] \in Seq(AnyLine)
  BY DEF CollectTypes
<1>2. Only(events[i], EventLine) \in Seq(EventLine) /\ Pipe \in Seq(EventLine)
  BY <1>1, OnlyEvents, PipeType
<1> QED BY <1>1, <1>2, ConcatProperties DEF Seen

LEMMA Associative ==
  ASSUME NEW S, NEW a \in Seq(S), NEW b \in Seq(S), NEW c \in Seq(S)
  PROVE  a \o (b \o c) = (a \o b) \o c
OBVIOUS

LEMMA SeenGrows ==
  ASSUME ServerInv, CollectTypes, NEW i \in Id, NEW emitted \in Seq(EventLine),
         Pipe' = Pipe \o emitted, UNCHANGED events
  PROVE  Seen(i)' = Seen(i) \o emitted
<1> DEFINE has == Only(events[i], EventLine)
<1>1. has \in Seq(EventLine) /\ Pipe \in Seq(EventLine)
  BY SeenType
<1>2. Seen(i)' = has \o (Pipe \o emitted) /\ Seen(i) = has \o Pipe
  BY DEF Seen
<1> HIDE DEF has
<1> QED BY <1>1, <1>2, Associative

LEMMA TwoInARow ==
  ASSUME NEW S, NEW a \in S, NEW b \in S
  PROVE  Append(<<a>>, b) = <<a, b>> /\ <<a>> \o <<b>> = <<a, b>>
<1> DEFINE x == <<a>>
           y == <<b>>
           two == <<a, b>>
<1>1. /\ x \in Seq(S) /\ Len(x) = 1 /\ x[1] = a /\ y \in Seq(S) /\ Len(y) = 1 /\ y[1] = b
      /\ two \in Seq(S) /\ Len(two) = 2 /\ two[1] = a /\ two[2] = b
  OBVIOUS
<1> HIDE DEF x, y, two
<1>2. /\ Append(x, b) \in Seq(S) /\ Len(Append(x, b)) = 2
      /\ Append(x, b)[1] = a /\ Append(x, b)[2] = b
  BY <1>1
<1>3. x \o y \in Seq(S) /\ Len(x \o y) = 2 /\ (x \o y)[1] = a /\ (x \o y)[2] = b
  BY <1>1, ConcatProperties
<1>4. \A k \in 1 .. 2 : k = 1 \/ k = 2
  OBVIOUS
<1>5. Append(x, b) = two
  BY <1>1, <1>2, <1>4, SeqEqual
<1>6. x \o y = two
  BY <1>1, <1>3, <1>4, SeqEqual
<1> QED BY <1>5, <1>6 DEF x, y, two

LEMMA RunSequences ==
  ASSUME NEW i \in Id
  PROVE  /\ <<>> \o Start(i) = Start(i) /\ <<>> \o <<>> = <<>>
         /\ Start(i) \o <<>> = Start(i)
         /\ Start(i) \o <<Event(i, "agent_end")>> = StartEnd(i)
<1> DEFINE a == Event(i, "agent_start")
           b == Event(i, "agent_end")
<1>0. a \in EventLine /\ b \in EventLine
  BY DEF Event, EventLine
<1> HIDE DEF a, b
<1>1. <<>> \o <<a>> = <<a>> /\ <<>> \o <<>> = <<>> /\ <<a>> \o <<>> = <<a>>
  <2>1. <<a>> \in Seq({a}) /\ <<>> \in Seq({a})
    OBVIOUS
  <2> QED BY <2>1, ConcatEmptySeq
<1>2. <<a>> \o <<b>> = <<a, b>>
  BY <1>0, TwoInARow
<1> QED BY <1>1, <1>2 DEF Start, StartEnd, a, b

LEMMA ModeKeepsCollecting ==
  ASSUME RpcInv, CollectInv, Settled, ModeNext, UNCHANGED clientVars
  PROVE  Collecting'
<1> USE DEF RpcInv, CollectInv
<1>0. /\ UNCHANGED <<calls, wait, events>> /\ [Next]_vars
      /\ command \in [Id -> {"none"} \union UnderWay \union Answered]
  BY DEF clientVars, ServerInv, ServerTypes, Next
<1> SUFFICES ASSUME NEW i \in Id, Alone(i)', wait'[i] = "waiting"
             PROVE  \/ command'[i] \in {"none", "preflight", "starting", "handling"} /\ Seen(i)' = <<>>
                    \/ /\ command'[i] = "running" /\ Seen(i)' \in {<<>>, Start(i)}
                       /\ Heard(at[i])' => Seen(i)' = Start(i)
                    \/ command'[i] \in {"ending", "between", "done"}
                       /\ Seen(i)' \in {<<>>, Start(i), StartEnd(i)}
  BY DEF Collecting, Start, StartEnd, Event
<1>1. i \in 1 .. Len(calls)
  BY <1>0, CallIds DEF Alone, Id
<1>2. Alone(i) /\ wait[i] = "waiting" /\ calls[i] = "promptAndWait"
  BY <1>0, <1>1, AloneBefore DEF Alone
<1>3. continued' \intersect 1 .. i = {} /\ i \in 1 .. i
  BY DEF Alone, Id
<1>4. \/ command[i] \in {"none", "preflight", "starting", "handling"} /\ Seen(i) = <<>>
      \/ /\ command[i] = "running" /\ Seen(i) \in {<<>>, Start(i)}
         /\ Heard(at[i]) => Seen(i) = Start(i)
      \/ command[i] \in {"ending", "between", "done"} /\ Seen(i) \in {<<>>, Start(i), StartEnd(i)}
  BY <1>2 DEF Collecting
<1>5. command[i] # "none" => at'[i] = at[i] /\ (Heard(at[i])' => Heard(at[i]))
  <2> SUFFICES ASSUME command[i] # "none" PROVE at'[i] = at[i] /\ (Heard(at[i])' => Heard(at[i]))
    OBVIOUS
  <2>1. PICK s : s = at[i]
    OBVIOUS
  <2>2. BoundLater(s)
    BY <1>2, <2>1 DEF HeardNoMore
  <2>3. Heard(s)' => Heard(s)
    BY <1>0, <2>2, HeardFades
  <2>4. at'[i] = at[i]
    <3>1. CASE HandleLine
      <4>1. /\ Head(toServer).id # i
            /\ at' = [at EXCEPT ![Head(toServer).id] = hosted]
        BY <3>1, Handled
      <4> QED BY <4>1 DEF ServerInv, ServerTypes
    <3>2. CASE ~HandleLine
      BY <3>2, OtherMoves
    <3> QED BY <3>1, <3>2
  <2> QED BY <2>1, <2>3, <2>4 DEF Heard
<1>6. command'[i] \notin {"aborting", "replacing"}
  <2>1. HandledInv'
    BY <1>0, HandledKeeps
  <2> QED BY <1>0, <1>2, <2>1 DEF HandledInv, KindsMatch, Prompts
<1>7. ASSUME command'[i] = command[i], Pipe' = Pipe
      PROVE  \/ command'[i] \in {"none", "preflight", "starting", "handling"} /\ Seen(i)' = <<>>
             \/ /\ command'[i] = "running" /\ Seen(i)' \in {<<>>, Start(i)}
                /\ Heard(at[i])' => Seen(i)' = Start(i)
             \/ command'[i] \in {"ending", "between", "done"}
                /\ Seen(i)' \in {<<>>, Start(i), StartEnd(i)}
  <2>1. Seen(i)' = Seen(i)
    BY <1>0, <1>7 DEF Seen
  <2> QED BY <1>4, <1>5, <1>7, <2>1
<1>8. ASSUME NEW j \in Id, Quiet(j)
      PROVE  \/ command'[i] \in {"none", "preflight", "starting", "handling"} /\ Seen(i)' = <<>>
             \/ /\ command'[i] = "running" /\ Seen(i)' \in {<<>>, Start(i)}
                /\ Heard(at[i])' => Seen(i)' = Start(i)
             \/ command'[i] \in {"ending", "between", "done"}
                /\ Seen(i)' \in {<<>>, Start(i), StartEnd(i)}
  <2>1. PICK stage : <<command[j], stage>> \in QuietMoves /\ command' = [command EXCEPT ![j] = stage]
    BY <1>8 DEF Quiet
  <2>2. Pipe' = Pipe
    BY <1>8 DEF Quiet
  <2>3. CASE j # i
    <3>1. command'[i] = command[i]
      BY <1>0, <2>1, <2>3
    <3> QED BY <1>7, <2>2, <3>1
  <2>4. CASE j = i
    <3>1. Seen(i)' = Seen(i) /\ command'[i] = stage
      BY <1>0, <2>1, <2>2, <2>4 DEF Seen
    <3>2. /\ command[i] \in {"none", "preflight", "starting", "handling"} =>
             stage \in {"preflight", "starting", "handling", "done", "aborting", "replacing"}
          /\ command[i] # "running"
          /\ command[i] \in {"ending", "between", "done"} => stage \in {"between", "done"}
      BY <2>1, <2>4 DEF QuietMoves
    <3> QED BY <1>4, <1>6, <3>1, <3>2
  <2> QED BY <2>3, <2>4
<1>9. ASSUME NEW j \in Id, Loud(j)
      PROVE  \/ command'[i] = "running" /\ Seen(i)' \in {<<>>, Start(i)}
                /\ (Heard(at[i])' => Seen(i)' = Start(i))
             \/ command'[i] = "ending" /\ Seen(i)' \in {<<>>, Start(i), StartEnd(i)}
  <2>1. j = i
    BY <1>2, <1>3, <1>9, NoOtherRun
  <2>2. CASE command[i] = "starting" /\ Emitting(i, "running", "agent_start")
    <3>1. Seen(i) = <<>> /\ command'[i] = "running" /\ Pipe' = Pipe \o Emits(i, "agent_start")
      BY <1>0, <1>4, <2>2 DEF Emitting
    <3>2. Seen(i)' = <<>> \o Emits(i, "agent_start")
      BY <1>0, <3>1, EventsAreLines, SeenGrows
    <3>3. Emits(i, "agent_start") = IF Heard(at[i]) THEN Start(i) ELSE <<>>
      BY EmitsOne DEF Start
    <3>4. Seen(i)' = IF Heard(at[i]) THEN Start(i) ELSE <<>>
      BY <3>2, <3>3, RunSequences
    <3>5. Heard(at[i])' => Heard(at[i])
      BY <1>5, <2>2
    <3> QED BY <3>1, <3>4, <3>5
  <2>3. CASE command[i] = "running" /\ Emitting(i, "ending", "agent_end")
    <3>1. command'[i] = "ending" /\ Pipe' = Pipe \o Emits(i, "agent_end")
      BY <1>0, <2>3 DEF Emitting
    <3>2. Seen(i)' = Seen(i) \o Emits(i, "agent_end")
      BY <1>0, <3>1, EventsAreLines, SeenGrows
    <3>3. CASE Heard(at[i])
      <4>1. Seen(i) = Start(i) /\ Emits(i, "agent_end") = <<Event(i, "agent_end")>>
        BY <1>4, <2>3, <3>3, EmitsOne
      <4>2. Seen(i)' = StartEnd(i)
        BY <3>2, <4>1, RunSequences
      <4> QED BY <3>1, <4>2
    <3>4. CASE ~Heard(at[i])
      <4>1. Seen(i) \in {<<>>, Start(i)} /\ Emits(i, "agent_end") = <<>>
        BY <1>4, <2>3, <3>4, EmitsOne
      <4>2. Seen(i)' = Seen(i)
        BY <3>2, <4>1, RunSequences
      <4> QED BY <3>1, <4>1, <4>2
    <3> QED BY <3>3, <3>4
  <2>4. CASE continued' = continued \union {i}
    BY <1>3, <2>4
  <2>5. command[i] # "recovering"
    BY <1>4
  <2> QED BY <1>9, <2>1, <2>2, <2>3, <2>4, <2>5 DEF Loud
<1>10. CASE Still
  BY <1>7, <1>10 DEF Still
<1>11. Still \/ \E j \in Id : Quiet(j) \/ Loud(j)
  BY ModeMoves
<1>12. CASE \E j \in Id : Quiet(j)
  BY <1>8, <1>12
<1>13. CASE \E j \in Id : Loud(j)
  <2>1. \/ command'[i] = "running" /\ Seen(i)' \in {<<>>, Start(i)}
                /\ (Heard(at[i])' => Seen(i)' = Start(i))
        \/ command'[i] = "ending" /\ Seen(i)' \in {<<>>, Start(i), StartEnd(i)}
    BY <1>9, <1>13
  <2> QED BY <2>1
<1> QED BY <1>10, <1>11, <1>12, <1>13

LEMMA ModeKeepsCollected ==
  ASSUME RpcInv, CollectInv, Settled, ModeNext, UNCHANGED clientVars
  PROVE  Collected'
<1> USE DEF RpcInv, CollectInv
<1>0. /\ UNCHANGED <<calls, wait, events>>
      /\ command \in [Id -> {"none"} \union UnderWay \union Answered]
  BY DEF clientVars, ServerInv, ServerTypes
<1> SUFFICES ASSUME NEW i \in Id, Alone(i)', wait'[i] = "resolved"
             PROVE  /\ Only(events[i], EventLine)' = StartEnd(i)
                    /\ command'[i] \in {"ending", "between", "done"}
                    /\ \A k \in 1 .. Len(Pipe') : Pipe'[k].of # i
  BY DEF Collected, StartEnd, Event
<1>1. i \in 1 .. Len(calls)
  BY <1>0, CallIds DEF Alone, Id
<1>2. Alone(i) /\ wait[i] = "resolved"
  BY <1>0, <1>1, AloneBefore
<1>3. continued' \intersect 1 .. i = {} /\ i \in 1 .. i
  BY DEF Alone, Id
<1>4. /\ Only(events[i], EventLine) = StartEnd(i)
      /\ command[i] \in {"ending", "between", "done"}
      /\ \A k \in 1 .. Len(Pipe) : Pipe[k].of # i
  BY <1>2 DEF Collected
<1>5. Only(events[i], EventLine)' = StartEnd(i)
  BY <1>0, <1>4
<1>6. ASSUME NEW j \in Id, Quiet(j)
      PROVE  Pipe' = Pipe /\ command'[i] \in {"ending", "between", "done"}
  <2>1. PICK stage : <<command[j], stage>> \in QuietMoves /\ command' = [command EXCEPT ![j] = stage]
    BY <1>6 DEF Quiet
  <2>2. Pipe' = Pipe
    BY <1>6 DEF Quiet
  <2>3. command[j] \in {"ending", "between", "done"} => stage \in {"between", "done"}
    BY <2>1 DEF QuietMoves
  <2>4. command'[i] = IF i = j THEN stage ELSE command[i]
    BY <1>0, <2>1
  <2> QED BY <1>4, <2>2, <2>3, <2>4
<1>7. ASSUME NEW j \in Id, Loud(j)
      PROVE  /\ command'[i] \in {"ending", "between", "done"}
             /\ \A k \in 1 .. Len(Pipe') : Pipe'[k].of # i
  <2>1. j # i
    BY <1>3, <1>4, <1>7 DEF Loud
  <2>2. \A k \in 1 .. Len(Pipe') : (k \in 1 .. Len(Pipe) /\ Pipe'[k] = Pipe[k]) \/ Pipe'[k].of = j
    BY <1>7, LoudEmits
  <2>3. \E stage : command' = [command EXCEPT ![j] = stage]
    BY <1>7 DEF Loud, Emitting
  <2>4. command'[i] = command[i]
    BY <1>0, <2>1, <2>3
  <2> QED BY <1>4, <2>1, <2>2, <2>4
<1> QED BY <1>4, <1>5, <1>6, <1>7, ModeMoves DEF Still

\* The end of a run ends the waiting: everything before it was collected, and nothing is
\* behind it.
LEMMA CutAtEnd ==
  ASSUME NEW i \in Id, NEW has \in Seq(EventLine), NEW rest \in Seq(EventLine),
         NEW line \in EventLine, line.type = "agent_end",
         has \o (<<line>> \o rest) \in {<<>>, Start(i), StartEnd(i)}
  PROVE  /\ rest = <<>> /\ has = Start(i) /\ Append(has, line) = StartEnd(i)
         /\ has \o (<<line>> \o rest) = StartEnd(i)
<1> DEFINE a == Event(i, "agent_start")
           b == Event(i, "agent_end")
           end == <<line>> \o rest
           all == has \o end
<1>1. a \in EventLine /\ b \in EventLine /\ a.type # "agent_end"
  BY DEF Event, EventLine
<1>2. Start(i) = <<a>> /\ StartEnd(i) = <<a, b>>
  BY DEF Start, StartEnd
<1>3. end \in Seq(EventLine) /\ Len(end) = Len(rest) + 1 /\ end[1] = line
  BY Prepended
<1> HIDE DEF end, a, b
<1>4. /\ all \in Seq(EventLine) /\ Len(all) = Len(has) + Len(rest) + 1
      /\ all[Len(has) + 1] = line
      /\ \A k \in 1 .. Len(has) : all[k] = has[k]
  <2>1. /\ all \in Seq(EventLine) /\ Len(all) = Len(has) + Len(end)
        /\ \A k \in 1 .. Len(has) + Len(end) :
             all[k] = IF k <= Len(has) THEN has[k] ELSE end[k - Len(has)]
    BY <1>3, ConcatProperties
  <2>2. /\ Len(has) \in Nat /\ Len(rest) \in Nat /\ Len(end) = Len(rest) + 1
        /\ Len(has) + 1 \in 1 .. Len(has) + Len(end) /\ (Len(has) + 1) - Len(has) = 1
    BY <1>3
  <2> HIDE DEF all
  <2>3. all[Len(has) + 1] = end[1]
    BY <2>1, <2>2
  <2> QED BY <1>3, <2>1, <2>2, <2>3
<1>5. all \in {<<>>, <<a>>, <<a, b>>}
  BY <1>2 DEF end
<1> HIDE DEF all
<1>6. Len(has) \in Nat /\ Len(rest) \in Nat
  OBVIOUS
<1>7. all # <<>> /\ all # <<a>>
  <2>1. Len(all) >= 1
    BY <1>4, <1>6
  <2>2. ASSUME all = <<a>> PROVE FALSE
    <3>1. Len(all) = 1 /\ all[1] = a
      BY <2>2
    <3>2. Len(has) = 0
      BY <1>4, <1>6, <3>1
    <3> QED BY <1>1, <1>4, <3>1, <3>2
  <2> QED BY <2>1, <2>2
<1>8. all = <<a, b>>
  BY <1>5, <1>7
<1>9. Len(all) = 2 /\ all[1] = a /\ all[2] = b
  BY <1>8
<1>10. Len(has) = 1 /\ Len(rest) = 0
  <2>1. Len(has) # 0
    BY <1>1, <1>4, <1>9
  <2> QED BY <1>4, <1>6, <1>9, <2>1
<1>11. rest = <<>> /\ has[1] = a /\ line = b
  BY <1>4, <1>9, <1>10
<1>12. has = <<a>>
  BY <1>10, <1>11
<1>13. Append(has, line) = <<a, b>>
  <2>1. Append(<<a>>, b) = <<a, b>>
    BY <1>1, TwoInARow
  <2> QED BY <1>11, <1>12, <2>1
<1> QED BY <1>2, <1>8, <1>11, <1>12, <1>13 DEF all, end

\* A wait that listens is told the start of a run.
LEMMA StartsAreTold ==
  ASSUME ClientInv, WaitsListen, NEW line, GiveToListeners(line), line.type # "agent_end",
         NEW i \in Id, wait[i] = "waiting"
  PROVE  events'[i] = Append(events[i], line)
<1>1. \E k \in 1 .. Len(eventListeners) : eventListeners[k] = i
  BY DEF WaitsListen
<1>2. DOMAIN eventListeners = 1 .. Len(eventListeners)
  BY DEF ClientInv, ClientTypes
<1>3. i \in {eventListeners[k] : k \in Notified(eventListeners, FALSE).told}
  BY <1>1, <1>2 DEF Notified
<1>4. (line.type = "agent_end") = FALSE
  OBVIOUS
<1> QED BY <1>3, <1>4 DEF GiveToListeners

LEMMA ReadKeepsCollecting ==
  ASSUME RpcInv, CollectInv, Settled, ReadLine
  PROVE  Collecting' /\ Collected'
<1> USE DEF RpcInv, CollectInv
<1> DEFINE line == Head(toClient)
           has(i) == Only(events[i], EventLine)
<1>0. /\ UNCHANGED <<calls, command, at, subscribed, sessions, continued>>
      /\ toClient # <<>> /\ toClient' = Tail(toClient)
      /\ \/ UNCHANGED <<wait, events>> /\ IsAnswer(line)
         \/ GiveToListeners(line)
  BY DEF ReadLine, runtimeVars
<1>1. /\ line \in AnyLine /\ Pipe' \in Seq(EventLine) /\ Pipe \in Seq(EventLine)
      /\ IF line \in EventLine THEN Pipe = <<line>> \o Pipe' ELSE Pipe' = Pipe
  BY <1>0, PipeRead, PipeType
<1> HIDE DEF line
<1>2. ASSUME NEW i \in Id
      PROVE  \/ UNCHANGED <<wait[i], events[i]>>
             \/ /\ wait[i] = "waiting" /\ events'[i] = Append(events[i], line)
                /\ wait'[i] = IF line.type = "agent_end" THEN "resolved" ELSE "waiting"
  BY <1>0, <1>2, ToldWait
<1>3. line.type = "agent_end" => line \in EventLine
  BY <1>1 DEF AnyLine
<1>4. IsAnswer(line) => line \notin EventLine
  BY DEF IsAnswer, EventLine
<1>5. ASSUME NEW i \in Id, events'[i] = Append(events[i], line)
      PROVE  Only(events'[i], EventLine) =
               IF line \in EventLine THEN Append(has(i), line) ELSE has(i)
  <2>1. PICK s \in Seq(AnyLine) : s = events[i]
    BY SeenType
  <2>2. Only(Append(s, line), EventLine) =
          IF line \in EventLine THEN Append(Only(s, EventLine), line) ELSE Only(s, EventLine)
    BY <1>1, OnlyAppend
  <2> QED BY <1>5, <2>1, <2>2
<1>6. ASSUME NEW i \in Id, Alone(i)'
      PROVE  Alone(i)
  BY <1>0, <1>6, AloneBefore, CallIds DEF Alone, Id
<1>7. ASSUME NEW i \in Id
      PROVE  has(i) \in Seq(EventLine) /\ Seen(i) = has(i) \o Pipe
             /\ Seen(i)' = Only(events'[i], EventLine) \o Pipe'
  BY SeenType DEF Seen
<1> HIDE DEF has
<1>8. ASSUME NEW i \in Id, Alone(i), wait[i] = "waiting", line.type = "agent_end"
      PROVE  /\ Pipe' = <<>> /\ has(i) = Start(i) /\ Append(has(i), line) = StartEnd(i)
             /\ command[i] \in {"ending", "between", "done"}
  <2>1. Seen(i) = has(i) \o (<<line>> \o Pipe') /\ line \in EventLine
    BY <1>1, <1>3, <1>7, <1>8
  <2>2. \/ command[i] \in {"none", "preflight", "starting", "handling"} /\ Seen(i) = <<>>
        \/ command[i] = "running" /\ Seen(i) \in {<<>>, Start(i)}
        \/ command[i] \in {"ending", "between", "done"} /\ Seen(i) \in {<<>>, Start(i), StartEnd(i)}
    BY <1>8 DEF Collecting
  <2>3. has(i) \o (<<line>> \o Pipe') \in {<<>>, Start(i), StartEnd(i)}
    BY <2>1, <2>2
  <2>4. /\ Pipe' = <<>> /\ has(i) = Start(i) /\ Append(has(i), line) = StartEnd(i)
        /\ Seen(i) = StartEnd(i)
    BY <1>1, <1>7, <1>8, <2>1, <2>3, CutAtEnd
  <2>5. StartEnd(i) # <<>> /\ StartEnd(i) # Start(i)
    BY DEF Start, StartEnd
  <2> QED BY <2>2, <2>4, <2>5
<1>9. Collected'
  <2> SUFFICES ASSUME NEW i \in Id, Alone(i)', wait'[i] = "resolved"
               PROVE  /\ Only(events'[i], EventLine) = StartEnd(i)
                      /\ command'[i] \in {"ending", "between", "done"}
                      /\ \A k \in 1 .. Len(Pipe') : Pipe'[k].of # i
    BY DEF Collected, StartEnd, Event
  <2>1. Alone(i)
    BY <1>6
  <2>2. CASE wait[i] = "resolved"
    <3>1. events'[i] = events[i]
      BY <1>2, <2>2
    <3>2. /\ Only(events[i], EventLine) = StartEnd(i)
          /\ command[i] \in {"ending", "between", "done"}
          /\ \A k \in 1 .. Len(Pipe) : Pipe[k].of # i
      BY <2>1, <2>2 DEF Collected
    <3>3. \A k \in 1 .. Len(Pipe') : Pipe'[k].of # i
      <4>1. CASE line \in EventLine
        <5>1. \A k \in 1 .. Len(Pipe') : k + 1 \in 1 .. Len(Pipe) /\ Pipe'[k] = Pipe[k + 1]
          BY <1>1, <4>1, Prepended
        <5> QED BY <3>2, <5>1
      <4> QED BY <1>1, <3>2, <4>1
    <3> QED BY <1>0, <3>1, <3>2, <3>3
  <2>3. CASE wait[i] # "resolved"
    <3>1. wait[i] = "waiting" /\ events'[i] = Append(events[i], line) /\ line.type = "agent_end"
      BY <1>2, <2>3
    <3>2. /\ Pipe' = <<>> /\ Append(has(i), line) = StartEnd(i)
          /\ command[i] \in {"ending", "between", "done"}
      BY <1>8, <2>1, <3>1
    <3>3. Only(events'[i], EventLine) = StartEnd(i)
      BY <1>3, <1>5, <3>1, <3>2
    <3>4. Len(Pipe') = 0
      BY <3>2
    <3> QED BY <1>0, <3>2, <3>3, <3>4
  <2> QED BY <2>2, <2>3
<1>10. Collecting'
  <2> SUFFICES ASSUME NEW i \in Id, Alone(i)', wait'[i] = "waiting"
               PROVE  \/ command'[i] \in {"none", "preflight", "starting", "handling"} /\ Seen(i)' = <<>>
                      \/ /\ command'[i] = "running" /\ Seen(i)' \in {<<>>, Start(i)}
                         /\ Heard(at[i])' => Seen(i)' = Start(i)
                      \/ command'[i] \in {"ending", "between", "done"}
                         /\ Seen(i)' \in {<<>>, Start(i), StartEnd(i)}
    BY DEF Collecting, Start, StartEnd, Event
  <2>1. Alone(i) /\ wait[i] = "waiting"
    BY <1>2, <1>6
  <2>2. CASE Seen(i)' = Seen(i)
    <3>1. \/ command[i] \in {"none", "preflight", "starting", "handling"} /\ Seen(i) = <<>>
          \/ /\ command[i] = "running" /\ Seen(i) \in {<<>>, Start(i)}
             /\ Heard(at[i]) => Seen(i) = Start(i)
          \/ command[i] \in {"ending", "between", "done"} /\ Seen(i) \in {<<>>, Start(i), StartEnd(i)}
      BY <2>1 DEF Collecting
    <3>2. Heard(at[i])' = Heard(at[i])
      BY <1>0 DEF Heard
    <3> QED BY <1>0, <2>2, <3>1, <3>2
  <2>3. CASE line \notin EventLine
    <3>1. Only(events'[i], EventLine) = has(i)
      BY <1>2, <1>5, <2>3 DEF has
    <3> QED BY <1>1, <1>7, <2>2, <2>3, <3>1
  <2>4. CASE line.type = "agent_end"
    <3>1. /\ Pipe' = <<>> /\ has(i) = Start(i) /\ command[i] \in {"ending", "between", "done"}
      BY <1>8, <2>1, <2>4
    <3>2. events'[i] = events[i]
      BY <1>2, <2>4
    <3>3. Seen(i)' = Start(i) \o <<>>
      BY <1>7, <3>1, <3>2 DEF has
    <3> QED BY <1>0, <3>1, <3>3, RunSequences
  <2>5. CASE line \in EventLine /\ line.type # "agent_end"
    <3>1. events'[i] = Append(events[i], line)
      BY <1>0, <1>4, <2>1, <2>5, StartsAreTold
    <3>2. Seen(i)' = Append(has(i), line) \o Pipe' /\ Seen(i) = has(i) \o (<<line>> \o Pipe')
      BY <1>1, <1>5, <1>7, <2>5, <3>1
    <3>3. \A s, t \in Seq(EventLine) : Append(s, line) \o t = s \o (<<line>> \o t)
      BY <2>5
    <3> QED BY <1>1, <1>7, <2>2, <3>2, <3>3
  <2> QED BY <2>3, <2>4, <2>5
<1> QED BY <1>9, <1>10

\* A new call begins with nothing: the runs of the calls before it are collected.
LEMMA CallKeepsCollecting ==
  ASSUME RpcInv, CollectInv, Settled, Call
  PROVE  Collecting' /\ Collected'
<1> USE DEF RpcInv, CollectInv
<1>0. PICK id : id = Len(calls) + 1 /\ ~(id <= Len(calls))
  BY CallIds
<1>1. /\ id \in Id /\ Len(calls') = id
      /\ calls'[id] = program[id] /\ \A i \in 1 .. Len(calls) : calls'[i] = calls[i]
      /\ \A i \in Id : i # id => wait'[i] = wait[i]
      /\ wait'[id] = IF program[id] \in Waits THEN "waiting" ELSE wait[id]
      /\ alone'[id] = (\A j \in 1 .. Len(calls) : Over(j))
  BY <1>0, Called
<1>2. UNCHANGED <<toClient, command, at, subscribed, sessions, continued, events>> /\ Pipe' = Pipe
  BY DEF Call, runtimeVars, Pipe
<1>3. \A i \in Id : Seen(i)' = Seen(i) /\ Heard(at[i])' = Heard(at[i])
  BY <1>2 DEF Seen, Heard
<1>4. wait[id] = "none" /\ command[id] = "none" /\ events[id] = <<>>
  BY <1>0, <1>1 DEF WaitsListen, ServerInv, LinesAreNew, ClientInv, ListenersWait
<1>5. ASSUME NEW i \in Id, Alone(i)', i # id
      PROVE  Alone(i)
  <2>1. i \in 1 .. Len(calls)
    BY <1>0, <1>1, <1>5, CallIds DEF Alone, Id
  <2> QED BY <1>5, <2>1, AloneBefore
<1>6. ASSUME Alone(id)' PROVE Seen(id) = <<>>
  <2>1. ASSUME Len(Pipe) # 0 PROVE FALSE
    <3>1. 1 \in 1 .. Len(Pipe) /\ Pipe[1] \in EventLine
      BY <2>1, PipeType
    <3> DEFINE j == Pipe[1].of
    <3>2. j \in Id /\ j <= Len(calls) /\ calls[j] \in Prompts
      BY <3>1 DEF EventLine, PipeOfPrompts
    <3> HIDE DEF j
    <3>a. alone'[id] /\ continued' \intersect 1 .. id = {}
      BY <1>6 DEF Alone
    <3>b. j \in Nat /\ 1 <= j /\ Len(calls) \in Nat
      BY <3>2, CallIds DEF Id
    <3>3. j \in 1 .. Len(calls) /\ Over(j)
      <4>1. j \in 1 .. Len(calls)
        BY <3>2, <3>b
      <4> QED BY <1>1, <3>a, <4>1
    <3>4. calls[j] = "promptAndWait" /\ wait[j] = "resolved" /\ alone[j]
      BY <3>2, <3>3 DEF Over, Prompts, Waits
    <3>5. continued \intersect 1 .. j = {}
      <4>1. 1 .. j \subseteq 1 .. id
        BY <1>0, <3>2, <3>b
      <4> QED BY <1>2, <3>a, <4>1
    <3>6. Alone(j)
      BY <3>2, <3>4, <3>5 DEF Alone
    <3> QED BY <3>1, <3>2, <3>4, <3>6 DEF Collected, j
  <2>2. Pipe = <<>>
    BY <2>1, PipeType
  <2>3. Only(events[id], EventLine) = <<>>
    BY <1>4, OnlyEmpty
  <2> QED BY <2>2, <2>3 DEF Seen
<1>7. Collecting'
  <2> SUFFICES ASSUME NEW i \in Id, Alone(i)', wait'[i] = "waiting"
               PROVE  \/ command'[i] \in {"none", "preflight", "starting", "handling"} /\ Seen(i)' = <<>>
                      \/ /\ command'[i] = "running" /\ Seen(i)' \in {<<>>, Start(i)}
                         /\ Heard(at[i])' => Seen(i)' = Start(i)
                      \/ command'[i] \in {"ending", "between", "done"}
                         /\ Seen(i)' \in {<<>>, Start(i), StartEnd(i)}
    BY DEF Collecting, Start, StartEnd, Event
  <2>1. CASE i = id
    <3>1. Seen(id) = <<>>
      BY <1>6, <2>1
    <3>2. Seen(i)' = <<>> /\ command'[i] = "none"
      BY <1>2, <1>3, <1>4, <2>1, <3>1
    <3> QED BY <3>2
  <2>2. CASE i # id
    <3>1. Alone(i) /\ wait[i] = "waiting"
      BY <1>1, <1>5, <2>2
    <3>2. \/ command[i] \in {"none", "preflight", "starting", "handling"} /\ Seen(i) = <<>>
          \/ /\ command[i] = "running" /\ Seen(i) \in {<<>>, Start(i)}
             /\ Heard(at[i]) => Seen(i) = Start(i)
          \/ command[i] \in {"ending", "between", "done"} /\ Seen(i) \in {<<>>, Start(i), StartEnd(i)}
      BY <3>1 DEF Collecting
    <3> QED BY <1>2, <1>3, <3>2
  <2> QED BY <2>1, <2>2
<1>8. Collected'
  <2> SUFFICES ASSUME NEW i \in Id, Alone(i)', wait'[i] = "resolved"
               PROVE  /\ Only(events'[i], EventLine) = StartEnd(i)
                      /\ command'[i] \in {"ending", "between", "done"}
                      /\ \A k \in 1 .. Len(Pipe') : Pipe'[k].of # i
    BY DEF Collected, StartEnd, Event
  <2>1. i # id
    BY <1>1, <1>4
  <2>2. Alone(i) /\ wait[i] = "resolved"
    BY <1>1, <1>5, <2>1
  <2> QED BY <1>2, <2>2 DEF Collected
<1> QED BY <1>7, <1>8

-----------------------------------------------------------------------------
\* THE INVARIANT

LEMMA CollectInit == Init => CollectInv
<1> SUFFICES ASSUME Init PROVE CollectInv
  OBVIOUS
<1>1. /\ toServer = <<>> /\ toClient = <<>> /\ command = [i \in Id |-> "none"] /\ calls = <<>>
      /\ replacement = [c \in Id \union {Quit} |-> "none"] /\ continued = {}
      /\ answer = [i \in Id |-> "none"] /\ wait = [i \in Id |-> "none"]
      /\ events = [i \in Id |-> <<>>] /\ alone = [i \in Id |-> FALSE]
  BY DEF Init, RuntimeInit, ModeInit
<1>2. CollectTypes
  <2>1. <<>> \in Seq(AnyLine)
    OBVIOUS
  <2> QED BY <1>1, <2>1 DEF CollectTypes
<1>3. Len(toServer) = 0 /\ Len(calls) = 0
  BY <1>1
<1>4. HandledInv
  BY <1>1, <1>3 DEF HandledInv, KindsMatch, ReadInOrder, SentFirst, ReplacersHandle, PromptStages,
                    Replacing, Tearing
<1>5. Pipe = <<>>
  BY <1>1, OnlyEmpty DEF Pipe
<1>6. PipeOfPrompts
  BY <1>5 DEF PipeOfPrompts
<1>7. WaitsListen /\ OneAtATime /\ Collected /\ Collecting /\ HeardNoMore
  BY <1>1 DEF WaitsListen, OneAtATime, Collected, Collecting, HeardNoMore, Alone
<1> QED BY <1>2, <1>4, <1>6, <1>7 DEF CollectInv

\* Timers, and that the exit is noticed, give nothing to a call and take nothing from it.
LEMMA OthersKeepCollecting ==
  ASSUME CollectInv, ServerInv, Settled,
         UNCHANGED <<calls, command, at, subscribed, sessions, events, toClient>>,
         \A i \in Id : wait'[i] \in {wait[i], "rejected"}
  PROVE  Collecting' /\ Collected'
<1>1. Pipe' = Pipe /\ \A i \in Id : Seen(i)' = Seen(i) /\ Heard(at[i])' = Heard(at[i])
  BY DEF Pipe, Seen, Heard
<1>2. ASSUME NEW i \in Id, Alone(i)' PROVE Alone(i)
  BY <1>2, AloneBefore, CallIds DEF Alone, Id
<1>3. Collecting'
  <2> SUFFICES ASSUME NEW i \in Id, Alone(i)', wait'[i] = "waiting"
               PROVE  \/ command'[i] \in {"none", "preflight", "starting", "handling"} /\ Seen(i)' = <<>>
                      \/ /\ command'[i] = "running" /\ Seen(i)' \in {<<>>, Start(i)}
                         /\ Heard(at[i])' => Seen(i)' = Start(i)
                      \/ command'[i] \in {"ending", "between", "done"}
                         /\ Seen(i)' \in {<<>>, Start(i), StartEnd(i)}
    BY DEF Collecting, Start, StartEnd, Event
  <2>1. Alone(i) /\ wait[i] = "waiting"
    BY <1>2
  <2>2. \/ command[i] \in {"none", "preflight", "starting", "handling"} /\ Seen(i) = <<>>
        \/ /\ command[i] = "running" /\ Seen(i) \in {<<>>, Start(i)}
           /\ Heard(at[i]) => Seen(i) = Start(i)
        \/ command[i] \in {"ending", "between", "done"} /\ Seen(i) \in {<<>>, Start(i), StartEnd(i)}
    BY <2>1 DEF CollectInv, Collecting
  <2> QED BY <1>1, <2>2
<1>4. Collected'
  <2> SUFFICES ASSUME NEW i \in Id, Alone(i)', wait'[i] = "resolved"
               PROVE  /\ Only(events'[i], EventLine) = StartEnd(i)
                      /\ command'[i] \in {"ending", "between", "done"}
                      /\ \A k \in 1 .. Len(Pipe') : Pipe'[k].of # i
    BY DEF Collected, StartEnd, Event
  <2>1. Alone(i) /\ wait[i] = "resolved"
    BY <1>2
  <2> QED BY <1>1, <2>1 DEF CollectInv, Collected
<1> QED BY <1>3, <1>4

LEMMA CollectStep == RpcInv /\ CollectInv /\ [Next]_vars => CollectInv'
<1> SUFFICES ASSUME RpcInv, CollectInv, [Next]_vars PROVE CollectInv'
  OBVIOUS
<1>1. Settled
  BY CallsSettle DEF CollectInv
<1>2. /\ CollectTypes' /\ HandledInv' /\ PipeOfPrompts' /\ WaitsListen' /\ OneAtATime'
      /\ HeardNoMore'
  BY <1>1, CollectTypesKeep, HandledKeeps, PipeKeeps, WaitsKeep, OneAtATimeKeeps, HeardNoMoreKeeps
     DEF CollectInv
<1>3. Collecting' /\ Collected'
  <2>1. CASE ModeNext /\ UNCHANGED clientVars
    BY <1>1, <2>1, ModeKeepsCollecting, ModeKeepsCollected
  <2>2. CASE Call
    BY <1>1, <2>2, CallKeepsCollecting
  <2>3. CASE ReadLine
    BY <1>1, <2>3, ReadKeepsCollecting
  <2>4. ASSUME UNCHANGED <<runtimeVars, modeVars, calls, events>>,
               \A i \in Id : wait'[i] \in {wait[i], "rejected"}
        PROVE  Collecting' /\ Collected'
    BY <1>1, <2>4, OthersKeepCollecting DEF runtimeVars, modeVars, RpcInv
  <2>5. CASE NoticeExit \/ UNCHANGED vars \/ \E id \in Id : RequestTimeout(id)
    BY <2>4, <2>5 DEF NoticeExit, RequestTimeout, vars, clientVars
  <2>6. ASSUME NEW id \in Id, WaitTimeout(id) PROVE Collecting' /\ Collected'
    <3>1. wait' = [wait EXCEPT ![id] = "rejected"] /\ UNCHANGED <<runtimeVars, modeVars, calls, events>>
      BY <2>6 DEF WaitTimeout
    <3>2. \A i \in Id : wait'[i] \in {wait[i], "rejected"}
      BY <3>1 DEF RpcInv, ClientInv, ClientTypes
    <3> QED BY <2>4, <3>1, <3>2
  <2> QED BY <2>1, <2>2, <2>3, <2>5, <2>6 DEF Next
<1> QED BY <1>2, <1>3 DEF CollectInv

LEMMA CollectInvariant == Spec => []CollectInv
BY RpcInvariant, CollectInit, CollectStep, PTL DEF Spec

LEMMA CollectPromise == RpcInv /\ CollectInv => CollectedIsTheRun
<1> SUFFICES ASSUME RpcInv, CollectInv, NEW id \in DOMAIN calls,
                    calls[id] = "promptAndWait", alone[id], continued \intersect 1 .. id = {},
                    wait[id] = "resolved"
             PROVE  Only(events[id], EventLine) = StartEnd(id)
  BY DEF CollectedIsTheRun, StartEnd
<1>1. id \in Id /\ id <= Len(calls)
  <2>1. ServerInv
    BY DEF RpcInv
  <2>2. id \in 1 .. Len(calls) /\ Len(calls) \in Nat /\ 1 .. Len(calls) \subseteq Id
    BY <2>1, CallIds DEF ServerInv, ServerTypes
  <2> QED BY <2>2
<1>2. Alone(id)
  BY <1>1 DEF Alone
<1> QED BY <1>1, <1>2 DEF CollectInv, Collected

\* promptAndWait() returns the events of its own run, from the first to the last, however
\* answers, events, timers and replacements of the session interleave, as long as prompts
\* come one at a time and no run is continued; for any programs and any number of calls.
THEOREM RunsAreCollected == Spec => []CollectedIsTheRun
BY RpcInvariant, CollectInvariant, CollectPromise, PTL
=============================================================================
