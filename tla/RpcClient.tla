------------------------------ MODULE RpcClient -----------------------------
(***************************************************************************)
(* RpcClient (coding-agent/src/modes/rpc/rpc-client.ts) and the RPC mode   *)
(* it talks to, over two pipes.  A call is one method of the client; the   *)
(* program that uses it may call again at any time, or wait.               *)
(***************************************************************************)
EXTENDS RpcMode, Selection

CONSTANTS
  Programs,     \* the methods called, in order
  MaxTimeouts   \* bound: timers that fire

Method == {"prompt", "abort", "get_state", "new_session", "promptAndWait", "waitForIdle"}

ASSUME ProgramsAssumption == \A p \in Programs : p \in Seq(Method) /\ Len(p) <= MaxIds

VARIABLES
  program,          \* which of the programs is run
  timeouts,         \* the timers that have fired
  calls,            \* the methods called, by their ids
  pendingRequests,  \* requests waiting for their answer
  answer,           \* how the request of each call was settled
  eventListeners,   \* the waits subscribed to events, by their ids
  events,           \* what each wait has collected
  wait,             \* how each wait was settled
  exitError,        \* the exit of the process has been noticed
  alone             \* history: see CollectedIsTheRun

clientVars ==
  <<program, timeouts, calls, pendingRequests, answer, eventListeners, events, wait,
    exitError, alone>>

vars == <<runtimeVars, modeVars, clientVars>>

Waits == {"promptAndWait", "waitForIdle"}
Prompts == {"prompt", "promptAndWait"}

\* The command a method sends.
Type(method) == IF method = "promptAndWait" THEN "prompt" ELSE method

TypeOK ==
  /\ pendingRequests \subseteq {i \in Id : answer[i] = "waiting"}
  /\ \A i \in DOMAIN eventListeners : wait[eventListeners[i]] = "waiting"
  /\ \A i \in Id : events[i] # <<>> => wait[i] # "none"
  /\ \A i \in Id : command[i] # "none" => i \in DOMAIN calls
  /\ \A s \in DOMAIN run : run[s] # 0 =>
       command[run[s]] \in {"recovering", "recovered", "running", "ending"} /\ at[run[s]] = s
  /\ session \in DOMAIN sessions /\ hosted \in DOMAIN sessions
  /\ subscribed \in DOMAIN sessions \union {0}

Init ==
  /\ RuntimeInit /\ ModeInit
  /\ program \in Programs /\ timeouts = 0
  /\ calls = <<>> /\ pendingRequests = {} /\ eventListeners = <<>>
  /\ answer = [i \in Id |-> "none"] /\ wait = [i \in Id |-> "none"]
  /\ events = [i \in Id |-> <<>>] /\ exitError = FALSE
  /\ alone = [i \in Id |-> FALSE]

\* The call has got what it was made for.  A prompt beside another may have returned with
\* the end of that one's run, and its own run be still to come.
Over(i) ==
  IF calls[i] \in Waits THEN /\ wait[i] = "resolved" /\ answer[i] \in {"none", "ok"}
                             /\ calls[i] = "promptAndWait" => alone[i]
  ELSE calls[i] # "prompt" /\ answer[i] \in {"ok", "error"}

\* A method is called: a wait subscribes first, then send() writes the command, or
\* throws when the process is known to have exited.
Call ==
  LET id == Len(calls) + 1
      method == program[id]
      sends == method # "waitForIdle" /\ ~exitError
  IN /\ id \in DOMAIN program
     /\ calls' = Append(calls, method)
     /\ IF method \in Waits
        THEN /\ eventListeners' = Append(eventListeners, id)
             /\ wait' = [wait EXCEPT ![id] = "waiting"]
        ELSE UNCHANGED <<eventListeners, wait>>
     /\ pendingRequests' = IF sends THEN pendingRequests \union {id} ELSE pendingRequests
     /\ answer' = [answer EXCEPT ![id] = IF method = "waitForIdle" THEN @
                                         ELSE IF sends THEN "waiting" ELSE "rejected"]
     /\ toServer' = IF sends /\ alive THEN Append(toServer, [id |-> id, type |-> Type(method)])
                    ELSE toServer
     /\ alone' = [i \in Id |-> IF i = id THEN \A j \in DOMAIN calls : Over(j)
                               ELSE alone[i] /\ (method \notin Prompts \/ Over(i))]
     /\ UNCHANGED <<runtimeVars, toClient, command, at, run, alive, answers,
                    continued, events, exitError, program, timeouts>>

\* Mutant: a wait that has resolved goes on collecting.
NotifiedForEver(listeners, ends) == [told |-> DOMAIN listeners, left |-> listeners]

\* handleLine gives an event to the listeners one after another.  A wait that resolves
\* takes itself out of the list in the middle of this: the one after it is passed over.
Notified(listeners, ends) ==
  IF ~ends THEN [told |-> DOMAIN listeners, left |-> listeners]
  ELSE [told |-> {k \in DOMAIN listeners : k % 2 = 1},
        left |-> [k \in 1 .. Len(listeners) \div 2 |-> listeners[2 * k]]]

GiveToListeners(line) ==
  LET ends == line.type = "agent_end"
      notified == Notified(eventListeners, ends)
      told == {eventListeners[k] : k \in notified.told}
  IN /\ events' = [i \in Id |-> IF i \in told THEN Append(events[i], line) ELSE events[i]]
     /\ wait' = [i \in Id |-> IF i \in told /\ ends THEN "resolved" ELSE wait[i]]
     /\ eventListeners' = notified.left
     /\ UNCHANGED <<pendingRequests, answer>>

IsAnswer(line) == line.type = "response" /\ line.of \in pendingRequests

\* handleLine: an answer nobody waits for any more is taken for an event.
ReadLine ==
  LET line == Head(toClient) IN
  /\ toClient # <<>>
  /\ toClient' = Tail(toClient)
  /\ IF IsAnswer(line)
     THEN /\ pendingRequests' = pendingRequests \ {line.of}
          /\ answer' = [answer EXCEPT ![line.of] = IF line.ok THEN "ok" ELSE "error"]
          /\ UNCHANGED <<eventListeners, events, wait>>
     ELSE GiveToListeners(line)
  /\ UNCHANGED <<runtimeVars, toServer, command, at, run, alive, answers,
                 continued, calls, exitError, alone, program, timeouts>>

\* The timer of a request: its answer may still come.
RequestTimeout(id) ==
  /\ answer[id] = "waiting"
  /\ timeouts < MaxTimeouts /\ timeouts' = timeouts + 1
  /\ pendingRequests' = pendingRequests \ {id}
  /\ answer' = [answer EXCEPT ![id] = "rejected"]
  /\ UNCHANGED <<runtimeVars, modeVars, program, calls, eventListeners, events, wait,
                 exitError, alone>>

\* The timer of a wait.
WaitTimeout(id) ==
  /\ wait[id] = "waiting"
  /\ timeouts < MaxTimeouts /\ timeouts' = timeouts + 1
  /\ wait' = [wait EXCEPT ![id] = "rejected"]
  /\ \E k \in DOMAIN eventListeners :
       eventListeners[k] = id /\ eventListeners' = RemoveAt(eventListeners, k)
  /\ UNCHANGED <<runtimeVars, modeVars, program, calls, pendingRequests, answer, events,
                 exitError, alone>>

\* The process has exited: no request waits on.  What it wrote may still be unread.
NoticeExit ==
  /\ ~alive /\ ~exitError /\ exitError' = TRUE
  /\ answer' = [i \in Id |-> IF i \in pendingRequests THEN "rejected" ELSE answer[i]]
  /\ pendingRequests' = {}
  /\ UNCHANGED <<runtimeVars, modeVars, program, timeouts, calls, eventListeners, events,
                 wait, alone>>

Next ==
  \/ ModeNext /\ UNCHANGED clientVars
  \/ Call
  \/ ReadLine
  \/ NoticeExit
  \/ \E id \in Id : RequestTimeout(id) \/ WaitTimeout(id)

Spec == Init /\ [][Next]_vars

\* PROPERTIES

\* Every command is answered once, by whichever of its ways through the handlers, and a
\* request is settled by its own answer; after an exit none waits on.  Every variable has
\* its type.
EveryCommandIsAnswered ==
  LET underWay == {"preflight", "recovering", "recovered", "starting", "handling",
                   "replacing", "aborting"} IN
  /\ TypeOK
  /\ \A id \in Id :
       /\ answers[id] <= 1
       /\ command[id] \in underWay => answers[id] = 0
       /\ command[id] \notin underWay \union {"none"} => answers[id] = 1
       /\ answer[id] \in {"ok", "error"} => answers[id] = 1
  /\ exitError => pendingRequests = {}

\* promptAndWait() returns the events of its own run, from the first to the last, however
\* its answer, the events and other commands interleave (and besides them only answers
\* that came too late); provided that prompts come one at a time (whatever was called
\* before it is over, and no prompt comes meanwhile), and that no run is continued, as the
\* wait ends with the first agent_end.
EventLine == [type : {"agent_start", "agent_end"}, of : Id]
CollectedIsTheRun ==
  \A id \in DOMAIN calls :
    /\ calls[id] = "promptAndWait" /\ alone[id] /\ continued \intersect 1 .. id = {}
    /\ wait[id] = "resolved" /\ answer[id] \in {"ok", "error"}
    => Only(events[id], EventLine) = <<Event(id, "agent_start"), Event(id, "agent_end")>>
=============================================================================
