--------------------------- MODULE ChunkedStreams ---------------------------
(* The three components that read a stream whose chunks may be cut at any  *)
(* byte: the bash tool and the shell commands of the user read the output  *)
(* of a process, the terminal interface reads the keys.  They do not call  *)
(* one another and share no state, so a behaviour exercises one of them    *)
(* and leaves the others at their initial state.                           *)
EXTENDS BashTool, BashExecutor, StdinBuffer

VARIABLE component

vars == <<component, written, result, toolVars, executorVars, stdinVars>>

Components == {"tool", "executor", "stdin"}

Init ==
  /\ component \in Components
  /\ OutputInit /\ ToolInit /\ ExecutorInit /\ StdinInit

Next ==
  \/ /\ component = "tool" /\ ToolNext
     /\ UNCHANGED <<component, executorVars, stdinVars>>
  \/ /\ component = "executor" /\ ExecutorNext
     /\ UNCHANGED <<component, toolVars, stdinVars>>
  \/ /\ component = "stdin" /\ StdinNext
     /\ UNCHANGED <<component, written, result, toolVars, executorVars>>

\* A timer that is set fires.
TimerFires ==
  \/ UpdateTimer /\ UNCHANGED <<component, executorVars, stdinVars>>
  \/ Timeout /\ UNCHANGED <<component, written, result, toolVars, executorVars>>

Spec == Init /\ [][Next]_vars /\ WF_vars(TimerFires)

\* PROPERTIES

\* At every point of an output of any length, the snapshot shown of it is what truncating
\* all that has arrived would show, although only a tail is in memory and the numbers are
\* kept chunk by chunk.
SnapshotIsOfTheWhole ==
  component = "tool" =>
    ToolTypeOK /\ CountsAreOfTheWhole /\ TailIsTheEnd /\ ShowsTheLastLines

\* Of an output that is cut nothing is lost: wherever the file is opened, by a chunk, a
\* snapshot or the end, it holds the output from its first byte.
CutOutputIsInTheFile ==
  /\ component = "tool" => FileHoldsEverything
  /\ component = "executor" => ExecutorTypeOK /\ WhatIsLeftOutIsInTheFile /\ OutputIsTheEnd

\* However the characters are cut into chunks, every key is recognised whole, once and in
\* order, unless the timer fires inside one, an Escape and the next key read like one, or
\* a chunk ends between two escape characters and what the second one opens; and even then
\* no character is invented, and none lost but an escape character before a paste.
KeysArrive == StdinTypeOK /\ KeysArriveWhole /\ NothingIsLost

\* Nothing that was read waits for more to come: an update held back is shown, and the
\* beginning of a key emitted, although nothing follows.
NothingWaitsForMore ==
  (updateDirty \/ stdin.buffer # <<>>) ~> (~updateDirty /\ stdin.buffer = <<>>)
=============================================================================
