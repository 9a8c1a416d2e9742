------------------------------ MODULE BashTool ------------------------------
(***************************************************************************)
(* execute() of the bash tool (coding-agent/src/core/tools/bash.ts): the   *)
(* chunks of the process go through an OutputAccumulator, updates are      *)
(* shown at most every 100 ms, and what is left at the end is the result.  *)
(* The process writes whole characters, but may be killed inside one, and  *)
(* the chunks cut its output anywhere.                                     *)
(***************************************************************************)
EXTENDS OutputAccumulator

CONSTANT MaxToolOutput   \* bound: bytes of the whole output

ASSUME ToolAssumption == MaxToolOutput \in Nat

VARIABLES
  output,        \* the accumulator
  updateDirty,   \* bytes have arrived since the last update
  updateTimer    \* an update is scheduled

toolVars == <<output, updateDirty, updateTimer>>

ToolTypeOK ==
  /\ WellFormed(written) /\ Len(written) <= MaxToolOutput
  /\ output.totalRawBytes = Len(written)
  /\ output.tempFile # NoFile \/ ~output.tempFileOpen
  /\ updateDirty \in BOOLEAN /\ updateTimer \in BOOLEAN
  /\ result # Running => output.finished

ToolInit == output = NewAccumulator /\ updateDirty = FALSE /\ updateTimer = FALSE

\* Mutant: an update that comes too early is dropped instead of scheduled.
HandleDataUnscheduled(data) ==
  /\ Arrives(data, MaxToolOutput)
  /\ output' = append(output, data)
  /\ updateDirty' = TRUE
  /\ UNCHANGED <<updateTimer, result>>

\* handleData with scheduleOutputUpdate: the update is shown at once when the last one
\* is old enough, and otherwise waits for the one timer.
HandleData(data) ==
  /\ Arrives(data, MaxToolOutput)
  /\ \/ /\ output' = persistIfTruncated(append(output, data))
        /\ updateDirty' = FALSE /\ updateTimer' = FALSE
     \/ /\ output' = append(output, data)
        /\ updateDirty' = TRUE /\ updateTimer' = TRUE
  /\ UNCHANGED result

\* The timer of scheduleOutputUpdate: emitOutputUpdate.
UpdateTimer ==
  /\ updateTimer
  /\ updateTimer' = FALSE /\ updateDirty' = FALSE
  /\ output' = IF updateDirty THEN persistIfTruncated(output) ELSE output
  /\ UNCHANGED <<written, result>>

\* finishOutput, however the process ended: the last update and the result are taken of
\* the same output.
FinishOutput ==
  /\ result = Running
  /\ LET finished == finish(output) IN
     /\ output' = closeTempFile(persistIfTruncated(finished))
     /\ result' = snapshot(finished)
  /\ updateDirty' = FALSE /\ updateTimer' = FALSE
  /\ UNCHANGED written

ToolNext ==
  \/ \E data \in Chunk : HandleData(data)
  \/ UpdateTimer
  \/ FinishOutput

\* PROPERTIES

\* What the accumulator has decoded of the bytes that arrived.
Decoded ==
  Complete(written) \o (IF output.finished THEN Flushed(HeldBack(written)) ELSE <<>>)

\* The counts kept chunk by chunk are those of the whole text: its bytes, its lines, and
\* the bytes of the line that is still open (the numbers shown with a cut output).
CountsAreOfTheWhole ==
  LET starts == LineStarts(Decoded) IN
  /\ output.totalDecodedBytes = Len(Decoded)
  /\ totalLines(output) = Cardinality(starts)
  /\ output.hasOpenLine => output.currentLineBytes = Len(Decoded) - Max(starts) + 1

\* However long the output, the tail in memory stays bounded, and holds every line a
\* snapshot may show: the last bytes of the text, from a place where a character begins.
TailIsTheEnd ==
  /\ IsSuffix(output.tailText, Decoded)
  /\ Len(output.tailText) <= MaxRollingBytes * 2
  /\ \/ output.tailText = Decoded
     \/ Len(output.tailText) >= MaxRollingBytes - 2
  /\ output.tailText # <<>> => output.tailText[1] # "t"

\* A snapshot of the tail shows the lines that truncating the whole output would show,
\* whenever the last line fits the limit.
ShowsTheLastLines ==
  LET whole == truncateTail(Decoded) IN
  ~whole.lastLinePartial => SameLines(snapshot(output).content, whole.content)

\* The file named with a cut output holds all of it: what came before the file was
\* opened and what came after, byte by byte; and a result that is cut names a file.
FileHoldsEverything ==
  /\ output.tempFile # NoFile => output.tempFile = written
  /\ result # Running /\ result.truncated => output.tempFile # NoFile
=============================================================================
