---------------------------- MODULE BashExecutor ----------------------------
(***************************************************************************)
(* executeBashWithOperations (coding-agent/src/core/bash-executor.ts), the *)
(* way a shell command of the user is run: chunks are kept in a list whose *)
(* first ones are dropped when it grows too long, the whole goes to a      *)
(* temporary file once it is long, and the end of the list is the output.  *)
(* The sanitising of a chunk keeps every byte modelled here.               *)
(***************************************************************************)
EXTENDS ProcessOutput

CONSTANT MaxExecutorOutput   \* bound: bytes of the whole output

ASSUME ExecutorAssumption == MaxExecutorOutput \in Nat

VARIABLES
  outputChunks,   \* the decoded chunks still in memory
  tempFile        \* what the temporary file holds, NoFile before it is opened

executorVars == <<outputChunks, tempFile>>

\* text.length counts characters, not bytes.
Length(text) == Cardinality({i \in DOMAIN text : text[i] # "t"})

Buffered(chunks) == FlattenSeq(chunks)

ExecutorTypeOK ==
  /\ WellFormed(written) /\ Len(written) <= MaxExecutorOutput
  /\ IsSuffix(Buffered(outputChunks), Complete(written))
  /\ Length(Buffered(outputChunks)) <= Max({MaxBytes * 2, MaxChunk})

ExecutorInit == outputChunks = <<>> /\ tempFile = NoFile

\* ensureTempFile: a new file gets the chunks in memory.
ensured(chunks) == IF tempFile = NoFile THEN Buffered(chunks) ELSE tempFile

\* Chunks are dropped from the front while more than one is left and they are too long.
DropOldest(chunks) ==
  LET kept == {k \in DOMAIN chunks :
                 \/ k = Len(chunks)
                 \/ Length(Buffered(SubSeq(chunks, k, Len(chunks)))) <= MaxBytes * 2}
  IN SubSeq(chunks, Min(kept), Len(chunks))

\* onData: the decoder holds an unfinished character back; the file is opened before the
\* new chunk joins the list, and then gets it.
OnData(data) ==
  LET text == Complete(HeldBack(written) \o data) IN
  /\ Arrives(data, MaxExecutorOutput)
  /\ tempFile' = IF Len(written') > MaxBytes \/ tempFile # NoFile
                 THEN ensured(outputChunks) \o text ELSE NoFile
  /\ outputChunks' = DropOldest(Append(outputChunks, text))
  /\ UNCHANGED result

\* The command ends or is cancelled: what is in memory is truncated and returned.
Finish ==
  LET fullOutput == Buffered(outputChunks)
      truncation == truncateTail(fullOutput)
  IN /\ result = Running
     /\ tempFile' = IF truncation.truncated THEN ensured(outputChunks) ELSE tempFile
     /\ result' = [output |-> truncation.content, truncated |-> truncation.truncated]
     /\ UNCHANGED <<written, outputChunks>>

\* The operations fail otherwise: the file is closed and the error thrown.
Fail ==
  /\ result = Running
  /\ result' = Thrown
  /\ UNCHANGED <<written, outputChunks, tempFile>>

ExecutorNext ==
  \/ \E data \in Chunk : OnData(data)
  \/ Finish
  \/ Fail

\* PROPERTIES

Returned == result \notin {Running, Thrown}

\* The text the decoder made of the output: it is never told of the end, so a character
\* cut off by the end of the process is dropped.
DecodedText == Complete(written)

\* No byte of the output is lost: what the list of chunks has dropped, and what the
\* result leaves out, is in the file that the result names.
WhatIsLeftOutIsInTheFile ==
  /\ DecodedText # Buffered(outputChunks) => tempFile # NoFile
  /\ Returned /\ result.output # DecodedText => tempFile # NoFile
  /\ tempFile # NoFile => tempFile = DecodedText

\* The output is the end of what the command wrote, and all that the limits allow
\* unless chunks were dropped.
OutputIsTheEnd ==
  Returned =>
    /\ \/ IsSuffix(result.output, DecodedText)
       \/ IsSuffix(Append(result.output, "n"), DecodedText)
    /\ Buffered(outputChunks) = DecodedText => result.output = truncateTail(DecodedText).content
=============================================================================
