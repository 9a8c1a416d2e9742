------------------------- MODULE OutputAccumulator --------------------------
(***************************************************************************)
(* The OutputAccumulator of the bash tool                                  *)
(* (coding-agent/src/core/tools/output-accumulator.ts): it decodes the     *)
(* chunks of an output, keeps its tail and its counts, and writes the      *)
(* whole to a temporary file once it is too long.  An accumulator is a     *)
(* record; tailBytes is the length of tailText.                            *)
(***************************************************************************)
EXTENDS ProcessOutput

MaxRollingBytes == MaxBytes * 2

NewAccumulator ==
  [rawChunks |-> <<>>, tailText |-> <<>>, tailStartsAtLineBoundary |-> TRUE,
   totalRawBytes |-> 0, totalDecodedBytes |-> 0, completedLines |-> 0,
   currentLineBytes |-> 0, hasOpenLine |-> FALSE, decoder |-> <<>>,
   finished |-> FALSE, tempFile |-> NoFile, tempFileOpen |-> FALSE]

totalLines(acc) == acc.completedLines + (IF acc.hasOpenLine THEN 1 ELSE 0)

\* trimTail, called when the tail has grown to more than twice what is kept.
trimTail(acc) ==
  LET start == CharStart(acc.tailText, Len(acc.tailText) - MaxRollingBytes + 1)
  IN IF Len(acc.tailText) <= MaxRollingBytes * 2 THEN acc
     ELSE [acc EXCEPT !.tailText = SubSeq(@, start, Len(@)),
                      !.tailStartsAtLineBoundary = acc.tailText[start - 1] = "n"]

\* Mutant: the open line starts anew with every chunk.
CountLinesPerChunk(acc, text) ==
  [acc EXCEPT !.completedLines = @ + Cardinality({i \in DOMAIN text : text[i] = "n"}),
              !.currentLineBytes = Len(text), !.hasOpenLine = Last(text) # "n"]

\* The counts of lines: a text without a line feed makes the open line longer.
CountLines(acc, text) ==
  LET feeds == {i \in DOMAIN text : text[i] = "n"}
      rest == Len(text) - Max(feeds)
  IN IF feeds = {}
     THEN [acc EXCEPT !.currentLineBytes = @ + Len(text), !.hasOpenLine = TRUE]
     ELSE [acc EXCEPT !.completedLines = @ + Cardinality(feeds),
                      !.currentLineBytes = rest, !.hasOpenLine = rest > 0]

appendDecodedText(acc, text) ==
  IF text = <<>> THEN acc
  ELSE CountLines(trimTail([acc EXCEPT !.totalDecodedBytes = @ + Len(text),
                                       !.tailText = @ \o text]), text)

shouldUseTempFile(acc) ==
  \/ acc.totalRawBytes > MaxBytes
  \/ acc.totalDecodedBytes > MaxBytes
  \/ totalLines(acc) > MaxLines

\* Mutant: the chunks from before the file was opened are not written to it.
ensureTempFileEmpty(acc) ==
  IF acc.tempFile # NoFile THEN acc
  ELSE [acc EXCEPT !.tempFile = <<>>, !.tempFileOpen = TRUE, !.rawChunks = <<>>]

ensureTempFile(acc) ==
  IF acc.tempFile # NoFile THEN acc
  ELSE [acc EXCEPT !.tempFile = acc.rawChunks, !.tempFileOpen = TRUE,
                   !.rawChunks = <<>>]

\* append: a file that was closed gets nothing more.
append(acc, data) ==
  LET bytes == acc.decoder \o data
      counted == appendDecodedText([acc EXCEPT !.totalRawBytes = @ + Len(data),
                                               !.decoder = HeldBack(bytes)],
                                   Complete(bytes))
      filed == ensureTempFile(counted)
  IN IF counted.tempFileOpen \/ shouldUseTempFile(counted)
     THEN [filed EXCEPT !.tempFile = IF filed.tempFileOpen THEN @ \o data ELSE @]
     ELSE [counted EXCEPT !.rawChunks = @ \o data]

finish(acc) ==
  LET flushed == appendDecodedText([acc EXCEPT !.finished = TRUE, !.decoder = <<>>],
                                   Flushed(acc.decoder))
  IN IF acc.finished THEN acc
     ELSE IF shouldUseTempFile(flushed) THEN ensureTempFile(flushed) ELSE flushed

\* getSnapshotText: a line whose beginning was trimmed away is left out, unless the
\* tail has no other.
getSnapshotText(acc) ==
  LET feeds == {i \in DOMAIN acc.tailText : acc.tailText[i] = "n"}
  IN IF acc.tailStartsAtLineBoundary \/ feeds = {} THEN acc.tailText
     ELSE SubSeq(acc.tailText, Min(feeds) + 1, Len(acc.tailText))

\* What snapshot() returns, but for the limits and the path of the file.
snapshot(acc) ==
  LET tail == truncateTail(getSnapshotText(acc))
      truncated == totalLines(acc) > MaxLines \/ acc.totalDecodedBytes > MaxBytes
  IN [tail EXCEPT
        !.truncated = truncated,
        !.truncatedBy = IF ~truncated THEN NoLimit
                        ELSE IF @ # NoLimit THEN @
                        ELSE IF acc.totalDecodedBytes > MaxBytes THEN "bytes"
                        ELSE "lines"]

\* What snapshot({persistIfTruncated: true}) leaves behind.
persistIfTruncated(acc) ==
  IF snapshot(acc).truncated THEN ensureTempFile(acc) ELSE acc

closeTempFile(acc) == [acc EXCEPT !.tempFileOpen = FALSE]
=============================================================================
