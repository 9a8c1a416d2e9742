--------------------------- MODULE ProcessOutput ----------------------------
(***************************************************************************)
(* The output of a shell command as its collectors get it: chunks that may *)
(* be cut anywhere, made into text by a TextDecoder.  The process writes   *)
(* whole characters, but may be killed inside one.                         *)
(***************************************************************************)
EXTENDS Truncate

CONSTANTS
  MaxChunk,   \* bound: bytes in one chunk
  NoFile,     \* tempFilePath is undefined
  Running,    \* the result of a command that has not ended
  Thrown      \* the result is an exception

ASSUME ChunkAssumption == MaxChunk \in Nat \ {0}

VARIABLES
  written,    \* history: every byte of the process that arrived
  result      \* what the collector returns, Running before

Chunk == UNION {[1 .. n -> {"a", "n", "h", "t"}] : n \in 1 .. MaxChunk}

\* The bytes a process may write next: whole characters, cut anywhere.
WellFormed(bytes) ==
  \A i \in DOMAIN bytes : bytes[i] = "t" <=> i > 1 /\ bytes[i - 1] = "h"

\* TextDecoder.decode(data, {stream: true}): an unfinished character is held back.
HeldBack(bytes) == IF bytes # <<>> /\ Last(bytes) = "h" THEN <<"h">> ELSE <<>>
Complete(bytes) == IF HeldBack(bytes) = <<>> THEN bytes ELSE Front(bytes)

\* decode() at the end: what was held back becomes the replacement character.
Flushed(held) == IF held = <<>> THEN <<>> ELSE <<"r", "t", "t">>

OutputInit == written = <<>> /\ result = Running

\* A chunk arrives, within a bound on the whole output.
Arrives(data, bound) ==
  /\ result = Running
  /\ Len(written) + Len(data) <= bound /\ WellFormed(written \o data)
  /\ written' = written \o data
=============================================================================
