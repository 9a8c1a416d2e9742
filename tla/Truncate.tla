------------------------------ MODULE Truncate ------------------------------
(***************************************************************************)
(* What is kept of an output that is too long                              *)
(* (coding-agent/src/core/tools/truncate.ts).                              *)
(*                                                                         *)
(* A text is the sequence of the bytes of its UTF-8 form: "a" is a         *)
(* character of one byte, "n" a line feed, "h" opens a character of two    *)
(* bytes, "r" the replacement character of three, and "t" is every further *)
(* byte of a character.  A line is known by the position it starts at.     *)
(***************************************************************************)
EXTENDS SequencesExt

CONSTANTS MaxLines, MaxBytes   \* DEFAULT_MAX_LINES, DEFAULT_MAX_BYTES

ASSUME LimitsAssumption == MaxLines \in Nat \ {0} /\ MaxBytes \in Nat \ {0}

NoLimit == "none"   \* truncatedBy is null

\* splitLinesForCounting: a line feed at the very end opens no further line.
LineStarts(text) == {i \in DOMAIN text : i = 1 \/ text[i - 1] = "n"}

\* The last byte of the last line.
LastByte(text) == Len(text) - (IF text # <<>> /\ Last(text) = "n" THEN 1 ELSE 0)

\* The text from `start` on without its last line feed: the lines joined again.
JoinFrom(text, start) == SubSeq(text, start, LastByte(text))

\* No character is cut: the first byte at or after `start` that begins one.
CharStart(text, start) ==
  Min({i \in start .. Len(text) : text[i] # "t"} \union {Len(text) + 1})

\* truncateStringToBytesFromEnd
EndOf(line) ==
  SubSeq(line, CharStart(line, Max({1, Len(line) - MaxBytes + 1})), Len(line))

\* How many lines start at or after position i.
LinesFrom(text, i) == Cardinality({j \in LineStarts(text) : j >= i})

\* truncateTail: the last lines that fit both limits, or the end of the last line when
\* not even that one fits.
truncateTail(text) ==
  LET starts == LineStarts(text)
      fits == {i \in starts : /\ LinesFrom(text, i) <= MaxLines
                              /\ LastByte(text) - i + 1 <= MaxBytes}
      kept == IF fits = {} THEN EndOf(JoinFrom(text, Max(starts)))
              ELSE JoinFrom(text, Min(fits))
      lines == IF fits = {} THEN 1 ELSE Cardinality(fits)
  IN IF Cardinality(starts) <= MaxLines /\ Len(text) <= MaxBytes
     THEN [content |-> text, truncated |-> FALSE, truncatedBy |-> NoLimit,
           outputLines |-> Cardinality(starts), lastLinePartial |-> FALSE]
     ELSE [content |-> kept, truncated |-> TRUE,
           truncatedBy |-> IF \/ fits = {} /\ MaxLines > 1
                              \/ lines < MaxLines /\ fits # starts
                           THEN "bytes" ELSE "lines",
           outputLines |-> lines, lastLinePartial |-> fits = {}]

\* A content shows the same lines as another when it is that one, or that one with its
\* last line ended.
SameLines(content, other) == content \in {other, Append(other, "n")}

=============================================================================
