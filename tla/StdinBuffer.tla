----------------------------- MODULE StdinBuffer ----------------------------
(***************************************************************************)
(* The StdinBuffer of the terminal interface (tui/src/stdin-buffer.ts): it *)
(* turns the chunks a terminal is read in into key sequences and pastes.   *)
(*                                                                         *)
(* A character is a string: "E" is the escape character; "[", "]", "O",    *)
(* "P" and "_" open sequences after it, "E\\" ends those of "]", "P" and   *)
(* "_", and the bell "b" those of "]" too; "1" is a parameter; "p", "q" and *)
(* "k" stand for the ends "200~", "201~" and "65u" of the paste markers    *)
(* and of the report that the key "A" was pressed.  The terminal is read   *)
(* as text, so the conversion of a single high byte is left out, and so is *)
(* the empty chunk.                                                        *)
(***************************************************************************)
EXTENDS SequencesExt

CONSTANTS
  Keys,      \* what a press of a key may send
  MaxKeys    \* bound: keys pressed

PasteStart == <<"E", "[", "p">>
PasteEnd == <<"E", "[", "q">>
EscapeKey == <<"E">>

Opener == {"[", "]", "O", "P", "_"}
Final == {"A", "M", "u", "p", "q", "k"}   \* 0x40-0x7E

VARIABLES
  stdin,     \* the buffer object: its fields, the armed timer and what it has emitted
  wire,      \* characters sent and not yet read
  pressed,   \* history: the keys
  mishaps    \* history: what has happened of Mishap

stdinVars == <<stdin, wire, pressed, mishaps>>

\* What can make the buffer take keys for others: the timer fires inside a key; a key
\* follows a bare Escape so closely that the two read like another key; a chunk ends
\* between two escape characters and what makes the second one open a sequence.
Mishap == {"pause", "hurry", "border"}

Data(sequence) == [kind |-> "data", text |-> sequence]
Paste(content) == [kind |-> "paste", text |-> content]
Dropped(sequence) == [kind |-> "dropped", text |-> sequence]   \* history: not emitted
Lost(remainder) ==                                             \* history: forgotten
  IF remainder = <<>> THEN <<>> ELSE <<[kind |-> "lost", text |-> remainder]>>

NewBuffer ==
  [buffer |-> <<>>, timeout |-> FALSE, pasteMode |-> FALSE, pasteBuffer |-> <<>>,
   pendingKittyPrintable |-> <<>>, emitted |-> <<>>]

StdinInit == stdin = NewBuffer /\ wire = <<>> /\ pressed = <<>> /\ mishaps = {}

isTerminated(data) ==
  \/ IsSuffix(<<"E", "\\">>, data)
  \/ data[2] = "]" /\ Last(data) = "b"

\* Mutant: the old mouse report is taken for a sequence like any other.
isCompleteWithoutMouse(data) ==
  /\ Len(data) > 1
  /\ CASE data[2] = "[" -> Len(data) > 2 /\ Last(data) \in Final
       [] data[2] \in {"]", "P", "_"} -> isTerminated(data)
       [] data[2] = "O" -> Len(data) >= 3
       [] OTHER -> TRUE

\* isCompleteSequence of a text that begins with the escape character.
isComplete(data) ==
  /\ Len(data) > 1
  /\ CASE data[2] = "[" -> IF Len(data) > 2 /\ data[3] = "M" THEN Len(data) >= 6
                           ELSE Len(data) > 2 /\ Last(data) \in Final
       [] data[2] \in {"]", "P", "_"} -> isTerminated(data)
       [] data[2] = "O" -> Len(data) >= 3
       [] OTHER -> TRUE

\* extractCompleteSequences: the shortest complete sequence from the front, again and
\* again; two escape characters are one sequence unless the second opens another.
RECURSIVE extractCompleteSequences(_)
extractCompleteSequences(buffer) ==
  LET ends == {n \in DOMAIN buffer : isComplete(SubSeq(buffer, 1, n))}
      doubled == Len(buffer) > 2 /\ buffer[2] = "E" /\ buffer[3] \in Opener
      n == IF buffer[1] # "E" \/ doubled THEN 1 ELSE Min(ends)
      rest == extractCompleteSequences(SubSeq(buffer, n + 1, Len(buffer)))
  IN IF buffer = <<>> THEN [sequences |-> <<>>, remainder |-> <<>>]
     ELSE IF buffer[1] = "E" /\ ends = {}
       THEN [sequences |-> <<>>, remainder |-> buffer]
     ELSE [rest EXCEPT !.sequences = <<SubSeq(buffer, 1, n)>> \o @]

\* parseUnmodifiedKittyPrintableCodepoint, as the character it names.
kittyPrintable(sequence) == IF sequence = <<"E", "[", "k">> THEN <<"A">> ELSE <<>>

\* emitDataSequence: a character that only repeats the report before it is dropped.
emitDataSequence(s, sequence) ==
  IF Len(sequence) = 1 /\ sequence = s.pendingKittyPrintable
  THEN [s EXCEPT !.pendingKittyPrintable = <<>>,
                 !.emitted = Append(@, Dropped(sequence))]
  ELSE [s EXCEPT !.pendingKittyPrintable = kittyPrintable(sequence),
                 !.emitted = Append(@, Data(sequence))]

emitAll(s, sequences) == FoldLeft(emitDataSequence, s, sequences)

\* The position of a marker, 0 when it is not in the text.
IndexOf(text, marker) ==
  LET at == {i \in 1 .. Len(text) - Len(marker) + 1 :
               SubSeq(text, i, i + Len(marker) - 1) = marker}
  IN IF at = {} THEN 0 ELSE Min(at)

After(text, i) == SubSeq(text, i, Len(text))

\* process: a paste is collected until its end marker is there, what follows it is
\* processed anew; otherwise what is complete is emitted and the rest waits.  Before a
\* paste nothing waits: what is not complete there is forgotten.
RECURSIVE process(_, _)

\* Inside a paste, with all of it that has come.
processPaste(s, text) ==
  LET end == IndexOf(text, PasteEnd)
      ended == [s EXCEPT !.pasteMode = FALSE, !.pasteBuffer = <<>>,
                         !.pendingKittyPrintable = <<>>,
                         !.emitted = Append(@, Paste(SubSeq(text, 1, end - 1)))]
      remaining == After(text, end + Len(PasteEnd))
  IN IF end = 0 THEN [s EXCEPT !.pasteMode = TRUE, !.pasteBuffer = text]
     ELSE IF remaining = <<>> THEN ended ELSE process(ended, remaining)

process(s, str) ==
  LET text == s.buffer \o str
      start == IndexOf(text, PasteStart)
      before == extractCompleteSequences(SubSeq(text, 1, start - 1))
      all == extractCompleteSequences(text)
      cleared == [s EXCEPT !.timeout = FALSE, !.buffer = <<>>]
  IN IF s.pasteMode THEN processPaste(cleared, s.pasteBuffer \o text)
     ELSE IF start > 0
       THEN processPaste([emitAll(cleared, before.sequences) EXCEPT
                            !.pendingKittyPrintable = <<>>,
                            !.emitted = @ \o Lost(before.remainder)],
                         After(text, start + Len(PasteStart)))
     ELSE [emitAll(cleared, all.sequences) EXCEPT
             !.buffer = all.remainder, !.timeout = all.remainder # <<>>]

\* The terminal sends a key.  After an Escape that still waits, what does not open a
\* sequence of its own gives a text that other keys send too: <<"E", "A">> is also "A"
\* with the meta key.
Press(key) ==
  LET waiting == wire # <<>> \/ stdin.buffer # <<>>
      opens == Len(key) > 1 /\ key[1] = "E" /\ key[2] \in Opener
      hurry == pressed # <<>> /\ Last(pressed) = EscapeKey /\ waiting /\ ~opens
  IN /\ Len(pressed) < MaxKeys
     /\ wire' = wire \o key /\ pressed' = Append(pressed, key)
     /\ mishaps' = mishaps \cup (IF hurry THEN {"hurry"} ELSE {})
     /\ UNCHANGED stdin

\* A chunk of any length is read.
Read(n) ==
  LET s == process(stdin, SubSeq(wire, 1, n))
      paired == ~s.pasteMode /\ s.buffer = <<>> /\ Last(s.emitted) = Data(<<"E", "E">>)
      border == paired /\ n < Len(wire) /\ wire[n + 1] \in Opener
  IN /\ stdin' = s
     /\ wire' = After(wire, n + 1)
     /\ mishaps' = mishaps \cup (IF border THEN {"border"} ELSE {})
     /\ UNCHANGED pressed

\* All that is sent but not yet read is of keys that are whole.
BetweenKeys == \E i \in 0 .. Len(pressed) : wire = FlattenSeq(After(pressed, i + 1))

\* The timer: flush() and one event for all that waited, complete or not.
Timeout ==
  /\ stdin.timeout
  /\ stdin' = emitDataSequence([stdin EXCEPT !.timeout = FALSE, !.buffer = <<>>,
                                             !.pendingKittyPrintable = <<>>], stdin.buffer)
  /\ mishaps' = mishaps \cup (IF BetweenKeys THEN {} ELSE {"pause"})
  /\ UNCHANGED <<wire, pressed>>

StdinNext ==
  \/ \E key \in Keys : Press(key)
  \/ \E n \in DOMAIN wire : Read(n)
  \/ Timeout

\* PROPERTIES

StdinTypeOK ==
  /\ stdin.timeout <=> stdin.buffer # <<>>
  /\ stdin.pasteMode => stdin.buffer = <<>>
  /\ ~stdin.pasteMode => stdin.pasteBuffer = <<>>
  /\ \A i \in DOMAIN pressed : pressed[i] \in Keys
  /\ mishaps \subseteq Mishap

\* What a key means: its sequences or its paste, without the character that repeats a
\* report.
Meaning(key) ==
  IF IsPrefix(PasteStart, key)
    THEN <<Paste(SubSeq(key, Len(PasteStart) + 1, Len(key) - Len(PasteEnd)))>>
  ELSE IF IsPrefix(<<"E", "[", "k">>, key) THEN <<Data(<<"E", "[", "k">>)>>
  ELSE IF Len(key) > 2 /\ key[2] = "E" THEN <<Data(<<"E">>), Data(Tail(key))>>
  ELSE <<Data(key)>>

\* What the buffer has recognised, in order; an Escape that is lost counts as one.
Recognised ==
  LET kept == SelectSeq(stdin.emitted, LAMBDA e : e.kind # "dropped")
  IN [i \in DOMAIN kept |-> IF kept[i].kind = "lost" THEN Data(kept[i].text) ELSE kept[i]]

AllMeant == FlattenSeq([i \in DOMAIN pressed |-> Meaning(pressed[i])])

Arriving ==
  /\ IsPrefix(Recognised, AllMeant)
  /\ wire = <<>> /\ stdin.buffer = <<>> => Recognised = AllMeant

\* However the characters are cut into chunks, every key is recognised whole, once and in
\* order, unless the timer fires inside a key, an Escape and the next key read like one,
\* or a chunk ends between two escape characters and what the second one opens; and when
\* nothing waits, all of them have been.
KeysArriveWhole == mishaps = {} => Arriving

\* The same wherever the chunks end, as stdin-buffer.test.ts:203-205 says of the doubled
\* escape character: it is not a key of its own when what follows opens a sequence.
KeysArriveAtAnyBorder == mishaps \subseteq {"border"} => Arriving

\* The characters that an event stands for.
Sent(event) ==
  IF event.kind = "paste" THEN PasteStart \o event.text \o PasteEnd ELSE event.text

\* Whatever is cut, and whenever, no character that was read is invented, and none is
\* lost but an escape character that waits when a paste begins.
NothingIsLost ==
  /\ \A e \in {stdin.emitted[i] : i \in DOMAIN stdin.emitted} :
       e.kind = "lost" => e.text = EscapeKey
  /\ FlattenSeq(pressed) =
       FlattenSeq([i \in DOMAIN stdin.emitted |-> Sent(stdin.emitted[i])])
         \o (IF stdin.pasteMode THEN PasteStart \o stdin.pasteBuffer ELSE stdin.buffer)
         \o wire
=============================================================================
