-------------------------- MODULE MCChunkedStreams --------------------------
(* ChunkedStreams with keys of the kinds that extractCompleteSequences and *)
(* process treat differently.  The mouse report "[<1;1;1M" ends where any  *)
(* other "[" sequence of digits would, and "_" sequences where "P" ones;   *)
(* of the keys pressed with the meta key Escape is the hardest.            *)
EXTENDS ChunkedStreams

WezTermEscape == <<"E", "E", "[", "1", "u">>   \* pressed as a byte, released as a report

TerminalKeys ==
  { <<"A">>, EscapeKey,
    <<"E", "E">>,                                   \* with the meta key
    WezTermEscape,
    <<"E", "[", "A">>,                              \* a cursor key
    <<"E", "O", "A">>,                              \* a function key
    <<"E", "[", "M", "A", "1", "A">>,               \* the old mouse report
    <<"E", "P", "E", "\\">>,                        \* an answer of the terminal
    <<"E", "]", "b">>,                              \* one that a bell ends
    <<"E", "[", "k", "A">>,                         \* a letter, reported and sent
    <<"E", "[", "p", "E", "E", "[", "q">> }        \* a paste, of an escape character

WezTermKeys == {<<"A">>, WezTermEscape, <<"E", "[", "A">>, <<"E", "P", "E", "\\">>}
=============================================================================
