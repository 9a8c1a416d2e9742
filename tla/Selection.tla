----------------------------- MODULE Selection -----------------------------
(* Elements picked out of a sequence, as the loops over the entries of a   *)
(* session do it: by a recursive function of positions, of which induction *)
(* tells what it computes.                                                 *)
EXTENDS SequencesExt

(* The members of T among the elements of s, in order.                     *)
Only(s, T) ==
  LET of[n \in 0..Len(s)] ==
        IF n = 0 THEN <<>> ELSE IF s[n] \in T THEN Append(of[n - 1], s[n]) ELSE of[n - 1]
  IN of[Len(s)]
=============================================================================
