-------------------------- MODULE MCSessionManager --------------------------
(* SessionManager on a small instance: sessions of three entries of every  *)
(* kind, dying between or within two lines and resumed; four answers with  *)
(* a refused write beside; a refused write, resumed after it where the     *)
(* kinds tell labels and compactions apart; and a fourth entry in a        *)
(* session that nothing happens to.                                        *)
EXTENDS SessionManager

Limit(entries, opensOf, kinds, faults) ==
  [entries |-> entries, opens |-> opensOf, kinds |-> kinds, faults |-> faults]

SmallLimits ==
  {Limit(3, 3, EntryKind, {"crash", "torn"}),
   Limit(4, 2, {"assistant"}, {"crash", "torn", "refused"}),
   Limit(3, 2, {"user", "assistant", "label", "compaction"}, {"refused"}),
   Limit(3, 1, {"assistant", "summary", "setting"}, {"refused"}),
   Limit(4, 1, {"user", "label", "compaction"}, {}),
   Limit(4, 1, {"assistant", "label"}, {})}

\* A labelled conversation goes on, and is cloned.
CloneLimits == {Limit(4, 1, {"user", "label"}, {})}
=============================================================================
