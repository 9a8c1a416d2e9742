--------------------------- MODULE MCGuardedFiles ---------------------------
(* GuardedFiles on small instances: two instances or processes, three      *)
(* mutations of a file behind a link, of the same file by its real path    *)
(* and of another file.                                                    *)
EXTENDS GuardedFiles, TLC

SmallTarget == [p \in Path |-> IF p = "alias" THEN "real" ELSE p]

Symmetry == Permutations(Instance)
=============================================================================
