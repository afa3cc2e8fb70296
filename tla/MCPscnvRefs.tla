---------------------------- MODULE MCPscnvRefs ----------------------------
(***************************************************************************)
(* PscnvRefs with two threads of one file and one of another, and fewer    *)
(* numbers than structures, so that numbers run out and are used again.    *)
(***************************************************************************)
EXTENDS PscnvRefs, TLC

CONSTANTS f1, f2, t1, t2, t3

TwoFiles == [t \in {t1, t2, t3} |-> IF t = t3 THEN f2 ELSE f1]
OneFile  == [t \in {t1, t2} |-> f1]
Symmetry == Permutations(Chans) \cup Permutations(Vspaces)
=============================================================================
