---------------------------- MODULE MCNvc0Tables ----------------------------
(* Nvc0Tables with an object of each kind: small pages in two fragments, two *)
(* large pages in two fragments, and system memory.                        *)
EXTENDS Nvc0Tables, TLC

CONSTANTS small, large, sys

Kinds == [o \in Objs |-> CASE o = small -> "small" [] o = large -> "large" [] o = sys -> "sys"]
SomeRuns == [o \in Objs |-> CASE o = small -> <<2, 1>> [] o = large -> <<2, 2>> [] o = sys -> <<1, 1>>]
Blocks == [v \in Spaces |-> IF v = Bar3 THEN 1 ELSE 2]
Symmetry == Permutations(Threads)
=============================================================================
