---------------------------- MODULE MCPscnvMaps ----------------------------
(* PscnvMaps with an object of one page and one of two: one of them, or the *)
(* first one twice, fits into the BAR and into an address space.           *)
EXTENDS PscnvMaps, TLC

CONSTANTS b1, b2

SizeOf == [b \in Bos |-> IF b = b1 THEN 1 ELSE 2]
PagesOfSpaces == [vs \in Spaces |-> 2]
Symmetry == Permutations(Threads)
=============================================================================
