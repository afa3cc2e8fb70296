---------------------------- MODULE MCPscnvMM ----------------------------
(***************************************************************************)
(* PscnvMM on a range of 14 units that neither starts nor ends on a block  *)
(* boundary (as the VRAM range does: it starts at 0x40000, inside the      *)
(* first row block of a large card), with blocks of 4 units and pages of   *)
(* 1 and 2 units.                                                          *)
(***************************************************************************)
EXTENDS PscnvMM

R(size, t, large, frag, back, lo, hi) ==
  [size |-> size, t |-> t, large |-> large, frag |-> frag, back |-> back,
   lo |-> lo, hi |-> hi]

MCRequests == {
  R(2, USED0, FALSE, FALSE, FALSE, 0, 31),   \* small, contiguous, anywhere
  R(3, USED1, TRUE,  FALSE, FALSE, 0, 31),   \* large pages, rounded to 4
  R(3, USED1, FALSE, FALSE, TRUE,  3, 14),   \* type 1 from the back, bounded
  R(6, USED0, FALSE, TRUE,  FALSE, 5, 31),   \* fragments allowed above 5
  R(5, USED1, TRUE,  TRUE,  TRUE,  0, 13),   \* large fragments from the back
  R(1, USED0, TRUE,  FALSE, FALSE, 31, 31)}  \* a lower bound that wraps to 0

=============================================================================
