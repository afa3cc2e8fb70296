----------------------------- MODULE MCChanHeap -----------------------------
(* ChanHeap for two threads and a hash table of four entries in which the   *)
(* handles collide at the last one.                                         *)
EXTENDS ChanHeap, TLC, Bitwise

CONSTANTS t1, t2

Bits == 2

\* pscnv_ramht_hash: the exclusive or of the digits of the handle.
RECURSIVE pscnv_ramht_hash(_)
pscnv_ramht_hash(h) ==
  IF h = 0 THEN 0 ELSE (h % 2 ^ Bits) ^^ pscnv_ramht_hash(h \div 2 ^ Bits)

SomeHandles == {3, 6}
Hashes == [h \in SomeHandles |-> pscnv_ramht_hash(h)]
Symmetry == Permutations({t1, t2})
=============================================================================
