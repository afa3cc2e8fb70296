----------------------------- MODULE WordFifo -----------------------------
(***************************************************************************)
(* What libpscnv's push buffer promises: the words a program gives to      *)
(* OUT_RING reach the channel's command parser in that order, each once    *)
(* and as written, and at most Capacity of them are under way.             *)
(***************************************************************************)
EXTENDS Naturals, Sequences

CONSTANTS Words, Capacity

VARIABLES
  queue,   \* the words given to OUT_RING that the parser has not got
  got      \* the word the parser got last, 0 before the first

fvars == <<queue, got>>

Init == queue = <<>> /\ got = 0

Put(w) ==
  /\ Len(queue) < Capacity
  /\ queue' = Append(queue, w)
  /\ UNCHANGED got

Get ==
  /\ queue # <<>>
  /\ got' = Head(queue)
  /\ queue' = Tail(queue)

Next == Get \/ \E w \in Words : Put(w)

Spec == Init /\ [][Next]_fvars
=============================================================================
