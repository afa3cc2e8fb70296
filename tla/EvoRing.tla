------------------------------ MODULE EvoRing ------------------------------
(***************************************************************************)
(* The kernel's own push buffer, through which it sets the modes of the    *)
(* display (nouveau_dma.c, nouveau_dma.h).  Commands are written from      *)
(* start to end of a buffer; at its end a jump leads the card back to the  *)
(* start, where Skips words stay no-operations for good: the card cannot   *)
(* jump to the position it is to stop at.                                  *)
(*                                                                         *)
(* The driver sees of the card only the register GET, the card of the      *)
(* driver only PUT, and each register access is a step.  The callers are   *)
(* serialised by the lock of mode setting.  Words are numbered in the      *)
(* order written.                                                          *)
(***************************************************************************)
EXTENDS Integers, Sequences

CONSTANTS
  Last,       \* chan->dma.max: the last word that a jump may be put at
  Skips,      \* NOUVEAU_DMA_SKIPS
  MaxSize,    \* the largest request for room
  MaxUnfired, \* bound: how many words are written between two FIRE_RING
  MaxWords,   \* bound: how many words are written at all
  Impatient   \* whether the wait for the card to leave the skips may give up

\* The callers fire long before the buffer has gone around: a mode is some
\* hundred words, and the buffer has a thousand.
ASSUME SizeAssumption ==
  /\ {Last, Skips, MaxSize, MaxUnfired, MaxWords} \subseteq Nat \ {0}
  /\ MaxUnfired + MaxSize <= Last - Skips
  /\ Impatient \in BOOLEAN

VARIABLES
  cur, put, free,  \* chan->dma
  pc,              \* where the driver is
  size,            \* what RING_SPACE was asked for, then what is not yet written
  prev,            \* prev_get: what READ_GET saw last, 0 before the first
  ahead,           \* the position that ended the wait for the skips
  mem,             \* chan->pushbuf
  PUT, GET,        \* the registers
  got, nread,      \* of the card: the command run last, and how many were
  written, fired   \* histories: words written, words that PUT covers

dma == <<cur, put, free>>
vars == <<dma, pc, size, prev, ahead, mem, PUT, GET, got, nread, written, fired>>
card == <<GET, got, nread>>

NOP == 0
JUMP == MaxWords + 1

\* nv50_display_init has set up the channel and written the no-operations.
Init ==
  /\ cur = Skips /\ put = 0 /\ free = Last - Skips
  /\ pc = "idle" /\ size = 0 /\ prev = 0 /\ ahead = 0
  /\ mem = [i \in 0 .. Last + 1 |-> NOP]
  /\ PUT = 0 /\ GET = 0 /\ got = 0 /\ nread = 0
  /\ written = 0 /\ fired = 0

-----------------------------------------------------------------------------
(* RING_SPACE: nouveau_dma_wait, then the room is taken                     *)

RING_SPACE(n) ==
  /\ pc = "idle" /\ written + n <= MaxWords /\ (written - fired) + n <= MaxUnfired
  /\ pc' = "wait" /\ size' = n /\ prev' = 0
  /\ UNCHANGED <<dma, ahead, mem, PUT, card, written, fired>>

Room ==
  /\ pc = "wait" /\ free >= size
  /\ free' = free - size /\ pc' = "out"
  /\ UNCHANGED <<cur, put, size, prev, ahead, mem, PUT, card, written, fired>>

\* READ_GET gives up when it has read the same position too often: -EBUSY, and
\* the caller does not write its words.
GiveUp ==
  /\ GET = prev
  /\ \/ pc = "wait" /\ free < size
     \/ pc = "leave" /\ Impatient
  /\ pc' = "idle" /\ size' = 0
  /\ UNCHANGED <<dma, prev, ahead, mem, PUT, card, written, fired>>

\* Positions that READ_GET or the loop discard.
Unusable == GET > Last \/ GET < Skips

\* The card is behind, or idle: there is room up to the end, or a jump is needed.
Behind ==
  /\ pc = "wait" /\ free < size /\ ~Unusable /\ GET <= cur
  /\ prev' = GET
  /\ IF Last - cur >= size
       THEN free' = Last - cur - size /\ pc' = "out"
       ELSE free' = Last - cur /\ pc' = "jump"
  /\ UNCHANGED <<cur, put, size, ahead, mem, PUT, card, written, fired>>

\* Faulty variant: forgets the word for the jump.
AheadAll ==
  /\ pc = "wait" /\ free < size /\ ~Unusable /\ GET > cur
  /\ prev' = GET /\ free' = GET - cur
  /\ UNCHANGED <<cur, put, pc, size, ahead, mem, PUT, card, written, fired>>

\* The card is ahead: there is room up to where it reads, less one word.
Ahead ==
  /\ pc = "wait" /\ free < size /\ ~Unusable /\ GET > cur
  /\ prev' = GET /\ free' = GET - cur - 1
  /\ UNCHANGED <<cur, put, pc, size, ahead, mem, PUT, card, written, fired>>

Discard ==
  /\ pc = "wait" /\ free < size /\ Unusable
  /\ prev' = GET
  /\ UNCHANGED <<dma, pc, size, ahead, mem, PUT, card, written, fired>>

Jump ==
  /\ pc = "jump"
  /\ mem' = [mem EXCEPT ![cur] = JUMP] /\ cur' = cur + 1
  /\ pc' = "leave"
  /\ UNCHANGED <<put, free, size, prev, ahead, PUT, card, written, fired>>

\* Faulty variant: does not wait for the card to be past the skips.
LeaveAtOnce ==
  /\ pc = "leave"
  /\ prev' = GET /\ ahead' = GET /\ pc' = "wrap"
  /\ UNCHANGED <<dma, size, mem, PUT, card, written, fired>>

\* One turn of the loop that waits for the card to be past the skips.
Leave ==
  /\ pc = "leave"
  /\ prev' = GET
  /\ IF GET <= Last /\ GET > Skips
       THEN ahead' = GET /\ pc' = "wrap"
       ELSE UNCHANGED <<ahead, pc>>
  /\ UNCHANGED <<dma, size, mem, PUT, card, written, fired>>

\* WRITE_PUT(NOUVEAU_DMA_SKIPS): hands over everything up to the jump.
Wrap ==
  /\ pc = "wrap"
  /\ PUT' = Skips /\ fired' = written
  /\ cur' = Skips /\ put' = Skips /\ free' = ahead - Skips - 1
  /\ pc' = "wait"
  /\ UNCHANGED <<size, prev, ahead, mem, card, written>>

-----------------------------------------------------------------------------
(* OUT_RING and FIRE_RING                                                  *)

OUT_RING ==
  /\ pc = "out"
  /\ mem' = [mem EXCEPT ![cur] = written + 1] /\ cur' = cur + 1
  /\ written' = written + 1 /\ size' = size - 1
  /\ pc' = IF size = 1 THEN "idle" ELSE "out"
  /\ UNCHANGED <<put, free, prev, ahead, PUT, card, fired>>

FIRE_RING ==
  /\ pc = "idle" /\ cur # put
  /\ PUT' = cur /\ put' = cur /\ fired' = written
  /\ UNCHANGED <<cur, free, pc, size, prev, ahead, mem, card, written>>

-----------------------------------------------------------------------------
(* The card (external)                                                     *)

Fetch ==
  /\ GET # PUT
  /\ CASE mem[GET] = JUMP -> GET' = 0 /\ UNCHANGED <<got, nread>>
       [] mem[GET] = NOP  -> GET' = GET + 1 /\ UNCHANGED <<got, nread>>
       [] OTHER -> GET' = GET + 1 /\ got' = mem[GET] /\ nread' = nread + 1
  /\ UNCHANGED <<dma, pc, size, prev, ahead, mem, PUT, written, fired>>

nouveau_dma_wait == Room \/ GiveUp \/ Behind \/ Ahead \/ Discard \/ Jump \/ Leave \/ Wrap

Next ==
  \/ \E n \in 1 .. MaxSize : RING_SPACE(n)
  \/ nouveau_dma_wait \/ OUT_RING \/ FIRE_RING \/ Fetch

Spec == Init /\ [][Next]_vars

\* The driver runs on, without relying on a timeout, and the card fetches.
Runs == Room \/ Behind \/ Ahead \/ Discard \/ Jump \/ Leave \/ Wrap \/ OUT_RING
FairSpec == Spec /\ WF_vars(Runs) /\ WF_vars(Fetch)

-----------------------------------------------------------------------------
(* Properties                                                              *)

\* The shape of the state, the buffer's last two words being the jump's.
TypeOK ==
  /\ cur \in 0 .. Last + 1 /\ put \in 0 .. Last + 1 /\ free \in 0 .. Last
  /\ pc \in {"idle", "wait", "jump", "leave", "wrap", "out"}
  /\ mem \in [0 .. Last + 1 -> 0 .. JUMP]
  /\ GET \in 0 .. Last + 1 /\ PUT \in 0 .. Last + 1

\* The room that the driver believes to have holds no word that the card has
\* still to run, nor the jump it has to take, and behind it there is a place for
\* a jump, although the position of the card is older than the room
\* (nouveau_dma_wait, "we can never get GET == PUT here, so this is safe").
RoomIsFree ==
  LET room == cur .. cur + free + (IF pc = "out" THEN size ELSE 0) - 1
  IN TypeOK /\ (pc \in {"idle", "wait", "out"} =>
       \A i \in room :
         /\ i < Last
         /\ i < GET \/ GET < cur \/ GET = PUT
         /\ mem[i] \notin nread + 1 .. written)

\* EvoRing implements WordFifo: the card runs the words that were written, in
\* order and each once, jumps and no-operations apart; none is overwritten before.
Fifo == INSTANCE WordFifo WITH
          queue <- [i \in 1 .. written - nread |-> nread + i], got <- got,
          Words <- 1 .. MaxWords, Capacity <- Last - Skips
ImplementsFifo == Fifo!Spec

\* RING_SPACE returns although nobody gives up, and the card runs every word that
\* was handed over: the driver never waits for a card that waits for PUT.
Served ==
  /\ pc # "idle" ~> pc = "idle"
  /\ \A k \in 1 .. MaxWords : fired >= k ~> nread >= k
=============================================================================
