----------------------------- MODULE PushRing -----------------------------
(***************************************************************************)
(* The push buffer of libpscnv (libpscnv_ib.h, libpscnv_ib.c).  A program  *)
(* writes command words into a ring in memory with OUT_RING; FIRE_RING     *)
(* hands what was written since the last call to the card as one or two    *)
(* segments, each an entry of a second ring, the IB; the card fetches IB   *)
(* entries up to the doorbell and reads their words.                       *)
(*                                                                         *)
(* Nothing but the positions in registers ties the two sides together, and *)
(* the program works with copies of the card's positions that it refreshes *)
(* only when a ring looks full.  Every register access is a step.          *)
(*                                                                         *)
(* The card is external: it is modelled from what the library takes its    *)
(* registers to mean.  Words are numbered 1, 2, ... in the order written,  *)
(* and positions are counted in words instead of bytes.                    *)
(***************************************************************************)
EXTENDS Integers, Sequences

CONSTANTS
  N,         \* words in the push buffer, pb_size / 4
  M,         \* entries of the IB, 1 << ib_order
  MaxWords   \* bound: the words a behaviour writes

ASSUME SizeAssumption == N \in Nat /\ N >= 2 /\ M \in Nat /\ M >= 2
ASSUME BoundAssumption == MaxWords \in Nat

VARIABLES
  \* The library's variables, struct pscnv_ib_chan.
  pos, put, get,   \* pb_pos, pb_put, and pb_get: the cached read position
  ibPut, ibGet,    \* ib_put, and ib_get: the cached fetch position
  pc,              \* where the program is
  ret,             \* where FIRE_RING returns to
  segs,            \* the segments the running FIRE_RING has still to push
  low,             \* the low half of the read position, between two reads
  \* Memory and registers.
  mem,             \* pb_map
  ib,              \* ib_map
  doorbell,        \* chmap[0x8c/4]
  \* The card.
  ibPos,           \* chmap[0x88/4]: the next IB entry to fetch
  cur,             \* the segment being read
  dmaGet,          \* chmap[0x58/4]: where the next word would come from
  valid,           \* bit 31 of chmap[0x5c/4]: something has been read
  got,             \* the word read last
  \* Histories.
  written, nread,  \* how many words OUT_RING wrote, how many the card read
  fired            \* how many words have been handed over by FIRE_RING

libvars  == <<pos, put, get, ibPut, ibGet, pc, ret, segs, low>>
cardvars == <<ibPos, cur, dmaGet, valid, got, nread>>
vars == <<libvars, mem, ib, doorbell, cardvars, written, fired>>

Segment == [base : 0 .. N - 1, len : 0 .. N]
NoSegment == [base |-> 0, len |-> 0]

\* Faulty variant: drops the part that wrapped to the start of the ring.
SegmentsNoWrap(from, to) ==
  IF from = to THEN <<>>
  ELSE IF to > from THEN <<[base |-> from, len |-> to - from]>>
  ELSE <<[base |-> from, len |-> N - from]>>

\* The segments that FIRE_RING pushes.
Segments(from, to) ==
  IF from = to THEN <<>>
  ELSE IF to > from THEN <<[base |-> from, len |-> to - from]>>
  ELSE <<[base |-> from, len |-> N - from]>>
         \o IF to = 0 THEN <<>> ELSE <<[base |-> 0, len |-> to]>>

Init ==
  /\ pos = 0 /\ put = 0 /\ get = 0 /\ ibPut = 0 /\ ibGet = 0
  /\ pc = "idle" /\ ret = "idle" /\ segs = <<>> /\ low = 0
  /\ mem = [i \in 0 .. N - 1 |-> 0]
  /\ ib = [i \in 0 .. M - 1 |-> NoSegment]
  /\ doorbell = 0
  /\ ibPos = 0 /\ cur = NoSegment /\ dmaGet = 0 /\ valid = FALSE /\ got = 0
  /\ written = 0 /\ nread = 0 /\ fired = 0

-----------------------------------------------------------------------------
(* OUT_RING                                                                *)

RingFull == (pos + 1) % N = get

OutCall ==
  /\ pc = "idle" /\ written < MaxWords
  /\ pc' = "out"
  /\ UNCHANGED <<pos, put, get, ibPut, ibGet, ret, segs, low, mem, ib, doorbell,
                 cardvars, written, fired>>

\* One turn of the loop: FIRE_RING, then pscnv_ib_update_get.
OutFull ==
  /\ pc = "out" /\ RingFull
  /\ pc' = "fire" /\ ret' = "low"
  /\ UNCHANGED <<pos, put, get, ibPut, ibGet, segs, low, mem, ib, doorbell,
                 cardvars, written, fired>>

OutWrite ==
  /\ pc = "out" /\ ~RingFull
  /\ mem' = [mem EXCEPT ![pos] = written + 1]
  /\ written' = written + 1
  /\ pos' = (pos + 1) % N
  /\ pc' = "idle"
  /\ UNCHANGED <<put, get, ibPut, ibGet, ret, segs, low, ib, doorbell, cardvars,
                 fired>>

\* pscnv_ib_update_get reads the two halves one after the other.
UpdateLow ==
  /\ pc = "low"
  /\ low' = dmaGet
  /\ pc' = "high"
  /\ UNCHANGED <<pos, put, get, ibPut, ibGet, ret, segs, mem, ib, doorbell,
                 cardvars, written, fired>>

\* Faulty variant: takes the end of what was fired for what was read.
UpdateHighPut ==
  /\ pc = "high"
  /\ get' = IF valid THEN put ELSE 0
  /\ pc' = "out"
  /\ UNCHANGED <<pos, put, ibPut, ibGet, ret, segs, low, mem, ib, doorbell,
                 cardvars, written, fired>>

\* Faulty variant: the read position never arrives.
UpdateHighLost ==
  /\ pc = "high"
  /\ pc' = "out"
  /\ UNCHANGED <<pos, put, get, ibPut, ibGet, ret, segs, low, mem, ib, doorbell,
                 cardvars, written, fired>>

UpdateHigh ==
  /\ pc = "high"
  /\ get' = IF valid THEN low ELSE 0
  /\ pc' = "out"
  /\ UNCHANGED <<pos, put, ibPut, ibGet, ret, segs, low, mem, ib, doorbell,
                 cardvars, written, fired>>

-----------------------------------------------------------------------------
(* FIRE_RING and pscnv_ib_push                                             *)

FireCall ==
  /\ pc = "idle"
  /\ pc' = "fire" /\ ret' = "idle"
  /\ UNCHANGED <<pos, put, get, ibPut, ibGet, segs, low, mem, ib, doorbell,
                 cardvars, written, fired>>

Fire ==
  /\ pc = "fire"
  /\ segs' = Segments(put, pos)
  /\ pc' = "push"
  /\ UNCHANGED <<pos, put, get, ibPut, ibGet, ret, low, mem, ib, doorbell,
                 cardvars, written, fired>>

\* Faulty variant: pushes without looking at what the card has fetched.
IbFullNever == FALSE

IbFull == (ibPut + 1) % M = ibGet

\* One turn of the loop that waits for a free IB entry.
PushWait ==
  /\ pc = "push" /\ segs # <<>> /\ IbFull
  /\ ibGet' = ibPos
  /\ UNCHANGED <<pos, put, get, ibPut, pc, ret, segs, low, mem, ib, doorbell,
                 cardvars, written, fired>>

PushEntry ==
  /\ pc = "push" /\ segs # <<>> /\ ~IbFull
  /\ ib' = [ib EXCEPT ![ibPut] = Head(segs)]
  /\ ibPut' = (ibPut + 1) % M
  /\ pc' = "bell"
  /\ UNCHANGED <<pos, put, get, ibGet, ret, segs, low, mem, doorbell, cardvars,
                 written, fired>>

\* The doorbell: from here on the card may fetch the entry.
PushBell ==
  /\ pc = "bell"
  /\ doorbell' = ibPut
  /\ segs' = Tail(segs)
  /\ fired' = fired + Head(segs).len
  /\ pc' = "push"
  /\ UNCHANGED <<pos, put, get, ibPut, ibGet, ret, low, mem, ib, cardvars, written>>

\* Faulty variant: forgets to move pb_put.
FireDoneKeepPut ==
  /\ pc = "push" /\ segs = <<>>
  /\ pc' = ret
  /\ UNCHANGED <<pos, put, get, ibPut, ibGet, ret, segs, low, mem, ib, doorbell,
                 cardvars, written, fired>>

FireDone ==
  /\ pc = "push" /\ segs = <<>>
  /\ put' = pos
  /\ pc' = ret
  /\ UNCHANGED <<pos, get, ibPut, ibGet, ret, segs, low, mem, ib, doorbell,
                 cardvars, written, fired>>

-----------------------------------------------------------------------------
(* The card                                                                *)

\* The entry is copied when it is fetched: its slot is free at once.
CardFetch ==
  /\ cur.len = 0 /\ ibPos # doorbell
  /\ cur' = ib[ibPos]
  /\ ibPos' = (ibPos + 1) % M
  /\ UNCHANGED <<libvars, mem, ib, doorbell, dmaGet, valid, got, nread, written,
                 fired>>

\* The read position is reported inside the ring: the library compares it
\* with pb_pos without masking it.
CardRead ==
  /\ cur.len > 0
  /\ got' = mem[cur.base]
  /\ cur' = [base |-> (cur.base + 1) % N, len |-> cur.len - 1]
  /\ dmaGet' = (cur.base + 1) % N /\ valid' = TRUE
  /\ nread' = nread + 1
  /\ UNCHANGED <<libvars, mem, ib, doorbell, ibPos, written, fired>>

Lib ==
  \/ OutFull \/ OutWrite \/ UpdateLow \/ UpdateHigh
  \/ Fire \/ PushWait \/ PushEntry \/ PushBell \/ FireDone
Card == CardFetch \/ CardRead

Next == OutCall \/ FireCall \/ Lib \/ Card

Spec == Init /\ [][Next]_vars
\* A call of the library keeps running (it yields the processor at most), and
\* a channel that has work is served.  Nothing makes the program call.
FairSpec == Spec /\ WF_vars(Lib) /\ WF_vars(Card)

-----------------------------------------------------------------------------
(* Properties                                                              *)

\* The shape of the state.
TypeOK ==
  /\ pos \in 0 .. N - 1 /\ put \in 0 .. N - 1 /\ get \in 0 .. N - 1
  /\ ibPut \in 0 .. M - 1 /\ ibGet \in 0 .. M - 1
  /\ pc \in {"idle", "out", "low", "high", "fire", "push", "bell"}
  /\ ret \in {"idle", "low"}
  /\ segs \in Seq(Segment) /\ low \in 0 .. N - 1
  /\ mem \in [0 .. N - 1 -> Nat]
  /\ ib \in [0 .. M - 1 -> Segment]
  /\ doorbell \in 0 .. M - 1 /\ ibPos \in 0 .. M - 1
  /\ cur \in Segment /\ dmaGet \in 0 .. N - 1 /\ valid \in BOOLEAN
  /\ got \in Nat /\ written \in Nat /\ nread \in Nat /\ fired \in Nat

\* A word that the card has not read is still in its place: OUT_RING never
\* laps the card, although it tests for room against a stale position.
UnreadIntact == \A k \in nread + 1 .. written : mem[(k - 1) % N] = k

\* The IB entries the card may still fetch.
Waiting == [i \in 1 .. (ibPut - ibPos) % M |-> ib[(ibPos + i - 1) % M]]

\* Everything between the word being read and the word being written, as
\* consecutive segments: the rest of the current one, the entries of the IB,
\* those FIRE_RING has still to push, and what has not been fired.
Handed ==
  <<cur>> \o Waiting
          \o (IF pc = "bell" THEN Tail(segs) ELSE IF pc = "push" THEN segs ELSE <<>>)
Total(s) == LET sum[i \in 0 .. Len(s)] == IF i = 0 THEN 0 ELSE sum[i - 1] + s[i].len
            IN sum[Len(s)]

\* The segments between the card and the program are consecutive in the ring
\* and cover exactly the words after the last one read: an IB entry is neither
\* overwritten before it is fetched, nor pushed twice, nor lost at the wrap.
SegmentsContiguous ==
  LET all == SelectSeq(Handed, LAMBDA s : s.len > 0)
  IN /\ \A i \in 1 .. Len(all) - 1 : all[i + 1].base = (all[i].base + all[i].len) % N
     /\ all # <<>> => all[1].base = nread % N
     /\ pc \in {"push", "bell"} => Total(all) = written - nread
     /\ pc \notin {"push", "bell"} => Total(all) = fired - nread /\ put = fired % N

\* What the card has still to read is where the card will look for it, in the
\* words and in the entries that lead to them.
RingIntact == TypeOK /\ UnreadIntact /\ SegmentsContiguous

\* PushRing implements WordFifo: the card gets the words of OUT_RING in order,
\* each once and as written, and at most N - 1 are under way.
Fifo == INSTANCE WordFifo WITH
          queue <- [i \in 1 .. written - nread |-> nread + i], got <- got,
          Words <- 1 .. MaxWords, Capacity <- N - 1
ImplementsFifo == Fifo!Spec

\* OUT_RING and FIRE_RING return: the loop on a full ring fires what it waits
\* for, and the loop on a full IB waits for entries the card can fetch.
CallsReturn == pc # "idle" ~> pc = "idle"

\* Every word that was fired is read by the card, without another call.
FiredIsRead == \A k \in 1 .. MaxWords : fired >= k ~> nread >= k

\* Both sides get on: neither waits for what only the other one could do.
Progress == CallsReturn /\ FiredIsRead
=============================================================================
