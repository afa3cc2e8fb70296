---------------------------- MODULE EvoRingProofs ----------------------------
(***************************************************************************)
(* RoomIsFree of EvoRing, and that it implements WordFifo, for every size  *)
(* of the buffer and of the requests, as long as the driver does not give  *)
(* up the wait for the card to leave the skips.                            *)
(*                                                                         *)
(* Either the card is behind the driver, and what it has still to run lies *)
(* between the two, or it is in front: then it runs up to the jump first,  *)
(* and what was written from Skips on after that.  Every other word of the *)
(* buffer is old.                                                          *)
(***************************************************************************)
EXTENDS EvoRing, TLAPS

\* The words from lo to before hi are the ones up to number last.
WordsAt(lo, hi, last) == \A i \in lo .. hi - 1 : mem[i] = last - (hi - 1 - i)

\* Words that are still to be run are nowhere else.
OnlyIn(places) == \A i \in 0 .. Last + 1 : mem[i] \in nread + 1 .. written => i \in places

Taken == IF pc = "out" THEN size ELSE 0
End == IF pc \in {"leave", "wrap"} THEN cur - 1 ELSE cur
First == IF GET < Skips THEN Skips ELSE GET

Shape ==
  /\ TypeOK /\ put = PUT /\ size \in Nat /\ ahead \in Nat
  /\ nread \in Nat /\ written \in Nat /\ nread <= written /\ written + size <= MaxWords
  /\ pc = "idle" => size = 0
  /\ pc # "idle" => size > 0
  /\ \A i \in 0 .. Skips - 1 : mem[i] = NOP
  /\ \A i \in 0 .. Last + 1 : mem[i] \in 0 .. written \cup {JUMP}

\* The card is behind the driver.
Linear ==
  /\ GET <= PUT /\ PUT <= End /\ Skips <= End /\ End <= Last
  /\ WordsAt(First, End, written) /\ nread = written - (End - First)
  /\ OnlyIn(First .. End - 1)
  /\ pc \in {"idle", "wait", "out"} => cur + free + Taken <= Last
  /\ pc \in {"leave", "wrap"} => mem[End] = JUMP
  /\ pc = "wrap" => Skips < ahead /\ ahead <= GET

\* The card is in front of it, and runs up to the jump at j first.
WrappedAt(j) ==
  /\ GET <= j /\ j <= Last /\ mem[j] = JUMP
  /\ WordsAt(GET, j, written - (cur - Skips)) /\ WordsAt(Skips, cur, written)
  /\ nread = written - (cur - Skips) - (j - GET)
  /\ OnlyIn(GET .. j - 1 \cup Skips .. cur - 1)

Wrapped ==
  /\ pc \in {"idle", "wait", "out"}
  /\ Skips <= PUT /\ PUT <= cur /\ cur + free + Taken < GET
  /\ \E j \in Skips .. Last : WrappedAt(j)

\* The inductive invariant.
IInv == Shape /\ (Linear \/ Wrapped)

-----------------------------------------------------------------------------
\* The room is free.
LEMMA IInvRoom == IInv => RoomIsFree
<1> SUFFICES ASSUME IInv, pc \in {"idle", "wait", "out"},
                    NEW i \in cur .. cur + free + Taken - 1
             PROVE  /\ i < Last
                    /\ i < GET \/ GET < cur \/ GET = PUT
                    /\ mem[i] \notin nread + 1 .. written
  BY DEF RoomIsFree, IInv, Shape, Taken
<1>1. /\ cur \in Nat /\ free \in Nat /\ Taken \in Nat /\ i \in Nat /\ GET \in Nat /\ PUT \in Nat
      /\ Last \in Nat /\ Skips \in Nat /\ cur <= i /\ i < cur + free + Taken
  BY SizeAssumption DEF IInv, Shape, TypeOK, Taken
<1>2. CASE Linear
  <2>1. End = cur /\ cur + free + Taken <= Last /\ GET <= PUT /\ PUT <= cur
        /\ OnlyIn(First .. End - 1)
    BY <1>2 DEF Linear, End
  <2>2. i < Last /\ (GET < cur \/ GET = PUT) /\ i \in 0 .. Last + 1
    BY <1>1, <2>1
  <2>3. i \notin First .. End - 1
    BY <1>1, <2>1
  <2> QED
    BY <2>1, <2>2, <2>3 DEF OnlyIn
<1>3. CASE Wrapped
  <2>1. PICK j \in Skips .. Last : WrappedAt(j)
    BY <1>3 DEF Wrapped
  <2>2. cur + free + Taken < GET /\ GET <= j /\ OnlyIn(GET .. j - 1 \cup Skips .. cur - 1)
    BY <1>3, <2>1 DEF Wrapped, WrappedAt
  <2>3. i < Last /\ i < GET /\ i \in 0 .. Last + 1
    BY <1>1, <2>2
  <2>4. i \notin GET .. j - 1 \cup Skips .. cur - 1
    BY <1>1, <2>2
  <2> QED
    BY <2>2, <2>3, <2>4 DEF OnlyIn
<1> QED
  BY <1>2, <1>3 DEF IInv

LEMMA InitIInv == Init => IInv
<1> SUFFICES ASSUME Init PROVE Shape /\ Linear
  BY DEF IInv
<1> USE SizeAssumption
<1>1. Shape
  BY DEF Init, Shape, TypeOK, NOP, JUMP
<1>2. Linear
  BY DEF Init, Linear, WordsAt, OnlyIn, First, End, Taken, NOP
<1> QED
  BY <1>1, <1>2

\* The driver changes its mind about the room, within what it may.
LEMMA NewRoom ==
  ASSUME IInv, UNCHANGED <<cur, mem, PUT, GET, nread, written>>,
         pc \notin {"leave", "wrap"}, pc' \in {"idle", "wait", "out", "jump"},
         Linear => (pc' # "jump" => (cur + free + Taken)' <= Last),
         Wrapped => pc' # "jump" /\ (cur + free + Taken)' < GET
  PROVE  Linear' \/ Wrapped'
<1>1. CASE Linear
  <2>1. End' = End /\ First' = First
    BY DEF End, First
  <2> QED
    BY <1>1, <2>1 DEF Linear, WordsAt, OnlyIn
<1>2. CASE Wrapped
  <2>1. PICK j \in Skips .. Last : WrappedAt(j)
    BY <1>2 DEF Wrapped
  <2>2. WrappedAt(j)'
    BY <2>1 DEF WrappedAt, WordsAt, OnlyIn
  <2> QED
    BY <1>2, <2>2 DEF Wrapped
<1> QED
  BY <1>1, <1>2 DEF IInv

\* The steps in which the driver only reckons.
LEMMA Reckons ==
  ASSUME IInv, (\E n \in 1 .. MaxSize : RING_SPACE(n)) \/ Room \/ (GiveUp /\ ~Impatient)
               \/ Behind \/ Ahead \/ Discard
  PROVE  IInv'
<1>1. /\ cur \in Nat /\ free \in Nat /\ GET \in Nat /\ PUT \in Nat /\ size \in Nat
      /\ Last \in Nat /\ Skips \in Nat /\ MaxWords \in Nat /\ written \in Nat
      /\ free \in 0 .. Last /\ written + size <= MaxWords /\ (pc # "idle" => size # 0)
  BY SizeAssumption DEF IInv, Shape, TypeOK
<1>2. Wrapped => cur + free + Taken < GET
  BY DEF Wrapped
<1>3. Linear => GET <= cur
  BY <1>1 DEF Linear, End
<1>4. UNCHANGED <<cur, put, mem, PUT, GET, nread, written, ahead>>
  BY DEF RING_SPACE, Room, GiveUp, Behind, Ahead, Discard, card, dma
<1>5. ASSUME pc' \in {"idle", "wait", "out", "jump"}, free' \in 0 .. Last, size' \in Nat,
             written + size' <= MaxWords, pc' = "idle" <=> size' = 0
      PROVE  Shape'
  BY <1>4, <1>5 DEF IInv, Shape, TypeOK
<1>6. CASE \E n \in 1 .. MaxSize : RING_SPACE(n)
  <2>1. PICK n \in 1 .. MaxSize : RING_SPACE(n)
    BY <1>6
  <2>2. pc = "idle" /\ pc' = "wait" /\ size' = n /\ free' = free /\ written + n <= MaxWords
        /\ n \in Nat \ {0}
    BY <2>1, SizeAssumption DEF RING_SPACE, dma
  <2>3. Taken = 0 /\ Taken' = 0
    BY <2>2 DEF Taken
  <2>4. Linear => cur + free + Taken <= Last
    BY <2>2 DEF Linear
  <2>5. Shape'
    BY <1>1, <1>5, <2>2
  <2> QED
    BY <1>2, <1>4, <2>2, <2>3, <2>4, <2>5, NewRoom DEF IInv
<1>7. CASE Room
  <2>1. pc = "wait" /\ pc' = "out" /\ free >= size /\ free' = free - size /\ size' = size
    BY <1>7 DEF Room
  <2>2. Taken = 0 /\ Taken' = size
    BY <2>1 DEF Taken
  <2>3. Linear => cur + free + Taken <= Last
    BY <2>1 DEF Linear
  <2>4. (cur + free + Taken)' = cur + free + Taken
    BY <1>1, <1>4, <2>1, <2>2
  <2>5. Shape'
    BY <1>1, <1>5, <2>1
  <2> QED
    BY <1>2, <1>4, <2>1, <2>3, <2>4, <2>5, NewRoom DEF IInv
<1>8. CASE GiveUp /\ ~Impatient
  <2>1. pc = "wait" /\ pc' = "idle" /\ free' = free /\ size' = 0
    BY <1>8 DEF GiveUp, dma
  <2>2. Taken = 0 /\ Taken' = 0
    BY <2>1 DEF Taken
  <2>3. Linear => cur + free + Taken <= Last
    BY <2>1 DEF Linear
  <2>4. Shape'
    BY <1>1, <1>5, <2>1
  <2> QED
    BY <1>2, <1>4, <2>1, <2>2, <2>3, <2>4, NewRoom DEF IInv
<1>9. CASE Behind
  <2>1. pc = "wait" /\ GET <= cur /\ size' = size
    BY <1>9 DEF Behind
  <2>2. ~Wrapped /\ Linear /\ cur <= Last
    BY <1>1, <1>2, <2>1 DEF IInv, Linear, End, Taken
  <2>3. CASE Last - cur >= size
    <3>1. pc' = "out" /\ free' = Last - cur - size /\ free' \in 0 .. Last
      BY <1>1, <1>9, <2>2, <2>3 DEF Behind
    <3>2. (cur + free + Taken)' = Last
      BY <1>1, <1>4, <2>1, <3>1 DEF Taken
    <3>3. Shape'
      BY <1>1, <1>5, <2>1, <3>1
    <3> QED
      BY <1>1, <1>4, <2>1, <2>2, <3>1, <3>2, <3>3, NewRoom DEF IInv
  <2>4. CASE ~(Last - cur >= size)
    <3>1. pc' = "jump" /\ free' = Last - cur /\ free' \in 0 .. Last
      BY <1>1, <1>9, <2>2, <2>4 DEF Behind
    <3>2. Shape'
      BY <1>1, <1>5, <2>1, <3>1
    <3> QED
      BY <1>4, <2>1, <2>2, <3>1, <3>2, NewRoom DEF IInv
  <2> QED
    BY <2>3, <2>4
<1>10. CASE Ahead
  <2>1. /\ pc = "wait" /\ pc' = "wait" /\ GET > cur /\ free' = GET - cur - 1 /\ size' = size
        /\ GET <= Last
    BY <1>1, <1>10 DEF Ahead, Unusable
  <2>2. ~Linear
    BY <1>1, <1>3, <2>1
  <2>3. (cur + free + Taken)' < GET /\ free' \in 0 .. Last
    BY <1>1, <1>4, <2>1 DEF Taken
  <2>4. Shape'
    BY <1>1, <1>5, <2>1, <2>3
  <2> QED
    BY <1>4, <2>1, <2>2, <2>3, <2>4, NewRoom DEF IInv
<1>11. CASE Discard
  <2>1. pc = "wait" /\ pc' = "wait" /\ free' = free /\ size' = size
    BY <1>11 DEF Discard, dma
  <2>2. Taken = 0 /\ Taken' = 0
    BY <2>1 DEF Taken
  <2>3. Linear => cur + free + Taken <= Last
    BY <2>1 DEF Linear
  <2>4. Shape'
    BY <1>1, <1>5, <2>1
  <2> QED
    BY <1>2, <1>4, <2>1, <2>2, <2>3, <2>4, NewRoom DEF IInv
<1> QED
  BY <1>6, <1>7, <1>8, <1>9, <1>10, <1>11

\* The types, as the provers want them.
LEMMA Numbers ==
  ASSUME IInv
  PROVE  /\ cur \in Nat /\ free \in Nat /\ GET \in Nat /\ PUT \in Nat /\ size \in Nat
         /\ Last \in Nat /\ Skips \in Nat /\ MaxWords \in Nat /\ written \in Nat
         /\ nread \in Nat /\ ahead \in Nat /\ Skips > 0 /\ MaxWords > 0
         /\ free <= Last /\ written + size <= MaxWords /\ nread <= written
         /\ JUMP = MaxWords + 1 /\ put = PUT
         /\ pc # "idle" => size > 0
  BY SizeAssumption DEF IInv, Shape, TypeOK, JUMP

LEMMA Memory ==
  ASSUME IInv
  PROVE  /\ mem \in [0 .. Last + 1 -> 0 .. JUMP]
         /\ \A k \in 0 .. Skips - 1 : mem[k] = NOP
         /\ \A k \in 0 .. Last + 1 : mem[k] \in 0 .. written \cup {JUMP}
  BY DEF IInv, Shape, TypeOK

\* The steps that take the driver around the end of the buffer.
LEMMA GoesAround ==
  ASSUME IInv, Jump \/ Leave \/ Wrap
  PROVE  IInv'
<1>1. pc \in {"jump", "leave", "wrap"} /\ Linear
  BY DEF IInv, Wrapped, Jump, Leave, Wrap
<1>2. CASE Jump
  <2>1. /\ pc = "jump" /\ mem' = [mem EXCEPT ![cur] = JUMP] /\ cur' = cur + 1 /\ pc' = "leave"
        /\ UNCHANGED <<put, free, size, ahead, PUT, GET, nread, written>>
    BY <1>2 DEF Jump, card
  <2>2. End = cur /\ End' = cur
    BY <2>1, Numbers DEF End
  <2>3. cur <= Last /\ Skips <= cur
    BY <1>1, <2>2 DEF Linear
  <2>4. mem' \in [0 .. Last + 1 -> 0 .. JUMP] /\ mem'[cur] = JUMP
        /\ \A k \in (0 .. Last + 1) \ {cur} : mem'[k] = mem[k]
    BY <2>1, <2>3, Numbers, Memory
  <2>5. Shape'
    BY <2>1, <2>3, <2>4, Numbers, Memory DEF IInv, Shape, TypeOK
  <2>6. First' = First /\ First \in Nat
    BY <2>1, Numbers DEF First
  <2>7. WordsAt(First, End, written)' /\ OnlyIn(First .. End - 1)'
    <3>1. WordsAt(First, cur, written) /\ OnlyIn(First .. cur - 1)
      BY <1>1, <2>2 DEF Linear
    <3>2. \A k \in First .. cur - 1 : mem'[k] = mem[k]
      BY <2>3, <2>4, <2>6, Numbers
    <3>3. \A k \in First .. End' - 1 : mem'[k] = written - (End' - 1 - k)
      BY <2>2, <3>1, <3>2 DEF WordsAt
    <3>4. WordsAt(First, End, written)'
      BY <2>1, <2>6, <3>3 DEF WordsAt
    <3>5. JUMP \notin nread + 1 .. written
      BY Numbers
    <3>6. \A k \in 0 .. Last + 1 : mem'[k] \in nread + 1 .. written => k \in First .. cur - 1
      BY <2>4, <3>1, <3>5 DEF OnlyIn
    <3> QED
      BY <2>1, <2>2, <2>6, <3>4, <3>6 DEF OnlyIn
  <2>8. Linear'
    BY <1>1, <2>1, <2>2, <2>3, <2>4, <2>6, <2>7 DEF Linear
  <2> QED
    BY <2>5, <2>8 DEF IInv
<1>3. CASE Leave
  <2>1. /\ pc = "leave" /\ UNCHANGED <<dma, size, mem, PUT, GET, nread, written>>
        /\ \/ pc' = "wrap" /\ ahead' = GET /\ GET > Skips
           \/ pc' = "leave" /\ ahead' = ahead
    BY <1>3 DEF Leave, card
  <2>2. Shape'
    BY <2>1, Numbers DEF IInv, Shape, TypeOK, dma
  <2>3. End' = End /\ First' = First
    BY <2>1 DEF End, First, dma
  <2>4. Linear'
    BY <1>1, <2>1, <2>3, Numbers DEF Linear, WordsAt, OnlyIn, dma
  <2> QED
    BY <2>2, <2>4 DEF IInv
<1>4. CASE Wrap
  <2>1. /\ pc = "wrap" /\ PUT' = Skips /\ cur' = Skips /\ put' = Skips
        /\ free' = ahead - Skips - 1 /\ pc' = "wait"
        /\ UNCHANGED <<size, ahead, mem, GET, nread, written>>
    BY <1>4 DEF Wrap, card
  <2>2. /\ End = cur - 1 /\ GET <= End /\ End <= Last /\ mem[End] = JUMP
        /\ Skips < ahead /\ ahead <= GET /\ Skips <= End
        /\ WordsAt(First, End, written) /\ nread = written - (End - First)
        /\ OnlyIn(First .. End - 1)
    BY <1>1, <2>1, Numbers DEF Linear, End
  <2>3. First = GET /\ End \in Skips .. Last
    BY <2>2, Numbers DEF First
  <2>4. PICK j \in Skips .. Last : j = End
    BY <2>3
  <2>5. WrappedAt(j)'
    <3>1. WordsAt(GET, j, written - (cur - Skips))'
      <4>1. (written - (cur - Skips))' = written
        BY <2>1, Numbers
      <4>2. WordsAt(GET, j, written)
        BY <2>2, <2>3, <2>4
      <4> QED
        BY <2>1, <4>1, <4>2 DEF WordsAt
    <3>2. WordsAt(Skips, cur, written)'
      BY <2>1, Numbers DEF WordsAt
    <3>3. (GET .. j - 1 \cup Skips .. cur - 1)' = First .. End - 1
      BY <2>1, <2>3, <2>4, Numbers
    <3>4. OnlyIn(GET .. j - 1 \cup Skips .. cur - 1)'
      BY <2>1, <2>2, <3>3 DEF OnlyIn
    <3> QED
      BY <2>1, <2>2, <2>3, <2>4, <3>1, <3>2, <3>4, Numbers DEF WrappedAt
  <2>6. (cur + free + Taken)' < GET
    <3>1. Taken' = 0 /\ (cur + free)' = ahead - 1
      BY <2>1, Numbers DEF Taken
    <3> QED
      BY <2>1, <2>2, <3>1, Numbers
  <2>7. Shape'
    <3>0. cur - 1 <= Last /\ GET <= cur - 1 /\ Skips <= cur - 1
      BY <2>2
    <3>1. free' \in 0 .. Last /\ Skips \in 0 .. Last + 1
      <4>1. ahead <= Last /\ Skips <= Last
        BY <2>2, <3>0, Numbers
      <4>2. free' = ahead - Skips - 1 /\ Skips < ahead
        BY <2>1, <2>2
      <4> QED
        BY <4>1, <4>2, Numbers
    <3> QED
      BY <2>1, <3>1, Numbers DEF IInv, Shape, TypeOK
  <2> QED
    BY <2>1, <2>5, <2>6, <2>7, Numbers DEF IInv, Wrapped
<1> QED
  BY <1>2, <1>3, <1>4

\* A word is written into the room.
LEMMA OutStep == ASSUME IInv, OUT_RING PROVE IInv'
<1>1. /\ pc = "out" /\ mem' = [mem EXCEPT ![cur] = written + 1] /\ cur' = cur + 1
      /\ written' = written + 1 /\ size' = size - 1
      /\ pc' = IF size = 1 THEN "idle" ELSE "out"
      /\ UNCHANGED <<put, free, ahead, PUT, GET, nread>>
  BY DEF OUT_RING, card
<1>2. Taken = size /\ Taken' = size - 1 /\ size > 0 /\ size \in Nat
  <2>1. CASE size = 1
    BY <1>1, <2>1 DEF Taken
  <2>2. CASE size # 1
    BY <1>1, <2>2, Numbers DEF Taken
  <2> QED
    BY <2>1, <2>2, <1>1, Numbers
<1>3. End = cur /\ End' = cur + 1 /\ First' = First /\ First \in Nat /\ First >= Skips
  BY <1>1, Numbers DEF End, First
<1>4. (cur + free + Taken)' = cur + free + Taken
  BY <1>1, <1>2, Numbers
<1>5. cur < Last /\ Skips <= cur
  <2>1. CASE Linear
    <3>1. cur + free + Taken <= Last /\ Skips <= cur
      BY <1>1, <1>3, <2>1 DEF Linear
    <3> QED
      BY <1>2, <3>1, Numbers
  <2>2. CASE Wrapped
    <3>1. PICK j \in Skips .. Last : WrappedAt(j)
      BY <2>2 DEF Wrapped
    <3>2. cur + free + Taken < GET /\ GET <= j /\ Skips <= PUT /\ PUT <= cur
      BY <2>2, <3>1 DEF Wrapped, WrappedAt
    <3> QED
      BY <1>2, <3>2, Numbers
  <2> QED
    BY <2>1, <2>2 DEF IInv
<1>6. mem' \in [0 .. Last + 1 -> 0 .. JUMP] /\ mem'[cur] = written + 1
      /\ \A k \in (0 .. Last + 1) \ {cur} : mem'[k] = mem[k]
  <2>1. cur \in 0 .. Last + 1 /\ written + 1 \in 0 .. JUMP
    BY <1>2, <1>5, Numbers
  <2> QED
    BY <1>1, <2>1, Memory
<1>7. Shape'
  <2>1. \A k \in 0 .. Last + 1 : mem'[k] \in 0 .. written + 1 \cup {JUMP}
    <3> TAKE k \in 0 .. Last + 1
    <3>1. mem'[k] = written + 1 \/ mem'[k] = mem[k]
      BY <1>6
    <3> QED
      BY <3>1, Numbers, Memory
  <2>2. \A k \in 0 .. Skips - 1 : mem'[k] = NOP
    BY <1>5, <1>6, Numbers, Memory
  <2>3. pc' = "idle" => size' = 0
    BY <1>1, <1>2
  <2>4. pc' # "idle" => size' > 0
    BY <1>1, <1>2
  <2>5. pc' \in {"idle", "out"} /\ size' \in Nat /\ written' + size' <= MaxWords
        /\ cur' \in 0 .. Last + 1 /\ written' \in Nat /\ nread <= written'
    BY <1>1, <1>2, <1>5, Numbers
  <2> QED
    BY <1>1, <1>6, <2>1, <2>2, <2>3, <2>4, <2>5 DEF IInv, Shape, TypeOK
<1>8. ASSUME NEW lo \in Nat, WordsAt(lo, cur, written)
      PROVE  \A k \in lo .. cur : mem'[k] = written + 1 - (cur - k)
  <2> TAKE k \in lo .. cur
  <2>1. CASE k = cur
    BY <1>6, <2>1, Numbers
  <2>2. CASE k # cur
    <3>1. k \in lo .. cur - 1 /\ k \in (0 .. Last + 1) \ {cur}
      BY <1>5, <2>2, Numbers
    <3>2. mem'[k] = written - (cur - 1 - k)
      BY <1>6, <1>8, <3>1 DEF WordsAt
    <3> QED
      BY <3>1, <3>2, Numbers
  <2> QED
    BY <2>1, <2>2
<1>9. ASSUME NEW places, OnlyIn(places)
      PROVE  \A k \in 0 .. Last + 1 :
               mem'[k] \in nread + 1 .. written + 1 => k \in places \cup {cur}
  <2> TAKE k \in 0 .. Last + 1
  <2> SUFFICES ASSUME k # cur, mem'[k] \in nread + 1 .. written + 1
               PROVE  k \in places
    OBVIOUS
  <2>1. mem[k] \in nread + 1 .. written + 1 /\ mem[k] \in 0 .. written \cup {JUMP}
    BY <1>6, Memory
  <2>2. JUMP > written + 1
    BY <1>2, Numbers
  <2>3. mem[k] \in nread + 1 .. written
    BY <2>1, <2>2, Numbers
  <2> QED
    BY <1>9, <2>3 DEF OnlyIn
<1>10. CASE Linear
  <2>0. GET <= PUT /\ PUT <= cur /\ nread = written - (cur - First)
        /\ cur + free + Taken <= Last
    BY <1>1, <1>3, <1>10 DEF Linear
  <2>1. WordsAt(First, cur, written) /\ OnlyIn(First .. cur - 1) /\ First <= cur
    BY <1>3, <1>5, <1>10, <2>0, Numbers DEF Linear, First
  <2>2. WordsAt(First, End, written)'
    <3>1. \A k \in First .. cur : mem'[k] = written + 1 - (cur - k)
      BY <1>3, <1>8, <2>1
    <3>2. End' - 1 = cur /\ written' = written + 1
      BY <1>1, <1>3, Numbers
    <3>3. ASSUME NEW k \in First' .. End' - 1 PROVE mem'[k] = written' - (End' - 1 - k)
      <4>1. k \in First .. cur /\ k \in Int
        BY <1>3, <3>2, Numbers
      <4>2. mem'[k] = written + 1 - (cur - k)
        BY <3>1, <4>1
      <4> QED
        BY <3>2, <4>1, <4>2, Numbers
    <3> QED
      BY <3>3 DEF WordsAt
  <2>3. OnlyIn(First .. End - 1)'
    <3>1. (First .. cur - 1) \cup {cur} = First' .. End' - 1
      <4>1. First' = First /\ End' - 1 = cur
        BY <1>3, Numbers
      <4>2. (First .. cur - 1) \cup {cur} = First .. cur
        BY <1>3, <2>1, Numbers
      <4> QED
        BY <4>1, <4>2
    <3>2. \A k \in 0 .. Last + 1 :
            mem'[k] \in nread' + 1 .. written' => k \in First' .. End' - 1
      BY <1>1, <1>9, <2>1, <3>1
    <3> QED
      BY <3>2 DEF OnlyIn
  <2>4. pc' \in {"idle", "out"}
    BY <1>1
  <2>5. GET' <= PUT' /\ PUT' <= End' /\ Skips <= End' /\ End' <= Last
        /\ nread' = written' - (End' - First') /\ (cur + free + Taken)' <= Last
    <3>1. GET' = GET /\ PUT' = PUT /\ nread' = nread /\ written' = written + 1
          /\ End' = cur + 1 /\ First' = First /\ First \in Nat
      BY <1>1, <1>3
    <3>2. GET <= PUT /\ PUT <= cur + 1 /\ Skips <= cur + 1 /\ cur + 1 <= Last
          /\ nread = (written + 1) - (cur + 1 - First)
      BY <1>3, <1>5, <2>0, Numbers
    <3>3. (cur + free + Taken)' <= Last
      BY <1>4, <2>0
    <3> QED
      BY <3>1, <3>2, <3>3, Numbers
  <2>6. Linear'
    BY <2>2, <2>3, <2>4, <2>5 DEF Linear
  <2> QED
    BY <1>7, <2>6 DEF IInv
<1>11. CASE Wrapped
  <2>1. PICK j \in Skips .. Last : WrappedAt(j)
    BY <1>11 DEF Wrapped
  <2>2. /\ GET <= j /\ j <= Last /\ mem[j] = JUMP
        /\ WordsAt(GET, j, written - (cur - Skips)) /\ WordsAt(Skips, cur, written)
        /\ nread = written - (cur - Skips) - (j - GET)
        /\ OnlyIn(GET .. j - 1 \cup Skips .. cur - 1)
    BY <2>1 DEF WrappedAt
  <2>3. cur < GET /\ Skips <= PUT /\ PUT <= cur /\ cur + free + Taken < GET
    BY <1>2, <1>11, Numbers DEF Wrapped
  <2>4. mem'[j] = JUMP /\ \A k \in GET .. j - 1 : mem'[k] = mem[k]
    <3>1. j \in (0 .. Last + 1) \ {cur}
          /\ \A k \in GET .. j - 1 : k \in (0 .. Last + 1) \ {cur}
      BY <2>2, <2>3, Numbers
    <3> QED
      BY <1>6, <2>2, <3>1
  <2>5. WordsAt(GET, j, written - (cur - Skips))'
    <3>1. (written - (cur - Skips))' = written - (cur - Skips)
      BY <1>1, Numbers
    <3> QED
      BY <1>1, <2>2, <2>4, <3>1 DEF WordsAt
  <2>6. WordsAt(Skips, cur, written)'
    <3>1. \A k \in Skips .. cur : mem'[k] = written + 1 - (cur - k)
      BY <1>8, <2>2, Numbers
    <3>2. cur' - 1 = cur /\ written' = written + 1
      BY <1>1, Numbers
    <3>3. ASSUME NEW k \in Skips .. cur' - 1 PROVE mem'[k] = written' - (cur' - 1 - k)
      <4>1. k \in Skips .. cur /\ k \in Int
        BY <3>2, Numbers
      <4>2. mem'[k] = written + 1 - (cur - k)
        BY <3>1, <4>1
      <4> QED
        BY <3>2, <4>1, <4>2, Numbers
    <3> QED
      BY <3>3 DEF WordsAt
  <2>7. OnlyIn(GET .. j - 1 \cup Skips .. cur - 1)'
    <3>1. (GET .. j - 1 \cup Skips .. cur - 1) \cup {cur} = (GET .. j - 1 \cup Skips .. cur - 1)'
      BY <1>1, <1>5, Numbers
    <3> QED
      BY <1>1, <1>9, <2>2, <3>1 DEF OnlyIn
  <2>8. WrappedAt(j)'
    <3>1. nread' = (written - (cur - Skips) - (j - GET))'
      BY <1>1, <2>2, Numbers
    <3> QED
      BY <1>1, <2>2, <2>4, <2>5, <2>6, <2>7, <3>1 DEF WrappedAt
  <2>9. pc' \in {"idle", "wait", "out"} /\ PUT' <= cur' /\ (cur + free + Taken)' < GET'
        /\ Skips <= PUT'
    BY <1>1, <1>4, <2>3, Numbers
  <2> QED
    BY <1>7, <2>8, <2>9 DEF IInv, Wrapped
<1> QED
  BY <1>10, <1>11 DEF IInv

\* What was written is handed over.
LEMMA FireStep == ASSUME IInv, FIRE_RING PROVE IInv'
<1>1. pc = "idle" /\ PUT' = cur /\ put' = cur
      /\ UNCHANGED <<cur, free, pc, size, ahead, mem, GET, nread, written>>
  BY DEF FIRE_RING, card
<1>2. Shape'
  BY <1>1 DEF IInv, Shape, TypeOK
<1>3. Taken' = Taken /\ End' = End /\ First' = First /\ End = cur
  BY <1>1 DEF Taken, End, First
<1>4. CASE Linear
  BY <1>1, <1>2, <1>3, <1>4, Numbers DEF IInv, Linear, WordsAt, OnlyIn
<1>5. CASE Wrapped
  <2>1. PICK j \in Skips .. Last : WrappedAt(j)
    BY <1>5 DEF Wrapped
  <2>2. WrappedAt(j)'
    BY <1>1, <2>1 DEF WrappedAt, WordsAt, OnlyIn
  <2> QED
    BY <1>1, <1>2, <1>3, <1>5, <2>2, Numbers DEF IInv, Wrapped
<1> QED
  BY <1>4, <1>5 DEF IInv

\* The card is at a word that is not run yet, at the jump, or in the skips.
LEMMA Unread ==
  ASSUME IInv, GET # PUT
  PROVE  /\ GET \in 0 .. Last
         /\ Linear => /\ GET < PUT
                      /\ GET < Skips => mem[GET] = NOP
                      /\ GET >= Skips => First = GET /\ GET < End /\ mem[GET] = nread + 1
                                         /\ nread < written
         /\ \A j \in Skips .. Last : WrappedAt(j) /\ Wrapped =>
              GET = j \/ (GET < j /\ mem[GET] = nread + 1 /\ nread < written)
<1>1. CASE Linear
  <2>1. GET <= PUT /\ PUT <= End /\ End <= Last /\ nread = written - (End - First)
        /\ WordsAt(First, End, written) /\ End \in Int
    BY <1>1, Numbers DEF Linear, End
  <2>2. GET < PUT /\ GET < End /\ GET <= Last
    <3>1. GET \in Int /\ PUT \in Int /\ Last \in Int
      BY Numbers
    <3> QED
      BY <2>1, <3>1
  <2>3. GET < Skips => mem[GET] = NOP
    BY Numbers, Memory
  <2>4. ASSUME GET >= Skips
        PROVE  First = GET /\ mem[GET] = nread + 1 /\ nread < written
    <3>1. First = GET
      BY <2>4, Numbers DEF First
    <3>2. GET \in First .. End - 1
      BY <2>1, <2>2, <3>1, Numbers
    <3>3. mem[GET] = written - (End - 1 - GET)
      BY <2>1, <3>2 DEF WordsAt
    <3>4. nread = written - (End - GET)
      BY <2>1, <3>1
    <3> QED
      BY <2>1, <2>2, <3>1, <3>3, <3>4, Numbers
  <2>5. ~Wrapped
    <3>1. Wrapped => cur < GET
      BY Numbers DEF Wrapped, Taken
    <3>2. End <= cur
      BY Numbers DEF End
    <3> QED
      BY <2>1, <2>2, <3>1, <3>2, Numbers
  <2> QED
    BY <2>2, <2>3, <2>4, <2>5, Numbers
<1>2. CASE ~Linear
  <2>1. Wrapped
    BY <1>2 DEF IInv
  <2>2. ASSUME NEW j \in Skips .. Last, WrappedAt(j)
        PROVE  GET <= j /\ (GET < j => mem[GET] = nread + 1 /\ nread < written)
    <3>1. /\ GET <= j /\ WordsAt(GET, j, written - (cur - Skips))
          /\ nread = written - (cur - Skips) - (j - GET)
      BY <2>2 DEF WrappedAt
    <3>2. ASSUME GET < j
          PROVE  mem[GET] = nread + 1 /\ nread < written
      <4>1. GET \in GET .. j - 1 /\ j \in Int
        BY <3>2, Numbers
      <4>2. mem[GET] = written - (cur - Skips) - (j - 1 - GET)
        BY <3>1, <4>1 DEF WordsAt
      <4>3. Skips <= cur
        BY <2>1, Numbers DEF Wrapped
      <4> QED
        BY <3>1, <3>2, <4>1, <4>2, <4>3, Numbers
    <3> QED
      BY <3>1, <3>2
  <2>3. PICK j \in Skips .. Last : WrappedAt(j)
    BY <2>1 DEF Wrapped
  <2>4. GET \in 0 .. Last
    BY <2>2, <2>3, Numbers
  <2>5. \A k \in Skips .. Last : WrappedAt(k) => GET = k \/ GET < k
    BY <2>2, Numbers
  <2> QED
    BY <1>2, <2>2, <2>4, <2>5
<1> QED
  BY <1>1, <1>2

\* The card goes on to the next word, which is not the jump.
LEMMA FetchStep == ASSUME IInv, Fetch PROVE IInv'
<1>1. GET # PUT /\ UNCHANGED <<cur, put, free, pc, size, ahead, mem, PUT, written>>
  BY DEF Fetch, dma
<1>2. End' = End /\ Taken' = Taken
  BY <1>1 DEF End, Taken
<1>3. ASSUME GET' \in 0 .. Last + 1, nread' \in Nat, nread' <= written
      PROVE  Shape'
  BY <1>1, <1>3 DEF IInv, Shape, TypeOK
<1>4. ASSUME NEW places, NEW rest, OnlyIn(places), nread' \in {nread, nread + 1},
             rest = places \/ (mem[GET] = nread + 1 /\ nread' = nread + 1
                               /\ places \ {GET} \subseteq rest)
      PROVE  \A k \in 0 .. Last + 1 : mem'[k] \in nread' + 1 .. written' => k \in rest
  <2> SUFFICES ASSUME NEW k \in 0 .. Last + 1, mem[k] \in nread' + 1 .. written
               PROVE  k \in rest
    BY <1>1
  <2>1. mem[k] \in nread + 1 .. written
    BY <1>4, Numbers
  <2>2. k \in places
    BY <1>4, <2>1 DEF OnlyIn
  <2>3. mem[k] # nread + 1 \/ nread' = nread
    BY <1>4, Numbers
  <2> QED
    BY <1>4, <2>2, <2>3
<1>5. CASE Linear
  <2>1. /\ PUT <= End /\ Skips <= End /\ End <= Last /\ GET < PUT
        /\ nread = written - (End - First)
        /\ pc \in {"idle", "wait", "out"} => cur + free + Taken <= Last
        /\ pc \in {"leave", "wrap"} => mem[End] = JUMP
        /\ pc = "wrap" => Skips < ahead /\ ahead <= GET
    BY <1>1, <1>5, Unread DEF Linear
  <2>2. WordsAt(First, End, written) /\ OnlyIn(First .. End - 1)
    BY <1>5 DEF Linear
  <2>3. End \in Int
    BY Numbers DEF End
  <2>4. GET' = GET + 1
    <3>1. CASE GET < Skips
      BY <1>1, <1>5, <3>1, Unread, Numbers DEF Fetch, NOP
    <3>2. CASE GET >= Skips
      <4>1. mem[GET] # JUMP /\ mem[GET] # NOP
        BY <1>1, <1>5, <3>2, Unread, Numbers DEF NOP
      <4> QED
        BY <4>1 DEF Fetch
    <3> QED
      BY <3>1, <3>2, Numbers
  <2>5. GET' <= PUT /\ GET' \in 0 .. Last + 1 /\ (pc = "wrap" => ahead <= GET')
    BY <1>1, <2>1, <2>3, <2>4, Numbers
  <2>6. /\ nread' \in {nread, nread + 1} /\ nread' <= written
        /\ nread' = written - (End - First')
        /\ WordsAt(First, End, written)' /\ OnlyIn(First .. End - 1)'
    <3>1. CASE GET < Skips
      <4>1. nread' = nread /\ First' = First
        <5>1. nread' = nread
          BY <1>1, <1>5, <3>1, Unread, Numbers DEF Fetch, NOP
        <5> QED
          BY <2>4, <3>1, <5>1, Numbers DEF First
      <4>2. WordsAt(First, End, written)'
        BY <1>1, <1>2, <2>2, <4>1 DEF WordsAt
      <4>3. OnlyIn(First .. End - 1)'
        BY <1>1, <1>2, <2>2, <4>1 DEF OnlyIn
      <4>4. nread' = written - (End - First') /\ nread' <= written
        BY <2>1, <4>1, Numbers
      <4> QED
        BY <4>1, <4>2, <4>3, <4>4
    <3>2. CASE GET >= Skips
      <4>1. mem[GET] = nread + 1 /\ First = GET /\ GET < End /\ nread < written
        BY <1>1, <1>5, <3>2, Unread
      <4>2. mem[GET] # JUMP /\ mem[GET] # NOP
        BY <4>1, Numbers DEF NOP
      <4>3. nread' = nread + 1
        BY <4>2 DEF Fetch
      <4>4. First' = GET + 1
        BY <2>4, <3>2, Numbers DEF First
      <4>5. WordsAt(First, End, written)'
        <5>1. \A k \in GET + 1 .. End - 1 : mem[k] = written - (End - 1 - k)
          BY <2>2, <4>1, Numbers DEF WordsAt
        <5> QED
          BY <1>1, <1>2, <4>4, <5>1 DEF WordsAt
      <4>6. OnlyIn(First .. End - 1)'
        <5>1. PICK rest : rest = First' .. End' - 1
          OBVIOUS
        <5>2. PICK places : places = First .. End - 1
          OBVIOUS
        <5>3. places \ {GET} \subseteq rest
          <6>1. rest = GET + 1 .. End - 1 /\ places = GET .. End - 1
            BY <1>2, <4>1, <4>4, <5>1, <5>2
          <6>2. GET \in Int
            BY Numbers
          <6> QED
            BY <2>3, <6>1, <6>2
        <5>4. \A k \in 0 .. Last + 1 : mem'[k] \in nread' + 1 .. written' => k \in rest
          BY <1>4, <2>2, <4>1, <4>3, <5>2, <5>3
        <5> QED
          BY <5>1, <5>4 DEF OnlyIn
      <4>7. nread' = written - (End - First') /\ nread' <= written
        BY <2>1, <2>3, <4>1, <4>3, <4>4, Numbers
      <4> QED
        BY <4>3, <4>5, <4>6, <4>7
    <3> QED
      BY <3>1, <3>2, Numbers
  <2>7. Shape'
    BY <1>3, <2>5, <2>6, Numbers
  <2>8. Linear'
    BY <1>1, <1>2, <2>1, <2>5, <2>6 DEF Linear
  <2> QED
    BY <2>7, <2>8 DEF IInv
<1>6. CASE Wrapped
  <2>1. PICK j \in Skips .. Last : WrappedAt(j)
    BY <1>6 DEF Wrapped
  <2>2. /\ GET <= j /\ mem[j] = JUMP
        /\ WordsAt(GET, j, written - (cur - Skips)) /\ WordsAt(Skips, cur, written)
        /\ nread = written - (cur - Skips) - (j - GET)
        /\ OnlyIn(GET .. j - 1 \cup Skips .. cur - 1)
    BY <2>1 DEF WrappedAt
  <2>3. /\ pc \in {"idle", "wait", "out"} /\ Skips <= PUT /\ PUT <= cur
        /\ cur + free + Taken < GET /\ Taken \in Nat
    BY <1>6, Numbers DEF Wrapped, Taken
  <2>4. CASE GET = j
    <3>1. GET' = 0 /\ nread' = nread
      <4>1. mem[GET] = JUMP /\ JUMP # NOP
        BY <2>2, <2>4, Numbers DEF NOP
      <4> QED
        BY <4>1 DEF Fetch
    <3>2. End = cur /\ First' = Skips
      BY <2>3, <3>1, Numbers DEF End, First
    <3>3. nread = written - (cur - Skips)
      BY <2>2, <2>4, Numbers
    <3>4. WordsAt(First, End, written)'
      BY <1>1, <1>2, <2>2, <3>2 DEF WordsAt
    <3>5. OnlyIn(First .. End - 1)'
      <4>1. GET .. j - 1 \cup Skips .. cur - 1 = Skips .. cur - 1
        BY <2>4, Numbers
      <4>2. PICK rest : rest = Skips .. cur - 1
        OBVIOUS
      <4>3. \A k \in 0 .. Last + 1 : mem'[k] \in nread' + 1 .. written' => k \in rest
        BY <1>4, <2>2, <3>1, <4>1, <4>2
      <4> QED
        BY <1>1, <1>2, <3>2, <4>2, <4>3 DEF OnlyIn
    <3>6. cur + free + Taken <= Last /\ 0 <= PUT /\ Skips <= cur /\ cur <= Last
      BY <2>3, <2>4, Numbers
    <3>7. Shape'
      BY <1>3, <3>1, Numbers
    <3>8. Linear'
      BY <1>1, <1>2, <2>3, <3>1, <3>2, <3>3, <3>4, <3>5, <3>6 DEF Linear
    <3> QED
      BY <3>7, <3>8 DEF IInv
  <2>5. CASE GET # j
    <3>1. GET < j /\ mem[GET] = nread + 1 /\ nread < written
      BY <1>1, <1>6, <2>1, <2>5, Unread
    <3>2. mem[GET] # JUMP /\ mem[GET] # NOP
      BY <3>1, Numbers DEF NOP
    <3>3. GET' = GET + 1 /\ nread' = nread + 1
      BY <3>2 DEF Fetch
    <3>4. WordsAt(GET, j, written - (cur - Skips))'
      <4>1. \A k \in GET + 1 .. j - 1 : mem[k] = written - (cur - Skips) - (j - 1 - k)
        BY <2>2, Numbers DEF WordsAt
      <4> QED
        BY <1>1, <3>3, <4>1 DEF WordsAt
    <3>5. WordsAt(Skips, cur, written)'
      BY <1>1, <2>2 DEF WordsAt
    <3>6. OnlyIn(GET .. j - 1 \cup Skips .. cur - 1)'
      <4>1. PICK rest : rest = GET' .. j - 1 \cup Skips .. cur' - 1
        OBVIOUS
      <4>2. PICK places : places = GET .. j - 1 \cup Skips .. cur - 1
        OBVIOUS
      <4>3. places \ {GET} \subseteq rest
        BY <1>1, <3>3, <4>1, <4>2, Numbers
      <4>4. \A k \in 0 .. Last + 1 : mem'[k] \in nread' + 1 .. written' => k \in rest
        BY <1>4, <2>2, <3>1, <3>3, <4>2, <4>3
      <4> QED
        BY <4>1, <4>4 DEF OnlyIn
    <3>7. /\ GET' <= j /\ nread' = written - (cur - Skips) - (j - GET') /\ nread' <= written
          /\ GET' \in 0 .. Last + 1 /\ cur + free + Taken < GET'
      BY <2>2, <2>3, <3>1, <3>3, Numbers
    <3>8. WrappedAt(j)'
      BY <1>1, <2>2, <3>4, <3>5, <3>6, <3>7 DEF WrappedAt
    <3>9. Shape'
      BY <1>3, <3>3, <3>7, Numbers
    <3>10. Wrapped'
      BY <1>1, <1>2, <2>3, <3>7, <3>8 DEF Wrapped
    <3> QED
      BY <3>9, <3>10 DEF IInv
  <2> QED
    BY <2>4, <2>5
<1> QED
  BY <1>5, <1>6 DEF IInv

\* Every step, unless the driver gives up the wait for the card to leave the skips.
LEMMA NextIInv == ASSUME ~Impatient PROVE IInv /\ [Next]_vars => IInv'
<1> SUFFICES ASSUME IInv, [Next]_vars PROVE IInv'
  OBVIOUS
<1>1. CASE \E n \in 1 .. MaxSize : RING_SPACE(n)
  BY <1>1, Reckons
<1>2. CASE Room \/ GiveUp \/ Behind \/ Ahead \/ Discard
  BY <1>2, Reckons
<1>3. CASE Jump \/ Leave \/ Wrap
  BY <1>3, GoesAround
<1>4. CASE OUT_RING
  BY <1>4, OutStep
<1>5. CASE FIRE_RING
  BY <1>5, FireStep
<1>6. CASE Fetch
  BY <1>6, FetchStep
<1>7. CASE UNCHANGED vars
  BY <1>7 DEF vars, dma, IInv, Shape, TypeOK, Linear, Wrapped, WrappedAt, WordsAt, OnlyIn,
              Taken, End, First
<1> QED
  BY <1>1, <1>2, <1>3, <1>4, <1>5, <1>6, <1>7 DEF Next, nouveau_dma_wait

LEMMA SpecIInv == ASSUME ~Impatient PROVE Spec => []IInv
  BY InitIInv, NextIInv, PTL DEF Spec

\* The room that the driver reckons with holds nothing that the card has still to
\* run, however old the position is that it reckoned from.
THEOREM SpecRoomIsFree == ASSUME ~Impatient PROVE Spec => []RoomIsFree
  BY SpecIInv, IInvRoom, PTL

-----------------------------------------------------------------------------
(* EvoRing implements WordFifo                                             *)

\* The words from number lo + 1 on.
Words(lo, n) == [i \in 1 .. n |-> lo + i]

LEMMA WordsSeq ==
  ASSUME NEW lo \in Nat, NEW n \in Nat
  PROVE  /\ Words(lo, n) \in Seq(Nat) /\ Len(Words(lo, n)) = n
         /\ Append(Words(lo, n), lo + n + 1) = Words(lo, n + 1)
         /\ n > 0 => /\ Words(lo, n) # <<>> /\ Head(Words(lo, n)) = lo + 1
                     /\ Tail(Words(lo, n)) = Words(lo + 1, n - 1)
<1>1. Words(lo, n) \in Seq(Nat) /\ Len(Words(lo, n)) = n
  BY DEF Words
<1>2. Append(Words(lo, n), lo + n + 1) = Words(lo, n + 1)
  BY DEF Words
<1>3. ASSUME n > 0
      PROVE  /\ Words(lo, n) # <<>> /\ Head(Words(lo, n)) = lo + 1
             /\ Tail(Words(lo, n)) = Words(lo + 1, n - 1)
  <2>1. Head(Words(lo, n)) = lo + 1
    BY <1>3 DEF Words
  <2>2. Words(lo, n) # <<>>
    BY <1>1, <1>3
  <2>3. Tail(Words(lo, n)) = Words(lo + 1, n - 1)
    BY <1>3 DEF Words
  <2> QED
    BY <2>1, <2>2, <2>3
<1> QED
  BY <1>1, <1>2, <1>3

LEMMA InitFifo == Init => Fifo!Init
  BY DEF Init, Fifo!Init

\* A word that is written is taken up by the queue, which has room for it.
LEMMA OutFifo == ASSUME IInv, OUT_RING PROVE Fifo!Put(written + 1) /\ written + 1 \in 1 .. MaxWords
<1>1. /\ pc = "out" /\ written' = written + 1 /\ UNCHANGED <<got, nread>>
      /\ Taken = size /\ size > 0
  BY Numbers DEF OUT_RING, card, Taken
<1>2. written - nread < Last - Skips
  <2>1. CASE Linear
    <3>1. cur + free + size <= Last /\ nread = written - (cur - First) /\ GET <= cur
      BY <1>1, <2>1, Numbers DEF Linear, End
    <3>2. First \in Nat /\ First >= Skips
      BY Numbers DEF First
    <3> QED
      BY <1>1, <3>1, <3>2, Numbers
  <2>2. CASE Wrapped
    <3>1. PICK j \in Skips .. Last : WrappedAt(j)
      BY <2>2 DEF Wrapped
    <3>2. nread = written - (cur - Skips) - (j - GET) /\ cur + free + size < GET
      BY <1>1, <2>2, <3>1 DEF Wrapped, WrappedAt
    <3> QED
      BY <1>1, <3>2, Numbers
  <2> QED
    BY <2>1, <2>2 DEF IInv
<1>3. written - nread \in Nat /\ written - nread + nread = written
  BY Numbers
<1>4. PICK n \in Nat : n = written - nread
  BY <1>3
<1>5. nread \in Nat /\ nread + n + 1 = written + 1 /\ written' - nread' = n + 1
  BY <1>1, <1>4, Numbers
<1>6. /\ [i \in 1 .. written - nread |-> nread + i] = Words(nread, n)
      /\ [i \in 1 .. written' - nread' |-> nread' + i] = Words(nread, n + 1)
  BY <1>1, <1>4, <1>5 DEF Words
<1>7. Len(Words(nread, n)) = n /\ Append(Words(nread, n), nread + n + 1) = Words(nread, n + 1)
  BY <1>5, WordsSeq
<1>8. Len(Words(nread, n)) < Last - Skips
  BY <1>2, <1>4, <1>7
<1>9. written + 1 \in 1 .. MaxWords
  <2>1. written + size <= MaxWords /\ size \in Nat /\ written \in Nat /\ MaxWords \in Nat
    BY Numbers
  <2> QED
    BY <1>1, <2>1
<1> QED
  BY <1>1, <1>5, <1>6, <1>7, <1>8, <1>9 DEF Fifo!Put

\* A word that the card runs is the first of the queue; it takes the jumps and
\* the no-operations without the queue's noticing.
LEMMA FetchFifo == ASSUME IInv, Fetch PROVE Fifo!Get \/ UNCHANGED Fifo!fvars
<1>1. UNCHANGED written /\ GET # PUT
  BY DEF Fetch
<1>2. CASE UNCHANGED <<got, nread>>
  BY <1>1, <1>2 DEF Fifo!fvars
<1>3. CASE ~UNCHANGED <<got, nread>>
  <2>1. mem[GET] # JUMP /\ mem[GET] # NOP /\ got' = mem[GET] /\ nread' = nread + 1
    BY <1>3 DEF Fetch
  <2>2. mem[GET] = nread + 1 /\ nread < written
    <3>1. CASE Linear
      BY <1>1, <2>1, <3>1, Unread, Numbers
    <3>2. CASE Wrapped
      <4>1. PICK j \in Skips .. Last : WrappedAt(j)
        BY <3>2 DEF Wrapped
      <4>2. GET # j
        BY <2>1, <4>1 DEF WrappedAt
      <4> QED
        BY <1>1, <3>2, <4>1, <4>2, Unread
    <3> QED
      BY <3>1, <3>2 DEF IInv
  <2>3. nread \in Nat /\ written - nread \in Nat /\ written - nread > 0
    BY <2>2, Numbers
  <2>4. PICK n \in Nat : n = written - nread /\ n > 0
    BY <2>3
  <2>5. written' - nread' = n - 1
    BY <1>1, <2>1, <2>4, Numbers
  <2>6. /\ [i \in 1 .. written - nread |-> nread + i] = Words(nread, n)
        /\ [i \in 1 .. written' - nread' |-> nread' + i] = Words(nread + 1, n - 1)
    BY <2>1, <2>4, <2>5 DEF Words
  <2>7. /\ Words(nread, n) # <<>> /\ Head(Words(nread, n)) = nread + 1
        /\ Tail(Words(nread, n)) = Words(nread + 1, n - 1)
    BY <2>3, <2>4, WordsSeq
  <2> QED
    BY <2>1, <2>2, <2>6, <2>7 DEF Fifo!Get
<1> QED
  BY <1>2, <1>3

\* Every other step is none of WordFifo's.
LEMMA NextFifo == IInv /\ [Next]_vars => [Fifo!Next]_(Fifo!fvars)
<1> SUFFICES ASSUME IInv, [Next]_vars PROVE [Fifo!Next]_(Fifo!fvars)
  OBVIOUS
<1>1. CASE OUT_RING
  <2>1. \E w \in 1 .. MaxWords : Fifo!Put(w)
    <3>1. PICK w : w = written + 1
      OBVIOUS
    <3>2. Fifo!Put(w) /\ w \in 1 .. MaxWords
      BY <1>1, <3>1, OutFifo DEF Fifo!Put
    <3> QED
      BY <3>2
  <2> QED
    BY <2>1 DEF Fifo!Next
<1>2. CASE Fetch
  BY <1>2, FetchFifo DEF Fifo!Next
<1>3. CASE ~OUT_RING /\ ~Fetch
  <2>1. UNCHANGED <<written, nread, got>>
    BY <1>3 DEF Next, nouveau_dma_wait, RING_SPACE, Room, GiveUp, Behind, Ahead, Discard,
                Jump, Leave, Wrap, FIRE_RING, card, vars
  <2> QED
    BY <2>1 DEF Fifo!fvars
<1> QED
  BY <1>1, <1>2, <1>3

\* The words reach the card in the order written, each once, and none is
\* overwritten before: every behaviour of the buffer is one of the queue's.
THEOREM SpecImplementsFifo == ASSUME ~Impatient PROVE Spec => ImplementsFifo
  BY SpecIInv, InitFifo, NextFifo, PTL DEF Spec, ImplementsFifo, Fifo!Spec
=============================================================================
