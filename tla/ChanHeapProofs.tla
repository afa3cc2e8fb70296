--------------------------- MODULE ChanHeapProofs ---------------------------
(***************************************************************************)
(* Theorems about the instance memory of a channel, ChanHeap, for every    *)
(* size of it, every hash table and any number of threads.                 *)
(***************************************************************************)
EXTENDS ChanHeap, TLAPS

-----------------------------------------------------------------------------
(* The inductive invariant                                                 *)

HeapInv ==
  /\ instpos \in Nat /\ Start <= instpos
  /\ heap \subseteq [at : Nat, size : Nat]
  /\ HeapDisjoint

\* A word made for an object without the engine's bit is that of a DMA object.
Made(c) == c \in ContextType /\ (~c.eng => Object(c.at, DmaSize) \in heap)

CallsInv ==
  /\ call \in [Threads -> CallType \cup {Null}]
  /\ \A t \in Threads :
       /\ In(t, "fill") => Made(call[t].obj)
       /\ In(t, "insert") \/ In(t, "inserted") =>
            Made(call[t].obj) /\ call[t].obj.at \in written

TableInv ==
  /\ DOMAIN context = 0 .. Slots - 1
  /\ \A s \in 0 .. Slots - 1 :
       context[s] # Null => Made(context[s]) /\ context[s].at \in written

IInv == HeapInv /\ CallsInv /\ TableInv /\ PushbufIsDma

-----------------------------------------------------------------------------
(* The heap                                                                *)

\* What nv50_chan_iobj_new returns lies behind everything it returned before.
LEMMA IobjDisjoint ==
  ASSUME HeapInv, NEW size \in Nat \ {0}, nv50_chan_iobj_new(size)
  PROVE  HeapInv' /\ heap \subseteq heap' /\ Object(instpos, size) \in heap'
<1> DEFINE new == Object(instpos, size)
<1>1. new \in [at : Nat, size : Nat] /\ new.at = instpos /\ new.size = size
  BY DEF Object, HeapInv
<1>2. heap' = heap \cup {new} /\ instpos' = instpos + size /\ instpos' <= BoSize
  BY DEF nv50_chan_iobj_new, Fits
<1>3. \A o \in heap : o.at \in Nat /\ o.size \in Nat /\ Start <= o.at
                        /\ o.at + o.size <= instpos
  BY DEF HeapInv, HeapDisjoint, InHeap
<1> HIDE DEF new
<1>4. instpos \in Nat /\ Start <= instpos /\ Start \in Nat
  BY HeapAssumption DEF HeapInv
<1>5. instpos' \in Nat /\ Start <= instpos'
  BY <1>2, <1>4
<1>6. \A o \in heap' : InHeap(o)'
  BY <1>1, <1>2, <1>3, <1>4 DEF InHeap
<1>7. \A o, p \in heap' : o # p => Disjoint(o, p)
  BY <1>1, <1>2, <1>3, <1>4 DEF Disjoint, HeapInv, HeapDisjoint
<1>8. heap' \subseteq [at : Nat, size : Nat]
  BY <1>1, <1>2 DEF HeapInv
<1>9. HeapDisjoint'
  BY <1>2, <1>6, <1>7 DEF HeapDisjoint, Disjoint
<1> QED
  BY <1>2, <1>5, <1>8, <1>9 DEF HeapInv, new

-----------------------------------------------------------------------------
(* Calls                                                                   *)

\* A call goes on in a stage that fits what it has done.
LEMMA CallGoesOn ==
  ASSUME CallsInv, NEW t \in Threads, NEW c \in CallType,
         call' = [call EXCEPT ![t] = c],
         heap \subseteq heap', written \subseteq written',
         c.name = "fill" => Made(c.obj)',
         c.name \in {"insert", "inserted"} => Made(c.obj)' /\ c.obj.at \in written'
  PROVE  CallsInv'
<1>1. call' \in [Threads -> CallType \cup {Null}]
  BY DEF CallsInv
<1>2. call'[t] = c /\ \A u \in Threads \ {t} : call'[u] = call[u]
  BY DEF CallsInv
<1>3. \A o : Made(o) => Made(o)'
  BY DEF Made
<1>4. ASSUME NEW u \in Threads
      PROVE  /\ In(u, "fill")' => Made(call[u].obj)'
             /\ (In(u, "insert") \/ In(u, "inserted"))' =>
                  Made(call[u].obj)' /\ call'[u].obj.at \in written'
  <2>1. CASE u = t
    BY <1>2, <2>1 DEF In, Made
  <2>2. CASE u # t
    <3>1. call'[u] = call[u]
      BY <1>2, <2>2
    <3>2. Made(call[u].obj) => Made(call[u].obj)'
      BY <3>1 DEF Made
    <3> QED
      BY <3>1, <3>2 DEF In, CallsInv
  <2> QED
    BY <2>1, <2>2
<1> QED
  BY <1>1, <1>4 DEF CallsInv

\* A call that is over has nothing to keep.
LEMMA CallEnds ==
  ASSUME CallsInv, NEW t \in Threads, Back(t),
         heap \subseteq heap', written \subseteq written'
  PROVE  CallsInv'
<1>1. call' \in [Threads -> CallType \cup {Null}]
  BY DEF CallsInv, Back
<1>2. call'[t] = Null /\ \A u \in Threads \ {t} : call'[u] = call[u]
  BY DEF CallsInv, Back
<1>3. ASSUME NEW u \in Threads
      PROVE  /\ In(u, "fill")' => Made(call[u].obj)'
             /\ (In(u, "insert") \/ In(u, "inserted"))' =>
                  Made(call[u].obj)' /\ call'[u].obj.at \in written'
  <2>1. CASE u = t
    BY <1>2, <2>1 DEF In
  <2>2. CASE u # t
    BY <1>2, <2>2 DEF In, CallsInv, Made
  <2> QED
    BY <2>1, <2>2
<1> QED
  BY <1>1, <1>3 DEF CallsInv

\* The objects that a call already has stay sound when others are added.
LEMMA TableGrows ==
  ASSUME TableInv, PushbufIsDma, UNCHANGED <<context, pusher>>,
         heap \subseteq heap', written \subseteq written'
  PROVE  TableInv' /\ PushbufIsDma'
  BY DEF TableInv, PushbufIsDma, Made

LEMMA HeapStays ==
  ASSUME HeapInv, UNCHANGED <<heap, instpos>>
  PROVE  HeapInv'
  BY DEF HeapInv, HeapDisjoint, InHeap

\* A call that takes an object has it afterwards, or is over.
LEMMA TakeKeeps ==
  ASSUME IInv, NEW t \in Threads, NEW size \in Nat \ {0}, NEW eng \in BOOLEAN,
         call[t] # Null, Take(t, size, eng, "fill"),
         ~eng => size = DmaSize,
         UNCHANGED <<written, pusher, context>>
  PROVE  IInv'
<1>1. CASE nv50_chan_iobj_new(size)
           /\ call' = [call EXCEPT ![t].name = "fill", ![t].obj = Context(instpos, eng)]
  <2>1. HeapInv' /\ heap \subseteq heap' /\ Object(instpos, size) \in heap'
    BY <1>1, IobjDisjoint DEF IInv
  <2>2. PICK o : o = Context(instpos, eng)
    OBVIOUS
  <2>3. o \in ContextType /\ o.at = instpos /\ o.eng = eng
    BY <2>2 DEF Context, ContextType, IInv, HeapInv
  <2>4. Made(o)'
    BY <2>1, <2>3 DEF Made
  <2>5. call[t] \in CallType
    BY DEF IInv, CallsInv
  <2>6. PICK c : c = [call[t] EXCEPT !.name = "fill", !.obj = o]
    OBVIOUS
  <2>7. c \in CallType /\ c.name = "fill" /\ c.obj = o
    BY <2>3, <2>5, <2>6 DEF CallType, Stages
  <2>8. call' = [call EXCEPT ![t] = c]
    BY <1>1, <2>2, <2>6
  <2>9. CallsInv'
    BY <2>1, <2>4, <2>7, <2>8, CallGoesOn DEF IInv
  <2>10. TableInv' /\ PushbufIsDma'
    BY <2>1, TableGrows DEF IInv
  <2> QED
    BY <2>1, <2>9, <2>10 DEF IInv
<1>2. CASE ~Fits(size) /\ Back(t) /\ UNCHANGED <<heap, instpos>>
  BY <1>2, HeapStays, TableGrows, CallEnds DEF IInv
<1> QED
  BY <1>1, <1>2 DEF Take

-----------------------------------------------------------------------------
(* The table                                                               *)

\* What pscnv_ramht_find returns is a word of the table.
LEMMA FindInTable ==
  ASSUME TableInv, NEW h \in Handles, pscnv_ramht_find(h) # Null
  PROVE  Made(pscnv_ramht_find(h)) /\ pscnv_ramht_find(h).at \in written
<1> DEFINE hits == {n \in 0 .. Slots - 1 : Hit(h, n)}
           n == CHOOSE n \in hits : TRUE
<1>1. hits # {} /\ pscnv_ramht_find(h) = context[Probe(h, n)]
  BY DEF pscnv_ramht_find
<1>2. n \in 0 .. Slots - 1
  BY <1>1
<1> HIDE DEF hits, n
<1>3. Hash[h] \in Nat /\ Slots \in Nat \ {0} /\ n \in Nat
  BY <1>2, HeapAssumption
<1>4. Probe(h, n) \in 0 .. Slots - 1
  BY <1>3 DEF Probe
<1> QED
  BY <1>1, <1>4 DEF TableInv

-----------------------------------------------------------------------------
(* Every step keeps the invariant                                          *)

LEMMA InitInv == Init => IInv
<1> SUFFICES ASSUME Init PROVE IInv
  OBVIOUS
<1>1. Start \in Nat /\ RamhtSize \in Nat /\ RamfcSize \in Nat /\ BoSize \in Nat
      /\ Start + RamhtSize + RamfcSize <= BoSize
  BY HeapAssumption
<1>2. HeapInv
  BY <1>1 DEF Init, HeapInv, HeapDisjoint, InHeap, Disjoint, Object
<1>3. CallsInv
  BY DEF Init, CallsInv, In
<1>4. TableInv /\ PushbufIsDma
  BY DEF Init, TableInv, PushbufIsDma
<1> QED
  BY <1>2, <1>3, <1>4 DEF IInv

LEMMA NextInv == IInv /\ [Next]_vars => IInv'
<1> SUFFICES ASSUME IInv, [Next]_vars PROVE IInv'
  OBVIOUS
<1> USE DEF RamhtUnchanged, EngineUnchanged
<1>1. CASE UNCHANGED vars
  <2>1. CallsInv'
    BY <1>1 DEF vars, IInv, CallsInv, In, Made
  <2> QED
    BY <1>1, <2>1, HeapStays, TableGrows DEF vars, IInv
<1>2. ASSUME UNCHANGED <<instpos, heap, written, context, pusher>>, CallsInv'
      PROVE  IInv'
  BY <1>2, HeapStays, TableGrows DEF IInv
<1>3. ASSUME NEW t \in Threads, NEW c \in CallType,
             UNCHANGED <<instpos, heap, written, context, pusher>>,
             call' = [call EXCEPT ![t] = c],
             c.name \notin {"fill", "insert", "inserted"}
      PROVE  IInv'
  BY <1>2, <1>3, CallGoesOn DEF IInv
<1>4. ASSUME NEW t \in Threads, NEW h \in Handles, pscnv_ioctl_obj_vdma_new(t, h)
      PROVE  IInv'
  <2>1. Call("dmaobj_new", h, Null, 0) \in CallType
        /\ Call("dmaobj_new", h, Null, 0).name = "dmaobj_new"
    BY DEF Call, CallType, Stages
  <2> QED
    BY <1>3, <1>4, <2>1 DEF pscnv_ioctl_obj_vdma_new
<1>5. ASSUME NEW t \in Threads, NEW h \in Handles, pscnv_ioctl_obj_eng_new(t, h)
      PROVE  IInv'
  <2>1. PICK c : c = Call(IF engdata = Null THEN "chan_alloc" ELSE "obj_new", h, Null, 0)
    OBVIOUS
  <2>2. c \in CallType /\ c.name \in {"chan_alloc", "obj_new"}
    BY <2>1 DEF Call, CallType, Stages
  <2> QED
    BY <1>3, <1>5, <2>1, <2>2 DEF pscnv_ioctl_obj_eng_new
<1>6. ASSUME NEW t \in Threads, NEW h \in Handles, nv50_fifo_chan_init(t, h)
      PROVE  IInv'
  <2>1. pscnv_ramht_find(h) # Null /\ ~pscnv_ramht_find(h).eng
        /\ pusher' = pscnv_ramht_find(h)
    BY <1>6 DEF nv50_fifo_chan_init
  <2>2. Made(pscnv_ramht_find(h)) /\ pscnv_ramht_find(h).at \in written
    BY <2>1, FindInTable DEF IInv
  <2>3. Object(pusher'.at, DmaSize) \in heap /\ pusher'.at \in written
    BY <2>1, <2>2 DEF Made
  <2>4. UNCHANGED <<instpos, heap, written, call, context>>
    BY <1>6 DEF nv50_fifo_chan_init
  <2>5. CallsInv' /\ TableInv'
    BY <2>4 DEF IInv, CallsInv, TableInv, In, Made
  <2>6. PushbufIsDma'
    BY <2>3, <2>4 DEF PushbufIsDma, Object
  <2> QED
    BY <2>4, <2>5, <2>6, HeapStays DEF IInv
<1>7. ASSUME NEW t \in Threads, nv50_chan_dmaobj_new(t)
      PROVE  IInv'
  <2>1. Take(t, DmaSize, FALSE, "fill") /\ call[t] # Null
        /\ UNCHANGED <<written, pusher, context>>
    BY <1>7 DEF nv50_chan_dmaobj_new, In
  <2>2. DmaSize \in Nat \ {0} /\ FALSE \in BOOLEAN
    BY DEF DmaSize
  <2> QED
    BY <2>1, <2>2, TakeKeeps
<1>8. ASSUME NEW t \in Threads, Fill(t)
      PROVE  IInv'
  <2>1. call[t] \in CallType /\ Made(call[t].obj)
    BY <1>8 DEF Fill, IInv, CallsInv, In
  <2>2. PICK c : c = [call[t] EXCEPT !.name = "insert"]
    OBVIOUS
  <2>3. c \in CallType /\ c.name = "insert" /\ c.obj = call[t].obj
    BY <2>1, <2>2 DEF CallType, Stages
  <2>4. written \subseteq written' /\ c.obj.at \in written' /\ heap' = heap
        /\ call' = [call EXCEPT ![t] = c]
    BY <1>8, <2>2, <2>3 DEF Fill, Goto
  <2>5. Made(c.obj)'
    BY <2>1, <2>3, <2>4 DEF Made
  <2>6. CallsInv'
    BY <2>3, <2>4, <2>5, CallGoesOn DEF IInv
  <2> QED
    BY <1>8, <2>4, <2>6, HeapStays, TableGrows DEF Fill, IInv
<1>9. ASSUME NEW t \in Threads, pscnv_ramht_insert(t)
      PROVE  IInv'
  <2>1. call[t] \in CallType /\ Made(call[t].obj) /\ call[t].obj.at \in written
    BY <1>9 DEF pscnv_ramht_insert, IInv, CallsInv, In
  <2>2. UNCHANGED <<instpos, heap, written, context, pusher>>
    BY <1>9 DEF pscnv_ramht_insert
  <2>3. CASE Back(t)
    BY <1>2, <2>2, <2>3, CallEnds DEF IInv
  <2>4. ASSUME NEW s \in Nat,
               call' = [call EXCEPT ![t].name = "inserted", ![t].slot = s]
        PROVE  IInv'
    <3>1. PICK c : c = [call[t] EXCEPT !.name = "inserted", !.slot = s]
      OBVIOUS
    <3>2. c \in CallType /\ c.name = "inserted" /\ c.obj = call[t].obj
      BY <2>1, <3>1 DEF CallType, Stages
    <3>3. call' = [call EXCEPT ![t] = c]
      BY <2>4, <3>1
    <3>4. Made(c.obj)' /\ c.obj.at \in written'
      BY <2>1, <2>2, <3>2 DEF Made
    <3>5. CallsInv'
      BY <2>2, <3>2, <3>3, <3>4, CallGoesOn DEF IInv
    <3> QED
      BY <1>2, <2>2, <3>5
  <2>5. call[t].handle \in Handles /\ Slots \in Nat \ {0}
        /\ Hash[call[t].handle] \in Nat
    BY <2>1, HeapAssumption DEF CallType
  <2>6. \A n \in 0 .. Slots - 1 : Probe(call[t].handle, n) \in Nat
    BY <2>5 DEF Probe
  <2> QED
    BY <1>9, <2>3, <2>4, <2>6 DEF pscnv_ramht_insert
<1>10. ASSUME NEW t \in Threads, InsertContext(t)
       PROVE  IInv'
  <2>1. Made(call[t].obj) /\ call[t].obj.at \in written
    BY <1>10 DEF InsertContext, IInv, CallsInv, In
  <2>2. UNCHANGED <<instpos, heap, written, pusher>>
    BY <1>10 DEF InsertContext
  <2>3. DOMAIN context' = 0 .. Slots - 1
        /\ \A s \in 0 .. Slots - 1 : context'[s] \in {context[s], call[t].obj}
    BY <1>10 DEF InsertContext, IInv, TableInv
  <2>4. TableInv'
    BY <2>1, <2>2, <2>3 DEF IInv, TableInv, Made
  <2>5. CallsInv' /\ PushbufIsDma'
    BY <1>10, <2>2, CallEnds DEF InsertContext, IInv, PushbufIsDma
  <2> QED
    BY <2>2, <2>4, <2>5, HeapStays DEF IInv
<1>11. ASSUME NEW t \in Threads, nv50_graph_chan_alloc(t)
       PROVE  IInv'
  <2>1. call[t] \in CallType
    BY <1>11 DEF nv50_graph_chan_alloc, IInv, CallsInv, In
  <2>2. UNCHANGED <<instpos, heap, written, context, pusher>>
    BY <1>11 DEF nv50_graph_chan_alloc
  <2>3. CASE Back(t)
    BY <1>2, <2>2, <2>3, CallEnds DEF IInv
  <2>4. ASSUME NEW g \in 1 .. MaxGrctx,
               call' = [call EXCEPT ![t].name = "set_engdata", ![t].slot = g]
        PROVE  IInv'
    <3>1. PICK c : c = [call[t] EXCEPT !.name = "set_engdata", !.slot = g]
      OBVIOUS
    <3>2. g \in Nat
      BY HeapAssumption
    <3>3. c \in CallType /\ c.name = "set_engdata"
      BY <2>1, <3>1, <3>2 DEF CallType, Stages
    <3>4. call' = [call EXCEPT ![t] = c]
      BY <2>4, <3>1
    <3> QED
      BY <1>3, <2>2, <3>3, <3>4
  <2> QED
    BY <1>11, <2>3, <2>4 DEF nv50_graph_chan_alloc
<1>12. ASSUME NEW t \in Threads, SetEngdata(t)
       PROVE  IInv'
  <2>1. call[t] \in CallType
    BY <1>12 DEF SetEngdata, IInv, CallsInv, In
  <2>2. PICK c : c = [call[t] EXCEPT !.name = "obj_new"]
    OBVIOUS
  <2>3. c \in CallType /\ c.name = "obj_new"
    BY <2>1, <2>2 DEF CallType, Stages
  <2> QED
    BY <1>3, <1>12, <2>2, <2>3 DEF SetEngdata, Goto
<1>13. ASSUME NEW t \in Threads, nv50_graph_chan_obj_new(t)
       PROVE  IInv'
  <2>1. Take(t, EngSize, TRUE, "fill") /\ call[t] # Null
        /\ UNCHANGED <<written, pusher, context>>
    BY <1>13 DEF nv50_graph_chan_obj_new, In
  <2>2. EngSize \in Nat \ {0} /\ TRUE \in BOOLEAN
    BY DEF EngSize
  <2> QED
    BY <2>1, <2>2, TakeKeeps
<1> QED
  BY <1>1, <1>4, <1>5, <1>6, <1>7, <1>8, <1>9, <1>10, <1>11, <1>12, <1>13 DEF Next

\* Objects of a channel never overlap and stay in its memory, whatever calls
\* race for them (nv50_chan_iobj_new).
THEOREM HeapIsDisjoint == Spec => []HeapDisjoint
<1>1. IInv => HeapDisjoint
  BY DEF IInv, HeapInv
<1> QED
  BY <1>1, InitInv, NextInv, PTL DEF Spec

\* A push buffer is always described by a DMA object of its channel
\* (nv50_fifo_chan_init_dma, nv50_fifo_chan_init_ib).
THEOREM PushbufIsAlwaysDma == Spec => []PushbufIsDma
<1>1. IInv => PushbufIsDma
  BY DEF IInv
<1> QED
  BY <1>1, InitInv, NextInv, PTL DEF Spec
-----------------------------------------------------------------------------
(* The card's view of the table                                            *)

\* Who has claimed a slot holds the lock, and the slot is still free.
ClaimInv ==
  \A t \in Threads : In(t, "inserted") =>
    /\ ramhtLock = t /\ call[t].slot \in 0 .. Slots - 1
    /\ handle[call[t].slot] = call[t].handle
    /\ context[call[t].slot] = Null

Given(h, c) == \E i \in DOMAIN inserted[h] : inserted[h][i] = c

SlotsInv ==
  /\ handle \in [0 .. Slots - 1 -> Handles]
  /\ inserted \in [Handles -> Seq(ContextType)]
  /\ \A s \in 0 .. Slots - 1 : context[s] # Null => Given(handle[s], context[s])

CardInv == IInv /\ ClaimInv /\ SlotsInv

LEMMA InitCard == Init => CardInv
<1> SUFFICES ASSUME Init PROVE CardInv
  OBVIOUS
<1>1. ClaimInv
  BY DEF Init, ClaimInv, In
<1>2. SlotsInv
  BY DEF Init, SlotsInv
<1> QED
  BY <1>1, <1>2, InitInv DEF CardInv

\* Calls that leave the table alone.
LEMMA TableAlone ==
  ASSUME CardInv, UNCHANGED <<handle, context, ramhtLock, inserted>>,
         \A t \in Threads : In(t, "inserted")' => call'[t] = call[t]
  PROVE  ClaimInv' /\ SlotsInv'
<1>1. ClaimInv'
  BY DEF CardInv, ClaimInv, In
<1>2. SlotsInv'
  BY DEF CardInv, SlotsInv, Given
<1> QED
  BY <1>1, <1>2

LEMMA NextCard == CardInv /\ [Next]_vars => CardInv'
<1> SUFFICES ASSUME CardInv, [Next]_vars PROVE ClaimInv' /\ SlotsInv'
  BY NextInv DEF CardInv
<1>1. CASE UNCHANGED vars
  BY <1>1, TableAlone DEF vars
<1>2. ASSUME NEW t \in Threads, NEW s \in 0 .. Slots - 1,
             In(t, "insert"), ramhtLock = Null, ramhtLock' = t, context[s] = Null,
             handle' = [handle EXCEPT ![s] = call[t].handle],
             call' = [call EXCEPT ![t].name = "inserted", ![t].slot = s],
             UNCHANGED <<context, inserted>>
      PROVE  ClaimInv' /\ SlotsInv'
  <2>1. call[t] \in CallType
    BY <1>2 DEF CardInv, IInv, CallsInv, In
  <2>2. handle' \in [0 .. Slots - 1 -> Handles] /\ handle'[s] = call[t].handle
        /\ \A r \in (0 .. Slots - 1) \ {s} : handle'[r] = handle[r]
    BY <1>2, <2>1 DEF CardInv, SlotsInv, CallType
  <2>3. SlotsInv'
    BY <1>2, <2>2 DEF CardInv, SlotsInv, Given
  <2>4. call'[t].slot = s /\ call'[t].handle = call[t].handle
    BY <1>2, <2>1 DEF CardInv, IInv, CallsInv, CallType
  <2>5. \A u \in Threads \ {t} : ~In(u, "inserted")'
    BY <1>2, HeapAssumption DEF CardInv, IInv, CallsInv, ClaimInv, In
  <2>6. ClaimInv'
    BY <1>2, <2>2, <2>4, <2>5 DEF ClaimInv
  <2> QED
    BY <2>3, <2>6
<1>3. ASSUME NEW t \in Threads, pscnv_ramht_insert(t)
      PROVE  ClaimInv' /\ SlotsInv'
  <2>1. CASE Back(t) /\ UNCHANGED <<ramhtLock, handle>>
    BY <1>3, <2>1, TableAlone
       DEF pscnv_ramht_insert, Back, In, CardInv, IInv, CallsInv
  <2>2. call[t].handle \in Handles
    BY <1>3 DEF pscnv_ramht_insert, CardInv, IInv, CallsInv, CallType, In
  <2>3. \A n \in 0 .. Slots - 1 : Probe(call[t].handle, n) \in 0 .. Slots - 1
    <3>1. Hash[call[t].handle] \in Nat /\ Slots \in Nat \ {0}
      BY <2>2, HeapAssumption
    <3> QED
      BY <3>1 DEF Probe
  <2> QED
    BY <1>2, <1>3, <2>1, <2>3 DEF pscnv_ramht_insert
<1>4. ASSUME NEW t \in Threads, InsertContext(t)
      PROVE  ClaimInv' /\ SlotsInv'
  <2>0. PICK s, h, c : s = call[t].slot /\ h = call[t].handle /\ c = call[t].obj
    OBVIOUS
  <2>1. s \in 0 .. Slots - 1 /\ handle[s] = h /\ ramhtLock = t
    BY <1>4, <2>0 DEF InsertContext, CardInv, ClaimInv
  <2>2. h \in Handles /\ c \in ContextType
    BY <1>4, <2>0 DEF InsertContext, CardInv, IInv, CallsInv, CallType, Made, In
  <2>3. context' = [context EXCEPT ![s] = c] /\ handle' = handle
        /\ inserted' = [inserted EXCEPT ![h] = Append(@, c)]
    BY <1>4, <2>0 DEF InsertContext
  <2>4. DOMAIN context = 0 .. Slots - 1 /\ inserted \in [Handles -> Seq(ContextType)]
    BY DEF CardInv, SlotsInv, IInv, TableInv
  <2>5. inserted[h] \in Seq(ContextType)
    BY <2>2, <2>4
  <2>6. /\ Append(inserted[h], c) \in Seq(ContextType)
        /\ Len(inserted[h]) + 1 \in DOMAIN Append(inserted[h], c)
        /\ Append(inserted[h], c)[Len(inserted[h]) + 1] = c
        /\ \A i \in DOMAIN inserted[h] : i \in DOMAIN Append(inserted[h], c)
             /\ Append(inserted[h], c)[i] = inserted[h][i]
    BY <2>2, <2>5
  <2>7. inserted' \in [Handles -> Seq(ContextType)] /\ inserted'[h] = Append(inserted[h], c)
        /\ \A g \in Handles \ {h} : inserted'[g] = inserted[g]
    BY <2>2, <2>3, <2>4, <2>6
  <2>8. \A g \in Handles : \A d : Given(g, d) => Given(g, d)'
    BY <2>6, <2>7 DEF Given
  <2>9. Given(h, c)'
    BY <2>6, <2>7 DEF Given
  <2>10. ASSUME NEW r \in 0 .. Slots - 1, context'[r] # Null
         PROVE  Given(handle[r], context[r])'
    <3>1. CASE r = s
      <4>1. context'[r] = c /\ handle'[r] = h
        BY <2>1, <2>3, <2>4, <3>1
      <4> QED
        BY <2>9, <4>1 DEF Given
    <3>2. CASE r # s
      <4>1. context'[r] = context[r] /\ handle'[r] = handle[r]
            /\ handle[r] \in Handles
        BY <2>3, <2>4, <3>2 DEF CardInv, SlotsInv
      <4>2. PICK g, d : g = handle[r] /\ d = context[r]
        OBVIOUS
      <4>3. Given(g, d)
        BY <2>10, <4>1, <4>2 DEF CardInv, SlotsInv
      <4>4. Given(g, d)'
        BY <2>8, <4>1, <4>2, <4>3
      <4> QED
        BY <4>1, <4>2, <4>4 DEF Given
    <3> QED
      BY <3>1, <3>2
  <2>11. SlotsInv'
    BY <2>3, <2>7, <2>10 DEF SlotsInv, CardInv
  <2>12. \A u \in Threads : ~In(u, "inserted")'
    BY <1>4, <2>1, HeapAssumption
       DEF InsertContext, Back, In, CardInv, IInv, CallsInv, ClaimInv
  <2>13. ClaimInv'
    BY <2>12 DEF ClaimInv
  <2> QED
    BY <2>11, <2>13
<1>5. ASSUME NEW t \in Threads, NEW n \in Stages \ {"inserted"},
             UNCHANGED <<handle, context, ramhtLock, inserted>>,
             \A u \in Threads \ {t} : call'[u] = call[u],
             call'[t] = Null \/ call'[t].name = n
      PROVE  ClaimInv' /\ SlotsInv'
  BY <1>5, TableAlone DEF In
<1> USE DEF RamhtUnchanged
<1>6. ASSUME NEW t \in Threads, NEW h \in Handles,
             \/ pscnv_ioctl_obj_vdma_new(t, h) \/ pscnv_ioctl_obj_eng_new(t, h)
             \/ nv50_fifo_chan_init(t, h)
      PROVE  ClaimInv' /\ SlotsInv'
  <2>1. CASE pscnv_ioctl_obj_vdma_new(t, h)
    BY <1>5, <2>1 DEF pscnv_ioctl_obj_vdma_new, Call, Stages, CardInv, IInv, CallsInv
  <2>2. CASE pscnv_ioctl_obj_eng_new(t, h)
    BY <1>5, <2>2 DEF pscnv_ioctl_obj_eng_new, Call, Stages, CardInv, IInv, CallsInv
  <2>3. CASE nv50_fifo_chan_init(t, h)
    BY <2>3, TableAlone DEF nv50_fifo_chan_init
  <2> QED
    BY <1>6, <2>1, <2>2, <2>3
<1>7. ASSUME NEW t \in Threads, NEW size, NEW eng, Take(t, size, eng, "fill"),
             call[t] # Null, UNCHANGED <<handle, context, ramhtLock, inserted>>
      PROVE  ClaimInv' /\ SlotsInv'
  <2>1. call[t] \in CallType
    BY <1>7 DEF CardInv, IInv, CallsInv
  <2> QED
    BY <1>5, <1>7, <2>1 DEF Take, Back, Stages, CallType, CardInv, IInv, CallsInv
<1>8. ASSUME NEW t \in Threads, nv50_chan_dmaobj_new(t)
      PROVE  ClaimInv' /\ SlotsInv'
  BY <1>7, <1>8 DEF nv50_chan_dmaobj_new, In
<1>9. ASSUME NEW t \in Threads, nv50_graph_chan_obj_new(t)
      PROVE  ClaimInv' /\ SlotsInv'
  BY <1>7, <1>9 DEF nv50_graph_chan_obj_new, In
<1>10. ASSUME NEW t \in Threads, Fill(t) \/ nv50_graph_chan_alloc(t) \/ SetEngdata(t)
       PROVE  ClaimInv' /\ SlotsInv'
  <2>1. call[t] \in CallType
    BY <1>10 DEF Fill, nv50_graph_chan_alloc, SetEngdata, In, CardInv, IInv, CallsInv
  <2>2. CASE Fill(t)
    BY <1>5, <2>1, <2>2 DEF Fill, Goto, Stages, CallType, CardInv, IInv, CallsInv
  <2>3. CASE SetEngdata(t)
    BY <1>5, <2>1, <2>3 DEF SetEngdata, Goto, Stages, CallType, CardInv, IInv, CallsInv
  <2>4. CASE nv50_graph_chan_alloc(t)
    BY <1>5, <2>1, <2>4
       DEF nv50_graph_chan_alloc, Back, Stages, CallType, CardInv, IInv, CallsInv
  <2> QED
    BY <1>10, <2>2, <2>3, <2>4
<1> QED
  BY <1>1, <1>3, <1>4, <1>6, <1>8, <1>9, <1>10 DEF Next

\* Whenever the card looks a handle up, what it takes for valid is written and
\* was made for that handle (pscnv_ramht_insert and its callers).
THEOREM CardAlwaysSeesRight == Spec => []CardSeesRight
<1>1. CardInv => CardSeesRight
  BY DEF CardInv, IInv, TableInv, SlotsInv, CardSeesRight, Given
<1> QED
  BY <1>1, InitCard, NextCard, PTL DEF Spec

-----------------------------------------------------------------------------
(* What is found.  A slot that is valid stays as it is.  So what is found   *)
(* once stays found: nothing before it on its way can become free or get    *)
(* its handle.  And the first object of a handle is found as soon as it is  *)
(* inserted: all slots before it are valid, and none has the handle, since  *)
(* a valid slot's handle was given something.                               *)

\* Contexts of the engine are allocated, and objects are those of the heap.
TypeInv ==
  /\ grctxs \subseteq 1 .. MaxGrctx /\ engdata \in grctxs \cup {Null}
  /\ \A s \in 0 .. Slots - 1 : context[s] = Null \/ context[s] \in Contexts
  /\ ramhtLock \in Threads \cup {Null}
  /\ \A t \in Threads :
       /\ call[t] # Null => call[t].obj \in Contexts \cup {Null}
       /\ In(t, "set_engdata") => call[t].slot \in grctxs
       /\ ramhtLock = t => In(t, "inserted")

\* All slots on the way to the one that a thread has claimed are valid.
Way(h, n) == \A k \in 0 .. n - 1 : context[Probe(h, k)] # Null
WayInv ==
  \A t \in Threads : In(t, "inserted") =>
    \E n \in 0 .. Slots - 1 :
      call[t].slot = Probe(call[t].handle, n) /\ Way(call[t].handle, n)

\* The first object of a handle is hit.
FoundInv ==
  \A h \in Handles : inserted[h] # <<>> =>
    \E n \in 0 .. Slots - 1 : Hit(h, n) /\ context[Probe(h, n)] = inserted[h][1]

FindInv == CardInv /\ TypeInv /\ WayInv /\ FoundInv

-----------------------------------------------------------------------------
\* Probing stays in the table.
LEMMA ProbeInTable ==
  ASSUME NEW h \in Handles, NEW n \in Nat
  PROVE  Probe(h, n) \in 0 .. Slots - 1
<1>1. Hash[h] \in Nat /\ Slots \in Nat \ {0}
  BY HeapAssumption
<1> QED
  BY <1>1 DEF Probe

\* A handle is hit once at most.
LEMMA OneHit ==
  ASSUME NEW h, NEW m \in Nat, NEW n \in Nat, Hit(h, m), Hit(h, n)
  PROVE  m = n
<1>1. ~(m < n)
  BY DEF Hit
<1>2. ~(n < m)
  BY DEF Hit
<1> QED
  BY <1>1, <1>2

\* A hit stays one, and the way to a slot stays valid, when valid slots stay.
LEMMA HitStays ==
  ASSUME NEW h \in Handles, NEW n \in 0 .. Slots - 1,
         \A s \in 0 .. Slots - 1 : context[s] # Null =>
           context'[s] = context[s] /\ handle'[s] = handle[s]
  PROVE  /\ Hit(h, n) => Hit(h, n)' /\ context'[Probe(h, n)] = context[Probe(h, n)]
         /\ Way(h, n) => Way(h, n)'
<1>1. \A k \in 0 .. n : Probe(h, k) \in 0 .. Slots - 1
  BY ProbeInTable
<1>2. UNCHANGED Probe(h, n) /\ \A k \in 0 .. n - 1 : UNCHANGED Probe(h, k)
  BY DEF Probe
<1> QED
  BY <1>1, <1>2 DEF Hit, Way

\* In all states that are reached, it is found as it was inserted.
LEMMA Found == FindInv => FoundAsInserted
<1> SUFFICES ASSUME FindInv PROVE FoundAsInserted
  OBVIOUS
<1>1. TypeOK
  BY DEF TypeOK, FindInv, CardInv, TypeInv, SlotsInv, ClaimInv, IInv, HeapInv, CallsInv,
         CallType
<1>2. ASSUME NEW h \in Handles, inserted[h] = <<>>
      PROVE  pscnv_ramht_find(h) = Null
  <2>1. \A n \in 0 .. Slots - 1 : ~Hit(h, n)
    <3> SUFFICES ASSUME NEW n \in 0 .. Slots - 1, Hit(h, n) PROVE FALSE
      OBVIOUS
    <3>1. Probe(h, n) \in 0 .. Slots - 1
      BY ProbeInTable
    <3>2. Given(h, context[Probe(h, n)])
      BY <3>1 DEF Hit, FindInv, CardInv, SlotsInv
    <3> QED
      BY <1>2, <3>2 DEF Given
  <2> QED
    BY <2>1 DEF pscnv_ramht_find
<1>3. ASSUME NEW h \in Handles, inserted[h] # <<>>
      PROVE  pscnv_ramht_find(h) = inserted[h][1]
  <2>1. PICK n \in 0 .. Slots - 1 : Hit(h, n) /\ context[Probe(h, n)] = inserted[h][1]
    BY <1>3 DEF FindInv, FoundInv
  <2>2. \A m \in 0 .. Slots - 1 : Hit(h, m) => m = n
    BY <2>1, OneHit
  <2>3. {m \in 0 .. Slots - 1 : Hit(h, m)} = {n}
    BY <2>1, <2>2
  <2> QED
    BY <2>1, <2>3 DEF pscnv_ramht_find
<1> QED
  BY <1>1, <1>2, <1>3 DEF FoundAsInserted

LEMMA InitFind == Init => FindInv
<1> SUFFICES ASSUME Init PROVE FindInv
  OBVIOUS
<1>1. TypeInv /\ WayInv
  BY HeapAssumption DEF Init, TypeInv, WayInv, In
<1>2. FoundInv
  BY DEF Init, FoundInv
<1> QED
  BY <1>1, <1>2, InitCard DEF FindInv

\* Steps that leave the table, and the calls that are writing to it, alone.
LEMMA TableStays ==
  ASSUME FindInv, UNCHANGED <<handle, context, inserted>>,
         \A t \in Threads : In(t, "inserted")' => call'[t] = call[t]
  PROVE  WayInv' /\ FoundInv'
<1>1. WayInv'
  BY DEF FindInv, WayInv, Way, Probe, In
<1>2. FoundInv'
  BY DEF FindInv, FoundInv, Hit, Probe
<1> QED
  BY <1>1, <1>2

\* The step of one thread keeps the types.
LEMMA TypeStays ==
  ASSUME FindInv, NEW t \in Threads, \A u \in Threads \ {t} : call'[u] = call[u],
         heap \subseteq heap', grctxs \subseteq grctxs', grctxs' \subseteq 1 .. MaxGrctx,
         engdata' \in grctxs' \cup {Null},
         \A s \in 0 .. Slots - 1 : context'[s] = context[s] \/ context'[s] \in Contexts,
         call'[t] # Null => call'[t].obj \in Contexts' \cup {Null},
         In(t, "set_engdata")' => call'[t].slot \in grctxs',
         ramhtLock' \in {ramhtLock, t, Null}, ramhtLock' = t => In(t, "inserted")'
  PROVE  TypeInv'
<1>1. Contexts \subseteq Contexts'
  BY DEF Contexts
<1>2. \A s \in 0 .. Slots - 1 : context'[s] = Null \/ context'[s] \in Contexts'
  BY <1>1 DEF FindInv, TypeInv
<1>3. ASSUME NEW u \in Threads \ {t}
      PROVE  /\ call'[u] # Null => call'[u].obj \in Contexts' \cup {Null}
             /\ In(u, "set_engdata")' => call'[u].slot \in grctxs'
             /\ ramhtLock' = u => In(u, "inserted")'
  BY <1>1, HeapAssumption DEF FindInv, TypeInv, In
<1>4. ramhtLock' \in Threads \cup {Null}
  BY DEF FindInv, TypeInv
<1> QED
  BY <1>2, <1>3, <1>4 DEF TypeInv

\* A thread claims the first free slot on the way.
LEMMA Claim ==
  ASSUME FindInv, NEW t \in Threads, NEW n \in 0 .. Slots - 1, In(t, "insert"),
         ramhtLock = Null, ramhtLock' = t,
         context[Probe(call[t].handle, n)] = Null, Way(call[t].handle, n),
         handle' = [handle EXCEPT ![Probe(call[t].handle, n)] = call[t].handle],
         call' = [call EXCEPT ![t].name = "inserted", ![t].slot = Probe(call[t].handle, n)],
         UNCHANGED <<context, inserted, heap, grctxs, engdata>>
  PROVE  TypeInv' /\ WayInv' /\ FoundInv'
<1> DEFINE h == call[t].handle
<1>1. call \in [Threads -> CallType \cup {Null}] /\ call[t] \in CallType /\ h \in Handles
  BY DEF FindInv, CardInv, IInv, CallsInv, In, CallType
<1>2. PICK c : c = [call[t] EXCEPT !.name = "inserted", !.slot = Probe(h, n)]
  OBVIOUS
<1>3. call' = [call EXCEPT ![t] = c]
  BY <1>1, <1>2
<1>4. c \in CallType /\ c.name = "inserted" /\ c.slot = Probe(h, n) /\ c.handle = h
      /\ c.obj = call[t].obj
  <2>1. Probe(h, n) \in Nat
    BY <1>1, ProbeInTable
  <2> QED
    BY <1>1, <1>2, <2>1 DEF CallType, Stages
<1>5. call'[t] = c /\ \A u \in Threads \ {t} : call'[u] = call[u]
  BY <1>1, <1>3
<1>6. c # Null
  BY <1>4, NullAssumption
<1>7. \A s \in 0 .. Slots - 1 : context[s] # Null =>
        context'[s] = context[s] /\ handle'[s] = handle[s]
  BY DEF FindInv, CardInv, SlotsInv
<1>8. \A u \in Threads \ {t} : ~In(u, "inserted")'
  BY <1>5, HeapAssumption DEF FindInv, CardInv, ClaimInv, In
<1>9. WayInv'
  <2>1. \A k \in 0 .. n - 1 : context'[Probe(call'[t].handle, k)] # Null
    BY <1>4, <1>5 DEF Way, Probe
  <2>2. call'[t].slot = Probe(call'[t].handle, n)
    BY <1>4, <1>5 DEF Probe
  <2> QED
    BY <1>8, <2>1, <2>2 DEF WayInv, Probe, Way
<1>10. FoundInv'
  BY <1>7, HitStays DEF FindInv, FoundInv, Probe
<1>11. TypeInv'
  <2>1. In(t, "inserted")' /\ ~In(t, "set_engdata")'
    BY <1>4, <1>5, <1>6 DEF In
  <2>2. call'[t].obj \in (Contexts \cup {Null})' /\ engdata \in grctxs \cup {Null}
        /\ grctxs \subseteq 1 .. MaxGrctx
    <3>1. UNCHANGED Contexts
      BY DEF Contexts
    <3> QED
      BY <1>4, <1>5, <3>1 DEF FindInv, TypeInv, In
  <2> QED
    BY <1>5, <2>1, <2>2, TypeStays
<1> QED
  BY <1>9, <1>10, <1>11

\* The slot that was claimed becomes valid.
LEMMA Complete ==
  ASSUME FindInv, NEW t \in Threads, InsertContext(t)
  PROVE  TypeInv' /\ WayInv' /\ FoundInv'
<1> PICK h, c, s : h = call[t].handle /\ c = call[t].obj /\ s = call[t].slot
  OBVIOUS
<1>1. /\ In(t, "inserted") /\ call'[t] = Null
      /\ \A u \in Threads \ {t} : call'[u] = call[u]
  BY DEF InsertContext, Back, FindInv, CardInv, IInv, CallsInv
<1>2. ramhtLock = t /\ s \in 0 .. Slots - 1 /\ handle[s] = h /\ context[s] = Null
  BY <1>1 DEF FindInv, CardInv, ClaimInv
<1>3. h \in Handles /\ c \in ContextType /\ c # Null /\ c \in Contexts
  <2>1. h \in Handles /\ c \in ContextType
    BY <1>1 DEF FindInv, CardInv, IInv, CallsInv, CallType, Made, In
  <2>2. c \in Contexts \cup {Null}
    BY <1>1 DEF FindInv, TypeInv, In
  <2> QED
    BY <2>1, <2>2, NullAssumption
<1>4. context' = [context EXCEPT ![s] = c] /\ ramhtLock' = Null
      /\ inserted' = [inserted EXCEPT ![h] = Append(@, c)]
      /\ UNCHANGED <<handle, heap, grctxs, engdata>>
  BY DEF InsertContext, EngineUnchanged
<1>5. DOMAIN context = 0 .. Slots - 1 /\ inserted \in [Handles -> Seq(ContextType)]
  BY DEF FindInv, CardInv, SlotsInv, IInv, TableInv
<1>6. context'[s] = c /\ \A r \in (0 .. Slots - 1) \ {s} : context'[r] = context[r]
  BY <1>2, <1>4, <1>5
<1>7. \A r \in 0 .. Slots - 1 : context[r] # Null =>
        context'[r] = context[r] /\ handle'[r] = handle[r]
  BY <1>2, <1>4, <1>6
<1>8. TypeInv'
  <2>1. \A r \in 0 .. Slots - 1 : context'[r] = context[r] \/ context'[r] \in Contexts
    BY <1>3, <1>6
  <2>2. engdata \in grctxs \cup {Null} /\ grctxs \subseteq 1 .. MaxGrctx
    BY DEF FindInv, TypeInv
  <2> QED
    BY <1>1, <1>4, <2>1, <2>2, TypeStays, HeapAssumption DEF In
<1>9. WayInv'
  BY <1>1, <1>2, HeapAssumption DEF WayInv, FindInv, CardInv, ClaimInv, In
<1>10. ASSUME NEW g \in Handles, inserted'[g] # <<>>
       PROVE  \E n \in 0 .. Slots - 1 :
                Hit(g, n)' /\ context'[Probe(g, n)] = inserted'[g][1]
  <2>1. CASE inserted[g] # <<>>
    <3>1. PICK n \in 0 .. Slots - 1 : Hit(g, n) /\ context[Probe(g, n)] = inserted[g][1]
      BY <2>1 DEF FindInv, FoundInv
    <3>2. inserted'[g][1] = inserted[g][1]
      BY <1>3, <1>4, <1>5, <2>1
    <3> QED
      BY <1>7, <3>1, <3>2, HitStays
  <2>2. CASE inserted[g] = <<>>
    <3>1. g = h /\ inserted'[g][1] = c
      BY <1>3, <1>4, <1>5, <1>10, <2>2
    <3>2. PICK n \in 0 .. Slots - 1 : s = Probe(h, n) /\ Way(h, n)
      BY <1>1 DEF FindInv, WayInv
    <3>3. \A r \in 0 .. Slots - 1 : context[r] # Null => handle[r] # h
      BY <2>2, <3>1 DEF FindInv, CardInv, SlotsInv, Given
    <3>4. \A k \in 0 .. n - 1 : context'[Probe(h, k)] # Null /\ handle'[Probe(h, k)] # h
      <4>1. ASSUME NEW k \in 0 .. n - 1
            PROVE  Probe(h, k) \in 0 .. Slots - 1 /\ context[Probe(h, k)] # Null
        BY <1>3, <3>2, ProbeInTable DEF Way
      <4> QED
        BY <1>7, <3>3, <4>1
    <3>5. Hit(h, n)'
      BY <1>2, <1>3, <1>4, <1>6, <3>2, <3>4 DEF Hit, Probe
    <3> QED
      BY <1>6, <3>1, <3>2, <3>5
  <2> QED
    BY <2>1, <2>2
<1>11. FoundInv'
  BY <1>10 DEF FoundInv, Probe
<1> QED
  BY <1>8, <1>9, <1>11

\* A call goes on outside of the table.
LEMMA OffTable ==
  ASSUME FindInv, NEW t \in Threads, NEW c \in CallType \cup {Null},
         call' = [call EXCEPT ![t] = c], ~In(t, "inserted"),
         UNCHANGED <<handle, context, ramhtLock, inserted>>,
         heap \subseteq heap', grctxs \subseteq grctxs', grctxs' \subseteq 1 .. MaxGrctx,
         engdata' \in grctxs' \cup {Null},
         c # Null => /\ c.name # "inserted" /\ c.obj \in Contexts' \cup {Null}
                     /\ c.name = "set_engdata" => c.slot \in grctxs'
  PROVE  TypeInv' /\ WayInv' /\ FoundInv'
<1>1. call'[t] = c /\ \A u \in Threads \ {t} : call'[u] = call[u]
  BY DEF FindInv, CardInv, IInv, CallsInv
<1>2. WayInv' /\ FoundInv'
  BY <1>1, TableStays DEF In
<1>3. ramhtLock' # t
  BY DEF FindInv, TypeInv
<1>4. TypeInv'
  BY <1>1, <1>3, TypeStays DEF In
<1> QED
  BY <1>2, <1>4

LEMMA NextFind == FindInv /\ [Next]_vars => FindInv'
<1> SUFFICES ASSUME FindInv, [Next]_vars PROVE TypeInv' /\ WayInv' /\ FoundInv'
  BY NextCard DEF FindInv
<1>1. CASE UNCHANGED vars
  <2>1. WayInv' /\ FoundInv'
    BY <1>1, TableStays DEF vars, In
  <2>2. TypeInv'
    BY <1>1 DEF vars, FindInv, TypeInv, In, Contexts
  <2> QED
    BY <2>1, <2>2
<1>2. \A t \in Threads : call[t] # Null =>
        call[t] \in CallType /\ call[t].obj \in Contexts \cup {Null}
  BY DEF FindInv, CardInv, IInv, CallsInv, TypeInv
<1>3. grctxs \subseteq 1 .. MaxGrctx /\ engdata \in grctxs \cup {Null}
  BY DEF FindInv, TypeInv
<1>4. ASSUME UNCHANGED heap PROVE UNCHANGED Contexts
  BY <1>4 DEF Contexts
<1> USE DEF RamhtUnchanged, EngineUnchanged
<1>5. ASSUME NEW t \in Threads, NEW h \in Handles,
             pscnv_ioctl_obj_vdma_new(t, h) \/ pscnv_ioctl_obj_eng_new(t, h)
      PROVE  TypeInv' /\ WayInv' /\ FoundInv'
  <2>1. PICK n \in {"dmaobj_new", "chan_alloc", "obj_new"} :
          call' = [call EXCEPT ![t] = Call(n, h, Null, 0)]
    BY <1>5 DEF pscnv_ioctl_obj_vdma_new, pscnv_ioctl_obj_eng_new
  <2>2. PICK c : c = Call(n, h, Null, 0)
    OBVIOUS
  <2>3. c \in CallType /\ c.name = n /\ c.obj = Null
    BY <2>2 DEF Call, CallType, Stages
  <2>4. call[t] = Null /\ UNCHANGED <<heap, grctxs, engdata>>
        /\ UNCHANGED <<handle, context, ramhtLock, inserted>>
    BY <1>5 DEF pscnv_ioctl_obj_vdma_new, pscnv_ioctl_obj_eng_new
  <2> QED
    BY <1>3, <2>1, <2>2, <2>3, <2>4, OffTable DEF In
<1>6. ASSUME NEW t \in Threads, NEW h \in Handles, nv50_fifo_chan_init(t, h)
      PROVE  TypeInv' /\ WayInv' /\ FoundInv'
  <2>1. UNCHANGED <<heap, grctxs, engdata, call, handle, context, ramhtLock, inserted>>
    BY <1>6 DEF nv50_fifo_chan_init
  <2>2. WayInv' /\ FoundInv'
    BY <2>1, TableStays DEF In
  <2>3. TypeInv'
    BY <2>1 DEF FindInv, TypeInv, In, Contexts
  <2> QED
    BY <2>2, <2>3
<1>7. ASSUME NEW t \in Threads, NEW size \in Nat \ {0}, NEW eng \in BOOLEAN,
             Take(t, size, eng, "fill"), call[t] # Null, ~In(t, "inserted"),
             UNCHANGED <<handle, context, ramhtLock, inserted, grctxs, engdata>>
      PROVE  TypeInv' /\ WayInv' /\ FoundInv'
  <2>1. CASE Back(t) /\ UNCHANGED heap
    BY <1>3, <1>7, <2>1, OffTable DEF Back
  <2>2. CASE /\ nv50_chan_iobj_new(size)
             /\ call' = [call EXCEPT ![t].name = "fill", ![t].obj = Context(instpos, eng)]
    <3>1. PICK c : c = [call[t] EXCEPT !.name = "fill", !.obj = Context(instpos, eng)]
      OBVIOUS
    <3>2. Context(instpos, eng) \in ContextType /\ Context(instpos, eng) \in Contexts'
      <4>1. heap' = heap \cup {Object(instpos, size)} /\ Object(instpos, size).at = instpos
        BY <2>2 DEF nv50_chan_iobj_new, Object
      <4>2. instpos \in Nat
        BY DEF FindInv, CardInv, IInv, HeapInv
      <4> QED
        BY <4>1, <4>2 DEF Contexts, Context, ContextType
    <3>3. c \in CallType /\ c.name = "fill" /\ c.obj \in Contexts'
      BY <1>2, <1>7, <3>1, <3>2 DEF CallType, Stages
    <3>4. call' = [call EXCEPT ![t] = c] /\ heap \subseteq heap'
      BY <2>2, <3>1 DEF nv50_chan_iobj_new
    <3> QED
      BY <1>3, <1>7, <3>3, <3>4, OffTable
  <2> QED
    BY <1>7, <2>1, <2>2 DEF Take
<1>8. ASSUME NEW t \in Threads, nv50_chan_dmaobj_new(t) \/ nv50_graph_chan_obj_new(t)
      PROVE  TypeInv' /\ WayInv' /\ FoundInv'
  <2>1. DmaSize \in Nat \ {0} /\ EngSize \in Nat \ {0}
    BY DEF DmaSize, EngSize
  <2>2. CASE nv50_chan_dmaobj_new(t)
    BY <1>7, <2>1, <2>2 DEF nv50_chan_dmaobj_new, In
  <2>3. CASE nv50_graph_chan_obj_new(t)
    BY <1>7, <2>1, <2>3 DEF nv50_graph_chan_obj_new, In
  <2> QED
    BY <1>8, <2>2, <2>3
<1>9. ASSUME NEW t \in Threads, NEW n \in {"insert", "obj_new"}, Goto(t, n), call[t] # Null,
             ~In(t, "inserted"), UNCHANGED <<handle, context, ramhtLock, inserted, heap, grctxs>>,
             engdata' \in grctxs \cup {Null}
      PROVE  TypeInv' /\ WayInv' /\ FoundInv'
  <2>1. PICK c : c = [call[t] EXCEPT !.name = n]
    OBVIOUS
  <2>2. c \in CallType /\ c.name = n /\ c.obj \in Contexts' \cup {Null}
    BY <1>2, <1>4, <1>9, <2>1 DEF CallType, Stages
  <2> QED
    BY <1>3, <1>9, <2>1, <2>2, OffTable DEF Goto
<1>10. ASSUME NEW t \in Threads, Fill(t) \/ SetEngdata(t)
       PROVE  TypeInv' /\ WayInv' /\ FoundInv'
  <2>1. CASE Fill(t)
    BY <1>3, <1>9, <2>1 DEF Fill, In
  <2>2. CASE SetEngdata(t)
    <3>1. engdata' \in grctxs
      BY <2>2 DEF SetEngdata, FindInv, TypeInv
    <3> QED
      BY <1>9, <2>2, <3>1 DEF SetEngdata, In
  <2> QED
    BY <1>10, <2>1, <2>2
<1>11. ASSUME NEW t \in Threads, nv50_graph_chan_alloc(t)
       PROVE  TypeInv' /\ WayInv' /\ FoundInv'
  <2>1. call[t] # Null /\ ~In(t, "inserted")
        /\ UNCHANGED <<handle, context, ramhtLock, inserted, heap, engdata>>
    BY <1>11 DEF nv50_graph_chan_alloc, In
  <2>2. CASE Back(t) /\ UNCHANGED grctxs
    BY <1>3, <2>1, <2>2, OffTable DEF Back
  <2>3. ASSUME NEW g \in 1 .. MaxGrctx, grctxs' = grctxs \cup {g},
               call' = [call EXCEPT ![t].name = "set_engdata", ![t].slot = g]
        PROVE  TypeInv' /\ WayInv' /\ FoundInv'
    <3>1. PICK c : c = [call[t] EXCEPT !.name = "set_engdata", !.slot = g]
      OBVIOUS
    <3>2. c \in CallType /\ c.name = "set_engdata" /\ c.slot = g
          /\ c.obj \in Contexts' \cup {Null}
      <4>1. UNCHANGED Contexts
        BY <1>4, <2>1
      <4>2. call[t] \in CallType /\ call[t].obj \in Contexts \cup {Null}
        BY <1>2, <2>1
      <4>3. g \in Nat
        BY <2>3, HeapAssumption
      <4> QED
        BY <3>1, <4>1, <4>2, <4>3 DEF CallType, Stages
    <3>3. call' = [call EXCEPT ![t] = c]
      BY <2>3, <3>1
    <3>4. c.slot \in grctxs' /\ grctxs \subseteq grctxs'
          /\ grctxs' \subseteq 1 .. MaxGrctx /\ engdata' \in grctxs' \cup {Null}
      BY <1>3, <2>1, <2>3, <3>2
    <3> QED
      BY <2>1, <3>2, <3>3, <3>4, OffTable
  <2> QED
    BY <1>11, <2>2, <2>3 DEF nv50_graph_chan_alloc
<1>12. ASSUME NEW t \in Threads, pscnv_ramht_insert(t)
       PROVE  TypeInv' /\ WayInv' /\ FoundInv'
  <2>1. CASE Back(t) /\ UNCHANGED <<ramhtLock, handle>>
    BY <1>3, <1>12, <2>1, OffTable DEF pscnv_ramht_insert, Back, In
  <2>2. ASSUME NEW n \in 0 .. Slots - 1,
               context[Probe(call[t].handle, n)] = Null,
               \A k \in 0 .. n - 1 : context[Probe(call[t].handle, k)] # Null,
               ramhtLock' = t,
               handle' = [handle EXCEPT ![Probe(call[t].handle, n)] = call[t].handle],
               call' = [call EXCEPT ![t].name = "inserted",
                                    ![t].slot = Probe(call[t].handle, n)]
        PROVE  TypeInv' /\ WayInv' /\ FoundInv'
    BY <1>12, <2>2, Claim DEF pscnv_ramht_insert, Way
  <2> QED
    BY <1>12, <2>1, <2>2 DEF pscnv_ramht_insert
<1>13. ASSUME NEW t \in Threads, InsertContext(t)
       PROVE  TypeInv' /\ WayInv' /\ FoundInv'
  BY <1>13, Complete
<1> QED
  BY <1>1, <1>5, <1>6, <1>8, <1>10, <1>11, <1>12, <1>13 DEF Next

\* Whatever calls race, the driver finds each handle as the first object that was
\* inserted under it, and no other handle (pscnv_ramht_find, pscnv_ramht_insert),
\* also when the table is full and probing wraps around its end.
THEOREM SpecFoundAsInserted == Spec => []FoundAsInserted
  BY InitFind, NextFind, Found, PTL DEF Spec
=============================================================================
