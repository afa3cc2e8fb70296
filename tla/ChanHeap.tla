------------------------------ MODULE ChanHeap ------------------------------
(***************************************************************************)
(* The instance memory of an NV50 channel: a heap of objects that is only  *)
(* ever added to (nv50_chan.c), the hash table by which the card and the   *)
(* driver find them by handle (pscnv_ramht.c), the calls that add DMA and  *)
(* engine objects, and the one that makes a push buffer of a DMA object.   *)
(* Clients call with no lock but those the calls take themselves.          *)
(*                                                                         *)
(* Lengths are in units of 16 bytes, the granularity of the heap.          *)
(***************************************************************************)
EXTENDS Integers, Sequences

CONSTANTS
  Threads,
  Handles,      \* the handles that clients choose
  Slots,        \* entries of the hash table: 1 << ramht->bits
  Hash,         \* pscnv_ramht_hash, by handle
  Start,        \* where the page directory of the channel ends
  RamhtSize,    \* length of the hash table
  RamfcSize,    \* length of the FIFO context, 0 where it is outside of the heap
  BoSize,       \* length of the instance memory
  MaxGrctx,     \* bound: contexts of the engine that fit into VRAM
  Null

DmaSize == 2    \* 0x18 bytes, rounded
EngSize == 1    \* 0x10 bytes

ASSUME HeapAssumption ==
  /\ Null \notin Threads
  /\ Slots \in Nat \ {0}
  /\ Hash \in [Handles -> 0 .. Slots - 1]
  /\ Start \in Nat \ {0}
  /\ RamhtSize \in Nat \ {0} /\ RamfcSize \in Nat /\ BoSize \in Nat
  /\ Start + RamhtSize + RamfcSize <= BoSize
  /\ MaxGrctx \in Nat

\* The word of an object, and a call: its next step, and what it has so far.
ContextType == [at : Nat, eng : BOOLEAN]
Stages == {"dmaobj_new", "chan_alloc", "set_engdata", "obj_new", "fill", "insert",
           "inserted"}
CallType == [name : Stages, handle : Handles, obj : ContextType \cup {Null}, slot : Nat]

ASSUME NullAssumption == Null \notin ContextType /\ Null \notin CallType

VARIABLES
  instpos,    \* ch->instpos
  heap,       \* what nv50_chan_iobj_new has handed out
  written,    \* the objects whose words have been written
  handle,     \* of a slot: its first word, whatever memory held at first
  context,    \* of a slot: its second word, Null for 0
  ramhtLock,  \* the thread that holds ramht->lock
  grctxs,     \* contexts of the engine that are allocated
  engdata,    \* ch->engdata[i]
  pusher,     \* the object that the FIFO context names as push buffer, or Null
  call,       \* of a thread: the call it is in, Null for none
  inserted    \* history: of a handle, the contexts it was given, and in which order

vars == <<instpos, heap, written, handle, context, ramhtLock, grctxs, engdata,
          pusher, call, inserted>>

\* An object: where it is and how long.
Object(at, size) == [at |-> at, size |-> size]

\* The word that the table keeps of an object: its address, and a bit for
\* objects of the engine.
Context(at, eng) == [at |-> at, eng |-> eng]

\* nv50_chan_new: the hash table and the FIFO context are the first objects,
\* and only the second words of the table are cleared.
Init ==
  /\ instpos = Start + RamhtSize + RamfcSize
  /\ heap = {Object(Start, RamhtSize)}
       \cup (IF RamfcSize = 0 THEN {} ELSE {Object(Start + RamhtSize, RamfcSize)})
  /\ written = {}
  /\ \E h \in Handles : handle = [s \in 0 .. Slots - 1 |-> h]
  /\ context = [s \in 0 .. Slots - 1 |-> Null]
  /\ ramhtLock = Null
  /\ grctxs = {} /\ engdata = Null
  /\ pusher = Null
  /\ call = [t \in Threads |-> Null]
  /\ inserted = [h \in Handles |-> <<>>]

RamhtUnchanged == UNCHANGED <<handle, context, ramhtLock, inserted>>
EngineUnchanged == UNCHANGED <<grctxs, engdata>>

Call(name, h, obj, slot) == [name |-> name, handle |-> h, obj |-> obj, slot |-> slot]
In(t, name) == call[t] # Null /\ call[t].name = name
Goto(t, name) == call' = [call EXCEPT ![t].name = name]
Back(t) == call' = [call EXCEPT ![t] = Null]

-----------------------------------------------------------------------------
(* nv50_chan_iobj_new: one step, under instlock.                           *)

\* Faulty variant: tests where the object starts, not where it ends.
FitsStart(size) == instpos <= BoSize

Fits(size) == instpos + size <= BoSize

nv50_chan_iobj_new(size) ==
  /\ Fits(size)
  /\ heap' = heap \cup {Object(instpos, size)}
  /\ instpos' = instpos + size

\* An object of this call's own, with the address as its identity.
Take(t, size, eng, next) ==
  \/ /\ nv50_chan_iobj_new(size)
     /\ call' = [call EXCEPT ![t].name = next, ![t].obj = Context(instpos, eng)]
  \/ /\ ~Fits(size) /\ Back(t)
     /\ UNCHANGED <<heap, instpos>>

\* pscnv_ioctl_obj_vdma_new, after the lookup of the channel.
pscnv_ioctl_obj_vdma_new(t, h) ==
  /\ call[t] = Null
  /\ call' = [call EXCEPT ![t] = Call("dmaobj_new", h, Null, 0)]
  /\ UNCHANGED <<instpos, heap, written, pusher>>
  /\ RamhtUnchanged /\ EngineUnchanged

nv50_chan_dmaobj_new(t) ==
  /\ In(t, "dmaobj_new") /\ Take(t, DmaSize, FALSE, "fill")
  /\ UNCHANGED <<written, pusher>> /\ RamhtUnchanged /\ EngineUnchanged

\* The words of the object, then the flush.
Fill(t) ==
  /\ In(t, "fill")
  /\ written' = written \cup {call[t].obj.at}
  /\ Goto(t, "insert")
  /\ UNCHANGED <<instpos, heap, pusher>> /\ RamhtUnchanged /\ EngineUnchanged

-----------------------------------------------------------------------------
(* pscnv_ramht.c                                                           *)

\* The slots in the order in which they are probed: from the hash to the end,
\* and from the start to the hash.
Probe(h, n) == (Hash[h] + n) % Slots

\* Faulty variant: the word that makes the slot valid is written first.
InsertContextFirst(t) ==
  /\ In(t, "insert") /\ ramhtLock = Null
  /\ \E s \in 0 .. Slots - 1 :
       /\ context[s] = Null /\ s = Hash[call[t].handle]
       /\ ramhtLock' = t
       /\ context' = [context EXCEPT ![s] = call[t].obj]
       /\ call' = [call EXCEPT ![t].name = "inserted", ![t].slot = s]
  /\ UNCHANGED <<instpos, heap, written, handle, inserted, pusher>>
  /\ EngineUnchanged

\* The first slot that is free, if any is.
pscnv_ramht_insert(t) ==
  /\ In(t, "insert") /\ ramhtLock = Null
  /\ \/ \E n \in 0 .. Slots - 1 :
          LET s == Probe(call[t].handle, n) IN
          /\ context[s] = Null
          /\ \A k \in 0 .. n - 1 : context[Probe(call[t].handle, k)] # Null
          /\ ramhtLock' = t
          /\ handle' = [handle EXCEPT ![s] = call[t].handle]
          /\ call' = [call EXCEPT ![t].name = "inserted", ![t].slot = s]
     \/ /\ \A s \in 0 .. Slots - 1 : context[s] # Null
        /\ Back(t) /\ UNCHANGED <<ramhtLock, handle>>
  /\ UNCHANGED <<instpos, heap, written, context, inserted, pusher>>
  /\ EngineUnchanged

\* The second word, which makes the slot valid to the card.
InsertContext(t) ==
  /\ In(t, "inserted")
  /\ context' = [context EXCEPT ![call[t].slot] = call[t].obj]
  /\ ramhtLock' = Null
  /\ inserted' = [inserted EXCEPT ![call[t].handle] = Append(@, call[t].obj)]
  /\ Back(t)
  /\ UNCHANGED <<instpos, heap, written, handle, pusher>> /\ EngineUnchanged

\* Probing from the hash on, the n-th slot has the handle and none before it
\* has it or is free.
Hit(h, n) ==
  /\ context[Probe(h, n)] # Null /\ handle[Probe(h, n)] = h
  /\ \A k \in 0 .. n - 1 : context[Probe(h, k)] # Null /\ handle[Probe(h, k)] # h

\* Faulty variant: stops at the end of the table.
FindNoWrap(h) ==
  LET hits == {n \in 0 .. Slots - 1 - Hash[h] : Hit(h, n)}
  IN IF hits = {} THEN Null ELSE context[Probe(h, CHOOSE n \in hits : TRUE)]

\* There is one hit at most.
pscnv_ramht_find(h) ==
  LET hits == {n \in 0 .. Slots - 1 : Hit(h, n)}
  IN IF hits = {} THEN Null ELSE context[Probe(h, CHOOSE n \in hits : TRUE)]

-----------------------------------------------------------------------------
(* pscnv_ioctl_obj_eng_new and nv50_graph.c                                *)

\* Whether the channel has a context is looked at without a lock.
pscnv_ioctl_obj_eng_new(t, h) ==
  /\ call[t] = Null
  /\ call' = [call EXCEPT ![t] =
       Call(IF engdata = Null THEN "chan_alloc" ELSE "obj_new", h, Null, 0)]
  /\ UNCHANGED <<instpos, heap, written, pusher>>
  /\ RamhtUnchanged /\ EngineUnchanged

\* A context is allocated and filled, and named in the channel's header.
nv50_graph_chan_alloc(t) ==
  /\ In(t, "chan_alloc")
  /\ \/ \E g \in 1 .. MaxGrctx \ grctxs :
          /\ grctxs' = grctxs \cup {g}
          /\ call' = [call EXCEPT ![t].name = "set_engdata", ![t].slot = g]
     \/ Back(t) /\ UNCHANGED grctxs
  /\ UNCHANGED <<instpos, heap, written, engdata, pusher>> /\ RamhtUnchanged

SetEngdata(t) ==
  /\ In(t, "set_engdata")
  /\ engdata' = call[t].slot /\ Goto(t, "obj_new")
  /\ UNCHANGED <<instpos, heap, written, grctxs, pusher>> /\ RamhtUnchanged

nv50_graph_chan_obj_new(t) ==
  /\ In(t, "obj_new") /\ Take(t, EngSize, TRUE, "fill")
  /\ UNCHANGED <<written, pusher>> /\ RamhtUnchanged /\ EngineUnchanged

-----------------------------------------------------------------------------
(* nv50_fifo.c: the channel gets its push buffer, and the card runs it.    *)

\* Faulty variant: takes any object.
PushbufAny(t, h) ==
  /\ call[t] = Null /\ ramhtLock = Null
  /\ pscnv_ramht_find(h) # Null
  /\ pusher' = pscnv_ramht_find(h)
  /\ UNCHANGED <<instpos, heap, written, call>>
  /\ RamhtUnchanged /\ EngineUnchanged

\* nv50_fifo_chan_init_dma and nv50_fifo_chan_init_ib: the handle must be known,
\* and the bits of an engine object are refused.
nv50_fifo_chan_init(t, h) ==
  /\ call[t] = Null /\ ramhtLock = Null
  /\ LET inst == pscnv_ramht_find(h) IN
       inst # Null /\ ~inst.eng /\ pusher' = inst
  /\ UNCHANGED <<instpos, heap, written, call>>
  /\ RamhtUnchanged /\ EngineUnchanged

Next ==
  \E t \in Threads :
    \/ \E h \in Handles :
         \/ pscnv_ioctl_obj_vdma_new(t, h) \/ pscnv_ioctl_obj_eng_new(t, h)
         \/ nv50_fifo_chan_init(t, h)
    \/ nv50_chan_dmaobj_new(t) \/ Fill(t)
    \/ pscnv_ramht_insert(t) \/ InsertContext(t)
    \/ nv50_graph_chan_alloc(t) \/ SetEngdata(t) \/ nv50_graph_chan_obj_new(t)

Spec == Init /\ [][Next]_vars
-----------------------------------------------------------------------------
(* Properties                                                              *)

Contexts == {Context(o.at, e) : o \in heap, e \in BOOLEAN}

\* The variables stay in their types, and a slot is only claimed under the lock.
TypeOK ==
  /\ instpos \in Nat
  /\ handle \in [0 .. Slots - 1 -> Handles]
  /\ \A s \in 0 .. Slots - 1 : context[s] = Null \/ context[s] \in Contexts
  /\ ramhtLock \in Threads \cup {Null}
  /\ grctxs \subseteq 1 .. MaxGrctx /\ engdata \in grctxs \cup {Null}
  /\ \A t \in Threads :
       /\ call[t] # Null =>
            call[t].handle \in Handles /\ call[t].obj \in Contexts \cup {Null}
       /\ In(t, "inserted") <=> ramhtLock = t

\* Objects in the instance memory of a channel lie between its page directory
\* and its end and never overlap, whichever calls race and whichever find the
\* heap full (nv50_chan_iobj_new).
InHeap(o) == Start <= o.at /\ o.at + o.size <= instpos
Disjoint(o, p) == o.at + o.size <= p.at \/ p.at + p.size <= o.at
HeapDisjoint ==
  /\ instpos <= BoSize
  /\ \A o \in heap : InHeap(o)
  /\ \A o, p \in heap : o # p => Disjoint(o, p)

\* The card looks handles up with no lock: every slot it takes for valid names
\* an object that was made for the handle beside it, and all of whose words are
\* written (pscnv_ramht_insert writes the handle before the context, and the
\* callers fill the object before they insert it).
CardSeesRight ==
  \A s \in 0 .. Slots - 1 :
    context[s] # Null =>
      /\ context[s].at \in written
      /\ \E i \in DOMAIN inserted[handle[s]] : inserted[handle[s]][i] = context[s]

\* A handle that was inserted is found, as the first object it was given, and
\* one that was not is not, also when probing wraps around the end of the table
\* and when the table is full (pscnv_ramht_find).
FoundAsInserted ==
  TypeOK /\ (ramhtLock = Null =>
    \A h \in Handles :
      pscnv_ramht_find(h) = IF inserted[h] = <<>> THEN Null ELSE inserted[h][1])

\* The push buffer of a channel is described by a DMA object of that channel,
\* never by an object of the engine that the client gave the same kind of handle
\* (the mask in nv50_fifo_chan_init_dma; the comment above it asks for it).
PushbufIsDma ==
  pusher # Null =>
    pusher.at \in written /\ Object(pusher.at, DmaSize) \in heap
=============================================================================
