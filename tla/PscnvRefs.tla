----------------------------- MODULE PscnvRefs -----------------------------
(***************************************************************************)
(* The life of address spaces and channels (pscnv_vm.c, pscnv_chan.c and   *)
(* the ioctls of pscnv_ioctl.c).  Both kinds of object are found by number *)
(* in a table, belong to the open file (filp) that made them, are counted  *)
(* by a kref and share the code pattern of bind, get, free and unbind, so  *)
(* one set of actions models both.                                         *)
(*                                                                         *)
(* The ioctls are DRM_UNLOCKED: threads run them at the same time, and     *)
(* only the table lookups and updates are under a spinlock.  A thread is   *)
(* the sequence of operations it has still to run; destroying an object    *)
(* puts the steps of its ref_free in front.  One operation is one step.    *)
(*                                                                         *)
(* An object is a structure returned by kzalloc: the memory of a freed one *)
(* is never reused in the model, so a late use of it can be seen.          *)
(***************************************************************************)
EXTENDS Integers, Sequences, FiniteSets

CONSTANTS
  Files, Threads, FileOf,   \* the drm files and the thread ids of each
  Chans, Vspaces,           \* bound: the structures that can be allocated
  MaxCid, MaxVid,           \* ch_max, and the 127 of pscnv_vspace_bind
  MaxMaps,                  \* bound: mappings of a channel's registers
  SerialFrees,              \* whether clients free a number once at a time
  Null

Objs == Chans \cup Vspaces
Slots == ({"chan"} \X (1 .. MaxCid)) \cup ({"vspace"} \X (1 .. MaxVid))

ASSUME ObjsAssumption ==
  /\ Chans \cap Vspaces = {} /\ Null \notin Objs \cup Files \cup Slots
  /\ FileOf \in [Threads -> Files]
  /\ MaxCid \in Nat /\ MaxVid \in Nat /\ MaxMaps \in Nat
  /\ SerialFrees \in BOOLEAN

VARIABLES
  table,    \* chans[] and vspaces[]
  st,       \* of an object: "none" before kzalloc, "live", "freed"
  ref,      \* its kref
  slot,     \* its cid or vid, Null for 0
  filp,     \* the file that owns it
  vspace,   \* ch->vspace
  mem,      \* whether its instance memory (ch->bo) or page tables exist
  handle,   \* whether ch->handle is the one of its instance memory
  maps,     \* the mappings of a channel's registers by a file
  todo,     \* what each thread has still to run
  open      \* the files that have not been closed

vars == <<table, st, ref, slot, filp, vspace, mem, handle, maps, todo, open>>

Kind(o) == IF o \in Chans THEN "chan" ELSE "vspace"

-----------------------------------------------------------------------------
(* Threads                                                                 *)

Op(do, obj) == [do |-> do, obj |-> obj]

Idle(t) == todo[t] = <<>> /\ FileOf[t] \in open
At(t, do) == todo[t] # <<>> /\ Head(todo[t]).do = do
Arg(t) == Head(todo[t]).obj

\* Thread t, which is idle, starts on ops; it runs ops before the rest of
\* what it has to do; or it leaves the rest and runs ops.
Start(t, ops) == todo' = [todo EXCEPT ![t] = ops]
Then(t, ops)  == todo' = [todo EXCEPT ![t] = ops \o Tail(@)]
Abort(t, ops) == todo' = [todo EXCEPT ![t] = ops]

\* The number a file uses is looked up and the reference taken under the
\* spinlock of the table: pscnv_get_chan and pscnv_get_vspace.
Found(f, s) == table[s] # Null /\ filp[table[s]] = f
Get(t, s) ==
  /\ Found(FileOf[t], s)
  /\ ref' = [ref EXCEPT ![table[s]] = @ + 1]

\* The steps of pscnv_chan_ref_free and pscnv_vspace_ref_free.  The first
\* one stands for chan_kill of PFIFO and of the engines.
Destroy(o) ==
  IF o \in Chans
  THEN <<Op("use", o), Op("clear", o), Op("drop", o), Op("unbind", o),
         Op("unref", vspace[o]), Op("kfree", o)>>
  ELSE <<Op("drop", o), Op("unbind", o), Op("kfree", o)>>

-----------------------------------------------------------------------------
(* The ioctls                                                              *)

\* pscnv_ioctl_vspace_new, with the kzalloc of pscnv_vspace_new.
VspaceNew(t, v) ==
  /\ Idle(t) /\ st[v] = "none"
  /\ st' = [st EXCEPT ![v] = "live"]
  /\ ref' = [ref EXCEPT ![v] = 1]
  /\ Start(t, <<Op("bind", v), Op("setup", v), Op("own", v)>>)
  /\ UNCHANGED <<table, slot, filp, vspace, mem, handle, maps, open>>

\* Faulty variant: the channel does not hold its address space.
ChanNewNoRef(t, s, c) ==
  /\ Idle(t) /\ s[1] = "vspace" /\ st[c] = "none"
  /\ Found(FileOf[t], s)
  /\ ref' = [ref EXCEPT ![table[s]] = @ + 1, ![c] = 1]
  /\ st' = [st EXCEPT ![c] = "live"]
  /\ vspace' = [vspace EXCEPT ![c] = table[s]]
  /\ Start(t, <<Op("bind", c), Op("setup", c), Op("handle", c),
                Op("late", c), Op("unref", table[s]), Op("own", c)>>)
  /\ UNCHANGED <<table, slot, filp, mem, handle, maps, open>>

\* pscnv_ioctl_chan_new, with the kzalloc of pscnv_chan_new.
ChanNew(t, s, c) ==
  /\ Idle(t) /\ s[1] = "vspace" /\ st[c] = "none"
  /\ Found(FileOf[t], s)
  /\ ref' = [ref EXCEPT ![table[s]] = @ + 1, ![c] = 1]
  /\ st' = [st EXCEPT ![c] = "live"]
  /\ vspace' = [vspace EXCEPT ![c] = table[s]]
  /\ Start(t, <<Op("ref", table[s]), Op("bind", c), Op("setup", c), Op("handle", c),
                Op("late", c), Op("unref", table[s]), Op("own", c)>>)
  /\ UNCHANGED <<table, slot, filp, mem, handle, maps, open>>

\* Faulty variant: an error path that keeps the reference of the lookup.
UseNoUnref(t, s) ==
  /\ Idle(t) /\ Get(t, s)
  /\ Start(t, <<Op("use", table[s])>>)
  /\ UNCHANGED <<table, st, slot, filp, vspace, mem, handle, maps, open>>

\* The ioctls that find an object, work on it and let it go: obj_vdma_new,
\* obj_eng_new, fifo_init, vspace_map, vspace_unmap, and a chan_new that
\* stops at its kzalloc.
Use(t, s) ==
  /\ Idle(t) /\ Get(t, s)
  /\ Start(t, <<Op("use", table[s]), Op("unref", table[s])>>)
  /\ UNCHANGED <<table, st, slot, filp, vspace, mem, handle, maps, open>>

\* What a client must see to when SerialFrees holds: no other thread is
\* between the lookup of this object and the end of its ownership.
FreeAllowed(o) ==
  SerialFrees =>
    \A u \in Threads : \A k \in DOMAIN todo[u] : todo[u][k] # Op("disown", o)

\* pscnv_ioctl_chan_free and pscnv_ioctl_vspace_free: one unref gives back the
\* reference of the lookup, the other the one of the owner.
Free(t, s) ==
  /\ Idle(t) /\ Get(t, s) /\ FreeAllowed(table[s])
  /\ Start(t, <<Op("disown", table[s]), Op("unref", table[s]), Op("unref", table[s])>>)
  /\ UNCHANGED <<table, st, slot, filp, vspace, mem, handle, maps, open>>

\* pscnv_ioctl_fifo_init_ib on NV50: nv50_fifo_chan_init_ib drops a reference
\* and the ioctl drops one again.
InitIb(t, s) ==
  /\ Idle(t) /\ s[1] = "chan" /\ Get(t, s)
  /\ Start(t, <<Op("use", table[s]), Op("unref", table[s]), Op("unref", table[s])>>)
  /\ UNCHANGED <<table, st, slot, filp, vspace, mem, handle, maps, open>>

\* pscnv_chan_mmap keeps the reference of the lookup for the mapping.  (It
\* keeps it also when remap_pfn_range fails and no mapping is there to be
\* closed; that failure is left out.)
Mmap(t, s) ==
  /\ Idle(t) /\ s[1] = "chan" /\ Get(t, s)
  /\ maps[FileOf[t]][table[s]] < MaxMaps
  /\ maps' = [maps EXCEPT ![FileOf[t]][table[s]] = @ + 1]
  /\ UNCHANGED <<table, st, slot, filp, vspace, mem, handle, todo, open>>

\* Faulty variant: a mapping copied by fork does not count.
VmOpenNoRef(f, c) ==
  /\ maps[f][c] \in 1 .. MaxMaps - 1
  /\ maps' = [maps EXCEPT ![f][c] = @ + 1]
  /\ UNCHANGED <<table, st, ref, slot, filp, vspace, mem, handle, todo, open>>

\* pscnv_chan_vm_open: a fork copies a mapping.
VmOpen(f, c) ==
  /\ maps[f][c] \in 1 .. MaxMaps - 1
  /\ maps' = [maps EXCEPT ![f][c] = @ + 1]
  /\ ref' = [ref EXCEPT ![c] = @ + 1]
  /\ UNCHANGED <<table, st, slot, filp, vspace, mem, handle, todo, open>>

\* pscnv_chan_vm_close.
VmClose(t, c) ==
  /\ Idle(t) /\ maps[FileOf[t]][c] > 0
  /\ maps' = [maps EXCEPT ![FileOf[t]][c] = @ - 1]
  /\ Start(t, <<Op("unref", c)>>)
  /\ UNCHANGED <<table, st, ref, slot, filp, vspace, mem, handle, open>>

\* Faulty variant: forgets the address spaces.
CleanupChansOnly == [i \in 1 .. MaxCid |-> Op("clean", <<"chan", i>>)]

\* pscnv_chan_cleanup, then pscnv_vspace_cleanup.
Cleanup ==
  [i \in 1 .. MaxCid |-> Op("clean", <<"chan", i>>)]
    \o [i \in 1 .. MaxVid |-> Op("clean", <<"vspace", i>>)]

\* nouveau_preclose: the kernel calls it when the last reference to the file
\* goes, so no ioctl runs on it and no mapping of it is left.
Close(t) ==
  LET f == FileOf[t] IN
  /\ Idle(t)
  /\ \A u \in Threads : FileOf[u] = f => todo[u] = <<>>
  /\ \A c \in Chans : maps[f][c] = 0
  /\ open' = open \ {f}
  /\ Start(t, Cleanup)
  /\ UNCHANGED <<table, st, ref, slot, filp, vspace, mem, handle, maps>>

-----------------------------------------------------------------------------
(* The steps of a thread                                                   *)

FreeSlots(o) == {s \in Slots : s[1] = Kind(o) /\ table[s] = Null}

\* pscnv_chan_bind and pscnv_vspace_bind: the lowest free number.
Bind(t) ==
  LET o == Arg(t) IN
  /\ At(t, "bind")
  /\ \E s \in FreeSlots(o) :
       /\ \A r \in FreeSlots(o) : s[2] <= r[2]
       /\ table' = [table EXCEPT ![s] = o]
       /\ slot' = [slot EXCEPT ![o] = s]
  /\ Then(t, <<>>)
  /\ UNCHANGED <<st, ref, filp, vspace, mem, handle, maps, open>>

\* What pscnv_chan_new and pscnv_vspace_new undo when a step fails; the last
\* unref is the one of pscnv_ioctl_chan_new.
Undo(o, bound) ==
  IF o \in Chans
  THEN <<Op("unref", vspace[o])>> \o bound \o <<Op("kfree", o), Op("unref", vspace[o])>>
  ELSE bound \o <<Op("kfree", o)>>

BindFails(t) ==
  /\ At(t, "bind") /\ FreeSlots(Arg(t)) = {}
  /\ Abort(t, Undo(Arg(t), <<>>))
  /\ UNCHANGED <<table, st, ref, slot, filp, vspace, mem, handle, maps, open>>

\* do_vspace_new; do_chan_new up to the allocation of ch->bo.
Setup(t) ==
  /\ At(t, "setup")
  /\ mem' = [mem EXCEPT ![Arg(t)] = TRUE]
  /\ Then(t, <<>>)
  /\ UNCHANGED <<table, st, ref, slot, filp, vspace, handle, maps, open>>

SetupFails(t) ==
  /\ At(t, "setup")
  /\ Abort(t, Undo(Arg(t), <<Op("unbind", Arg(t))>>))
  /\ UNCHANGED <<table, st, ref, slot, filp, vspace, mem, handle, maps, open>>

\* nv50_chan_new and nvc0_chan_new publish the handle under ch_lock.
Handle(t) ==
  /\ At(t, "handle")
  /\ handle' = [handle EXCEPT ![Arg(t)] = TRUE]
  /\ Then(t, <<>>)
  /\ UNCHANGED <<table, st, ref, slot, filp, vspace, mem, maps, open>>

\* nv50_chan_new allocates ch->cache last.
Late(t) ==
  /\ At(t, "late")
  /\ Then(t, <<>>)
  /\ UNCHANGED <<table, st, ref, slot, filp, vspace, mem, handle, maps, open>>

LateFails(t) ==
  LET c == Arg(t) IN
  /\ At(t, "late")
  /\ Abort(t, <<Op("clear", c), Op("drop", c)>> \o Undo(c, <<Op("unbind", c)>>))
  /\ UNCHANGED <<table, st, ref, slot, filp, vspace, mem, handle, maps, open>>

Own(t) ==
  /\ At(t, "own")
  /\ filp' = [filp EXCEPT ![Arg(t)] = FileOf[t]]
  /\ Then(t, <<>>)
  /\ UNCHANGED <<table, st, ref, slot, vspace, mem, handle, maps, open>>

Disown(t) ==
  /\ At(t, "disown")
  /\ filp' = [filp EXCEPT ![Arg(t)] = Null]
  /\ Then(t, <<>>)
  /\ UNCHANGED <<table, st, ref, slot, vspace, mem, handle, maps, open>>

Ref(t) ==
  /\ At(t, "ref")
  /\ ref' = [ref EXCEPT ![Arg(t)] = @ + 1]
  /\ Then(t, <<>>)
  /\ UNCHANGED <<table, st, slot, filp, vspace, mem, handle, maps, open>>

\* kref_put: whoever drops the last reference destroys the object.
Unref(t) ==
  LET o == Arg(t) IN
  /\ At(t, "unref")
  /\ ref' = [ref EXCEPT ![o] = @ - 1]
  /\ Then(t, IF ref[o] = 1 THEN Destroy(o) ELSE <<>>)
  /\ UNCHANGED <<table, st, slot, filp, vspace, mem, handle, maps, open>>

\* Work on the object: a read or write of it and of its memory.
Touch(t) ==
  /\ At(t, "use")
  /\ Then(t, <<>>)
  /\ UNCHANGED <<table, st, ref, slot, filp, vspace, mem, handle, maps, open>>

\* nv50_chan_free and nvc0_chan_free: first the handle goes ...
Clear(t) ==
  /\ At(t, "clear")
  /\ handle' = [handle EXCEPT ![Arg(t)] = FALSE]
  /\ Then(t, <<>>)
  /\ UNCHANGED <<table, st, ref, slot, filp, vspace, mem, maps, open>>

\* ... then the memory; for an address space, pscnv_mm_takedown and
\* do_vspace_free.
Drop(t) ==
  /\ At(t, "drop")
  /\ mem' = [mem EXCEPT ![Arg(t)] = FALSE]
  /\ Then(t, <<>>)
  /\ UNCHANGED <<table, st, ref, slot, filp, vspace, handle, maps, open>>

\* What the BUG_ON of pscnv_chan_unbind and pscnv_vspace_unbind checks.
Bound(o) == slot[o] # Null /\ table[slot[o]] = o

\* A thread whose BUG_ON trips goes no further.
Unbind(t) ==
  LET o == Arg(t) IN
  /\ At(t, "unbind") /\ Bound(o)
  /\ table' = [table EXCEPT ![slot[o]] = Null]
  /\ slot' = [slot EXCEPT ![o] = Null]
  /\ Then(t, <<>>)
  /\ UNCHANGED <<st, ref, filp, vspace, mem, handle, maps, open>>

Kfree(t) ==
  /\ At(t, "kfree")
  /\ st' = [st EXCEPT ![Arg(t)] = "freed"]
  /\ Then(t, <<>>)
  /\ UNCHANGED <<table, ref, slot, filp, vspace, mem, handle, maps, open>>

\* One turn of the loops of pscnv_chan_cleanup and pscnv_vspace_cleanup.
Clean(t) ==
  LET s == Arg(t)
      o == table[s]
  IN
  /\ At(t, "clean")
  /\ \/ /\ Get(t, s)
        /\ Then(t, <<Op("disown", o), Op("unref", o), Op("unref", o)>>)
     \/ /\ ~Found(FileOf[t], s)
        /\ Then(t, <<>>)
        /\ UNCHANGED ref
  /\ UNCHANGED <<table, st, slot, filp, vspace, mem, handle, maps, open>>

Init ==
  /\ table = [s \in Slots |-> Null]
  /\ st = [o \in Objs |-> "none"]
  /\ ref = [o \in Objs |-> 0]
  /\ slot = [o \in Objs |-> Null]
  /\ filp = [o \in Objs |-> Null]
  /\ vspace = [c \in Chans |-> Null]
  /\ mem = [o \in Objs |-> FALSE]
  /\ handle = [c \in Chans |-> FALSE]
  /\ maps = [f \in Files |-> [c \in Chans |-> 0]]
  /\ todo = [t \in Threads |-> <<>>]
  /\ open = Files

Call(t) ==
  \/ \E v \in Vspaces : VspaceNew(t, v)
  \/ \E s \in Slots, c \in Chans : ChanNew(t, s, c)
  \/ \E s \in Slots : Use(t, s) \/ Free(t, s) \/ Mmap(t, s)
  \/ \E c \in Chans : VmClose(t, c)
  \/ Close(t)

Step(t) ==
  \/ Bind(t) \/ BindFails(t) \/ Setup(t) \/ SetupFails(t) \/ Handle(t)
  \/ Late(t) \/ LateFails(t) \/ Own(t) \/ Disown(t) \/ Ref(t) \/ Unref(t)
  \/ Touch(t) \/ Clear(t) \/ Drop(t) \/ Unbind(t) \/ Kfree(t) \/ Clean(t)

Next ==
  \/ \E t \in Threads : Call(t) \/ Step(t)
  \/ \E f \in Files, c \in Chans : VmOpen(f, c)

Spec == Init /\ [][Next]_vars

\* The same system with the call that loses count of the references.
NextInitIb == Next \/ \E t \in Threads, s \in Slots : InitIb(t, s)
SpecInitIb == Init /\ [][NextInitIb]_vars

-----------------------------------------------------------------------------
(* Properties                                                              *)

Ops == {"bind", "setup", "own", "ref", "unref", "use", "handle", "late", "disown",
        "clear", "drop", "unbind", "kfree", "clean"}

\* The shape of the state; a reference count never goes below zero.
TypeOK ==
  /\ table \in [Slots -> Objs \cup {Null}]
  /\ st \in [Objs -> {"none", "live", "freed"}]
  /\ ref \in [Objs -> Nat]
  /\ slot \in [Objs -> Slots \cup {Null}]
  /\ filp \in [Objs -> Files \cup {Null}]
  /\ vspace \in [Chans -> Vspaces \cup {Null}]
  /\ mem \in [Objs -> BOOLEAN] /\ handle \in [Chans -> BOOLEAN]
  /\ maps \in [Files -> [Chans -> 0 .. MaxMaps]]
  /\ todo \in [Threads -> Seq([do : Ops, obj : Objs \cup Slots])]
  /\ open \subseteq Files

\* Thread t has do on o still to run, and i - 1 operations after it: places
\* are counted from the end, so that one keeps its number until it is run.
Waits(t, i, do, o) == i \in DOMAIN todo[t] /\ todo[t][Len(todo[t]) + 1 - i] = Op(do, o)
Pending(do, o) == \E t \in Threads : \E i \in DOMAIN todo[t] : Waits(t, i, do, o)

\* An object that is there, and that nobody is undoing or destroying.
Live(o) == st[o] = "live" /\ ~Pending("kfree", o)

\* A file owns the object, or will in the end.
Owned(o) == (filp[o] # Null \/ Pending("own", o)) /\ ~Pending("disown", o)

\* Channel c has taken its reference to address space v.
Within(c, v) ==
  /\ Live(c) /\ vspace[c] = v
  /\ \A t \in Threads : \A i \in DOMAIN todo[t] :
       Waits(t, i, "bind", c) => ~Waits(t, i + 1, "ref", v)

Mappings(f, c) == 1 .. maps[f][c]

\* The references to o that exist: one for each unref that a thread has still
\* to run, the owner's, one for each mapping of a channel, and one for each
\* channel in an address space.
References(o) ==
  (UNION {{<<"unref", t, i>> : i \in {j \in DOMAIN todo[t] : Waits(t, j, "unref", o)}} :
            t \in Threads})
    \cup {r \in {<<"owner", o, 1>>} : Owned(o)}
    \cup (IF o \in Chans
          THEN UNION {{<<"map", f, n>> : n \in Mappings(f, o)} : f \in Files}
          ELSE {<<"chan", c, 1>> : c \in {d \in Chans : Within(d, o)}})

\* The kref of a live object is exactly the number of references that exist.
RefsBalance ==
  TypeOK /\ \A o \in Objs : Live(o) => ref[o] = Cardinality(References(o))

\* No thread is about to touch an object that has been freed, and none works
\* on one whose memory is gone: krefs and filp keep objects alive under all
\* interleavings of ioctls, mappings and the death of a client.
NoUseAfterFree ==
  \A t \in Threads :
    todo[t] # <<>> /\ Head(todo[t]).do # "clean" =>
      /\ st[Arg(t)] = "live"
      /\ Head(todo[t]).do = "use" => mem[Arg(t)]

\* The tables never lead to a freed structure, and a channel that can be
\* found keeps its address space and the page tables under it.  The handle,
\* "protected by ch_lock below, used for lookup" (pscnv_chan.h), is set only
\* while the instance memory that it names exists.
TablesLive ==
  \A s \in Slots :
    table[s] # Null =>
      /\ st[table[s]] = "live"
      /\ table[s] \in Chans /\ mem[table[s]] =>
           st[vspace[table[s]]] = "live" /\ mem[vspace[table[s]]]
      /\ table[s] \in Chans /\ handle[table[s]] => mem[table[s]]

\* Nothing leads to what is gone: neither what threads hold nor the tables.
NothingDangles == NoUseAfterFree /\ TablesLive

\* The BUG_ONs of pscnv_chan_unbind and pscnv_vspace_unbind never trip: an
\* object is taken out of its table once, by the thread that destroys it.
UnbindAsserts == \A t \in Threads : At(t, "unbind") => Bound(Arg(t))

\* "Here a client dies, release the stuff that was allocated for its
\* file_priv" (nouveau_preclose): when every file is closed and the threads
\* are done, nothing is left in the tables and every structure is freed.
DeathReleases ==
  open = {} /\ (\A t \in Threads : todo[t] = <<>>) =>
    /\ \A s \in Slots : table[s] = Null
    /\ \A o \in Objs : st[o] # "live"
=============================================================================
