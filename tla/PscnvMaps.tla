----------------------------- MODULE PscnvMaps -----------------------------
(***************************************************************************)
(* Buffer objects and their mappings (pscnv_vm.c, pscnv_mem.c, pscnv_gem.c *)
(* and the page table writes of nv50_vm.c).  A client maps an object into  *)
(* address spaces, where the card sees it, and into its own memory, which  *)
(* goes through an address space of the driver, the one behind the BAR.    *)
(* A mapping is a node of the address space's range allocator, entries in  *)
(* its page tables, and, in an address space of a client, a reference to   *)
(* the object.  Each address space has a mutex.  The last reference to an  *)
(* object takes it out of the BAR and frees its memory.                    *)
(*                                                                         *)
(* Threads run as in PscnvRefs: a thread is the sequence of operations it  *)
(* has still to run.  The card looks pages up and remembers what it found  *)
(* in a TLB until it is told to forget it.                                 *)
(***************************************************************************)
EXTENDS Integers, Sequences, FiniteSets

CONSTANTS
  Threads,
  Vs, Bar,        \* the clients' address spaces and the one of the BAR
  Bos, Size,      \* bound: the objects, and how many pages each has
  Pages,          \* how many pages each address space has
  MaxMmaps,       \* bound: mappings into clients
  MaxLeaks,       \* bound: references that a failed map may lose
  MaxTlb,         \* bound: translations that the card remembers
  BarMapFails,    \* whether page tables of the BAR can be missing
  Null

Spaces == Vs \cup {Bar}

ASSUME MapsAssumption ==
  /\ IsFiniteSet(Threads) /\ IsFiniteSet(Bos)
  /\ Bar \notin Vs /\ Null \notin Bos \cup Spaces \cup Threads /\ Null \notin Nat
  /\ Pages \in [Spaces -> Nat] /\ Size \in [Bos -> Nat \ {0}]
  /\ \A vs \in Spaces, b \in Bos : Size[b] <= Pages[vs]
  /\ MaxMmaps \in Nat /\ MaxLeaks \in Nat /\ MaxTlb \in Nat
  /\ BarMapFails \in BOOLEAN

VARIABLES
  st,       \* of an object: "none", "live", "freed"
  gref,     \* the reference count of its gem object
  handle,   \* whether the client has a handle of it
  mmaps,    \* how often it is mapped into clients
  map1,     \* where it is in the BAR, Null for 0
  leaked,   \* history: references lost by failed maps
  twice,    \* history: the objects that two clients put into the BAR at once
  alive,    \* of an address space: whether it is in use
  nodes,    \* the used nodes of its range allocator
  pt,       \* its page tables: what each page leads to
  tlb,      \* what the card remembers of them
  late,     \* history: the pages of which a lost flush has left it something
  lock,     \* the thread that holds its mutex
  todo      \* what each thread has still to run

objvars   == <<st, gref, handle, mmaps, map1, leaked, twice>>
spacevars == <<alive, nodes, pt, tlb, late, lock>>
vars == <<objvars, spacevars, todo>>

Page(vs) == 1 .. Pages[vs]
Empty(vs) == [p \in Page(vs) |-> Null]
Node(b, at) == [bo |-> b, at |-> at]
PagesOf(b, at) == at .. at + Size[b] - 1
Covered(vs) == UNION {PagesOf(n.bo, n.at) : n \in nodes[vs]}

-----------------------------------------------------------------------------
(* Threads                                                                 *)

Op(do, vs, b, at) == [do |-> do, vs |-> vs, bo |-> b, at |-> at]
Lock(vs)   == Op("lock", vs, Null, Null)
Unlock(vs) == Op("unlock", vs, Null, Null)
On(do, b)  == Op(do, Null, b, Null)

Idle(t) == todo[t] = <<>>
At(t, do) == todo[t] # <<>> /\ Head(todo[t]).do = do
Now(t) == Head(todo[t])
Start(t, ops) == todo' = [todo EXCEPT ![t] = ops]
Then(t, ops)  == todo' = [todo EXCEPT ![t] = ops \o Tail(@)]

\* How many operations that satisfy P the threads have still to run.
Pending(P(_)) ==
  Cardinality({tk \in UNION {{t} \X DOMAIN todo[t] : t \in Threads} :
                 P(todo[tk[1]][tk[2]])})

\* nv50_vspace_do_map: the entries of the pages, from the first to the last.
DoMap(vs, b, at) == [i \in 1 .. Size[b] |-> Op("write", vs, b, at + i - 1)]

\* nv50_vspace_do_unmap: the entries, then the TLBs.
DoUnmap(vs, b, at) ==
  [i \in 1 .. Size[b] |-> Op("clear", vs, b, at + i - 1)]
    \o <<Op("flush", vs, b, at)>>

\* Faulty variant: lets the object go first.
UnmapNodeUnrefFirst(vs, b, at) ==
  (IF vs = Bar THEN <<>> ELSE <<On("unref", b)>>)
    \o DoUnmap(vs, b, at) \o <<Op("mmfree", vs, b, at)>>

\* pscnv_vspace_unmap_node_unlocked: only a client's mapping has a reference.
UnmapNode(vs, b, at) ==
  DoUnmap(vs, b, at)
    \o (IF vs = Bar THEN <<>> ELSE <<On("unref", b)>>)
    \o <<Op("mmfree", vs, b, at)>>

\* pscnv_vspace_map; what follows "place" depends on where the node is.
VspaceMap(vs, b) == <<Lock(vs), Op("place", vs, b, Null), Unlock(vs)>>

\* Faulty variant: leaves the object in the BAR.
MemFreeOnly(b) == <<On("release", b)>>

\* pscnv_gem_free_object and pscnv_mem_free.
MemFree(b) ==
  (IF map1[b] = Null THEN <<>>
   ELSE <<Lock(Bar)>> \o UnmapNode(Bar, b, map1[b]) \o <<Unlock(Bar)>>)
  \o <<On("release", b)>>

-----------------------------------------------------------------------------
(* The calls                                                               *)

\* Bound: no map is called once MaxLeaks references of an object are lost.
CanLose == \A b \in Bos : leaked[b] < MaxLeaks

\* Bound: mappings into clients, with those under way.
CanMap ==
  Cardinality({bk \in Bos \X (1 .. MaxMmaps) : bk[2] <= mmaps[bk[1]]})
    + Pending(LAMBDA op : op.do = "mapped") < MaxMmaps

\* pscnv_ioctl_gem_new.
GemNew(t, b) ==
  /\ Idle(t) /\ st[b] = "none"
  /\ st' = [st EXCEPT ![b] = "live"]
  /\ gref' = [gref EXCEPT ![b] = 1]
  /\ handle' = [handle EXCEPT ![b] = TRUE]
  /\ UNCHANGED <<mmaps, map1, leaked, twice, spacevars, todo>>

\* drm_gem_object_lookup takes a reference.
Found(b) == handle[b] /\ gref' = [gref EXCEPT ![b] = @ + 1]

\* The DRM core drops a handle.
GemClose(t, b) ==
  /\ Idle(t) /\ handle[b]
  /\ handle' = [handle EXCEPT ![b] = FALSE]
  /\ Start(t, <<On("unref", b)>>)
  /\ UNCHANGED <<st, gref, mmaps, map1, leaked, twice, spacevars>>

\* pscnv_ioctl_gem_info, and a pscnv_mmap that is refused for its size.
GemInfo(t, b) ==
  /\ Idle(t) /\ Found(b)
  /\ Start(t, <<On("unref", b)>>)
  /\ UNCHANGED <<st, handle, mmaps, map1, leaked, twice, spacevars>>

\* Faulty variant: drops the reference of the lookup, as other calls do.
VspaceMapCallUnref(t, vs, b) ==
  /\ Idle(t) /\ alive[vs] /\ CanLose /\ Found(b)
  /\ Start(t, VspaceMap(vs, b) \o <<On("unref", b)>>)
  /\ UNCHANGED <<st, handle, mmaps, map1, leaked, twice, spacevars>>

\* pscnv_ioctl_vspace_map: the mapping keeps the reference of the lookup.
VspaceMapCall(t, vs, b) ==
  /\ Idle(t) /\ alive[vs] /\ CanLose /\ Found(b)
  /\ Start(t, VspaceMap(vs, b))
  /\ UNCHANGED <<st, handle, mmaps, map1, leaked, twice, spacevars>>

\* pscnv_ioctl_vspace_unmap of an offset in a mapping that no thread is busy
\* with: the client knows it from a map that succeeded, and unmaps it once.
VspaceUnmapCall(t, vs, n) ==
  /\ Idle(t) /\ alive[vs]
  /\ Pending(LAMBDA op : op.vs = vs /\ op.at \in PagesOf(n.bo, n.at)) = 0
  /\ \E p \in PagesOf(n.bo, n.at) :
       Start(t, <<Lock(vs), Op("find", vs, Null, p), Unlock(vs)>>)
  /\ UNCHANGED <<objvars, spacevars>>

\* pscnv_mmap of an object in VRAM.  Processes that share an object may do so at
\* once.
Mmap(t, b) ==
  /\ Idle(t) /\ CanMap /\ Found(b)
  /\ Start(t, <<On("check", b), On("mapped", b)>>)
  /\ UNCHANGED <<st, handle, mmaps, map1, leaked, twice, spacevars>>

\* A mapping is inherited: drm_gem_vm_open.
VmOpen(t, b) ==
  /\ Idle(t) /\ CanMap /\ mmaps[b] > 0
  /\ mmaps' = [mmaps EXCEPT ![b] = @ + 1]
  /\ gref' = [gref EXCEPT ![b] = @ + 1]
  /\ UNCHANGED <<st, handle, map1, leaked, twice, spacevars, todo>>

\* The mapping of a client ends: drm_gem_vm_close.
Munmap(t, b) ==
  /\ Idle(t) /\ mmaps[b] > 0
  /\ mmaps' = [mmaps EXCEPT ![b] = @ - 1]
  /\ Start(t, <<On("unref", b)>>)
  /\ UNCHANGED <<st, gref, handle, map1, leaked, twice, spacevars>>

\* pscnv_vspace_ref_free: nobody uses the address space any more, so no
\* channel runs in it and the card has no translation of it.
VspaceFree(t, vs) ==
  /\ Idle(t) /\ alive[vs]
  /\ Pending(LAMBDA op : op.vs = vs) = 0
  /\ alive' = [alive EXCEPT ![vs] = FALSE]
  /\ tlb' = [tlb EXCEPT ![vs] = Empty(vs)] /\ late' = [late EXCEPT ![vs] = {}]
  /\ Start(t, <<Op("takedown", vs, Null, Null)>>)
  /\ UNCHANGED <<objvars, nodes, pt, lock>>

-----------------------------------------------------------------------------
(* The steps of a thread                                                   *)

LockStep(t) ==
  /\ At(t, "lock") /\ lock[Now(t).vs] = Null
  /\ lock' = [lock EXCEPT ![Now(t).vs] = t]
  /\ Then(t, <<>>)
  /\ UNCHANGED <<objvars, alive, nodes, pt, tlb, late>>

UnlockStep(t) ==
  /\ At(t, "unlock")
  /\ lock' = [lock EXCEPT ![Now(t).vs] = Null]
  /\ Then(t, <<>>)
  /\ UNCHANGED <<objvars, alive, nodes, pt, tlb, late>>

\* Where pscnv_mm_alloc finds room that nobody has.
Room(vs, b) ==
  {at \in 1 .. Pages[vs] - Size[b] + 1 : PagesOf(b, at) \cap Covered(vs) = {}}

\* nv50_vspace_place_map: anywhere in an address space of a client, who gives
\* bounds and a direction, and as low as possible in the BAR.
Place(t) ==
  LET vs == Now(t).vs
      b  == Now(t).bo
  IN
  /\ At(t, "place")
  /\ \E at \in Room(vs, b) :
       /\ vs = Bar => \A lower \in Room(vs, b) : at <= lower
       /\ nodes' = [nodes EXCEPT ![vs] = @ \cup {Node(b, at)}]
       /\ Then(t, DoMap(vs, b, at)
                    \o IF vs = Bar THEN <<Op("assign", vs, b, at)>> ELSE <<>>)
  /\ UNCHANGED <<objvars, alive, pt, tlb, late, lock>>

\* Faulty variant: returns with the mutex held.
PlaceFailsNoUnlock(t) ==
  LET b == Now(t).bo IN
  /\ At(t, "place") /\ Now(t).vs # Bar
  /\ Start(t, <<>>)
  /\ leaked' = [leaked EXCEPT ![b] = @ + 1]
  /\ UNCHANGED <<st, gref, handle, mmaps, map1, twice, spacevars>>

\* No room or no memory.  pscnv_mmap gives the reference of its lookup back,
\* pscnv_ioctl_vspace_map does not.
PlaceFails(t) ==
  LET vs == Now(t).vs
      b  == Now(t).bo
  IN
  /\ At(t, "place")
  /\ IF vs = Bar
     THEN Start(t, <<Unlock(Bar), On("unref", b)>>) /\ UNCHANGED leaked
     ELSE Then(t, <<>>) /\ leaked' = [leaked EXCEPT ![b] = @ + 1]
  /\ UNCHANGED <<st, gref, handle, mmaps, map1, twice, spacevars>>

Write(t) ==
  /\ At(t, "write")
  /\ pt' = [pt EXCEPT ![Now(t).vs][Now(t).at] = Now(t).bo]
  /\ Then(t, <<>>)
  /\ UNCHANGED <<objvars, alive, nodes, tlb, late, lock>>

\* Faulty variant: the page tables are left as they are.
WriteFailsNoUndo(t) ==
  LET vs == Now(t).vs
      b  == Now(t).bo
  IN
  /\ At(t, "write") /\ vs # Bar
  /\ \E n \in nodes[vs] :
       /\ Now(t).at \in PagesOf(n.bo, n.at)
       /\ Start(t, <<On("unref", b), Op("mmfree", vs, b, n.at), Unlock(vs)>>)
  /\ UNCHANGED <<objvars, spacevars>>

\* A page table is missing and cannot be allocated: do_map clears the range,
\* pscnv_vspace_map unmaps the node, and still stores it for its caller.
WriteFails(t) ==
  LET vs == Now(t).vs
      b  == Now(t).bo
  IN
  /\ At(t, "write") /\ (vs # Bar \/ BarMapFails)
  /\ \E n \in nodes[vs] :
       /\ Now(t).at \in PagesOf(n.bo, n.at)
       /\ Start(t, DoUnmap(vs, b, n.at) \o UnmapNode(vs, b, n.at)
                     \o IF vs = Bar
                        THEN <<Op("assign", vs, b, n.at), Unlock(vs), On("unref", b)>>
                        ELSE <<Unlock(vs)>>)
  /\ UNCHANGED <<objvars, spacevars>>

\* *res = node, for the BAR the field map1 of the object.  When another thread
\* has come through the check too, its node is forgotten, and nothing unmaps it.
Assign(t) ==
  LET b == Now(t).bo IN
  /\ At(t, "assign")
  /\ map1' = [map1 EXCEPT ![b] = Now(t).at]
  /\ twice' = IF map1[b] = Null THEN twice ELSE twice \cup {b}
  /\ Then(t, <<>>)
  /\ UNCHANGED <<st, gref, handle, mmaps, leaked, spacevars>>

\* Faulty variant: takes what is in the BAR for granted.
CheckNothing(t) ==
  /\ At(t, "check")
  /\ Then(t, <<>>)
  /\ UNCHANGED <<objvars, spacevars>>

\* nv50_vm_map_user: the object is put into the BAR if it is not there yet; the
\* mutex is taken only after the look at map1.
Check(t) ==
  /\ At(t, "check")
  /\ Then(t, IF map1[Now(t).bo] = Null THEN VspaceMap(Bar, Now(t).bo) ELSE <<>>)
  /\ UNCHANGED <<objvars, spacevars>>

Mapped(t) ==
  /\ At(t, "mapped")
  /\ mmaps' = [mmaps EXCEPT ![Now(t).bo] = @ + 1]
  /\ Then(t, <<>>)
  /\ UNCHANGED <<st, gref, handle, map1, leaked, twice, spacevars>>

\* pscnv_mm_find_node.
Find(t) ==
  /\ At(t, "find")
  /\ \E n \in nodes[Now(t).vs] :
       /\ Now(t).at \in PagesOf(n.bo, n.at)
       /\ Then(t, UnmapNode(Now(t).vs, n.bo, n.at))
  /\ UNCHANGED <<objvars, spacevars>>

Clear(t) ==
  /\ At(t, "clear")
  /\ pt' = [pt EXCEPT ![Now(t).vs][Now(t).at] = Null]
  /\ Then(t, <<>>)
  /\ UNCHANGED <<objvars, alive, nodes, tlb, late, lock>>

\* Faulty variant: the flush does not reach the unit.
FlushNothing(t) ==
  /\ At(t, "flush")
  /\ Then(t, <<>>)
  /\ UNCHANGED <<objvars, spacevars>>

\* The TLBs of all units are told to forget the space, and do.
Flush(t) ==
  LET vs == Now(t).vs IN
  /\ At(t, "flush")
  /\ tlb' = [tlb EXCEPT ![vs] = Empty(vs)] /\ late' = [late EXCEPT ![vs] = {}]
  /\ Then(t, <<>>)
  /\ UNCHANGED <<objvars, alive, nodes, pt, lock>>

\* A unit does not answer in time, or another space's flush overwrites the
\* register of the trigger, which has no lock: engines after a failed one are
\* not told, some translations stay, and the callers do not look.
FlushLost(t) ==
  LET vs == Now(t).vs IN
  /\ At(t, "flush")
  /\ \E kept \in SUBSET {p \in Page(vs) : tlb[vs][p] # Null} \ {{}} :
       /\ tlb' = [tlb EXCEPT ![vs] =
                    [p \in Page(vs) |-> IF p \in kept THEN tlb[vs][p] ELSE Null]]
       /\ late' = [late EXCEPT ![vs] = kept \cap (@ \cup PagesOf(Now(t).bo, Now(t).at))]
  /\ Then(t, <<>>)
  /\ UNCHANGED <<objvars, alive, nodes, pt, lock>>

MmFree(t) ==
  /\ At(t, "mmfree")
  /\ nodes' = [nodes EXCEPT ![Now(t).vs] = @ \ {Node(Now(t).bo, Now(t).at)}]
  /\ Then(t, <<>>)
  /\ UNCHANGED <<objvars, alive, pt, tlb, late, lock>>

\* kref_put of the gem object.
Unref(t) ==
  LET b == Now(t).bo IN
  /\ At(t, "unref")
  /\ gref' = [gref EXCEPT ![b] = @ - 1]
  /\ Then(t, IF gref[b] = 1 THEN MemFree(b) ELSE <<>>)
  /\ UNCHANGED <<st, handle, mmaps, map1, leaked, twice, spacevars>>

\* The memory goes back to the allocator, and the structure with it.
Release(t) ==
  /\ At(t, "release")
  /\ st' = [st EXCEPT ![Now(t).bo] = "freed"]
  /\ Then(t, <<>>)
  /\ UNCHANGED <<gref, handle, mmaps, map1, leaked, twice, spacevars>>

\* Faulty variant: frees the nodes as those of the driver's own spaces.
TakedownPlain(t) ==
  LET vs == Now(t).vs IN
  /\ At(t, "takedown")
  /\ nodes' = [nodes EXCEPT ![vs] = {}]
  /\ pt' = [pt EXCEPT ![vs] = Empty(vs)]
  /\ Then(t, <<>>)
  /\ UNCHANGED <<objvars, alive, tlb, late, lock>>

\* pscnv_mm_takedown with pscnv_vspace_free_unmap; then nv50_vspace_free.
Takedown(t) ==
  LET vs == Now(t).vs IN
  /\ At(t, "takedown")
  /\ \/ /\ nodes[vs] = {}
        /\ pt' = [pt EXCEPT ![vs] = Empty(vs)]
        /\ Then(t, <<>>)
     \/ /\ \E n \in nodes[vs] :
             /\ \A m \in nodes[vs] : n.at <= m.at
             /\ Then(t, <<On("unref", n.bo), Op("mmfree", vs, n.bo, n.at), Now(t)>>)
        /\ UNCHANGED pt
  /\ UNCHANGED <<objvars, alive, nodes, tlb, late, lock>>

\* The card looks a page up.
CardLoad(vs, p) ==
  /\ alive[vs] /\ pt[vs][p] # Null
  /\ Cardinality({sp \in UNION {{s} \X Page(s) : s \in Spaces} :
                    tlb[sp[1]][sp[2]] # Null}) < MaxTlb
  /\ tlb' = [tlb EXCEPT ![vs][p] = pt[vs][p]]
  /\ UNCHANGED <<objvars, alive, nodes, pt, late, lock, todo>>

Init ==
  /\ st = [b \in Bos |-> "none"] /\ gref = [b \in Bos |-> 0]
  /\ handle = [b \in Bos |-> FALSE] /\ mmaps = [b \in Bos |-> 0]
  /\ map1 = [b \in Bos |-> Null] /\ leaked = [b \in Bos |-> 0]
  /\ twice = {} /\ late = [vs \in Spaces |-> {}]
  /\ alive = [vs \in Spaces |-> TRUE] /\ nodes = [vs \in Spaces |-> {}]
  /\ pt = [vs \in Spaces |-> Empty(vs)] /\ tlb = [vs \in Spaces |-> Empty(vs)]
  /\ lock = [vs \in Spaces |-> Null]
  /\ todo = [t \in Threads |-> <<>>]

Call(t) ==
  \/ \E b \in Bos : GemNew(t, b) \/ GemClose(t, b) \/ GemInfo(t, b)
  \/ \E b \in Bos : Mmap(t, b) \/ VmOpen(t, b) \/ Munmap(t, b)
  \/ \E vs \in Vs, b \in Bos : VspaceMapCall(t, vs, b)
  \/ \E vs \in Vs : \E n \in nodes[vs] : VspaceUnmapCall(t, vs, n)
  \/ \E vs \in Vs : VspaceFree(t, vs)

Step(t) ==
  \/ LockStep(t) \/ UnlockStep(t) \/ Place(t) \/ PlaceFails(t) \/ Write(t)
  \/ WriteFails(t) \/ Assign(t) \/ Check(t) \/ Mapped(t) \/ Find(t) \/ Clear(t)
  \/ Flush(t) \/ FlushLost(t) \/ MmFree(t) \/ Unref(t) \/ Release(t) \/ Takedown(t)

Next ==
  \/ \E t \in Threads : Call(t) \/ Step(t)
  \/ \E vs \in Spaces : \E p \in Page(vs) : CardLoad(vs, p)

Spec == Init /\ [][Next]_vars

-----------------------------------------------------------------------------
(* Properties                                                              *)

TypeOK ==
  /\ st \in [Bos -> {"none", "live", "freed"}]
  /\ gref \in [Bos -> Nat] /\ handle \in [Bos -> BOOLEAN]
  /\ mmaps \in [Bos -> 0 .. MaxMmaps] /\ leaked \in [Bos -> Nat]
  /\ map1 \in [Bos -> Page(Bar) \cup {Null}] /\ twice \subseteq Bos
  /\ alive \in [Spaces -> BOOLEAN]
  /\ \A vs \in Spaces :
       /\ nodes[vs] \subseteq [bo : Bos, at : Page(vs)]
       /\ {pt[vs], tlb[vs]} \subseteq [Page(vs) -> Bos \cup {Null}]
       /\ late[vs] \subseteq Page(vs)
  /\ lock \in [Spaces -> Threads \cup {Null}]

\* How many mappings of an object a client's address spaces hold.
UserNodes(b) ==
  Cardinality({vn \in UNION {{vs} \X nodes[vs] : vs \in Vs} : vn[2].bo = b})

\* The count of a gem object is the number of references that exist: its
\* handle, the mappings in clients and in their address spaces, the calls that
\* have one to give back, and what failed maps have lost (kref in pscnv_vm.c,
\* pscnv_ioctl.c).  A mapping being unmapped has lent its own to the call.
GemBalance ==
  \A b \in Bos :
    gref[b] + Pending(LAMBDA op : op.do = "mmfree" /\ op.bo = b /\ op.vs # Bar)
      = (IF handle[b] THEN 1 ELSE 0) + mmaps[b] + leaked[b] + UserNodes(b)
          + Pending(LAMBDA op : /\ op.do \in {"unref", "place", "mapped"}
                                /\ op.bo = b /\ op.vs # Bar)

\* An object that two clients put into the BAR at once leaves a mapping there.
Lost(vs, b) == vs = Bar /\ b \in twice

\* The card never gets at the memory of an object that was freed: what a page
\* table says is alive, and so is what a TLB remembers of a page, unless the
\* flush for the page's last unmap was lost and none has succeeded since; but for
\* the mapping that two mmaps of an object at once leave in the BAR (do_unmap
\* before unreference, nv50_vm.c:150-170, pscnv_vm.c:122-137, pscnv_mem.c:149-152).
NoStaleTranslation ==
  \A vs \in Spaces : alive[vs] => \A p \in Page(vs), b \in Bos :
    /\ pt[vs][p] = b => st[b] = "live" \/ Lost(vs, b)
    /\ tlb[vs][p] = b => st[b] = "live" \/ Lost(vs, b) \/ p \in late[vs]

\* While nobody has the mutex of an address space, its page tables say what its
\* allocator says, also after maps that failed half way, and the TLBs know no
\* more than that, but of pages whose flush was lost (pscnv_vspace_map,
\* pscnv_vspace_unmap).
PtMatchesNodes ==
  \A vs \in Spaces : alive[vs] /\ lock[vs] = Null =>
    /\ \A p \in Page(vs) :
         pt[vs][p] = IF p \in Covered(vs)
                     THEN (CHOOSE n \in nodes[vs] : p \in PagesOf(n.bo, n.at)).bo
                     ELSE Null
    /\ \A p \in Page(vs) \ late[vs] : tlb[vs][p] \in {Null, pt[vs][p]}

\* While nobody has the mutex of the BAR, an object that clients use is in it
\* where map1 says, and nothing else is in it, objects that are gone least of
\* all, but for what two mmaps of an object at once leave there (map_user,
\* mem_free).
MapsOwn ==
  lock[Bar] = Null =>
    /\ \A b \in Bos : gref[b] > 0 /\ map1[b] # Null => Node(b, map1[b]) \in nodes[Bar]
    /\ \A n \in nodes[Bar] :
         n.bo \in twice \/ (st[n.bo] = "live" /\ map1[n.bo] = n.at)

\* What a client maps of an object is the object, as long as it is mapped, even
\* after its handle is closed (pscnv_mmap, drm_gem_vm_close).
ClientWindow ==
  \A b \in Bos : mmaps[b] > 0 =>
    map1[b] # Null /\ \A p \in PagesOf(b, map1[b]) : pt[Bar][p] = b

\* When the clients' handles, mappings and address spaces are gone, so is every
\* object, but for those that a failed map has lost a reference of.
DeathFrees ==
  (\A t \in Threads : Idle(t)) /\ (\A vs \in Vs : ~alive[vs]) =>
    \A b \in Bos : st[b] = "live" => handle[b] \/ mmaps[b] > 0 \/ leaked[b] > 0

\* The references of an object are what its count says, and with them it goes
\* (drm_gem_object_unreference in pscnv_vm.c and pscnv_ioctl.c).
RefsExact == TypeOK /\ GemBalance /\ DeathFrees

\* Whoever is given an address by a map, the card, the BAR or a client, finds
\* the object there (pscnv_vspace_map, map_user, pscnv_mmap).
MapsExact == PtMatchesNodes /\ MapsOwn /\ ClientWindow

\* The mutexes cannot deadlock: a thread that returns has none, and one that
\* waits while it has one has a client's and waits for the BAR's, as it does
\* when an unmap drops the last reference of an object that is in the BAR.
LocksOrdered ==
  \A t \in Threads, vs \in Spaces : lock[vs] = t =>
    ~Idle(t) /\ (At(t, "lock") => vs # Bar /\ Now(t).vs = Bar)
=============================================================================
