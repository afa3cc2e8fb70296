----------------------------- MODULE Nvc0Tables -----------------------------
(***************************************************************************)
(* Page tables of the NVC0 (nvc0_vm.c), as pscnv_vspace_map and            *)
(* pscnv_vspace_unmap use them.  A page directory has an entry for each    *)
(* block of the address space, which leads to two tables: one of small     *)
(* pages and one of large pages.  Tables are made when they are first      *)
(* looked for.  Each address space has a mutex; the two registers that     *)
(* flush the TLB of one page directory are shared by all of them, and have *)
(* none.  A flush may time out, and each of its callers makes something    *)
(* else of that.  Addresses and sizes are counted in small pages.          *)
(***************************************************************************)
EXTENDS Integers, Sequences, FiniteSets, FiniteSetsExt

CONSTANTS
  Threads, Spaces,
  Bar3,          \* the space behind the third BAR: it has no large pages
  Objs, Kind,    \* "small" and "large" (both in VRAM), or "sys"
  Runs,          \* per object: the lengths of its fragments in VRAM
  SpaceBlocks,   \* bound: how many blocks each space has
  PdeCount,      \* NVC0_VM_PDE_COUNT
  BlockPages,    \* NVC0_VM_SPTE_COUNT
  LargePages,    \* how many small pages a large one has
  MaxNodes,      \* bound: how many mappings there are at a time
  MaxTlb,        \* bound: translations that the card remembers
  None

\* The length of the fragments of o before its k-th.
Before(o, k) == LET sum[i \in 0 .. k] == IF i = 0 THEN 0 ELSE sum[i - 1] + Runs[o][i]
                IN sum[k]
Size(o) == Before(o, Len(Runs[o]))

ASSUME TablesAssumption ==
  /\ \A v \in Spaces : SpaceBlocks[v] \in 1 .. PdeCount
  /\ BlockPages % LargePages = 0
  /\ \A o \in Objs : Kind[o] = "large" =>
       \A k \in DOMAIN Runs[o] : Runs[o][k] % LargePages = 0
  /\ None \notin Spaces

VARIABLES
  nodes,   \* per space: the used nodes of its range allocator
  tables,  \* per space and block: None, or its tables of small and large pages
  lock,    \* the thread that holds the mutex of a space
  call,    \* what each thread is doing
  tlb,     \* translations that the card remembers
  tlbPd,   \* register 0x100cb8: the space whose translations a flush drops
  missed   \* history: spaces where a flush was due, of which none has reached
           \* the card since

vars == <<nodes, tables, lock, call, tlb, tlbPd, missed>>

Pages(v) == 0 .. SpaceBlocks[v] * BlockPages - 1
Pdes == 0 .. PdeCount - 1
NVC0_PDE(p) == p \div BlockPages
NVC0_SPTE(p) == p % BlockPages
NVC0_LPTE(p) == (p % BlockPages) \div LargePages

Node(o, at) == [obj |-> o, at |-> at]
PagesOf(n) == n.at .. n.at + Size(n.obj) - 1
Idle == [pc |-> "idle"]

\* A mapping uses large pages if the object has them, but not behind the BAR.
IsLarge(v, o) == Kind[o] = "large" /\ v # Bar3

EmptyTables ==
  [s |-> [i \in 0 .. BlockPages - 1 |-> None],
   l |-> [i \in 0 .. BlockPages \div LargePages - 1 |-> None]]

Init ==
  /\ nodes = [v \in Spaces |-> {}]
  /\ tables = [v \in Spaces |-> [d \in Pdes |-> None]]
  /\ lock = [v \in Spaces |-> None]
  /\ call = [t \in Threads |-> Idle]
  /\ tlb = {} /\ tlbPd = None /\ missed = {}

-----------------------------------------------------------------------------
(* The calls                                                               *)

Walk(t, op, v, n) ==
  call' = [call EXCEPT ![t] =
             [pc |-> "walk", op |-> op, v |-> v, n |-> n, off |-> 0, ret |-> "walk"]]

\* Where nvc0_vspace_place_map may put o in the whole space.
Places(v, o) ==
  {at \in Pages(v) :
     /\ PagesOf(Node(o, at)) \subseteq Pages(v)
     /\ \A m \in nodes[v] : PagesOf(Node(o, at)) \cap PagesOf(m) = {}
     /\ Kind[o] = "large" => at % LargePages = 0}

\* pscnv_vspace_map takes the first place, or the last if it is to look from the
\* back.  nvc0_vm_map_kernel, which maps behind the BAR, looks from the front, and
\* is called for objects in VRAM.
Map(t, v, o) ==
  /\ call[t].pc = "idle" /\ lock[v] = None
  /\ v = Bar3 => Kind[o] # "sys"
  /\ Cardinality({vn \in Spaces \X UNION {nodes[w] : w \in Spaces} : vn[2] \in nodes[vn[1]]})
       < MaxNodes
  /\ Places(v, o) # {}
  /\ \E at \in {Min(Places(v, o))} \cup (IF v = Bar3 THEN {} ELSE {Max(Places(v, o))}) :
       /\ nodes' = [nodes EXCEPT ![v] = @ \cup {Node(o, at)}]
       /\ Walk(t, "map", v, Node(o, at))
  /\ lock' = [lock EXCEPT ![v] = t]
  /\ UNCHANGED <<tables, tlb, tlbPd, missed>>

Unmap(t, v) ==
  /\ call[t].pc = "idle" /\ lock[v] = None
  /\ \E n \in nodes[v] : Walk(t, "unmap", v, n)
  /\ lock' = [lock EXCEPT ![v] = t]
  /\ UNCHANGED <<nodes, tables, tlb, tlbPd, missed>>

Here(c) == c.n.at + c.off
AllDone(c) == c.off = Size(c.n.obj)

\* The table is looked for at each block, and, for an object in system memory,
\* also past a last page that ends its block.
Wants(c) ==
  \/ ~AllDone(c)
  \/ c.op = "map" /\ Kind[c.n.obj] = "sys" /\ NVC0_SPTE(Here(c)) = 0

Missing(c) == Wants(c) /\ NVC0_PDE(Here(c)) \in Pdes /\ tables[c.v][NVC0_PDE(Here(c))] = None

\* nvc0_vspace_pgt and nvc0_vspace_fill_pde: the flush that follows is FlushPd.
FillPde(t) ==
  /\ call[t].pc = "walk" /\ Missing(call[t])
  /\ LET c == call[t] IN
       tables' = [tables EXCEPT ![c.v][NVC0_PDE(Here(c))] = EmptyTables]
  /\ call' = [call EXCEPT ![t].pc = "select", ![t].ret = "walk"]
  /\ UNCHANGED <<nodes, lock, tlb, tlbPd, missed>>

\* A thread that trips a BUG_ON or dereferences NULL dies with the mutex.
Dies(t) == call' = [call EXCEPT ![t] = [pc |-> "bug"]]

\* BUG_ON(pde >= NVC0_VM_PDE_COUNT).
NoSuchPde(t) ==
  /\ call[t].pc = "walk" /\ Wants(call[t]) /\ NVC0_PDE(Here(call[t])) \notin Pdes
  /\ Dies(t)
  /\ UNCHANGED <<nodes, tables, lock, tlb, tlbPd, missed>>

\* nvc0_vspace_pgt returns NULL.  No caller checks, and the next turn of the loop
\* goes through it: it goes well only where no turn follows.
NoTable(t) ==
  IF AllDone(call[t])
    THEN call' = [call EXCEPT ![t].pc = "select", ![t].ret = "done"]
    ELSE Dies(t)

\* There is no memory for one of the two tables.
FillPdeFails(t) ==
  /\ call[t].pc = "walk" /\ Missing(call[t])
  /\ NoTable(t)
  /\ UNCHANGED <<nodes, tables, lock, tlb, tlbPd, missed>>

LeftInBlock(p) == BlockPages - NVC0_SPTE(p)

\* What is left of the fragment that holds page i of o.
LeftOfRun(o, i) ==
  CHOOSE r \in 1 .. Size(o) : \E k \in DOMAIN Runs[o] :
    Before(o, k - 1) <= i /\ i < Before(o, k) /\ r = Before(o, k) - i

\* Faulty variant: goes on beyond the end of a block.
SpaceOfRun(c) == LeftOfRun(c.n.obj, c.off)

\* How far one turn of the loop gets: to the end of the block, or of the
\* fragment; the fragments do not matter when entries are cleared.
Space(c) ==
  Min({LeftInBlock(Here(c)),
       IF c.op = "map" /\ Kind[c.n.obj] # "sys" THEN LeftOfRun(c.n.obj, c.off)
                                                 ELSE Size(c.n.obj) - c.off})

\* write_pt, and the loop over dmapages: entry k leads to the k-th page.
MapBlock(t) ==
  /\ call[t].pc = "walk" /\ call[t].op = "map" /\ ~AllDone(call[t]) /\ ~Missing(call[t])
  /\ LET c == call[t]
         o == c.n.obj
         p == Here(c)
         d == NVC0_PDE(p)
         size == Space(c)
     IN /\ tables' =
             IF IsLarge(c.v, o)
               THEN [tables EXCEPT ![c.v][d].l = [i \in DOMAIN @ |->
                       IF i - NVC0_LPTE(p) \in 0 .. (size \div LargePages) - 1
                         THEN [obj |-> o, page |-> c.off + (i - NVC0_LPTE(p)) * LargePages]
                         ELSE @[i]]]
               ELSE [tables EXCEPT ![c.v][d].s = [i \in DOMAIN @ |->
                       IF i - NVC0_SPTE(p) \in 0 .. size - 1
                         THEN [obj |-> o, page |-> c.off + (i - NVC0_SPTE(p))]
                         ELSE @[i]]]
        /\ call' = [call EXCEPT ![t].off = @ + size]
  /\ UNCHANGED <<nodes, lock, tlb, tlbPd, missed>>

\* nvc0_vspace_do_unmap clears both tables, whichever the mapping used.
UnmapBlock(t) ==
  /\ call[t].pc = "walk" /\ call[t].op = "unmap" /\ ~AllDone(call[t]) /\ ~Missing(call[t])
  /\ LET c == call[t]
         p == Here(c)
         size == Space(c)
     IN /\ tables' = [tables EXCEPT ![c.v][NVC0_PDE(p)] =
             [s |-> [i \in DOMAIN @.s |->
                       IF i - NVC0_SPTE(p) \in 0 .. size - 1 THEN None ELSE @.s[i]],
              l |-> [i \in DOMAIN @.l |->
                       IF i - NVC0_LPTE(p) \in 0 .. (size \div LargePages) - 1
                         THEN None ELSE @.l[i]]]]
        /\ call' = [call EXCEPT ![t].off = @ + size]
  /\ UNCHANGED <<nodes, lock, tlb, tlbPd, missed>>

\* Faulty variant: returns without the last flush.
WalkedNoFlush(t) ==
  /\ call[t].pc = "walk" /\ ~Wants(call[t])
  /\ call' = [call EXCEPT ![t].pc = "done"]
  /\ UNCHANGED <<nodes, tables, lock, tlb, tlbPd, missed>>

Walked(t) ==
  /\ call[t].pc = "walk" /\ AllDone(call[t]) /\ ~Missing(call[t])
  /\ Wants(call[t]) => NVC0_PDE(Here(call[t])) \in Pdes
  /\ call' = [call EXCEPT ![t].pc = "select", ![t].ret = "done"]
  /\ UNCHANGED <<nodes, tables, lock, tlb, tlbPd, missed>>

\* nvc0_tlb_flush: the directory, then the trigger, which drops what is
\* remembered of the directory that the register holds by then.
FlushPd(t) ==
  /\ call[t].pc = "select"
  /\ tlbPd' = call[t].v
  /\ call' = [call EXCEPT ![t].pc = "trigger"]
  /\ UNCHANGED <<nodes, tables, lock, tlb, missed>>

FlushTrigger(t) ==
  /\ call[t].pc = "trigger"
  /\ tlb' = {e \in tlb : e.v # tlbPd}
  /\ missed' = (missed \cup {call[t].v}) \ {tlbPd}
  /\ call' = [call EXCEPT ![t].pc = call[t].ret]
  /\ UNCHANGED <<nodes, tables, lock, tlbPd>>

\* nv_wait gives up: -EBUSY.  The card keeps the translations, or drops them too
\* late to be seen.  What follows depends on who asked: nvc0_vspace_pgt forgets
\* the new table, a map is undone (pscnv_vspace_map), an unmap goes on as if
\* nothing had happened.
FlushTimeout(t) ==
  /\ call[t].pc = "trigger"
  /\ tlb' \in {tlb, {e \in tlb : e.v # tlbPd}}
  /\ missed' = missed \cup {call[t].v}
  /\ LET c == call[t] IN
       \/ /\ c.ret = "walk"
          /\ tables' = [tables EXCEPT ![c.v][NVC0_PDE(Here(c))] = None]
          /\ NoTable(t)
       \/ /\ c.ret = "done" /\ UNCHANGED tables
          /\ IF c.op = "map" THEN Walk(t, "unmap", c.v, c.n)
                             ELSE call' = [call EXCEPT ![t].pc = "done"]
  /\ UNCHANGED <<nodes, lock, tlbPd>>

\* The node goes back to the range allocator after the flush.
Return(t) ==
  /\ call[t].pc = "done"
  /\ LET c == call[t] IN
       /\ nodes' = IF c.op = "unmap" THEN [nodes EXCEPT ![c.v] = @ \ {c.n}] ELSE nodes
       /\ lock' = [lock EXCEPT ![c.v] = None]
  /\ call' = [call EXCEPT ![t] = Idle]
  /\ UNCHANGED <<tables, tlb, tlbPd, missed>>

\* pscnv_vspace_ref_free and nvc0_vspace_free: the nodes go without being
\* unmapped, the tables are freed, and nothing is flushed.  A new space may
\* take the place of the old one.
VspaceFree(v) ==
  /\ lock[v] = None /\ v # Bar3 /\ tables[v] # [d \in Pdes |-> None]
  /\ nodes' = [nodes EXCEPT ![v] = {}]
  /\ tables' = [tables EXCEPT ![v] = [d \in Pdes |-> None]]
  /\ missed' = missed \cup {v}
  /\ UNCHANGED <<lock, call, tlb, tlbPd>>

-----------------------------------------------------------------------------
(* The card (external)                                                     *)

\* What the tables make of page p: at most one of them should know it.
Lookup(v, p) ==
  LET d == tables[v][NVC0_PDE(p)] IN
  IF d = None THEN {}
  ELSE ({d.s[NVC0_SPTE(p)]} \ {None})
         \cup {[e EXCEPT !.page = @ + (p % LargePages)] : e \in {d.l[NVC0_LPTE(p)]} \ {None}}

Access(v, p) ==
  /\ Cardinality(tlb) < MaxTlb
  /\ \E e \in Lookup(v, p) : tlb' = tlb \cup {[v |-> v, p |-> p, to |-> e]}
  /\ UNCHANGED <<nodes, tables, lock, call, tlbPd, missed>>

-----------------------------------------------------------------------------
Driver(t) ==
  \/ \E v \in Spaces : Unmap(t, v) \/ \E o \in Objs : Map(t, v, o)
  \/ FillPde(t) \/ FillPdeFails(t) \/ NoSuchPde(t) \/ MapBlock(t) \/ UnmapBlock(t) \/ Walked(t)
  \/ FlushPd(t) \/ FlushTrigger(t) \/ FlushTimeout(t) \/ Return(t)

Next ==
  \/ \E t \in Threads : Driver(t)
  \/ \E v \in Spaces : VspaceFree(v) \/ \E p \in Pages(v) : Access(v, p)

Spec == Init /\ [][Next]_vars

-----------------------------------------------------------------------------
(* Properties                                                              *)

\* What the nodes say that page p of v leads to.
Expected(v, p) ==
  {[obj |-> n.obj, page |-> p - n.at] : n \in {m \in nodes[v] : p \in PagesOf(m)}}

\* The tables lead no address anywhere but to the page of the object that is
\* mapped there, whatever fragments, blocks and page sizes the mapping goes
\* through and wherever it is undone or given up; small and large pages never both
\* claim an address, and when no call is under way every page of every mapping is
\* there.  (A call that has died never gives up its space.)
TranslatesRight ==
  \A v \in Spaces : \A p \in Pages(v) :
    /\ Lookup(v, p) \subseteq Expected(v, p)
    /\ lock[v] = None => Lookup(v, p) = Expected(v, p)

\* In a space that the flushes reach, the card remembers no translation of a
\* mapping that is gone: the flush comes after the last entry is cleared and
\* before the node is given back, also where a map is undone.  Excepted are the
\* spaces that a flush was due for and did not reach, until the next one does: it
\* timed out, another space's directory got between its two registers, or the
\* space was freed without one.
NoStale ==
  \A e \in tlb : e.v \notin missed => e.to \in Expected(e.v, e.p)
=============================================================================
