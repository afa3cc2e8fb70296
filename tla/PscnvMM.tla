------------------------------ MODULE PscnvMM ------------------------------
(***************************************************************************)
(* The range allocator of pscnv_mm.c.  It hands out VRAM (one allocator    *)
(* per card, under vram_mutex) and addresses of a virtual address space    *)
(* (one per vspace, under vs->lock).                                       *)
(*                                                                         *)
(* The allocator cuts [Start, End) into nodes.  A node is free, or used    *)
(* by one of two kinds of storage (type 0: small pages, type 1: large      *)
(* pages); the hardware cannot mix the two kinds inside one block of TS    *)
(* units.  An allocation is a chain of one or more nodes.                  *)
(*                                                                         *)
(* The red-black tree that orders the nodes is abstracted to the set of    *)
(* nodes, ordered by start: the search for a fit is an in-order walk, so   *)
(* which node it finds does not depend on the shape of the tree unless a   *)
(* kzalloc fails, and then the choice is left open.  Each loop of the      *)
(* code is one step per iteration.  One call runs at a time, because every *)
(* caller holds the mutex of the allocator's owner.                        *)
(***************************************************************************)
EXTENDS Integers, FiniteSets, Sequences

CONSTANTS
  Start, End,   \* the range handed to pscnv_mm_init
  SP, LP,       \* spsize and lpsize: the two page sizes
  TS,           \* tssize: the block that must not mix the two types
  Word,         \* 2^64: addresses that callers pass are below it
  Objs,         \* the callers' handles (bo->mmnode, map nodes)
  Requests,     \* the arguments pscnv_mm_alloc is called with
  NoReq         \* the request of an object that is not allocated

USED0 == 0      \* PSCNV_MM_TYPE_USED0
USED1 == 1      \* PSCNV_MM_TYPE_USED1
FREE  == 2      \* PSCNV_MM_TYPE_FREE

\* The arguments of pscnv_mm_alloc: t and large are the flags T1 and LP, frag
\* and back are FRAGOK and FROMBACK.
Request == [size : Nat \ {0}, t : {USED0, USED1}, large : BOOLEAN,
            frag : BOOLEAN, back : BOOLEAN, lo : Nat, hi : Nat]

ASSUME RangeAssumption ==
  /\ Start \in Nat /\ End \in Nat /\ Start < End
  /\ SP \in Nat \ {0} /\ LP \in Nat \ {0} /\ TS \in Nat \ {0}
  /\ Word \in Nat /\ End + TS + SP + LP < Word

ASSUME RequestAssumption ==
  /\ Requests \subseteq Request
  /\ NoReq \notin Requests

VARIABLES
  nodes,   \* the nodes of mm->head, without the two sentinels
  chain,   \* chain[o]: starts of the fragments linked from o's first node
  req,     \* history: the request that o was allocated with
  live,    \* the objects whose allocation returned 0 and is not yet freed
  call,    \* the call that holds the lock
  before   \* history: the nodes when that call began

vars == <<nodes, chain, req, live, call, before>>

Node == [start : Nat, size : Nat \ {0}, type : {USED0, USED1, FREE}]

\* The call in progress: what it does, for which object, how many units are
\* left to allocate and whether a kzalloc has failed in it.
Doing(op, obj, left, nomem) == [op |-> op, obj |-> obj, left |-> left, nomem |-> nomem]
Idle == Doing("idle", NoReq, 0, FALSE)

Fin(n) == n.start + n.size
Pick(S) == CHOOSE x \in S : TRUE

\* pscnv_roundup and pscnv_rounddown; the sum wraps at the width of uint64_t.
RoundUp(x, y)   == (((x + y - 1) % Word) \div y) * y
RoundDown(x, y) == (x \div y) * y

\* PSCNV_RB_PREV and PSCNV_RB_NEXT.
IsPrev(N, p, n) == p.start < n.start /\ \A q \in N : q.start < n.start => q.start <= p.start
IsNext(N, p, n) == p.start > n.start /\ \A q \in N : q.start > n.start => q.start >= p.start
Prev(N, n) == {p \in N : IsPrev(N, p, n)}
Succ(N, n) == {p \in N : IsNext(N, p, n)}

\* Faulty variant: the ends of the range match every type.
NeighbourIsNoSentinel(P, t) == \A p \in P : p.type = t

\* The sentinels at both ends have type USED0.
NeighbourIs(P, t) == IF P = {} THEN t = USED0 ELSE \E p \in P : p.type = t

Page(r) == IF r.large THEN LP ELSE SP

\* Faulty variant: rounds to a block whatever the neighbour is.
FreeStartAlwaysBlock(N, n, t, pg) == RoundUp(RoundUp(n.start, TS), pg)

\* pscnv_mm_getfree: the part of a node usable for type t in pages of pg.
FreeStart(N, n, t, pg) ==
  RoundUp(IF NeighbourIs(Prev(N, n), t) THEN n.start ELSE RoundUp(n.start, TS), pg)
FreeEnd(N, n, t, pg) ==
  RoundDown(IF NeighbourIs(Succ(N, n), t) THEN Fin(n) ELSE RoundDown(Fin(n), TS), pg)

\* Faulty variants: no merge to the right; a merge that forgets one size.
FreeNodeNoRight(N, n) ==
  LET P == {p \in Prev(N, n) : p.type = FREE}
  IN (N \ ({n} \cup P))
       \cup {[start |-> IF P = {} THEN n.start ELSE Pick(P).start,
              size  |-> n.size + (IF P = {} THEN 0 ELSE Pick(P).size),
              type  |-> FREE]}
FreeNodeLosesSize(N, n) ==
  LET S == {p \in Succ(N, n) : p.type = FREE}
  IN (N \ ({n} \cup S)) \cup {[n EXCEPT !.type = FREE]}

\* pscnv_mm_free_node: release a node and merge it with free neighbours.
FreeNode(N, n) ==
  LET P == {p \in Prev(N, n) : p.type = FREE}
      S == {p \in Succ(N, n) : p.type = FREE}
      merged ==
        [start |-> IF P = {} THEN n.start ELSE Pick(P).start,
         size  |-> n.size + (IF P = {} THEN 0 ELSE Pick(P).size)
                          + (IF S = {} THEN 0 ELSE Pick(S).size),
         type  |-> FREE]
  IN (N \ ({n} \cup P \cup S)) \cup {merged}

\* The tail of pscnv_mm_alloc_single: use [s, e) of the free node f and
\* release what is left on either side as nodes of their own.
Carve(N, f, s, e, t) ==
  LET lsp == [start |-> f.start, size |-> s - f.start, type |-> USED0]
      rsp == [start |-> e, size |-> Fin(f) - e, type |-> USED0]
      N0  == (N \ {f}) \cup {[start |-> s, size |-> e - s, type |-> t]}
      N1  == IF s = f.start THEN N0 ELSE FreeNode(N0 \cup {lsp}, lsp)
  IN IF e = Fin(f) THEN N1 ELSE FreeNode(N1 \cup {rsp}, rsp)

-----------------------------------------------------------------------------
(* pscnv_mm_alloc and pscnv_mm_alloc_single                                *)

\* start and end as pscnv_mm_alloc rounds them, and the smallest fragment.
Lo(r) == RoundUp(r.lo, Page(r))
Hi(r) == RoundDown(r.hi, Page(r))
MinSize(r, left) == IF r.frag THEN 1 ELSE left

\* Faulty variant: ignores the caller's lower bound.
WindowStartAnywhere(n, r) == FreeStart(nodes, n, r.t, Page(r))

WindowStart(n, r) ==
  LET s == FreeStart(nodes, n, r.t, Page(r)) IN IF Lo(r) > s THEN Lo(r) ELSE s
WindowEnd(n, r) ==
  LET e == FreeEnd(nodes, n, r.t, Page(r)) IN IF Hi(r) < e THEN Hi(r) ELSE e

Fits(n, r, left) ==
  /\ n.type = FREE
  /\ WindowEnd(n, r) - WindowStart(n, r) >= MinSize(r, left)

\* The fragment cut out of a node that fits: from the back or the front.
FragStart(n, r, left) ==
  IF r.back /\ WindowEnd(n, r) - WindowStart(n, r) > left
  THEN WindowEnd(n, r) - left ELSE WindowStart(n, r)
FragEnd(n, r, left) ==
  IF ~r.back /\ WindowEnd(n, r) - WindowStart(n, r) > left
  THEN WindowStart(n, r) + left ELSE WindowEnd(n, r)

\* A fragment that does not fill its node needs new nodes from kzalloc.
NeedsSplit(n, r, left) ==
  FragStart(n, r, left) # n.start \/ FragEnd(n, r, left) # Fin(n)

\* Faulty variant: walks from the front whatever the flags say.
FirstFromFront(n, r, left) ==
  /\ Fits(n, r, left)
  /\ \A m \in nodes : Fits(m, r, left) => m.start >= n.start

\* The fit the in-order walk meets first.
First(n, r, left) ==
  /\ Fits(n, r, left)
  /\ \A m \in nodes : Fits(m, r, left) =>
        IF r.back THEN m.start <= n.start ELSE m.start >= n.start

Init ==
  /\ nodes  = FreeNode({[start |-> Start, size |-> End - Start, type |-> USED0]},
                       [start |-> Start, size |-> End - Start, type |-> USED0])
  /\ chain  = [o \in Objs |-> <<>>]
  /\ req    = [o \in Objs |-> NoReq]
  /\ live   = {}
  /\ call   = Idle
  /\ before = {}

AllocCall(o, r) ==
  /\ call.op = "idle" /\ o \notin live
  /\ call' = Doing("alloc", o, RoundUp(r.size, Page(r)), FALSE)
  /\ req' = [req EXCEPT ![o] = r]
  /\ before' = nodes
  /\ UNCHANGED <<nodes, chain, live>>

\* One pscnv_mm_alloc_single that succeeds: on the first fit, or on another
\* one after the kzalloc for splitting the first fit has failed.
AllocSingle(n) ==
  /\ call.op = "alloc" /\ call.left > 0
  /\ LET r == req[call.obj]
         s == FragStart(n, r, call.left)
         e == FragEnd(n, r, call.left)
         first == First(n, r, call.left)
     IN /\ Fits(n, r, call.left)
        /\ first \/ \E m \in nodes : First(m, r, call.left) /\ NeedsSplit(m, r, call.left)
        /\ nodes' = Carve(nodes, n, s, e, r.t)
        /\ chain' = [chain EXCEPT ![call.obj] = Append(@, s)]
        /\ call'  = Doing("alloc", call.obj, call.left - (e - s), call.nomem \/ ~first)
  /\ UNCHANGED <<req, live, before>>

\* Faulty variant: an empty search is not reported, and the loop spins.
AllocFailOnlyNoMem ==
  /\ call.op = "alloc" /\ call.left > 0
  /\ LET r == req[call.obj]
         fits == {n \in nodes : Fits(n, r, call.left)}
     IN /\ fits # {}
        /\ \A n \in fits : First(n, r, call.left) => NeedsSplit(n, r, call.left)
        /\ call' = Doing("rollback", call.obj, call.left, TRUE)
  /\ UNCHANGED <<nodes, chain, req, live, before>>

\* pscnv_mm_alloc_single finds nothing, or kzalloc fails.
AllocFail ==
  /\ call.op = "alloc" /\ call.left > 0
  /\ LET r == req[call.obj]
         fits == {n \in nodes : Fits(n, r, call.left)}
     IN /\ \A n \in fits : First(n, r, call.left) => NeedsSplit(n, r, call.left)
        /\ call' = Doing("rollback", call.obj, call.left, call.nomem \/ fits # {})
  /\ UNCHANGED <<nodes, chain, req, live, before>>

AllocDone ==
  /\ call.op = "alloc" /\ call.left = 0
  /\ live' = live \cup {call.obj}
  /\ call' = Idle /\ before' = {}
  /\ UNCHANGED <<nodes, chain, req>>

\* The loop that undoes a failed allocation, last fragment first.
Rollback(n) ==
  LET c == chain[call.obj]
  IN /\ call.op = "rollback" /\ c # <<>>
     /\ n.start = c[Len(c)]
     /\ nodes' = FreeNode(nodes, n)
     /\ chain' = [chain EXCEPT ![call.obj] = SubSeq(c, 1, Len(c) - 1)]
     /\ UNCHANGED <<req, live, call, before>>

\* Faulty variant: returns the error without undoing the fragments.
RollbackDoneEarly ==
  /\ call.op = "rollback"
  /\ req' = [req EXCEPT ![call.obj] = NoReq]
  /\ call' = Idle /\ before' = {}
  /\ UNCHANGED <<nodes, chain, live>>

RollbackDone ==
  /\ call.op = "rollback" /\ chain[call.obj] = <<>>
  /\ req' = [req EXCEPT ![call.obj] = NoReq]
  /\ call' = Idle /\ before' = {}
  /\ UNCHANGED <<nodes, chain, live>>

-----------------------------------------------------------------------------
(* pscnv_mm_free and pscnv_mm_takedown                                     *)

FreeCall(o) ==
  /\ call.op = "idle" /\ o \in live
  /\ call' = Doing("free", o, 0, FALSE)
  /\ live' = live \ {o}
  /\ UNCHANGED <<nodes, chain, req, before>>

\* One fragment per iteration, from the head of the chain.
FreeStep(n) ==
  LET c == chain[call.obj]
  IN /\ call.op \in {"free", "takefree"} /\ c # <<>>
     /\ n.start = Head(c)
     /\ nodes' = FreeNode(nodes, n)
     /\ chain' = [chain EXCEPT ![call.obj] = Tail(c)]
     /\ UNCHANGED <<req, live, call, before>>

FreeDone ==
  /\ call.op \in {"free", "takefree"} /\ chain[call.obj] = <<>>
  /\ req' = [req EXCEPT ![call.obj] = NoReq]
  /\ call' = IF call.op = "free" THEN Idle ELSE Doing("takedown", NoReq, 0, FALSE)
  /\ UNCHANGED <<nodes, chain, live, before>>

TakedownCall ==
  /\ call.op = "idle"
  /\ call' = Doing("takedown", NoReq, 0, FALSE)
  /\ UNCHANGED <<nodes, chain, req, live, before>>

\* Faulty variant: the node found is handed over without the walk to the head
\* of its chain, so the free starts in the middle.
TakedownNextMiddle(n, o) ==
  /\ call.op = "takedown"
  /\ n.type # FREE /\ \A m \in nodes : m.type # FREE => m.start >= n.start
  /\ \E i \in DOMAIN chain[o] :
       /\ chain[o][i] = n.start
       /\ chain' = [chain EXCEPT ![o] = SubSeq(@, i, Len(@))]
  /\ call' = Doing("takefree", o, 0, FALSE)
  /\ live' = live \ {o}
  /\ UNCHANGED <<nodes, req, before>>

\* The lowest used node, walked back to the head of its chain, is handed to
\* the callback, which frees it; then the scan restarts.
TakedownNext(n, o) ==
  /\ call.op = "takedown"
  /\ n.type # FREE /\ \A m \in nodes : m.type # FREE => m.start >= n.start
  /\ \E i \in DOMAIN chain[o] : chain[o][i] = n.start
  /\ call' = Doing("takefree", o, 0, FALSE)
  /\ live' = live \ {o}
  /\ UNCHANGED <<nodes, chain, req, before>>

TakedownDone ==
  /\ call.op = "takedown" /\ \A n \in nodes : n.type = FREE
  /\ nodes' = {}
  /\ call' = Doing("dead", NoReq, 0, FALSE)
  /\ UNCHANGED <<chain, req, live, before>>

\* What the running call does next; a call never waits once it has the lock.
Step ==
  \/ \E n \in nodes : AllocSingle(n)
  \/ AllocFail
  \/ AllocDone
  \/ \E n \in nodes : Rollback(n)
  \/ RollbackDone
  \/ \E n \in nodes : FreeStep(n)
  \/ FreeDone
  \/ \E n \in nodes, o \in Objs : TakedownNext(n, o)
  \/ TakedownDone

Next ==
  \/ \E o \in Objs, r \in Requests : AllocCall(o, r)
  \/ \E o \in Objs : FreeCall(o)
  \/ TakedownCall
  \/ Step

Spec == Init /\ [][Next]_vars
\* The caller holds the mutex and the loops have no blocking step but kzalloc,
\* which returns: the running call keeps going.
FairSpec == Spec /\ WF_vars(Step)

-----------------------------------------------------------------------------
(* Properties                                                              *)

Call == [op : {"idle", "alloc", "rollback", "free", "takedown", "takefree", "dead"},
         obj : Objs \cup {NoReq}, left : Nat, nomem : BOOLEAN]

\* The shape of the state; a call other than the idle ones works for an object.
TypeOK ==
  /\ nodes \subseteq Node
  /\ chain \in [Objs -> Seq(Nat)]
  /\ req \in [Objs -> Requests \cup {NoReq}]
  /\ live \subseteq Objs
  /\ call \in Call
  /\ before \subseteq Node
  /\ call.op \in {"alloc", "rollback"} => call.obj \in Objs /\ req[call.obj] \in Requests
  /\ call.op \in {"free", "takefree"} => call.obj \in Objs

Up == call.op # "dead"

Apart(m, n) == Fin(m) <= n.start \/ Fin(n) <= m.start
Touch(m, n) == Fin(m) = n.start

\* N cuts [Start, End) without overlap and without a hole.
TilesOf(N) ==
  /\ \A n \in N : Start <= n.start /\ Fin(n) <= End
  /\ \A m, n \in N : m = n \/ Apart(m, n)
  /\ \E n \in N : n.start = Start
  /\ \A n \in N : n.start = Start \/ \E m \in N : Touch(m, n)
  /\ \A n \in N : Fin(n) = End \/ \E m \in N : Touch(n, m)

\* The nodes tile the range, whatever has been split, merged and rolled back:
\* what the BUG_ONs of pscnv_mm_free_node assume of the neighbours they merge.
Tiles == Up => TilesOf(nodes)

\* No two free nodes touch: every release merges with both sides, so the gap
\* that pscnv_mm_getfree computes from the neighbours' types stays right.
CoalescedOf(N) == \A m, n \in N : Touch(m, n) => ~(m.type = FREE /\ n.type = FREE)
Coalesced == CoalescedOf(nodes)

FirstBlock(n) == n.start \div TS
LastBlock(n)  == (Fin(n) - 1) \div TS

\* A node of type 1 shares no block with a node of type 0, nor with what is
\* outside the range, where the sentinels stand for type 0.
SeparatedOf(N) ==
  \A n \in N : n.type = USED1 =>
    /\ Start <= FirstBlock(n) * TS
    /\ (LastBlock(n) + 1) * TS <= End
    /\ \A m \in N : m.type = USED0 =>
         LastBlock(m) < FirstBlock(n) \/ LastBlock(n) < FirstBlock(m)

\* No block of TS units ever holds storage of both types: the rounding of
\* pscnv_mm_getfree keeps them apart although it looks only at the two
\* neighbours of a node.
Separated == SeparatedOf(nodes)

\* The fragments of object o.
Frags(o) == {n \in nodes : \E i \in DOMAIN chain[o] : chain[o][i] = n.start}
Units(N) == UNION {n.start .. Fin(n) - 1 : n \in N}

\* Between calls every used node is a fragment of exactly one object that
\* holds an allocation, so nothing leaks through a failed allocation and no
\* unit belongs to two objects.
OwnedOnce ==
  call.op = "idle" =>
    /\ \A n \in nodes : n.type # FREE =>
         Cardinality({o \in Objs : n \in Frags(o)}) = 1
    /\ \A o \in Objs : o \in live <=> chain[o] # <<>>
    /\ \A o \in live : Cardinality(Frags(o)) = Len(chain[o])

\* The allocator seen by its callers: an object holds its fragments from the
\* return of pscnv_mm_alloc to the call of pscnv_mm_free.
owned == [o \in Objs |-> IF o \in live THEN Units(Frags(o)) ELSE {}]
kind  == [o \in Objs |-> IF o \in live THEN req[o].t ELSE 0]
Abs   == INSTANCE RangeAlloc WITH up <- call.op # "dead"

\* PscnvMM implements RangeAlloc: every step of the loops is invisible to the
\* callers but the one that returns an allocation, the one that starts a free
\* and the end of takedown.
ImplementsRangeAlloc == Abs!Spec

\* What pscnv_mm_alloc returned belongs to its object alone: as many units as
\* the rounded size, of the right type, in whole pages inside the rounded
\* bounds, and in one fragment unless the caller allowed more.
Delivered ==
  OwnedOnce /\ \A o \in live :
    LET r == req[o] IN
    /\ Cardinality(Units(Frags(o))) = RoundUp(r.size, Page(r))
    /\ \A n \in Frags(o) :
         /\ n.type = r.t
         /\ n.start % Page(r) = 0 /\ n.size % Page(r) = 0
         /\ Lo(r) <= n.start /\ Fin(n) <= Hi(r)
    /\ r.frag \/ Cardinality(Frags(o)) = 1

\* An allocation that fails half way leaves the nodes as it found them: the
\* rollback undoes every split.
RollbackRestores ==
  [][call.op = "rollback" /\ call'.op = "idle" => nodes' = before]_vars

\* Reference definition of a legal place, unit by unit and without nodes:
\* unit a is free and no unit of its block has the other type, where the
\* units outside the range count as type 0.
UnitType(a) ==
  IF a < Start \/ a >= End THEN USED0
  ELSE (CHOOSE n \in nodes : n.start <= a /\ a < Fin(n)).type
LegalUnit(a, t) ==
  /\ UnitType(a) = FREE
  /\ \A b \in (a \div TS) * TS .. (a \div TS) * TS + TS - 1 : UnitType(b) \in {t, FREE}
LegalStarts(r, len) ==
  {s \in Start .. End - 1 :
     /\ s % Page(r) = 0 /\ Lo(r) <= s /\ s + len <= Hi(r) /\ s + len <= End
     /\ \A a \in s .. s + len - 1 : LegalUnit(a, r.t)}
Need(r, left) == IF r.frag THEN Page(r) ELSE left

\* Unless kzalloc failed, an allocation is refused only when no legal place
\* for the next fragment exists: looking at the neighbours only and rounding
\* the gaps never hides a usable one.
NoFalseFailure ==
  [][call.op = "alloc" /\ call'.op = "rollback" /\ ~call'.nomem =>
       LET r == req[call.obj] IN LegalStarts(r, Need(r, call.left)) = {}]_vars

\* Unless kzalloc failed, a contiguous allocation gets the lowest legal place,
\* or the highest one when it asked for the back.
BestPlace ==
  [][call.op = "alloc" /\ call'.op = "alloc" /\ ~call'.nomem =>
       LET r == req[call.obj]
           c == chain'[call.obj]
           s == c[Len(c)]
       IN ~r.frag => /\ s \in LegalStarts(r, call.left)
                     /\ \A x \in LegalStarts(r, call.left) :
                          IF r.back THEN x <= s ELSE s <= x]_vars

\* pscnv_mm_alloc takes the right place, refuses only when there is none, and
\* undoes what it began: what a caller relies on when it tries with fragments
\* or in other bounds after a refusal.
Allocates == RollbackRestores /\ NoFalseFailure /\ BestPlace

\* At every step of every call, half-done ones included, each used node is a
\* fragment of exactly one chain, at one place of it, and each element of a
\* chain is a used node: so the loops that walk a chain while the tree changes
\* around them (rollback, free, the restarted scan of takedown) leave no
\* fragment behind and free none twice.  A chain belongs to an object that
\* holds an allocation or to the call that is making or freeing it.
ChainsExact ==
  Up =>
    /\ \A n \in nodes : n.type # FREE =>
         \E o \in Objs : \E i \in DOMAIN chain[o] : chain[o][i] = n.start
    /\ \A o \in Objs : \A i \in DOMAIN chain[o] :
         \E n \in nodes : n.type # FREE /\ n.start = chain[o][i]
    /\ \A o, q \in Objs : \A i \in DOMAIN chain[o], j \in DOMAIN chain[q] :
         chain[o][i] = chain[q][j] => o = q /\ i = j
    /\ \A o \in Objs : chain[o] # <<>> =>
         \/ o \in live
         \/ call.op \in {"alloc", "rollback", "free", "takefree"} /\ call.obj = o

\* Every call returns: fragmenting makes progress, the rollback and the free
\* loops reach the end of the chain and the restarting scan of takedown ends.
CallsReturn == call.op # "idle" ~> call.op \in {"idle", "dead"}
=============================================================================
