-------------------------- MODULE PscnvMapsStages --------------------------
(***************************************************************************)
(* The inductive invariant of PscnvMaps.                                   *)
(*                                                                         *)
(* What a thread has still to run is one of a few programs, left at some   *)
(* operation: a stage says which program, how far it is, and what it is    *)
(* about.  The invariant says that every thread is at a stage, and what is *)
(* then true of objects, nodes, page tables and TLBs; it speaks of stages  *)
(* and not of sequences.                                                   *)
(***************************************************************************)
EXTENDS PscnvMaps

-----------------------------------------------------------------------------
(* Stages                                                                  *)

\* The operations of a thread that frees an object, and those that need a node.
Freeing == {"flock", "fclear", "fflush", "fmmfree", "funlock", "release"}
WithNode == {"write", "undo", "undoflush", "clear", "flush", "put", "mmfree"}

Pcs == {"idle", "drop", "check", "mapped", "lockplace", "place", "assign", "unlock",
        "lockfind", "find", "down"} \cup WithNode \cup Freeing

\* The kinds of program: "map" for a map or an unmap of a client, "mmap" for a
\* map into the BAR, "bad" for one that has failed, "down" for the take-down of
\* an address space.  An object that goes is freed on behalf of any of them.
Kinds == {"none", "map", "mmap", "bad", "down"}
Suits(pc, k) ==
  /\ k = "none" => pc \in {"idle", "drop"} \cup Freeing
  /\ k = "map"  => pc \in {"lockplace", "place", "lockfind", "find", "unlock"} \cup WithNode \cup Freeing
  /\ k = "mmap" => pc \in {"check", "lockplace", "place", "write", "assign", "unlock", "mapped"}
  /\ k = "bad"  => pc \in {"undo", "undoflush", "clear", "flush", "mmfree", "assign", "unlock"}
  /\ k = "down" => pc \in {"put", "mmfree", "down"} \cup Freeing

\* vs and at are the space and the address of what is mapped or unmapped, bat is
\* the address in the BAR of an object that goes, i counts pages.
Stages ==
  [pc : Pcs, k : Kinds, vs : Spaces \cup {Null}, bo : Bos \cup {Null},
   at : Int \cup {Null}, bat : Int \cup {Null}, i : Nat]

Rest == [pc |-> "idle", k |-> "none", vs |-> Null, bo |-> Null, at |-> Null,
         bat |-> Null, i |-> 0]

\* Whether a stage is busy with the node of vs and at.
Has(s) ==
  \/ s.pc \in WithNode
  \/ s.pc = "assign" /\ s.k = "mmap"
  \/ s.pc \in Freeing /\ s.k # "none"

WellFormed(s) ==
  /\ s \in Stages /\ Suits(s.pc, s.k)
  /\ s.k \in {"map", "down"} => s.vs \in Vs
  /\ s.k \in {"mmap", "bad"} => s.vs = Bar
  /\ s.pc \notin {"idle", "lockfind", "find", "down"} /\ ~(s.pc = "unlock" /\ s.k = "map")
       => s.bo \in Bos
  /\ Has(s) \/ s.pc = "assign" =>
       s.at \in Int /\ PagesOf(s.bo, s.at) \subseteq Page(s.vs)
  /\ s.pc \in Freeing \ {"funlock", "release"} => s.bat \in Int
  /\ s.pc \in {"write", "undo", "clear", "fclear"} => s.i < Size[s.bo]

-----------------------------------------------------------------------------
(* The program of a stage                                                  *)

\* One operation, or the entries of the pages from the i-th, before others.
Do(op, q) == <<op>> \o q
Entries(do, vs, b, at, i, q) ==
  [j \in 1 .. Size[b] - i |-> Op(do, vs, b, at + i + j - 1)] \o q

End(s) ==
  CASE s.k = "map"  -> Do(Unlock(s.vs), <<>>)
    [] s.k = "mmap" -> Do(Unlock(s.vs), Do(On("mapped", s.bo), <<>>))
    [] s.k = "bad"  -> Do(Unlock(s.vs), Do(On("unref", s.bo), <<>>))
    [] s.k = "down" -> Do(Op("takedown", s.vs, Null, Null), <<>>)
    [] OTHER -> <<>>
AssignEnd(s) == Do(Op("assign", s.vs, s.bo, s.at), End(s))
WriteEnd(s) == IF s.k = "mmap" THEN AssignEnd(s) ELSE End(s)
PlaceEnd(s) == Do(Op("place", s.vs, s.bo, Null), End(s))
FindEnd(s) == Do(Op("find", s.vs, Null, s.at), End(s))
MmFreeEnd(s) ==
  Do(Op("mmfree", s.vs, s.bo, s.at), IF s.k = "bad" THEN AssignEnd(s) ELSE End(s))
PutEnd(s) == IF s.k = "bad" THEN MmFreeEnd(s) ELSE Do(On("unref", s.bo), MmFreeEnd(s))
FlushEnd(s) == Do(Op("flush", s.vs, s.bo, s.at), PutEnd(s))
ClearEnd(s, i) == Entries("clear", s.vs, s.bo, s.at, i, FlushEnd(s))
UndoFlushEnd(s) == Do(Op("flush", s.vs, s.bo, s.at), ClearEnd(s, 0))

ReleaseEnd(s) == Do(On("release", s.bo), IF s.k = "none" THEN <<>> ELSE MmFreeEnd(s))
FUnlockEnd(s) == Do(Unlock(Bar), ReleaseEnd(s))
FMmFreeEnd(s) == Do(Op("mmfree", Bar, s.bo, s.bat), FUnlockEnd(s))
FFlushEnd(s) == Do(Op("flush", Bar, s.bo, s.bat), FMmFreeEnd(s))
FClearEnd(s, i) == Entries("clear", Bar, s.bo, s.bat, i, FFlushEnd(s))

Program(s) ==
  CASE s.pc = "idle"      -> <<>>
    [] s.pc = "drop"      -> Do(On("unref", s.bo), <<>>)
    [] s.pc = "check"     -> Do(On("check", s.bo), Do(On("mapped", s.bo), <<>>))
    [] s.pc = "mapped"    -> Do(On("mapped", s.bo), <<>>)
    [] s.pc = "lockplace" -> Do(Lock(s.vs), PlaceEnd(s))
    [] s.pc = "place"     -> PlaceEnd(s)
    [] s.pc = "write"     -> Entries("write", s.vs, s.bo, s.at, s.i, WriteEnd(s))
    [] s.pc = "assign"    -> AssignEnd(s)
    [] s.pc = "unlock"    -> End(s)
    [] s.pc = "lockfind"  -> Do(Lock(s.vs), FindEnd(s))
    [] s.pc = "find"      -> FindEnd(s)
    [] s.pc = "undo"      -> Entries("clear", s.vs, s.bo, s.at, s.i, UndoFlushEnd(s))
    [] s.pc = "undoflush" -> UndoFlushEnd(s)
    [] s.pc = "clear"     -> ClearEnd(s, s.i)
    [] s.pc = "flush"     -> FlushEnd(s)
    [] s.pc = "put"       -> PutEnd(s)
    [] s.pc = "mmfree"    -> MmFreeEnd(s)
    [] s.pc = "down"      -> End(s)
    [] s.pc = "flock"     -> Do(Lock(Bar), FClearEnd(s, 0))
    [] s.pc = "fclear"    -> FClearEnd(s, s.i)
    [] s.pc = "fflush"    -> FFlushEnd(s)
    [] s.pc = "fmmfree"   -> FMmFreeEnd(s)
    [] s.pc = "funlock"   -> FUnlockEnd(s)
    [] s.pc = "release"   -> ReleaseEnd(s)

\* The stage when the operation is done and nothing is put in its place.
Last(s) == ~(s.i + 1 < Size[s.bo])
NextPc(s) ==
  CASE s.pc = "lockplace" -> "place"
    [] s.pc = "place"     -> "unlock"
    [] s.pc = "write"     -> IF ~Last(s) THEN "write" ELSE IF s.k = "mmap" THEN "assign" ELSE "unlock"
    [] s.pc = "assign"    -> "unlock"
    [] s.pc = "unlock"    -> CASE s.k = "mmap" -> "mapped" [] s.k = "bad" -> "drop" [] OTHER -> "idle"
    [] s.pc = "check"     -> "mapped"
    [] s.pc = "lockfind"  -> "find"
    [] s.pc = "find"      -> "unlock"
    [] s.pc = "undo"      -> IF ~Last(s) THEN "undo" ELSE "undoflush"
    [] s.pc = "undoflush" -> "clear"
    [] s.pc = "clear"     -> IF ~Last(s) THEN "clear" ELSE "flush"
    [] s.pc = "flush"     -> IF s.k = "bad" THEN "mmfree" ELSE "put"
    [] s.pc = "put"       -> "mmfree"
    [] s.pc = "mmfree"    -> CASE s.k = "map" -> "unlock" [] s.k = "bad" -> "assign" [] OTHER -> "down"
    [] s.pc = "flock"     -> "fclear"
    [] s.pc = "fclear"    -> IF ~Last(s) THEN "fclear" ELSE "fflush"
    [] s.pc = "fflush"    -> "fmmfree"
    [] s.pc = "fmmfree"   -> "funlock"
    [] s.pc = "funlock"   -> "release"
    [] s.pc = "release"   -> IF s.k = "none" THEN "idle" ELSE "mmfree"
    [] OTHER -> "idle"
After(s) ==
  [s EXCEPT !.pc = NextPc(s),
            !.k = IF NextPc(s) \in {"idle", "drop"} THEN "none" ELSE s.k,
            !.i = IF NextPc(s) = s.pc THEN s.i + 1 ELSE 0]

-----------------------------------------------------------------------------
(* What a stage has                                                        *)

Locked == {"place", "write", "assign", "unlock", "find", "undo", "undoflush", "clear",
           "flush", "put", "mmfree"}
BarLocked == {"fclear", "fflush", "fmmfree", "funlock"}

\* The mutexes.
Holding(s, vs) ==
  \/ s.vs = vs /\ s.k # "down" /\ s.pc \in Locked
  \/ s.vs = vs /\ s.k = "map" /\ s.pc \in Freeing
  \/ vs = Bar /\ s.pc \in BarLocked

\* The node that it maps or unmaps, or takes out of the BAR.
NodeOf(s) == Node(s.bo, s.at)
BarNode(s) == Node(s.bo, s.bat)
Owns(s, vs, n) ==
  \/ Has(s) /\ vs = s.vs /\ n = NodeOf(s)
  \/ s.pc \in {"fclear", "fflush", "fmmfree"} /\ vs = Bar /\ n = BarNode(s)

\* A mapping of a client that is unmapped has no reference of its own.
Lent(s, b) == s.bo = b /\ Has(s) /\ s.k \in {"map", "down"} /\ s.pc # "write"

\* A reference that the thread has to give back, or to give to a mapping.
Owes(s, b) ==
  /\ s.bo = b
  /\ \/ s.pc = "drop" \/ s.k \in {"mmap", "bad"}
     \/ s.k = "map" /\ s.pc \in {"lockplace", "place", "undo", "undoflush", "clear", "flush"}
     \/ s.pc = "put"

-----------------------------------------------------------------------------
(* The invariant                                                           *)

\* Where each thread is.
Programs(sh) ==
  /\ \A t \in Threads : WellFormed(sh[t])
  /\ todo = [t \in Threads |-> Program(sh[t])]

Types ==
  /\ st \in [Bos -> {"none", "live", "freed"}]
  /\ gref \in [Bos -> Nat] /\ handle \in [Bos -> BOOLEAN]
  /\ mmaps \in [Bos -> Nat] /\ leaked \in [Bos -> Nat]
  /\ map1 \in [Bos -> Page(Bar) \cup {Null}] /\ twice \subseteq Bos
  /\ alive \in [Spaces -> BOOLEAN]
  /\ nodes \in [Spaces -> SUBSET [bo : Bos, at : Int]]
  /\ DOMAIN pt = Spaces /\ \A vs \in Spaces : pt[vs] \in [Page(vs) -> Bos \cup {Null}]
  /\ DOMAIN tlb = Spaces /\ \A vs \in Spaces : tlb[vs] \in [Page(vs) -> Bos \cup {Null}]
  /\ DOMAIN late = Spaces /\ \A vs \in Spaces : late[vs] \subseteq Page(vs)
  /\ lock \in [Spaces -> Threads \cup {Null}]

Locks(sh) == \A t \in Threads, vs \in Spaces : lock[vs] = t <=> Holding(sh[t], vs)

\* Nodes of a space do not overlap, and those that threads are busy with exist.
Nodes(sh) ==
  /\ \A vs \in Spaces : \A n \in nodes[vs] : PagesOf(n.bo, n.at) \subseteq Page(vs)
  /\ \A vs \in Spaces : \A m, n \in nodes[vs] :
       m # n => PagesOf(m.bo, m.at) \cap PagesOf(n.bo, n.at) = {}
  /\ \A t \in Threads : Has(sh[t]) => NodeOf(sh[t]) \in nodes[sh[t].vs]

\* Who takes an address space down is the only one there, and does not leave
\* until it is empty.
Downs(sh) ==
  /\ alive[Bar]
  /\ \A t \in Threads : sh[t].k = "down" => ~alive[sh[t].vs]
  /\ \A t \in Threads : sh[t].k = "map" => alive[sh[t].vs]
  /\ \A t, u \in Threads : sh[t].k = "down" /\ sh[u].k = "down" /\ sh[t].vs = sh[u].vs => t = u
  /\ \A vs \in Vs : ~alive[vs] /\ nodes[vs] # {} =>
       \E t \in Threads : sh[t].k = "down" /\ sh[t].vs = vs

\* The references that exist: one for each mapping of an address space, but for
\* those that are lent, and one for each thread that owes one.
MappedBy(b) == {vn \in UNION {{vs} \X nodes[vs] : vs \in Vs} : vn[2].bo = b}
Lending(sh, b) == {t \in Threads : Lent(sh[t], b)}
Owing(sh, b) == {t \in Threads : Owes(sh[t], b)}

Balance(sh) ==
  \A b \in Bos :
    /\ IsFiniteSet(MappedBy(b))
    /\ gref[b] + Cardinality(Lending(sh, b))
         = (IF handle[b] THEN 1 ELSE 0) + mmaps[b] + leaked[b]
             + Cardinality(MappedBy(b)) + Cardinality(Owing(sh, b))

\* An object goes once, by the thread that gave its last reference back.
Objects(sh) ==
  /\ \A b \in Bos : gref[b] > 0 => st[b] = "live"
  /\ \A b \in Bos : st[b] = "none" => map1[b] = Null
  /\ \A t \in Threads : sh[t].pc \in Freeing => gref[sh[t].bo] = 0 /\ st[sh[t].bo] = "live"
  /\ \A t, u \in Threads :
       {sh[t].pc, sh[u].pc} \subseteq Freeing /\ sh[t].bo = sh[u].bo => t = u
  /\ \A b \in Bos : st[b] = "live" /\ gref[b] = 0 =>
       \E t \in Threads : sh[t].pc \in Freeing /\ sh[t].bo = b

\* The clients' windows are counted, those that are about to be made too.
Windows == {bk \in Bos \X (1 .. MaxMmaps) : bk[2] <= mmaps[bk[1]]}
Making(sh) == {t \in Threads : sh[t].k = "mmap"}
Mmaps(sh) ==
  /\ \A b \in Bos : mmaps[b] <= MaxMmaps
  /\ Cardinality(Windows) + Cardinality(Making(sh)) <= MaxMmaps

\* Where an object is in the BAR: where map1 says, or where the thread is that
\* puts it there or takes it back after a failure; but for one that two threads
\* have put there at once.
InBar(sh) ==
  /\ \A n \in nodes[Bar] :
       \/ n.bo \in twice
       \/ /\ st[n.bo] = "live"
          /\ map1[n.bo] = n.at
               \/ \E t \in Threads : sh[t].k \in {"mmap", "bad"} /\ Owns(sh[t], Bar, n)
  /\ \A t \in Threads : sh[t].pc \in Freeing =>
       IF sh[t].pc \in {"funlock", "release"}
         THEN sh[t].bo \in twice \/ \A n \in nodes[Bar] : n.bo # sh[t].bo
         ELSE map1[sh[t].bo] = sh[t].bat

\* The entries of a page, by who is busy with its node.
Cleared(s, vs, n, p) ==
  \/ /\ vs = s.vs /\ n = NodeOf(s)
     /\ \/ s.pc \in {"undo", "clear"} /\ p < s.at + s.i
        \/ s.pc \in {"undoflush", "flush", "put", "mmfree"}
        \/ s.pc \in Freeing /\ s.k # "none"
  \/ /\ vs = Bar /\ n = BarNode(s)
     /\ \/ s.pc = "fclear" /\ p < s.bat + s.i
        \/ s.pc \in {"fflush", "fmmfree"}
Forgotten(s, vs, n) ==
  \/ /\ vs = s.vs /\ n = NodeOf(s)
     /\ \/ s.pc \in {"put", "mmfree"}
        \/ s.pc \in Freeing /\ s.k # "none"
  \/ vs = Bar /\ n = BarNode(s) /\ s.pc = "fmmfree"

Tables(sh) ==
  \A vs \in Spaces : alive[vs] =>
    /\ \A p \in Page(vs) : p \notin Covered(vs) =>
         pt[vs][p] = Null /\ (p \notin late[vs] => tlb[vs][p] = Null)
    /\ \A n \in nodes[vs] : \A p \in PagesOf(n.bo, n.at) :
         /\ pt[vs][p] \in {Null, n.bo} /\ (p \notin late[vs] => tlb[vs][p] \in {Null, n.bo})
         /\ \A t \in Threads : Cleared(sh[t], vs, n, p) => pt[vs][p] = Null
         /\ \A t \in Threads : Forgotten(sh[t], vs, n) => p \in late[vs] \/ tlb[vs][p] = Null

\* What holds if maps into the BAR do not run out of page tables.
Filled(sh) ==
  \A vs \in Spaces : alive[vs] /\ (vs = Bar => ~BarMapFails) =>
    \A n \in nodes[vs] : \A p \in PagesOf(n.bo, n.at) :
      /\ (\A t \in Threads : ~Owns(sh[t], vs, n)) => pt[vs][p] = n.bo
      /\ \A t \in Threads : Owns(sh[t], vs, n) =>
           /\ sh[t].pc = "write" /\ p < sh[t].at + sh[t].i => pt[vs][p] = n.bo
           /\ sh[t].pc = "assign" => pt[vs][p] = n.bo

BarExact(sh) ==
  ~BarMapFails =>
    /\ \A b \in Bos : gref[b] > 0 /\ map1[b] # Null => Node(b, map1[b]) \in nodes[Bar]
    /\ \A t \in Threads : sh[t].pc \in Freeing \ {"funlock", "release"} =>
         BarNode(sh[t]) \in nodes[Bar]
    /\ \A t \in Threads : sh[t].k = "bad" => sh[t].pc = "unlock"
    /\ \A t \in Threads : sh[t].k = "mmap" /\ sh[t].pc \in {"write", "assign"} =>
         map1[sh[t].bo] # sh[t].at

Windowed(sh) ==
  /\ \A b \in Bos : mmaps[b] > 0 => map1[b] # Null
  /\ \A t \in Threads : sh[t].k = "mmap" /\ sh[t].pc \in {"mapped", "unlock"} =>
       map1[sh[t].bo] # Null

Inv(sh) ==
  /\ Programs(sh) /\ Types /\ Locks(sh) /\ Nodes(sh) /\ Downs(sh) /\ Balance(sh)
  /\ Objects(sh) /\ Mmaps(sh) /\ InBar(sh) /\ Tables(sh) /\ Filled(sh)
  /\ BarExact(sh) /\ Windowed(sh)

IInv == \E sh \in [Threads -> Stages] : Inv(sh)
=============================================================================
