-------------------------- MODULE PscnvRefsProofs --------------------------
(***************************************************************************)
(* RefsBalance, NothingDangles, UnbindAsserts and DeathReleases of         *)
(* PscnvRefs, for any number of files, threads, objects and mappings, as   *)
(* long as clients free a number once at a time (SerialFrees).             *)
(*                                                                         *)
(* What a thread has still to run determines what may be true of the       *)
(* objects it works on.  So the invariant has a part on the shapes that    *)
(* the rest of a call can have (Structure), parts that say what each of    *)
(* the operations that wait will find (OwnState, OpState), parts that tie  *)
(* tables, memory and owners to it (Tables, Memory, Holding, Closing), and *)
(* the count itself (Counted).  Places in a thread's sequence are counted  *)
(* from the end, so an operation keeps its place until it is run.          *)
(*                                                                         *)
(* One lemma named after each action, ...IInv, shows that it preserves the *)
(* invariant; actions that do the same to the sequences share a predicate  *)
(* on them (Pops, Takes, UndoesChan, UndoesVspace, Destroys) and the       *)
(* lemmas about it.                                                        *)
(***************************************************************************)
EXTENDS PscnvRefs, FiniteSetTheorems, TLAPS

-----------------------------------------------------------------------------
(* What a thread has still to run                                          *)

\* Thread t may run an operation like this.
OpSet == [do : Ops, obj : Objs \cup Slots]

\* Thread t has run the operation at k, its next one, and put ops in its place.
Replaced(t, k, ops) ==
  \A u \in Threads : \A i, d, o :
    Waits(u, i, d, o)' <=>
      IF u = t /\ i \in Nat /\ i >= k
        THEN i - k + 1 \in 1 .. Len(ops) /\ ops[Len(ops) - (i - k)] = Op(d, o)
        ELSE Waits(u, i, d, o)

\* What waits is a place in the sequence, an operation and what it is on.
LEMMA WaitsType ==
  ASSUME TypeOK, NEW t \in Threads, NEW i, NEW d, NEW o, Waits(t, i, d, o)
  PROVE  /\ i \in Nat /\ i >= 1 /\ i <= Len(todo[t]) /\ Len(todo[t]) \in Nat
         /\ d \in Ops /\ o \in Objs \cup Slots
<1>1. todo[t] \in Seq(OpSet)
  BY DEF TypeOK, OpSet
<1> DEFINE q == todo[t]
<1> HIDE DEF q
<1>5. q \in Seq(OpSet) /\ DOMAIN q = 1 .. Len(q) /\ Len(q) \in Nat
  BY <1>1 DEF q
<1>2. i \in 1 .. Len(todo[t]) /\ todo[t][Len(todo[t]) + 1 - i] = Op(d, o)
  BY <1>5 DEF Waits, q
<1>3. Op(d, o) \in OpSet
  BY <1>2, <1>5 DEF q
<1>4. d \in Ops /\ o \in Objs \cup Slots
  BY <1>3 DEF Op, OpSet
<1> QED
  BY <1>2, <1>4, <1>5 DEF q

\* One operation waits at a place.
LEMMA WaitsOne ==
  ASSUME NEW t, NEW i, NEW d, NEW o, NEW e, NEW p, Waits(t, i, d, o), Waits(t, i, e, p)
  PROVE  d = e /\ o = p
<1>1. Op(d, o) = Op(e, p)
  BY DEF Waits
<1>2. Op(d, o).do = d /\ Op(e, p).do = e /\ Op(d, o).obj = o /\ Op(e, p).obj = p
  BY DEF Op
<1> QED
  BY <1>1, <1>2

\* The operation that thread t is at.
LEMMA AtTop ==
  ASSUME TypeOK, NEW t \in Threads, NEW d, At(t, d)
  PROVE  /\ Len(todo[t]) \in Nat \ {0} /\ Waits(t, Len(todo[t]), d, Arg(t))
<1>1. todo[t] \in Seq(OpSet) /\ todo[t] # <<>>
  BY DEF TypeOK, OpSet, At
<1>2. Len(todo[t]) \in Nat \ {0} /\ DOMAIN todo[t] = 1 .. Len(todo[t]) /\ Head(todo[t]) = todo[t][1]
  BY <1>1
<1>3. todo[t][1] \in OpSet
  BY <1>1, <1>2
<1>4. todo[t][1] = Op(d, Arg(t))
  BY <1>2, <1>3 DEF At, Arg, Op, OpSet
<1> QED
  BY <1>2, <1>4 DEF Waits

\* Then runs the next operation of a thread and puts ops in its place.
LEMMA ThenReplaces ==
  ASSUME TypeOK, NEW t \in Threads, todo[t] # <<>>, NEW ops \in Seq(OpSet), Then(t, ops)
  PROVE  /\ Replaced(t, Len(todo[t]), ops)
         /\ todo' \in [Threads -> Seq(OpSet)]
         /\ Len(todo'[t]) = Len(todo[t]) - 1 + Len(ops)
         /\ \A u \in Threads : u # t => todo'[u] = todo[u]
<1> DEFINE q == todo[t]
           r == ops \o Tail(q)
           k == Len(q)
<1>1. todo \in [Threads -> Seq(OpSet)] /\ q \in Seq(OpSet) /\ q # <<>>
  BY DEF TypeOK, OpSet
<1>2. k \in Nat \ {0} /\ DOMAIN q = 1 .. k /\ Tail(q) \in Seq(OpSet) /\ Len(Tail(q)) = k - 1
      /\ \A j \in 1 .. k - 1 : Tail(q)[j] = q[j + 1]
  BY <1>1
<1>3. r \in Seq(OpSet) /\ Len(r) = Len(ops) + (k - 1) /\ DOMAIN r = 1 .. Len(r) /\ Len(ops) \in Nat
      /\ \A j \in 1 .. Len(r) : r[j] = IF j <= Len(ops) THEN ops[j] ELSE Tail(q)[j - Len(ops)]
  <2> HIDE DEF q, k
  <2> QED
    BY <1>2
<1>4. todo' = [todo EXCEPT ![t] = r]
  BY DEF Then
<1>5. todo' \in [Threads -> Seq(OpSet)] /\ todo'[t] = r /\ \A u \in Threads : u # t => todo'[u] = todo[u]
  <2> HIDE DEF r
  <2> QED
    BY <1>1, <1>3, <1>4
<1>6. ASSUME NEW u \in Threads, NEW i, NEW d, NEW o
      PROVE  Waits(u, i, d, o)' <=>
               IF u = t /\ i \in Nat /\ i >= k
                 THEN i - k + 1 \in 1 .. Len(ops) /\ ops[Len(ops) - (i - k)] = Op(d, o)
                 ELSE Waits(u, i, d, o)
  <2>1. CASE u # t
    BY <1>5, <2>1 DEF Waits
  <2>2. CASE u = t
    <3>1. Waits(u, i, d, o)' <=> i \in 1 .. Len(r) /\ r[Len(r) + 1 - i] = Op(d, o)
      BY <1>3, <1>5, <2>2 DEF Waits
    <3>2. Waits(u, i, d, o) <=> i \in 1 .. k /\ q[k + 1 - i] = Op(d, o)
      BY <1>2, <2>2 DEF Waits
    <3> HIDE DEF q, r, k
    <3>3. CASE i \in 1 .. k - 1
      <4> DEFINE j == Len(r) + 1 - i
      <4>1. /\ j \in 1 .. Len(r) /\ ~(j <= Len(ops)) /\ j - Len(ops) = k - i
            /\ k - i \in 1 .. k - 1 /\ k - i + 1 = k + 1 - i
        BY <1>2, <1>3, <3>3
      <4> HIDE DEF j
      <4>2. r[j] = Tail(q)[k - i]
        BY <1>3, <4>1
      <4>3. Tail(q)[k - i] = q[k - i + 1]
        BY <1>2, <4>1
      <4>4. r[j] = q[k + 1 - i]
        BY <4>1, <4>2, <4>3
      <4> QED
        BY <1>2, <1>3, <2>2, <3>1, <3>2, <3>3, <4>4 DEF j
    <3>4. CASE i \in k .. Len(r)
      <4>1. Len(r) + 1 - i = Len(ops) - (i - k) /\ Len(ops) - (i - k) \in 1 .. Len(ops)
            /\ i - k + 1 \in 1 .. Len(ops) /\ i \in 1 .. Len(r) /\ Len(ops) - (i - k) \in 1 .. Len(r)
        BY <1>2, <1>3, <3>4
      <4>2. r[Len(r) + 1 - i] = ops[Len(ops) - (i - k)]
        BY <1>3, <4>1
      <4> QED
        BY <1>2, <2>2, <3>1, <3>4, <4>1, <4>2
    <3>5. CASE i \notin 1 .. k - 1 /\ i \notin k .. Len(r)
      BY <1>2, <1>3, <2>2, <3>1, <3>2, <3>5
    <3> QED
      BY <3>3, <3>4, <3>5
  <2> QED
    BY <2>1, <2>2
<1>7. Replaced(t, k, ops)
  BY <1>6 DEF Replaced
<1> QED
  BY <1>3, <1>5, <1>7

\* The object is being undone or destroyed.
Dying(o) == Pending("kfree", o)

\* Pending, and Pending of the next state, without the domain of the sequence.
LEMMA PendingIs == \A d, o : Pending(d, o) <=> \E t \in Threads : \E i : Waits(t, i, d, o)
  BY DEF Pending, Waits

LEMMA PendingNext == \A d, o : Pending(d, o)' <=> \E t \in Threads : \E i : Waits(t, i, d, o)'
  BY DEF Pending, Waits

-----------------------------------------------------------------------------
(* The inductive invariant                                                 *)

\* Operations are on what they are for, and on nothing that is gone.
Typed == \A t \in Threads : \A i, d, o :
  Waits(t, i, d, o) =>
    /\ i \in Nat /\ 1 <= i /\ i <= Len(todo[t]) /\ d \in Ops
    /\ IF d = "clean" THEN o \in Slots /\ FileOf[t] \notin open
                      ELSE o \in Objs /\ st[o] = "live"

\* A new object: what is left of the calls that make it.
Making == \A t \in Threads, i \in Nat, o \in Objs :
  /\ Waits(t, i, "ref", o) =>
       i = 7 /\ \E c \in Chans : Waits(t, 6, "bind", c) /\ vspace[c] = o
  /\ Waits(t, i, "bind", o) =>
       IF o \in Chans THEN i = 6 /\ Waits(t, 5, "setup", o)
                      ELSE i = 3 /\ Waits(t, 2, "setup", o)
  /\ Waits(t, i, "setup", o) =>
       IF o \in Chans THEN i = 5 /\ Waits(t, 4, "handle", o)
                      ELSE i = 2 /\ Waits(t, 1, "own", o)
  /\ Waits(t, i, "handle", o) => o \in Chans /\ i = 4 /\ Waits(t, 3, "late", o)
  /\ Waits(t, i, "late", o) =>
       o \in Chans /\ i = 3 /\ Waits(t, 2, "unref", vspace[o]) /\ Waits(t, 1, "own", o)
  /\ Waits(t, i, "own", o) => i = 1

\* What has to follow an operation, further down.
After(t, i, do, o) == \E j \in 1 .. i - 1 : Waits(t, j, do, o)

\* What has to come after an operation.
Following == \A t \in Threads, i \in Nat, o \in Objs :
  /\ Waits(t, i, "use", o) => After(t, i, "unref", o) \/ After(t, i, "drop", o)
  /\ Waits(t, i, "disown", o) =>
       /\ i >= 3 /\ i = Len(todo[t])
       /\ Waits(t, i - 1, "unref", o) /\ Waits(t, i - 2, "unref", o)
  /\ Waits(t, i, "clear", o) => o \in Chans /\ After(t, i, "drop", o)
  /\ Waits(t, i, "drop", o) => After(t, i, "unbind", o)
  /\ Waits(t, i, "drop", o) /\ o \in Chans => After(t, i, "unref", vspace[o])
  /\ Waits(t, i, "unbind", o) => After(t, i, "kfree", o)

\* The operations that are run once on an object.
Once == {"own", "disown", "drop", "unbind"}

\* No two operations of these on the same object.
Unique == \A t \in Threads, i \in Nat, u \in Threads, j \in Nat, o \in Objs, d \in Once :
  Waits(t, i, d, o) /\ Waits(u, j, d, o) => t = u /\ i = j

\* Only the thread that frees an object still works on it.
Doomed == {"use", "clear", "drop", "unbind", "kfree"}
DyingZone == \A t \in Threads, i \in Nat, u \in Threads, j \in Nat, o \in Objs, d \in Ops :
  Waits(t, i, "kfree", o) /\ d # "clean" /\ Waits(u, j, d, o) => t = u /\ i <= j /\ d \in Doomed

\* A thread works on what it holds, or on what it is making.
Backed == \A t \in Threads, i \in Nat, o \in Objs, d \in Ops :
  Waits(t, i, d, o) /\ d # "clean" /\ ~Dying(o) =>
    Waits(t, 1, "own", o) \/ \E j \in 1 .. i : Waits(t, j, "unref", o)

Structure == Typed /\ Making /\ Following /\ Unique /\ DyingZone /\ Backed

\* Nobody else knows an object that is being made.
OwnState == \A t \in Threads, i \in Nat, o \in Objs :
  Waits(t, i, "own", o) =>
    /\ ~Dying(o) /\ filp[o] = Null /\ ~Pending("unref", o) /\ FileOf[t] \in open
    /\ o \in Vspaces => \A c \in Chans : vspace[c] # o
    /\ o \in Chans => \A f \in Files : maps[f][o] = 0

\* What each operation finds: no memory before setup, none freed before use, and
\* so on; above all, what an unref gives back is not being destroyed.
OpState == \A t \in Threads, i \in Nat, o \in Objs :
  /\ Waits(t, i, "setup", o) => ~mem[o]
  /\ Waits(t, i, "bind", o) => slot[o] = Null
  /\ Waits(t, i, "disown", o) => filp[o] = FileOf[t]
  /\ Waits(t, i, "unref", o) => ~Dying(o)
  /\ Waits(t, i, "use", o) => mem[o]
  /\ Waits(t, i, "unbind", o) => Bound(o)

\* The tables and the objects in them agree; one that is not in its table is
\* being made or destroyed.
Tables ==
  /\ \A s \in Slots : table[s] # Null =>
       st[table[s]] = "live" /\ slot[table[s]] = s /\ s[1] = Kind(table[s])
  /\ \A o \in Objs :
       /\ slot[o] # Null => table[slot[o]] = o
       /\ st[o] = "live" /\ slot[o] = Null => Pending("bind", o) \/ Dying(o)
       /\ Dying(o) /\ slot[o] # Null => Pending("unbind", o)
       /\ st[o] = "none" => slot[o] = Null

\* Memory is there, unless an operation that makes it or takes it away is ahead.
Memory == \A o \in Objs :
  /\ Live(o) /\ ~mem[o] => Pending("setup", o)
  /\ Dying(o) /\ mem[o] => Pending("drop", o)
  /\ st[o] = "none" => ~mem[o]
  /\ o \in Chans /\ handle[o] => mem[o]
  /\ o \in Chans /\ Dying(o) /\ handle[o] => Pending("clear", o)

\* Owners, mappings and channels hold objects that are live.
Holding ==
  /\ \A o \in Objs : filp[o] # Null => Live(o)
  /\ \A f \in Files, c \in Chans : maps[f][c] > 0 => Live(c) /\ f \in open
  /\ \A c \in Chans :
       /\ st[c] # "none" => vspace[c] \in Vspaces
       /\ Live(c) => Live(vspace[c])
  /\ \A v \in Vspaces : st[v] = "none" => \A c \in Chans : vspace[c] # v

\* The kref counts the references that exist.
Counted == \A o \in Objs :
  Live(o) => /\ IsFiniteSet(References(o))
             /\ ref[o] = Cardinality(References(o)) /\ ref[o] >= 1

\* The cleanup of a closed file has what it owns ahead of it, and is one thread.
Closing ==
  /\ \A o \in Objs : filp[o] \in Files \ open =>
       \E t \in Threads : \E i \in Nat :
         FileOf[t] = filp[o] /\ (Waits(t, i, "clean", slot[o]) \/ Waits(t, i, "disown", o))
  /\ \A t \in Threads, u \in Threads :
       FileOf[t] = FileOf[u] /\ FileOf[t] \notin open /\ todo[t] # <<>> /\ todo[u] # <<>> => t = u

\* The inductive invariant.
IInv ==
  TypeOK /\ Structure /\ OwnState /\ OpState /\ Tables /\ Memory /\ Holding /\ Counted /\ Closing

-----------------------------------------------------------------------------
(* What steps leave alone                                                  *)

\* The operations in D stay as they are.
SameOps(D) == \A u \in Threads : \A i, o : \A d \in D :
  Waits(u, i, d, o)' <=> Waits(u, i, d, o)

\* What is pending changes only with what waits.
LEMMA SamePending ==
  ASSUME NEW D, SameOps(D)
  PROVE  \A d \in D : \A o : Pending(d, o)' <=> Pending(d, o)
  BY PendingIs, PendingNext DEF SameOps

\* A part of the invariant stays true when what it speaks of stays as it is.
LEMMA KeepTables ==
  ASSUME Tables, SameOps({"bind", "unbind", "kfree"}), UNCHANGED <<table, slot, st>>
  PROVE  Tables'
<1>1. \A d \in {"bind", "unbind", "kfree"} : \A o : Pending(d, o)' <=> Pending(d, o)
  BY SamePending
<1> QED
  BY <1>1 DEF Tables, Dying, Kind

LEMMA KeepMemory ==
  ASSUME Memory, SameOps({"setup", "drop", "clear", "kfree"}), UNCHANGED <<st, mem, handle>>
  PROVE  Memory'
<1>1. \A d \in {"setup", "drop", "clear", "kfree"} : \A o : Pending(d, o)' <=> Pending(d, o)
  BY SamePending
<1> QED
  BY <1>1 DEF Memory, Dying, Live

\* Only a kfree that comes or goes makes an object live or not.
LEMMA KeepLive ==
  ASSUME SameOps({"kfree"}), st' = st
  PROVE  \A o : (Live(o)' <=> Live(o)) /\ (Dying(o)' <=> Dying(o))
<1>1. \A o : Pending("kfree", o)' <=> Pending("kfree", o)
  BY SamePending
<1> QED
  BY <1>1 DEF Dying, Live

LEMMA KeepHolding ==
  ASSUME Holding, SameOps({"kfree"}), UNCHANGED <<filp, maps, open, st, vspace>>
  PROVE  Holding'
  BY KeepLive DEF Holding

LEMMA KeepClosing ==
  ASSUME Closing, SameOps({"clean", "disown"}), UNCHANGED <<filp, open, slot>>,
         \A u \in Threads : todo'[u] # <<>> => todo[u] # <<>> \/ FileOf[u] \in open
  PROVE  Closing'
  BY DEF Closing, SameOps

\* What refers to an object.
Refers(x, o) ==
  \/ \E t \in Threads : \E i : x = <<"unref", t, i>> /\ Waits(t, i, "unref", o)
  \/ x = <<"owner", o, 1>> /\ Owned(o)
  \/ o \in Chans /\ \E f \in Files : \E n \in Mappings(f, o) : x = <<"map", f, n>>
  \/ o \notin Chans /\ \E c \in Chans : x = <<"chan", c, 1>> /\ Within(c, o)

\* Refers is membership in References, also in the next state.
LEMMA ReferencesAre == \A o, x : x \in References(o) <=> Refers(x, o)
<1> SUFFICES ASSUME NEW o, NEW x
             PROVE  x \in References(o) <=> Refers(x, o)
  OBVIOUS
<1>1. \A t, i : Waits(t, i, "unref", o) => i \in DOMAIN todo[t]
  BY DEF Waits
<1>2. CASE o \in Chans
  BY <1>1, <1>2 DEF References, Refers
<1>3. CASE o \notin Chans
  BY <1>1, <1>3 DEF References, Refers
<1> QED
  BY <1>2, <1>3

LEMMA ReferencesNext == \A o, x : x \in References(o)' <=> Refers(x, o)'
<1> SUFFICES ASSUME NEW o, NEW x
             PROVE  x \in References(o)' <=> Refers(x, o)'
  OBVIOUS
<1>1. \A t, i : Waits(t, i, "unref", o)' => i \in DOMAIN todo'[t]
  BY DEF Waits
<1>2. CASE o \in Chans
  BY <1>1, <1>2 DEF References, Refers
<1>3. CASE o \notin Chans
  BY <1>1, <1>3 DEF References, Refers
<1> QED
  BY <1>2, <1>3

\* Within without the domain of the sequence, also in the next state.
LEMMA WithinIs ==
  \A c, v : Within(c, v) <=>
    /\ Live(c) /\ vspace[c] = v
    /\ \A t \in Threads : \A i : Waits(t, i, "bind", c) => ~Waits(t, i + 1, "ref", v)
<1>1. \A t, i, d, o : Waits(t, i, d, o) => i \in DOMAIN todo[t]
  BY DEF Waits
<1> QED
  BY <1>1 DEF Within

LEMMA WithinNext ==
  \A c, v : Within(c, v)' <=>
    /\ Live(c)' /\ vspace'[c] = v
    /\ \A t \in Threads : \A i : Waits(t, i, "bind", c)' => ~Waits(t, i + 1, "ref", v)'
<1>1. \A t, i, d, o : Waits(t, i, d, o)' => i \in DOMAIN todo'[t]
  BY DEF Waits
<1> QED
  BY <1>1 DEF Within

\* The references to an object change only with what refers to it.
LEMMA SameReferences ==
  ASSUME NEW o, \A t \in Threads : \A i : Waits(t, i, "unref", o)' <=> Waits(t, i, "unref", o),
         Owned(o)' <=> Owned(o), maps' = maps,
         \A c \in Chans : Within(c, o)' <=> Within(c, o)
  PROVE  References(o)' = References(o)
<1>1. \A f : Mappings(f, o)' = Mappings(f, o)
  BY DEF Mappings
<1>2. \A x : Refers(x, o)' <=> Refers(x, o)
  BY <1>1 DEF Refers
<1> QED
  BY <1>2, ReferencesAre, ReferencesNext

\* A step that runs none of these operations keeps every reference.
LEMMA KeepReferences ==
  ASSUME SameOps({"unref", "own", "disown", "kfree", "bind", "ref"}),
         UNCHANGED <<filp, maps, st, vspace>>, NEW o
  PROVE  References(o)' = References(o)
<1>1. \A d \in {"unref", "own", "disown", "kfree", "bind", "ref"} : \A p :
        Pending(d, p)' <=> Pending(d, p)
  BY SamePending
<1>2. Owned(o)' <=> Owned(o)
  BY <1>1 DEF Owned
<1>3. \A c : Live(c)' <=> Live(c)
  BY <1>1 DEF Live
<1>4. \A c : Within(c, o)' <=> Within(c, o)
  BY <1>3, WithinIs, WithinNext DEF SameOps
<1> QED
  BY <1>2, <1>4, SameReferences DEF SameOps

\* So it keeps the counts.
LEMMA KeepCounted ==
  ASSUME Counted, SameOps({"unref", "own", "disown", "kfree", "bind", "ref"}),
         UNCHANGED <<ref, filp, maps, st, vspace>>
  PROVE  Counted'
<1>1. \A o : Live(o)' <=> Live(o)
  BY KeepLive DEF SameOps
<1>2. \A o \in Objs : References(o)' = References(o)
  BY KeepReferences
<1> QED
  BY <1>1, <1>2 DEF Counted

-----------------------------------------------------------------------------
(* A thread runs an operation                                              *)

\* Thread t, with k operations to run, runs the first: d on o.
Pops(t, k, d, o) ==
  /\ t \in Threads /\ k = Len(todo[t]) /\ k \in Nat \ {0} /\ Waits(t, k, d, o)
  /\ \A e, p : Waits(t, k, e, p) => e = d /\ p = o
  /\ \A u \in Threads : \A i, e, p :
       Waits(u, i, e, p)' <=> Waits(u, i, e, p) /\ ~(u = t /\ i = k)
  /\ todo' \in [Threads -> Seq(OpSet)]
  /\ Len(todo'[t]) = k - 1
  /\ \A u \in Threads : u # t => todo'[u] = todo[u]

\* A thread that puts nothing in the place of its operation pops it.
LEMMA ThenPops ==
  ASSUME TypeOK, NEW t \in Threads, NEW d, At(t, d), Then(t, <<>>)
  PROVE  Pops(t, Len(todo[t]), d, Arg(t))
<1> DEFINE k == Len(todo[t])
<1>1. k \in Nat \ {0} /\ Waits(t, k, d, Arg(t))
  BY AtTop
<1>2. \A e, p : Waits(t, k, e, p) => e = d /\ p = Arg(t)
  BY <1>1, WaitsOne
<1>3. /\ Replaced(t, k, <<>>) /\ todo' \in [Threads -> Seq(OpSet)] /\ Len(todo'[t]) = k - 1 + Len(<<>>)
      /\ \A u \in Threads : u # t => todo'[u] = todo[u]
  <2>1. todo[t] # <<>> /\ <<>> \in Seq(OpSet)
    BY DEF At
  <2> QED
    BY <2>1, ThenReplaces
<1>4. \A i, e, p : Waits(t, i, e, p) => i \in Nat /\ i <= k
  BY WaitsType
<1> HIDE DEF k
<1>5. \A u \in Threads : \A i, e, p :
        Waits(u, i, e, p)' <=> Waits(u, i, e, p) /\ ~(u = t /\ i = k)
  BY <1>1, <1>3, <1>4 DEF Replaced
<1>6. Len(todo'[t]) = k - 1
  BY <1>1, <1>3
<1> QED
  BY <1>1, <1>2, <1>3, <1>5, <1>6 DEF Pops, k

\* An operation that goes takes nothing with it that Structure asks for.
LEMMA PopTyped ==
  ASSUME Typed, NEW t, NEW k, NEW d, NEW o, Pops(t, k, d, o), UNCHANGED <<st, open>>
  PROVE  Typed'
  BY DEF Typed, Pops

LEMMA PopMaking ==
  ASSUME Structure, NEW t, NEW k, NEW d, NEW o, Pops(t, k, d, o), vspace' = vspace
  PROVE  Making'
  BY DEF Structure, Typed, Making, Pops

LEMMA PopFollowing ==
  ASSUME Structure, NEW t, NEW k, NEW d, NEW o, Pops(t, k, d, o), vspace' = vspace
  PROVE  Following'
  BY DEF Structure, Typed, Following, After, Pops

LEMMA PopUnique ==
  ASSUME Structure, NEW t, NEW k, NEW d, NEW o, Pops(t, k, d, o)
  PROVE  Unique' /\ DyingZone'
  BY DEF Structure, Unique, DyingZone, Pops

LEMMA PopBacked ==
  ASSUME Structure, NEW t, NEW k, NEW d, NEW o, Pops(t, k, d, o)
  PROVE  Backed'
<1> SUFFICES ASSUME NEW u \in Threads, NEW i \in Nat, NEW p \in Objs, NEW e \in Ops,
                    Waits(u, i, e, p)', e # "clean", ~Dying(p)'
             PROVE  Waits(u, 1, "own", p)' \/ \E j \in 1 .. i : Waits(u, j, "unref", p)'
  BY DEF Backed
<1>1. Waits(u, i, e, p) /\ ~(u = t /\ i = k)
  BY DEF Pops
<1>2. ~Dying(p)
  <2> SUFFICES ASSUME NEW w \in Threads, NEW j, Waits(w, j, "kfree", p)
               PROVE  FALSE
    BY PendingIs DEF Dying
  <2>1. w = t /\ j = k
    BY PendingNext DEF Pops, Dying
  <2> QED
    BY <1>1, <2>1 DEF Structure, Typed, DyingZone, Pops
<1>3. Waits(u, 1, "own", p) \/ \E j \in 1 .. i : Waits(u, j, "unref", p)
  BY <1>1, <1>2 DEF Structure, Backed
<1>4. u = t => i < k
  BY <1>1 DEF Structure, Typed, Pops
<1> QED
  BY <1>1, <1>3, <1>4 DEF Structure, Typed, Pops

\* So running an operation keeps Structure, whatever it is.
LEMMA PopStructure ==
  ASSUME Structure, NEW t, NEW k, NEW d, NEW o, Pops(t, k, d, o), UNCHANGED <<st, vspace, open>>
  PROVE  Structure'
<1>1. Typed'
  BY PopTyped DEF Structure
<1> QED
  BY <1>1, PopMaking, PopFollowing, PopUnique, PopBacked DEF Structure

\* An operation that is run is no longer pending, and no other comes or goes.
LEMMA PopPending ==
  ASSUME NEW t, NEW k, NEW d, NEW o, Pops(t, k, d, o)
  PROVE  /\ \A e, p : Pending(e, p)' => Pending(e, p)
         /\ \A e, p : (e # d \/ p # o) => (Pending(e, p)' <=> Pending(e, p))
  BY PendingIs, PendingNext DEF Pops

\* Operations of other kinds stay as they are.
LEMMA PopOps ==
  ASSUME NEW t, NEW k, NEW d, NEW o, Pops(t, k, d, o), NEW D, d \notin D
  PROVE  SameOps(D)
  BY DEF Pops, SameOps

\* What is true of an operation stays true while the others run.
LEMMA PopOwnState ==
  ASSUME OwnState, NEW t, NEW k, NEW d, NEW o, Pops(t, k, d, o),
         UNCHANGED <<filp, open, vspace, maps>>
  PROVE  OwnState'
<1>1. \A e, p : Pending(e, p)' => Pending(e, p)
  BY PopPending
<1>2. \A u \in Threads : \A i, e, p : Waits(u, i, e, p)' => Waits(u, i, e, p)
  BY DEF Pops
<1> QED
  BY <1>1, <1>2 DEF OwnState, Dying

LEMMA PopOpState ==
  ASSUME OpState, NEW t, NEW k, NEW d, NEW o, Pops(t, k, d, o),
         UNCHANGED <<filp, mem, slot, table>>
  PROVE  OpState'
<1>1. \A e, p : Pending(e, p)' => Pending(e, p)
  BY PopPending
<1>2. \A u \in Threads : \A i, e, p : Waits(u, i, e, p)' => Waits(u, i, e, p)
  BY DEF Pops
<1>3. \A p : (~Dying(p) => ~Dying(p)') /\ (Bound(p)' <=> Bound(p))
  BY <1>1 DEF Dying, Bound
<1> QED
  BY <1>2, <1>3 DEF OpState

\* Nobody starts to have something to run.
LEMMA PopEmpty ==
  ASSUME NEW t, NEW k, NEW d, NEW o, Pops(t, k, d, o)
  PROVE  \A u \in Threads : todo'[u] # <<>> => todo[u] # <<>>
<1>1. todo[t] # <<>>
  BY DEF Pops
<1> QED
  BY <1>1 DEF Pops

\* A file that is closed keeps the turn of its cleanup for what it owns.
LEMMA PopClosing ==
  ASSUME Closing, NEW t, NEW k, NEW d, NEW o, Pops(t, k, d, o), d \notin {"clean", "disown"},
         UNCHANGED <<filp, open, slot>>
  PROVE  Closing'
<1>1. SameOps({"clean", "disown"})
  BY PopOps
<1>2. \A u \in Threads : todo'[u] # <<>> => todo[u] # <<>>
  BY PopEmpty
<1> QED
  BY <1>1, <1>2, KeepClosing

\* Work on an object, and the allocation of ch->cache, change no structure.
LEMMA TouchLateIInv ==
  ASSUME IInv, NEW t \in Threads, Touch(t) \/ Late(t)
  PROVE  IInv'
<1>1. PICK d \in {"use", "late"} :
        At(t, d) /\ Then(t, <<>>)
        /\ UNCHANGED <<table, st, ref, slot, filp, vspace, mem, handle, maps, open>>
  BY DEF Touch, Late
<1> DEFINE k == Len(todo[t])
           o == Arg(t)
<1>2. Pops(t, k, d, o)
  BY <1>1, ThenPops DEF IInv
<1> HIDE DEF k, o
<1>3. TypeOK'
  BY <1>1, <1>2 DEF IInv, TypeOK, Pops, OpSet
<1>4. Structure' /\ OwnState' /\ OpState' /\ Closing'
  BY <1>1, <1>2, PopStructure, PopOwnState, PopOpState, PopClosing DEF IInv
<1>5. Tables' /\ Memory' /\ Holding' /\ Counted'
  BY <1>1, <1>2, PopOps, KeepTables, KeepMemory, KeepHolding, KeepCounted DEF IInv
<1> QED
  BY <1>3, <1>4, <1>5 DEF IInv

-----------------------------------------------------------------------------
(* The steps of a call that makes an object                                *)

\* A thread that makes an object is about to own it, and nobody holds it yet.
LEMMA MakerOwns ==
  ASSUME Structure, OwnState, NEW t \in Threads, NEW i, NEW d, NEW o, Waits(t, i, d, o),
         d \in {"bind", "setup", "handle", "late", "own"}
  PROVE  /\ i \in Nat /\ o \in Objs /\ Waits(t, 1, "own", o) /\ st[o] = "live" /\ ~Dying(o)
         /\ filp[o] = Null /\ ~Pending("unref", o)
<1>1. i \in Nat /\ o \in Objs /\ st[o] = "live"
  BY DEF Structure, Typed
<1>2. d = "bind" => \E j \in Nat : Waits(t, j, "setup", o)
  BY <1>1 DEF Structure, Making
<1>3. d \in {"bind", "setup"} => Waits(t, 1, "own", o) \/ \E j \in Nat : Waits(t, j, "handle", o)
  BY <1>1, <1>2 DEF Structure, Making
<1>4. d \in {"bind", "setup", "handle"} => Waits(t, 1, "own", o) \/ \E j \in Nat : Waits(t, j, "late", o)
  BY <1>1, <1>3 DEF Structure, Making
<1>5. Waits(t, 1, "own", o)
  BY <1>1, <1>4 DEF Structure, Making
<1> QED
  BY <1>1, <1>5 DEF OwnState

\* Nobody but the thread that makes it works on an object that is being made.
LEMMA MakerAlone ==
  ASSUME Structure, OwnState, NEW t \in Threads, NEW o \in Objs, Waits(t, 1, "own", o),
         NEW u \in Threads, NEW j, NEW e, Waits(u, j, e, o), e # "clean"
  PROVE  u = t /\ e # "unref"
<1>1. j \in Nat /\ e \in Ops /\ ~Dying(o) /\ ~Pending("unref", o)
  BY DEF Structure, Typed, OwnState
<1>2. \A w \in Threads : \A n : ~Waits(w, n, "unref", o)
  BY <1>1, PendingIs
<1>3. Waits(u, 1, "own", o)
  BY <1>1, <1>2 DEF Structure, Backed
<1> QED
  BY <1>2, <1>3 DEF Structure, Unique, Once

\* The handle is published while the instance memory exists.
LEMMA HandleIInv ==
  ASSUME IInv, NEW t \in Threads, Handle(t)
  PROVE  IInv'
<1> DEFINE k == Len(todo[t])
           o == Arg(t)
<1>1. At(t, "handle") /\ Then(t, <<>>) /\ handle' = [handle EXCEPT ![o] = TRUE]
      /\ UNCHANGED <<table, st, ref, slot, filp, vspace, mem, maps, open>>
  BY DEF Handle
<1>2. Pops(t, k, "handle", o)
  BY <1>1, ThenPops DEF IInv
<1> HIDE DEF k, o
<1>3. TypeOK'
  BY <1>1, <1>2 DEF IInv, TypeOK, Pops, OpSet
<1>4. Structure' /\ OwnState' /\ OpState' /\ Closing'
  BY <1>1, <1>2, PopStructure, PopOwnState, PopOpState, PopClosing DEF IInv
<1>5. Tables' /\ Holding' /\ Counted'
  BY <1>1, <1>2, PopOps, KeepTables, KeepHolding, KeepCounted DEF IInv
<1>6. o \in Chans /\ k = 4 /\ Waits(t, 1, "own", o) /\ ~Dying(o) /\ st[o] = "live"
  <2>1. Waits(t, k, "handle", o)
    BY <1>2 DEF Pops
  <2>2. o \in Objs /\ k \in Nat /\ Waits(t, 1, "own", o) /\ ~Dying(o) /\ st[o] = "live"
    BY <2>1, MakerOwns DEF IInv
  <2> QED
    BY <2>1, <2>2 DEF IInv, Structure, Making
<1>7. mem[o]
  <2> SUFFICES ASSUME NEW u \in Threads, NEW i, Waits(u, i, "setup", o)
               PROVE  FALSE
    BY <1>6, PendingIs DEF IInv, Memory, Live, Dying, Objs
  <2>1. u = t
    BY <1>6, MakerAlone DEF IInv, Objs
  <2>2. i \in Nat /\ i <= k
    BY <1>2, <2>1 DEF IInv, Structure, Typed, Pops
  <2>3. i = 5
    BY <1>6, <2>2 DEF IInv, Structure, Making, Objs
  <2> QED
    BY <1>6, <2>2, <2>3
<1>8. Memory'
  <2>1. SameOps({"setup", "drop", "clear", "kfree"})
    BY <1>2, PopOps
  <2>2. \A d \in {"setup", "drop", "clear", "kfree"} : \A p : Pending(d, p)' <=> Pending(d, p)
    BY <2>1, SamePending
  <2>3. \A p \in Chans : p # o => handle'[p] = handle[p]
    BY <1>1 DEF IInv, TypeOK
  <2> QED
    BY <1>1, <1>6, <1>7, <2>2, <2>3 DEF IInv, Memory, Dying, Live
<1> QED
  BY <1>3, <1>4, <1>5, <1>8 DEF IInv

\* The memory of a new object comes into being.
LEMMA SetupIInv ==
  ASSUME IInv, NEW t \in Threads, Setup(t)
  PROVE  IInv'
<1>1. PICK k, o : Pops(t, k, "setup", o) /\ o = Arg(t)
  BY ThenPops DEF IInv, Setup
<1>2. mem' = [mem EXCEPT ![o] = TRUE]
      /\ UNCHANGED <<table, st, ref, slot, filp, vspace, handle, maps, open>>
  BY <1>1 DEF Setup
<1>3. TypeOK'
  BY <1>1, <1>2 DEF IInv, TypeOK, Pops, OpSet
<1>4. Structure' /\ Closing'
  BY <1>1, <1>2, PopStructure, PopClosing DEF IInv
<1>5. Tables' /\ Holding' /\ Counted'
  BY <1>1, <1>2, PopOps, KeepTables, KeepHolding, KeepCounted DEF IInv
<1>6. o \in Objs /\ Waits(t, k, "setup", o) /\ Waits(t, 1, "own", o) /\ ~Dying(o) /\ st[o] = "live"
  <2>1. Waits(t, k, "setup", o)
    BY <1>1 DEF Pops
  <2> QED
    BY <2>1, MakerOwns DEF IInv
<1>7. \A p \in Objs : mem'[p] = (p = o \/ mem[p])
  BY <1>2, <1>6 DEF IInv, TypeOK
<1>8. \A p : (~Dying(p) => ~Dying(p)') /\ (Bound(p)' <=> Bound(p)) /\ (~Pending("unref", p) => ~Pending("unref", p)')
  <2>1. \A e, p : Pending(e, p)' => Pending(e, p)
    BY <1>1, PopPending
  <2> QED
    BY <1>2, <2>1 DEF Dying, Bound
<1>9. \A u \in Threads : \A i, e, p : Waits(u, i, e, p)' => Waits(u, i, e, p) /\ ~(u = t /\ i = k)
  BY <1>1 DEF Pops
<1>10. OwnState'
  BY <1>2, <1>8, <1>9 DEF IInv, OwnState
<1>11. OpState'
  <2>1. ASSUME NEW u \in Threads, NEW i \in Nat, Waits(u, i, "setup", o)'
        PROVE  FALSE
    <3>1. Waits(u, i, "setup", o) /\ ~(u = t /\ i = k)
      BY <1>9, <2>1
    <3>2. u = t
      BY <1>6, <3>1, MakerAlone DEF IInv
    <3>3. i = k
      BY <1>6, <3>1, <3>2 DEF IInv, Structure, Typed, Making
    <3> QED
      BY <3>1, <3>2, <3>3
  <2> QED
    BY <1>2, <1>7, <1>8, <1>9, <2>1 DEF IInv, OpState
<1>12. Memory'
  <2>1. \A e, p : (e # "setup" \/ p # o) => (Pending(e, p)' <=> Pending(e, p))
    BY <1>1, PopPending
  <2>2. \A p : (p # o => (Live(p)' <=> Live(p))) /\ (Dying(p)' <=> Dying(p))
    BY <1>2, <2>1 DEF Live, Dying
  <2> QED
    BY <1>2, <1>6, <1>7, <2>1, <2>2 DEF IInv, Memory
<1> QED
  BY <1>3, <1>4, <1>5, <1>10, <1>11, <1>12 DEF IInv

\* The new owner's reference is the one that kref_init counted.
LEMMA OwnIInv ==
  ASSUME IInv, NEW t \in Threads, Own(t)
  PROVE  IInv'
<1>1. PICK k, o : Pops(t, k, "own", o) /\ o = Arg(t)
  BY ThenPops DEF IInv, Own
<1>2. filp' = [filp EXCEPT ![o] = FileOf[t]]
      /\ UNCHANGED <<table, st, ref, slot, vspace, mem, handle, maps, open>>
  BY <1>1 DEF Own
<1>3. Structure' /\ Tables' /\ Memory'
  BY <1>1, <1>2, PopStructure, PopOps, KeepTables, KeepMemory DEF IInv
<1>4. /\ Waits(t, k, "own", o) /\ o \in Objs /\ st[o] = "live" /\ ~Dying(o) /\ filp[o] = Null
      /\ Pending("own", o) /\ FileOf[t] \in open /\ FileOf[t] \in Files /\ FileOf[t] # Null
  <2>1. Waits(t, k, "own", o)
    BY <1>1 DEF Pops
  <2>2. o \in Objs /\ k \in Nat /\ st[o] = "live" /\ ~Dying(o) /\ filp[o] = Null
    BY <2>1, MakerOwns DEF IInv
  <2>3. Pending("own", o) /\ FileOf[t] \in open
    BY <2>1, <2>2, PendingIs DEF IInv, OwnState
  <2>4. FileOf[t] \in Files /\ FileOf[t] # Null
    BY ObjsAssumption
  <2> QED
    BY <2>1, <2>2, <2>3, <2>4
<1>5. filp'[o] = FileOf[t] /\ \A p \in Objs : p # o => filp'[p] = filp[p]
  BY <1>2, <1>4 DEF IInv, TypeOK
<1>6. TypeOK'
  BY <1>1, <1>2, <1>4 DEF IInv, TypeOK, Pops, OpSet
<1>7. /\ \A e, p : Pending(e, p)' => Pending(e, p)
      /\ \A e, p : (e # "own" \/ p # o) => (Pending(e, p)' <=> Pending(e, p))
  BY <1>1, PopPending
<1>8. \A u \in Threads : \A i, e, p : Waits(u, i, e, p)' => Waits(u, i, e, p) /\ ~(u = t /\ i = k)
  BY <1>1 DEF Pops
<1>9. ~Pending("disown", o)
  <2> SUFFICES ASSUME NEW u \in Threads, NEW i, Waits(u, i, "disown", o)
               PROVE  FALSE
    BY PendingIs
  <2> QED
    BY <1>4, ObjsAssumption DEF IInv, Structure, Typed, OpState
<1>10. \A p : (Live(p)' <=> Live(p)) /\ (Dying(p)' <=> Dying(p)) /\ (Bound(p)' <=> Bound(p))
  BY <1>2, <1>7 DEF Live, Dying, Bound
<1>11. OwnState'
  <2>1. \A u \in Threads, i \in Nat : ~Waits(u, i, "own", o)'
    BY <1>4, <1>8 DEF IInv, Structure, Unique, Once, Typed
  <2> SUFFICES ASSUME NEW u \in Threads, NEW i \in Nat, NEW p \in Objs, Waits(u, i, "own", p)'
               PROVE  /\ ~Dying(p)' /\ filp'[p] = Null /\ ~Pending("unref", p)' /\ FileOf[u] \in open'
                      /\ p \in Vspaces => \A c \in Chans : vspace'[c] # p
                      /\ p \in Chans => \A f \in Files : maps'[f][p] = 0
    BY DEF OwnState
  <2>2. Waits(u, i, "own", p) /\ p # o
    BY <1>8, <2>1
  <2>3. /\ ~Dying(p) /\ filp[p] = Null /\ ~Pending("unref", p) /\ FileOf[u] \in open
        /\ p \in Vspaces => \A c \in Chans : vspace[c] # p
        /\ p \in Chans => \A f \in Files : maps[f][p] = 0
    BY <2>2 DEF IInv, OwnState
  <2> QED
    BY <1>2, <1>5, <1>7, <1>10, <2>2, <2>3
<1>12. OpState'
  <2>1. \A u \in Threads : \A i : ~Waits(u, i, "disown", o)'
    BY <1>8, <1>9, PendingIs
  <2> QED
    BY <1>2, <1>5, <1>8, <1>10, <2>1 DEF IInv, OpState
<1>13. Holding'
  BY <1>2, <1>4, <1>5, <1>10 DEF IInv, Holding, Live, Dying
<1>14. Counted'
  <2>1. ASSUME NEW p \in Objs
        PROVE  References(p)' = References(p)
    <3>1. Owned(p)' <=> Owned(p)
      BY <1>4, <1>5, <1>7, <1>9 DEF Owned
    <3>2. \A c : Within(c, p)' <=> Within(c, p)
      BY <1>1, <1>2, <1>10, WithinIs, WithinNext DEF Pops
    <3>3. \A u \in Threads : \A i : Waits(u, i, "unref", p)' <=> Waits(u, i, "unref", p)
      BY <1>1 DEF Pops
    <3> QED
      BY <1>2, <3>1, <3>2, <3>3, SameReferences
  <2> QED
    BY <1>2, <1>10, <2>1 DEF IInv, Counted
<1>15. Closing'
  <2>1. ASSUME NEW p \in Objs, filp'[p] \in Files \ open'
        PROVE  \E u \in Threads : \E i \in Nat :
                 FileOf[u] = filp'[p] /\ (Waits(u, i, "clean", slot[p])' \/ Waits(u, i, "disown", p)')
    <3>1. filp[p] \in Files \ open /\ filp'[p] = filp[p]
      BY <1>2, <1>4, <1>5, <2>1
    <3>2. PICK u \in Threads, i \in Nat :
            FileOf[u] = filp[p] /\ (Waits(u, i, "clean", slot[p]) \/ Waits(u, i, "disown", p))
      BY <3>1 DEF IInv, Closing
    <3>3. Waits(u, i, "clean", slot[p])' \/ Waits(u, i, "disown", p)'
      BY <1>1, <1>2, <3>2 DEF Pops
    <3> QED
      BY <3>1, <3>2, <3>3
  <2>2. \A u \in Threads : todo'[u] # <<>> => todo[u] # <<>>
    BY <1>1, PopEmpty
  <2> QED
    BY <1>2, <2>1, <2>2 DEF IInv, Closing
<1> QED
  BY <1>3, <1>6, <1>11, <1>12, <1>13, <1>14, <1>15 DEF IInv

\* The owner's reference becomes the second unref of the call that frees it.
LEMMA DisownIInv ==
  ASSUME IInv, NEW t \in Threads, Disown(t)
  PROVE  IInv'
<1>1. PICK k, o : Pops(t, k, "disown", o) /\ o = Arg(t)
  BY ThenPops DEF IInv, Disown
<1>2. filp' = [filp EXCEPT ![o] = Null]
      /\ UNCHANGED <<table, st, ref, slot, vspace, mem, handle, maps, open>>
  BY <1>1 DEF Disown
<1>3. Structure' /\ Tables' /\ Memory'
  BY <1>1, <1>2, PopStructure, PopOps, KeepTables, KeepMemory DEF IInv
<1>4. Waits(t, k, "disown", o) /\ k \in Nat /\ o \in Objs /\ filp[o] = FileOf[t] /\ filp[o] # Null
      /\ Pending("disown", o)
  <2>1. Waits(t, k, "disown", o) /\ k \in Nat /\ Pending("disown", o)
    BY <1>1, PendingIs DEF Pops
  <2>2. o \in Objs
    BY <2>1 DEF IInv, Structure, Typed
  <2> QED
    BY <2>1, <2>2, ObjsAssumption DEF IInv, OpState
<1>5. filp'[o] = Null /\ \A p \in Objs : p # o => filp'[p] = filp[p]
  BY <1>2, <1>4 DEF IInv, TypeOK
<1>6. TypeOK'
  BY <1>1, <1>2, <1>4 DEF IInv, TypeOK, Pops, OpSet
<1>7. /\ \A e, p : Pending(e, p)' => Pending(e, p)
      /\ \A e, p : (e # "disown" \/ p # o) => (Pending(e, p)' <=> Pending(e, p))
  BY <1>1, PopPending
<1>8. \A u \in Threads : \A i, e, p : Waits(u, i, e, p)' => Waits(u, i, e, p) /\ ~(u = t /\ i = k)
  BY <1>1 DEF Pops
<1>9. ~Pending("own", o)
  BY <1>4, PendingIs DEF IInv, Structure, Typed, OwnState
<1>10. \A p : (Live(p)' <=> Live(p)) /\ (Dying(p)' <=> Dying(p)) /\ (Bound(p)' <=> Bound(p))
  BY <1>2, <1>7 DEF Live, Dying, Bound
<1>11. \A u \in Threads, i \in Nat : ~Waits(u, i, "disown", o)'
  BY <1>4, <1>8 DEF IInv, Structure, Unique, Once
<1>12. ~Pending("disown", o)'
  BY <1>3, <1>11, PendingNext DEF Structure, Typed
<1>13. OwnState'
  <2> SUFFICES ASSUME NEW u \in Threads, NEW i \in Nat, NEW p \in Objs, Waits(u, i, "own", p)'
               PROVE  /\ ~Dying(p)' /\ filp'[p] = Null /\ ~Pending("unref", p)' /\ FileOf[u] \in open'
                      /\ p \in Vspaces => \A c \in Chans : vspace'[c] # p
                      /\ p \in Chans => \A f \in Files : maps'[f][p] = 0
    BY DEF OwnState
  <2>1. Waits(u, i, "own", p)
    BY <1>8
  <2>2. /\ ~Dying(p) /\ filp[p] = Null /\ ~Pending("unref", p) /\ FileOf[u] \in open
        /\ p \in Vspaces => \A c \in Chans : vspace[c] # p
        /\ p \in Chans => \A f \in Files : maps[f][p] = 0
    BY <2>1 DEF IInv, OwnState
  <2> QED
    BY <1>2, <1>5, <1>7, <1>10, <2>1, <2>2
<1>14. OpState'
  BY <1>2, <1>5, <1>8, <1>10, <1>11 DEF IInv, OpState
<1>15. Holding'
  BY <1>2, <1>4, <1>5, <1>10 DEF IInv, Holding, Live, Dying
<1>16. Counted'
  <2>1. ASSUME NEW p \in Objs
        PROVE  References(p)' = References(p)
    <3>1. Owned(p)' <=> Owned(p)
      BY <1>4, <1>5, <1>7, <1>9, <1>12 DEF Owned
    <3>2. \A c : Within(c, p)' <=> Within(c, p)
      BY <1>1, <1>2, <1>10, WithinIs, WithinNext DEF Pops
    <3>3. \A u \in Threads : \A i : Waits(u, i, "unref", p)' <=> Waits(u, i, "unref", p)
      BY <1>1 DEF Pops
    <3> QED
      BY <1>2, <3>1, <3>2, <3>3, SameReferences
  <2> QED
    BY <1>2, <1>10, <2>1 DEF IInv, Counted
<1>17. Closing'
  <2>1. ASSUME NEW p \in Objs, filp'[p] \in Files \ open'
        PROVE  \E u \in Threads : \E i \in Nat :
                 FileOf[u] = filp'[p] /\ (Waits(u, i, "clean", slot[p])' \/ Waits(u, i, "disown", p)')
    <3>1. filp[p] \in Files \ open /\ filp'[p] = filp[p] /\ p # o
      BY <1>2, <1>4, <1>5, <2>1, ObjsAssumption
    <3>2. PICK u \in Threads, i \in Nat :
            FileOf[u] = filp[p] /\ (Waits(u, i, "clean", slot[p]) \/ Waits(u, i, "disown", p))
      BY <3>1 DEF IInv, Closing
    <3>3. Waits(u, i, "clean", slot[p])' \/ Waits(u, i, "disown", p)'
      BY <1>1, <1>2, <3>1, <3>2 DEF Pops
    <3> QED
      BY <3>1, <3>2, <3>3
  <2>2. \A u \in Threads : todo'[u] # <<>> => todo[u] # <<>>
    BY <1>1, PopEmpty
  <2> QED
    BY <1>2, <2>1, <2>2 DEF IInv, Closing
<1> QED
  BY <1>3, <1>6, <1>13, <1>14, <1>15, <1>16, <1>17 DEF IInv

\* One reference more, or one less.
LEMMA OneMore ==
  ASSUME NEW o, IsFiniteSet(References(o)), NEW x, x \notin References(o),
         \A y : Refers(y, o)' <=> Refers(y, o) \/ y = x
  PROVE  /\ IsFiniteSet(References(o)')
         /\ Cardinality(References(o)') = Cardinality(References(o)) + 1
<1>1. References(o)' = References(o) \cup {x}
  BY ReferencesAre, ReferencesNext
<1> QED
  BY <1>1, FS_AddElement

LEMMA OneLess ==
  ASSUME NEW o, IsFiniteSet(References(o)), NEW x, x \in References(o),
         \A y : Refers(y, o)' <=> Refers(y, o) /\ y # x
  PROVE  /\ IsFiniteSet(References(o)')
         /\ Cardinality(References(o)') = Cardinality(References(o)) - 1
<1>1. References(o)' = References(o) \ {x}
  BY ReferencesAre, ReferencesNext
<1> QED
  BY <1>1, FS_RemoveElement

\* The reference of a new channel to its address space.
LEMMA RefIInv ==
  ASSUME IInv, NEW t \in Threads, Ref(t)
  PROVE  IInv'
<1>1. PICK k, v : Pops(t, k, "ref", v) /\ v = Arg(t)
  BY ThenPops DEF IInv, Ref
<1>2. ref' = [ref EXCEPT ![v] = @ + 1]
      /\ UNCHANGED <<table, st, slot, filp, vspace, mem, handle, maps, open>>
  BY <1>1 DEF Ref
<1>3. Structure' /\ Tables' /\ Memory' /\ OwnState' /\ OpState' /\ Holding' /\ Closing'
  BY <1>1, <1>2, PopStructure, PopOps, PopOwnState, PopOpState, PopClosing, KeepTables, KeepMemory,
     KeepHolding DEF IInv
<1>4. Waits(t, k, "ref", v) /\ k = 7 /\ v \in Objs
  BY <1>1, ZenonT(40) DEF IInv, Structure, Typed, Making, Pops
<1>5. PICK c \in Chans : Waits(t, 6, "bind", c) /\ vspace[c] = v
  BY <1>4 DEF IInv, Structure, Making
<1>6. v \in Vspaces /\ v \notin Chans /\ Live(c)
  <2>1. c \in Objs /\ st[c] = "live" /\ ~Dying(c)
    BY <1>5, MakerOwns DEF IInv
  <2> QED
    BY <1>5, <2>1, ObjsAssumption DEF IInv, Holding, Live, Dying
<1>7. ref'[v] = ref[v] + 1 /\ \A p \in Objs : p # v => ref'[p] = ref[p]
  BY <1>2, <1>4 DEF IInv, TypeOK
<1>8. TypeOK'
  <2>1. ref[v] + 1 \in Nat /\ ref \in [Objs -> Nat]
    BY <1>4 DEF IInv, TypeOK
  <2>2. ref' \in [Objs -> Nat]
    BY <1>2, <2>1
  <2> QED
    BY <1>1, <1>2, <2>2 DEF IInv, TypeOK, Pops, OpSet
<1>9. \A e, p : e # "ref" => (Pending(e, p)' <=> Pending(e, p))
  BY <1>1, PopPending
<1>10. /\ \A p : (Live(p)' <=> Live(p)) /\ (Owned(p)' <=> Owned(p))
       /\ \A f, p : Mappings(f, p)' = Mappings(f, p)
       /\ \A u \in Threads : \A i, p : Waits(u, i, "unref", p)' <=> Waits(u, i, "unref", p)
  BY <1>1, <1>2, <1>9 DEF Live, Owned, Mappings, Pops
<1>11. ~Within(c, v) /\ Within(c, v)'
  <2>1. ~Within(c, v)
    BY <1>4, <1>5, WithinIs
  <2>2. ASSUME NEW u \in Threads, NEW i, Waits(u, i, "bind", c)'
        PROVE  ~Waits(u, i + 1, "ref", v)'
    <3>1. Waits(u, i, "bind", c)
      BY <1>1, <2>2 DEF Pops
    <3>2. u = t
      <4>1. Waits(t, 1, "own", c) /\ c \in Objs
        BY <1>5, MakerOwns DEF IInv
      <4> QED
        BY <3>1, <4>1, MakerAlone DEF IInv
    <3>3. i = 6
      BY <1>6, <3>1 DEF IInv, Structure, Typed, Making
    <3> QED
      BY <1>1, <1>4, <3>2, <3>3 DEF Pops
  <2> QED
    BY <1>2, <1>5, <1>6, <1>10, <2>1, <2>2, WithinNext
<1>12. \A d \in Chans : \A p : (d # c \/ p # v) => (Within(d, p)' <=> Within(d, p))
  <2> SUFFICES ASSUME NEW d \in Chans, NEW p, d # c \/ p # v
               PROVE  Within(d, p)' <=> Within(d, p)
    OBVIOUS
  <2>1. ~(Waits(t, 6, "bind", d) /\ p = v)
    BY <1>5, WaitsOne
  <2>2. \A u \in Threads : \A i : Waits(u, i, "bind", d)' <=> Waits(u, i, "bind", d)
    BY <1>1 DEF Pops
  <2>3. \A u \in Threads : \A i : Waits(u, i + 1, "ref", p)' <=>
          Waits(u, i + 1, "ref", p) /\ ~(u = t /\ i + 1 = 7)
    BY <1>1, <1>4 DEF Pops
  <2>4. ASSUME NEW u \in Threads, NEW i, Waits(u, i, "bind", d), Waits(u, i + 1, "ref", p),
               u = t /\ i + 1 = 7
        PROVE  FALSE
    <3>1. i = 6
      BY <2>4 DEF IInv, Structure, Typed
    <3>2. p = v
      BY <1>4, <2>4, WaitsOne
    <3> QED
      BY <2>1, <2>4, <3>1, <3>2
  <2> QED
    BY <1>2, <1>10, <2>2, <2>3, <2>4, WithinIs, WithinNext
<1>13. Counted'
  <2>1. ASSUME NEW p \in Objs, Live(p), p # v
        PROVE  References(p)' = References(p)
    <3>1. \A x : Refers(x, p)' <=> Refers(x, p)
      BY <1>10, <1>12, <2>1 DEF Refers
    <3> QED
      BY <3>1, ReferencesAre, ReferencesNext
  <2>2. ASSUME Live(v)
        PROVE  IsFiniteSet(References(v)') /\ Cardinality(References(v)') = ref[v] + 1
    <3>1. IsFiniteSet(References(v)) /\ ref[v] = Cardinality(References(v))
      BY <1>4, <2>2 DEF IInv, Counted
    <3>2. \A y : Refers(y, v)' <=> Refers(y, v) \/ y = <<"chan", c, 1>>
      BY <1>6, <1>10, <1>11, <1>12 DEF Refers
    <3>3. ~Refers(<<"chan", c, 1>>, v)
      BY <1>6, <1>11 DEF Refers
    <3>4. <<"chan", c, 1>> \notin References(v)
      BY <3>3, ReferencesAre
    <3> QED
      BY <3>1, <3>2, <3>4, OneMore
  <2> SUFFICES ASSUME NEW p \in Objs, Live(p)
               PROVE  /\ IsFiniteSet(References(p)')
                      /\ ref'[p] = Cardinality(References(p)') /\ ref'[p] >= 1
    BY <1>10 DEF Counted
  <2>3. IsFiniteSet(References(p)) /\ ref[p] = Cardinality(References(p)) /\ ref[p] >= 1 /\ ref[p] \in Nat
    BY DEF IInv, Counted, TypeOK
  <2>4. CASE p = v
    BY <1>7, <2>2, <2>3, <2>4
  <2>5. CASE p # v
    BY <1>7, <2>1, <2>3, <2>5
  <2> QED
    BY <2>4, <2>5
<1> QED
  BY <1>3, <1>8, <1>13 DEF IInv

\* The handle goes before the memory it names.
LEMMA ClearIInv ==
  ASSUME IInv, NEW t \in Threads, Clear(t)
  PROVE  IInv'
<1>1. PICK k, o : Pops(t, k, "clear", o) /\ o = Arg(t)
  BY ThenPops DEF IInv, Clear
<1>2. handle' = [handle EXCEPT ![o] = FALSE]
      /\ UNCHANGED <<table, st, ref, slot, filp, vspace, mem, maps, open>>
  BY <1>1 DEF Clear
<1>3. /\ Structure' /\ OwnState' /\ OpState' /\ Closing'
      /\ Tables' /\ Holding' /\ Counted'
  BY <1>1, <1>2, PopStructure, PopOwnState, PopOpState, PopClosing, PopOps, KeepTables,
     KeepHolding, KeepCounted DEF IInv
<1>4. o \in Chans
  BY <1>1 DEF IInv, Structure, Typed, Following, Pops
<1>5. ~handle'[o] /\ \A c \in Chans : c # o => handle'[c] = handle[c]
  BY <1>2, <1>4 DEF IInv, TypeOK
<1>6. TypeOK'
  BY <1>1, <1>2 DEF IInv, TypeOK, Pops, OpSet
<1>7. \A e, p : (e # "clear" \/ p # o) => (Pending(e, p)' <=> Pending(e, p))
  BY <1>1, PopPending
<1>8. \A p : (Live(p)' <=> Live(p)) /\ (Dying(p)' <=> Dying(p))
  BY <1>2, <1>7 DEF Live, Dying
<1>9. Memory'
  BY <1>2, <1>5, <1>7, <1>8 DEF IInv, Memory
<1> QED
  BY <1>3, <1>6, <1>9 DEF IInv

\* The memory goes while the object is in its table and nobody else knows it.
LEMMA DropIInv ==
  ASSUME IInv, NEW t \in Threads, Drop(t)
  PROVE  IInv'
<1>1. PICK k, o : Pops(t, k, "drop", o) /\ o = Arg(t)
  BY ThenPops DEF IInv, Drop
<1>2. mem' = [mem EXCEPT ![o] = FALSE]
      /\ UNCHANGED <<table, st, ref, slot, filp, vspace, handle, maps, open>>
  BY <1>1 DEF Drop
<1>3. Structure' /\ OwnState' /\ Closing' /\ Tables' /\ Holding' /\ Counted'
  BY <1>1, <1>2, PopStructure, PopOwnState, PopClosing, PopOps, KeepTables,
     KeepHolding, KeepCounted DEF IInv
<1>4. Waits(t, k, "drop", o) /\ k \in Nat /\ o \in Objs /\ Dying(o)
  <2>1. Waits(t, k, "drop", o) /\ k \in Nat
    BY <1>1 DEF Pops
  <2>2. o \in Objs
    BY <2>1 DEF IInv, Structure, Typed
  <2>3. PICK j \in 1 .. k - 1 : Waits(t, j, "unbind", o)
    BY <2>1, <2>2 DEF IInv, Structure, Following, After
  <2>4. PICK i \in 1 .. j - 1 : Waits(t, i, "kfree", o)
    BY <2>1, <2>2, <2>3 DEF IInv, Structure, Following, After
  <2> QED
    BY <2>1, <2>2, <2>4, PendingIs DEF Dying
<1>5. ~mem'[o] /\ \A p \in Objs : p # o => mem'[p] = mem[p]
  BY <1>2, <1>4 DEF IInv, TypeOK
<1>6. TypeOK'
  BY <1>1, <1>2 DEF IInv, TypeOK, Pops, OpSet
<1>7. \A e, p : (e # "drop" \/ p # o) => (Pending(e, p)' <=> Pending(e, p))
  BY <1>1, PopPending
<1>8. \A p : (Live(p)' <=> Live(p)) /\ (Dying(p)' <=> Dying(p)) /\ (Bound(p)' <=> Bound(p))
  BY <1>2, <1>7 DEF Live, Dying, Bound
<1>9. \A u \in Threads, i \in Nat : \A j \in 1 .. i - 1 : \A e :
        ~(Waits(u, i, e, o) /\ Waits(u, j, "drop", o))
  <2> SUFFICES ASSUME NEW u \in Threads, NEW i \in Nat, NEW j \in 1 .. i - 1,
                      Waits(u, j, "drop", o), NEW e, Waits(u, i, e, o)
               PROVE  FALSE
    OBVIOUS
  <2>1. u = t /\ j = k
    BY <1>4 DEF IInv, Structure, Unique, Once
  <2>2. i <= k
    BY <1>1, <2>1 DEF IInv, Structure, Typed, Pops
  <2> QED
    BY <1>4, <2>1, <2>2
<1>10. \A u \in Threads, i \in Nat : ~Waits(u, i, "use", o) /\ ~Waits(u, i, "clear", o)
  <2> SUFFICES ASSUME NEW u \in Threads, NEW i \in Nat, NEW e \in {"use", "clear"}, Waits(u, i, e, o)
               PROVE  FALSE
    OBVIOUS
  <2>1. ~After(u, i, "drop", o)
    BY <1>9 DEF After, Ops
  <2>2. ~After(u, i, "unref", o)
    BY <1>4 DEF IInv, OpState, After
  <2> QED
    BY <1>4, <2>1, <2>2 DEF IInv, Structure, Following
<1>11. OpState'
  BY <1>1, <1>2, <1>4, <1>5, <1>8, <1>10 DEF IInv, OpState, Pops
<1>12. ~Pending("clear", o)
  BY <1>10, PendingIs DEF IInv, Structure, Typed
<1>13. Memory'
  BY <1>2, <1>4, <1>5, <1>7, <1>8, <1>12 DEF IInv, Memory, Live, Dying
<1> QED
  BY <1>3, <1>6, <1>11, <1>13 DEF IInv

\* The object goes out of its table.
LEMMA UnbindIInv ==
  ASSUME IInv, NEW t \in Threads, Unbind(t)
  PROVE  IInv'
<1>1. PICK k, o : Pops(t, k, "unbind", o) /\ o = Arg(t)
  BY ThenPops DEF IInv, Unbind
<1>2. PICK s : s = slot[o]
  OBVIOUS
<1>3. /\ Bound(o) /\ table' = [table EXCEPT ![s] = Null] /\ slot' = [slot EXCEPT ![o] = Null]
      /\ UNCHANGED <<st, ref, filp, vspace, mem, handle, maps, open>>
  BY <1>1, <1>2 DEF Unbind
<1>4. Structure' /\ OwnState' /\ Memory' /\ Holding' /\ Counted'
  BY <1>1, <1>3, PopStructure, PopOwnState, PopOps, KeepMemory, KeepHolding, KeepCounted DEF IInv
<1>5. Waits(t, k, "unbind", o) /\ k \in Nat /\ o \in Objs /\ Dying(o) /\ o # Null
  <2>1. Waits(t, k, "unbind", o) /\ k \in Nat
    BY <1>1 DEF Pops
  <2>2. o \in Objs
    BY <2>1 DEF IInv, Structure, Typed
  <2>3. PICK i \in 1 .. k - 1 : Waits(t, i, "kfree", o)
    BY <2>1, <2>2 DEF IInv, Structure, Following, After
  <2> QED
    BY <2>1, <2>2, <2>3, PendingIs, ObjsAssumption DEF Dying
<1>6. s \in Slots /\ s # Null /\ table[s] = o
  BY <1>2, <1>3, <1>5 DEF Bound, IInv, TypeOK
<1>7. /\ slot'[o] = Null /\ \A p \in Objs : p # o => slot'[p] = slot[p]
      /\ table'[s] = Null /\ \A r \in Slots : r # s => table'[r] = table[r]
  BY <1>3, <1>5, <1>6 DEF IInv, TypeOK
<1>8. TypeOK'
  BY <1>1, <1>3, <1>5, <1>6 DEF IInv, TypeOK, Pops, OpSet
<1>9. \A e, p : (e # "unbind" \/ p # o) => (Pending(e, p)' <=> Pending(e, p))
  BY <1>1, PopPending
<1>10. \A p : (Live(p)' <=> Live(p)) /\ (Dying(p)' <=> Dying(p))
  BY <1>3, <1>9 DEF Live, Dying
<1>11. \A p \in Objs : p # o => (Bound(p)' <=> Bound(p))
  <2> SUFFICES ASSUME NEW p \in Objs, p # o
               PROVE  Bound(p)' <=> Bound(p)
    OBVIOUS
  <2>1. slot'[p] = slot[p] /\ slot[p] \in Slots \cup {Null} /\ p # Null
    BY <1>7, ObjsAssumption DEF IInv, TypeOK
  <2>2. CASE slot[p] = s
    BY <1>6, <1>7, <2>1, <2>2 DEF Bound
  <2>3. CASE slot[p] # s
    BY <1>7, <2>1, <2>3 DEF Bound
  <2> QED
    BY <2>2, <2>3
<1>12. OpState'
  <2>1. \A u \in Threads, i \in Nat : ~Waits(u, i, "unbind", o)'
    BY <1>1, <1>5 DEF IInv, Structure, Unique, Once, Pops
  <2>2. \A u \in Threads : \A i, e, p : Waits(u, i, e, p)' => Waits(u, i, e, p)
    BY <1>1 DEF Pops
  <2> QED
    BY <1>3, <1>7, <1>10, <1>11, <2>1, <2>2 DEF IInv, OpState
<1>13. Tables'
  <2>1. ASSUME NEW r \in Slots, table'[r] # Null
        PROVE  st'[table'[r]] = "live" /\ slot'[table'[r]] = r /\ r[1] = Kind(table'[r])
    <3>1. r # s /\ table'[r] = table[r] /\ table[r] \in Objs
      BY <1>7, <2>1 DEF IInv, TypeOK
    <3>2. st[table[r]] = "live" /\ slot[table[r]] = r /\ r[1] = Kind(table[r])
      BY <2>1, <3>1 DEF IInv, Tables
    <3>3. table[r] # o
      BY <1>2, <3>1, <3>2
    <3> QED
      BY <1>3, <1>7, <3>1, <3>2, <3>3
  <2>2. ASSUME NEW p \in Objs
        PROVE  /\ slot'[p] # Null => table'[slot'[p]] = p
               /\ st'[p] = "live" /\ slot'[p] = Null => Pending("bind", p)' \/ Dying(p)'
               /\ Dying(p)' /\ slot'[p] # Null => Pending("unbind", p)'
               /\ st'[p] = "none" => slot'[p] = Null
    <3>1. CASE p = o
      BY <1>5, <1>7, <1>10, <3>1
    <3>2. CASE p # o
      <4>1. slot'[p] = slot[p] /\ (slot[p] # Null => slot[p] \in Slots /\ slot[p] # s)
        BY <1>6, <1>7, <3>2 DEF IInv, TypeOK, Tables
      <4> QED
        BY <1>3, <1>7, <1>9, <1>10, <3>2, <4>1 DEF IInv, Tables
    <3> QED
      BY <3>1, <3>2
  <2> QED
    BY <2>1, <2>2 DEF Tables, Kind
<1>14. Closing'
  <2>1. ASSUME NEW p \in Objs, filp'[p] \in Files \ open'
        PROVE  \E u \in Threads : \E i \in Nat :
                 FileOf[u] = filp'[p] /\ (Waits(u, i, "clean", slot[p])' \/ Waits(u, i, "disown", p)')
    <3>1. filp[p] \in Files \ open /\ filp'[p] = filp[p] /\ filp[p] # Null
      BY <1>3, <2>1, ObjsAssumption
    <3>2. Live(p) /\ p # o
      BY <1>5, <3>1 DEF IInv, Holding, Live, Dying
    <3>3. PICK u \in Threads, i \in Nat :
            FileOf[u] = filp[p] /\ (Waits(u, i, "clean", slot[p]) \/ Waits(u, i, "disown", p))
      BY <3>1 DEF IInv, Closing
    <3>4. Waits(u, i, "clean", slot[p])' \/ Waits(u, i, "disown", p)'
      BY <1>1, <1>7, <3>2, <3>3 DEF Pops
    <3> QED
      BY <3>1, <3>3, <3>4
  <2>2. \A u \in Threads : todo'[u] # <<>> => todo[u] # <<>>
    BY <1>1, PopEmpty
  <2> QED
    BY <1>3, <2>1, <2>2 DEF IInv, Closing
<1> QED
  BY <1>4, <1>8, <1>12, <1>13, <1>14 DEF IInv

\* The structure goes when nothing is left of it.
LEMMA KfreeIInv ==
  ASSUME IInv, NEW t \in Threads, Kfree(t)
  PROVE  IInv'
<1>1. PICK k, o : Pops(t, k, "kfree", o) /\ o = Arg(t)
  BY ThenPops DEF IInv, Kfree
<1>2. st' = [st EXCEPT ![o] = "freed"]
      /\ UNCHANGED <<table, ref, slot, filp, vspace, mem, handle, maps, open>>
  BY <1>1 DEF Kfree
<1>3. Waits(t, k, "kfree", o) /\ k \in Nat /\ o \in Objs /\ Dying(o)
  BY <1>1, PendingIs DEF IInv, Structure, Typed, Dying, Pops
<1>4. st'[o] = "freed" /\ \A p \in Objs : p # o => st'[p] = st[p]
  BY <1>2, <1>3 DEF IInv, TypeOK
<1>5. TypeOK'
  BY <1>1, <1>2 DEF IInv, TypeOK, Pops, OpSet
<1>6. \A u \in Threads : \A i, e, p : Waits(u, i, e, p)' => Waits(u, i, e, p) /\ ~(u = t /\ i = k)
  BY <1>1 DEF Pops
<1>7. \A u \in Threads : \A i, e : e # "clean" /\ Waits(u, i, e, o) => u = t /\ i = k /\ e = "kfree"
  BY <1>1, <1>3 DEF IInv, Structure, Typed, DyingZone, Pops
<1>8. \A e : e # "clean" => ~Pending(e, o)'
  BY <1>6, <1>7, PendingNext
<1>9. \A e, p : (e # "kfree" \/ p # o) => (Pending(e, p)' <=> Pending(e, p))
  BY <1>1, PopPending
<1>10. \A p \in Objs : (Live(p)' <=> Live(p)) /\ (p # o => (Dying(p)' <=> Dying(p))) /\ ~Dying(o)'
  BY <1>3, <1>4, <1>8, <1>9 DEF Live, Dying
<1>11. Structure'
  <2>1. Typed'
    BY <1>1, <1>2, <1>4, <1>6, <1>7 DEF IInv, Structure, Typed, Pops
  <2> QED
    BY <1>1, <1>2, <2>1, PopMaking, PopFollowing, PopUnique, PopBacked DEF IInv, Structure
<1>12. OwnState' /\ OpState' /\ Closing'
  BY <1>1, <1>2, PopOwnState, PopOpState, PopClosing DEF IInv
<1>13. slot[o] = Null
  <2>1. ~Pending("unbind", o)
    BY <1>7, PendingIs
  <2> QED
    BY <1>3, <2>1 DEF IInv, Tables
<1>14. Tables'
  <2>1. \A s \in Slots : table[s] # Null => table[s] \in Objs /\ table[s] # o
    BY <1>13, ObjsAssumption DEF IInv, TypeOK, Tables
  <2> QED
    BY <1>2, <1>4, <1>9, <1>10, <1>13, <2>1 DEF IInv, Tables, Kind
<1>15. Memory'
  BY <1>2, <1>4, <1>9, <1>10 DEF IInv, Memory
<1>16. Holding'
  <2>1. \A c \in Chans : Live(c) => vspace[c] \in Objs
    BY DEF IInv, Holding, Live, Objs
  <2>2. st[o] = "live"
    BY <1>3 DEF IInv, Structure, Typed
  <2>3. \A c \in Chans : st'[c] # "none" => vspace[c] \in Vspaces
    BY <1>4, <2>2 DEF IInv, Holding, Objs
  <2>4. \A v \in Vspaces : st'[v] = "none" => st[v] = "none"
    BY <1>4 DEF Objs
  <2>5. \A c \in Chans : c \in Objs
    BY DEF Objs
  <2> QED
    BY <1>2, <1>10, <2>1, <2>3, <2>4, <2>5 DEF IInv, Holding
<1>17. Counted'
  <2>1. ASSUME NEW p \in Objs, Live(p)
        PROVE  References(p)' = References(p)
    <3>1. Owned(p)' <=> Owned(p)
      BY <1>2, <1>9 DEF Owned
    <3>2. \A c \in Chans : Within(c, p)' <=> Within(c, p)
      BY <1>1, <1>2, <1>10, WithinIs, WithinNext DEF Pops, Objs
    <3>3. \A u \in Threads : \A i : Waits(u, i, "unref", p)' <=> Waits(u, i, "unref", p)
      BY <1>1 DEF Pops
    <3> QED
      BY <1>2, <3>1, <3>2, <3>3, SameReferences
  <2> QED
    BY <1>2, <1>10, <2>1 DEF IInv, Counted
<1> QED
  BY <1>5, <1>11, <1>12, <1>14, <1>15, <1>16, <1>17 DEF IInv

\* A new object gets the lowest free number.
LEMMA BindIInv ==
  ASSUME IInv, NEW t \in Threads, Bind(t)
  PROVE  IInv'
<1>1. PICK k, o : Pops(t, k, "bind", o) /\ o = Arg(t)
  BY ThenPops DEF IInv, Bind
<1>2. PICK s \in Slots :
        /\ s[1] = Kind(o) /\ table[s] = Null
        /\ table' = [table EXCEPT ![s] = o] /\ slot' = [slot EXCEPT ![o] = s]
        /\ UNCHANGED <<st, ref, filp, vspace, mem, handle, maps, open>>
  BY <1>1 DEF Bind, FreeSlots
<1>3. Structure' /\ OwnState' /\ Memory' /\ Holding'
  BY <1>1, <1>2, PopStructure, PopOwnState, PopOps, KeepMemory, KeepHolding DEF IInv
<1>4. /\ Waits(t, k, "bind", o) /\ k \in Nat /\ o \in Objs /\ st[o] = "live" /\ ~Dying(o)
      /\ filp[o] = Null /\ slot[o] = Null /\ o # Null /\ s # Null
  <2>1. Waits(t, k, "bind", o) /\ k \in Nat
    BY <1>1 DEF Pops
  <2>2. o \in Objs /\ st[o] = "live" /\ ~Dying(o) /\ filp[o] = Null
    BY <2>1, MakerOwns DEF IInv
  <2>3. slot[o] = Null
    BY <2>1, <2>2 DEF IInv, OpState
  <2> QED
    BY <2>1, <2>2, <2>3, ObjsAssumption
<1>5. /\ slot'[o] = s /\ \A p \in Objs : p # o => slot'[p] = slot[p]
      /\ table'[s] = o /\ \A r \in Slots : r # s => table'[r] = table[r]
  BY <1>2, <1>4 DEF IInv, TypeOK
<1>6. TypeOK'
  BY <1>1, <1>2, <1>4 DEF IInv, TypeOK, Pops, OpSet
<1>7. \A e, p : (e # "bind" \/ p # o) => (Pending(e, p)' <=> Pending(e, p))
  BY <1>1, PopPending
<1>8. \A p : (Live(p)' <=> Live(p)) /\ (Dying(p)' <=> Dying(p)) /\ (Owned(p)' <=> Owned(p))
  BY <1>2, <1>7 DEF Live, Dying, Owned
<1>9. \A u \in Threads : \A i, p : Waits(u, i, "bind", p)' =>
        Waits(u, i, "bind", p) /\ ~(u = t /\ i = k)
  BY <1>1 DEF Pops
<1>10. \A u \in Threads : \A i : Waits(u, i, "bind", o) => u = t /\ i = k
  <2> SUFFICES ASSUME NEW u \in Threads, NEW i, Waits(u, i, "bind", o)
               PROVE  u = t /\ i = k
    OBVIOUS
  <2>1. Waits(t, 1, "own", o) /\ Waits(u, 1, "own", o) /\ i \in Nat
    BY <1>4, MakerOwns DEF IInv
  <2>2. u = t
    BY <1>4, <2>1 DEF IInv, Structure, Unique, Once
  <2> QED
    BY <1>4, <2>1, <2>2 DEF IInv, Structure, Making
<1>11. \A p \in Objs : p # o => (slot[p] # Null => slot[p] \in Slots /\ (Bound(p) => slot[p] # s))
  BY <1>2, ObjsAssumption DEF Bound, IInv, TypeOK
<1>12. \A p \in Objs : Bound(p) => Bound(p)'
  <2> SUFFICES ASSUME NEW p \in Objs, Bound(p)
               PROVE  Bound(p)'
    OBVIOUS
  <2>1. p # o
    BY <1>4 DEF Bound
  <2> QED
    BY <1>5, <1>11, <2>1 DEF Bound
<1>13. OpState'
  <2>1. \A u \in Threads, i \in Nat : ~Waits(u, i, "bind", o)'
    BY <1>9, <1>10
  <2>2. \A u \in Threads : \A i, e, p : Waits(u, i, e, p)' => Waits(u, i, e, p)
    BY <1>1 DEF Pops
  <2> QED
    BY <1>2, <1>5, <1>8, <1>12, <2>1, <2>2 DEF IInv, OpState
<1>14. Tables'
  <2>1. ASSUME NEW r \in Slots, table'[r] # Null
        PROVE  st'[table'[r]] = "live" /\ slot'[table'[r]] = r /\ r[1] = Kind(table'[r])
    <3>1. CASE r = s
      BY <1>2, <1>4, <1>5, <3>1
    <3>2. CASE r # s
      <4>1. table'[r] = table[r] /\ table[r] \in Objs
        BY <1>5, <2>1, <3>2 DEF IInv, TypeOK
      <4>2. st[table[r]] = "live" /\ slot[table[r]] = r /\ r[1] = Kind(table[r])
        BY <2>1, <4>1 DEF IInv, Tables
      <4>3. table[r] # o
        BY <1>4, <4>2, ObjsAssumption
      <4> QED
        BY <1>2, <1>5, <4>1, <4>2, <4>3
    <3> QED
      BY <3>1, <3>2
  <2>2. ASSUME NEW p \in Objs
        PROVE  /\ slot'[p] # Null => table'[slot'[p]] = p
               /\ st'[p] = "live" /\ slot'[p] = Null => Pending("bind", p)' \/ Dying(p)'
               /\ Dying(p)' /\ slot'[p] # Null => Pending("unbind", p)'
               /\ st'[p] = "none" => slot'[p] = Null
    <3>1. CASE p = o
      BY <1>2, <1>4, <1>5, <1>8, <3>1
    <3>2. CASE p # o
      <4>1. slot[p] # Null => Bound(p)
        BY DEF IInv, Tables, Bound
      <4> QED
        BY <1>2, <1>5, <1>7, <1>8, <1>11, <3>2, <4>1 DEF IInv, Tables
    <3> QED
      BY <3>1, <3>2
  <2> QED
    BY <2>1, <2>2 DEF Tables, Kind
<1>15. Counted'
  <2>1. ASSUME NEW p \in Objs
        PROVE  References(p)' = References(p)
    <3>1. ASSUME NEW c \in Chans
          PROVE  Within(c, p)' <=> Within(c, p)
      <4>1. CASE c = o
        <5>1. \A i : ~Waits(t, i + 1, "ref", p) \/ i # k
          BY <1>1 DEF IInv, Structure, Typed, Pops
        <5> QED
          BY <1>2, <1>8, <1>9, <1>10, <4>1, <5>1, WithinIs, WithinNext
      <4>2. CASE c # o
        <5>1. \A u \in Threads : \A i : Waits(u, i, "bind", c)' <=> Waits(u, i, "bind", c)
          BY <1>1, <4>2 DEF Pops
        <5>2. \A u \in Threads : \A i : Waits(u, i, "ref", p)' <=> Waits(u, i, "ref", p)
          BY <1>1 DEF Pops
        <5> QED
          BY <1>2, <1>8, <5>1, <5>2, WithinIs, WithinNext
      <4> QED
        BY <4>1, <4>2
    <3>2. \A u \in Threads : \A i : Waits(u, i, "unref", p)' <=> Waits(u, i, "unref", p)
      BY <1>1 DEF Pops
    <3> QED
      BY <1>2, <1>8, <3>1, <3>2, SameReferences
  <2> QED
    BY <1>2, <1>8, <2>1 DEF IInv, Counted
<1>16. Closing'
  <2>1. ASSUME NEW p \in Objs, filp'[p] \in Files \ open'
        PROVE  \E u \in Threads : \E i \in Nat :
                 FileOf[u] = filp'[p] /\ (Waits(u, i, "clean", slot[p])' \/ Waits(u, i, "disown", p)')
    <3>1. filp[p] \in Files \ open /\ filp'[p] = filp[p] /\ p # o
      BY <1>2, <1>4, <2>1, ObjsAssumption
    <3>2. PICK u \in Threads, i \in Nat :
            FileOf[u] = filp[p] /\ (Waits(u, i, "clean", slot[p]) \/ Waits(u, i, "disown", p))
      BY <3>1 DEF IInv, Closing
    <3>3. Waits(u, i, "clean", slot[p])' \/ Waits(u, i, "disown", p)'
      BY <1>1, <1>5, <3>1, <3>2 DEF Pops
    <3> QED
      BY <3>1, <3>2, <3>3
  <2>2. \A u \in Threads : todo'[u] # <<>> => todo[u] # <<>>
    BY <1>1, PopEmpty
  <2> QED
    BY <1>2, <2>1, <2>2 DEF IInv, Closing
<1> QED
  BY <1>3, <1>6, <1>13, <1>14, <1>15, <1>16 DEF IInv

-----------------------------------------------------------------------------
(* The end of a call                                                       *)

\* An unref that is not the last takes one reference away.
LEMMA UnrefKeepsIInv ==
  ASSUME IInv, NEW t \in Threads, Unref(t), ref[Arg(t)] # 1
  PROVE  IInv'
<1>1. PICK k, o : Pops(t, k, "unref", o) /\ o = Arg(t)
  BY ThenPops DEF IInv, Unref
<1>2. ref' = [ref EXCEPT ![o] = @ - 1] /\ ref[o] # 1
      /\ UNCHANGED <<table, st, slot, filp, vspace, mem, handle, maps, open>>
  BY <1>1 DEF Unref
<1>3. /\ Structure' /\ OwnState' /\ OpState' /\ Closing'
      /\ Tables' /\ Memory' /\ Holding'
  BY <1>1, <1>2, PopStructure, PopOwnState, PopOpState, PopClosing, PopOps, KeepTables,
     KeepMemory, KeepHolding DEF IInv
<1>4. Waits(t, k, "unref", o) /\ o \in Objs /\ Live(o)
  <2>1. Waits(t, k, "unref", o) /\ k \in Nat
    BY <1>1 DEF Pops
  <2>2. o \in Objs /\ st[o] = "live"
    BY <2>1 DEF IInv, Structure, Typed
  <2> QED
    BY <2>1, <2>2 DEF IInv, OpState, Live, Dying
<1>5. /\ IsFiniteSet(References(o)) /\ ref[o] = Cardinality(References(o)) /\ ref[o] - 1 >= 1
      /\ ref[o] - 1 \in Nat /\ ref[o] \in Nat
  BY <1>2, <1>4 DEF IInv, Counted, TypeOK
<1>6. ref'[o] = ref[o] - 1 /\ \A p \in Objs : p # o => ref'[p] = ref[p]
  BY <1>2, <1>4 DEF IInv, TypeOK
<1>7. TypeOK'
  <2>1. ref' \in [Objs -> Nat]
    BY <1>2, <1>5 DEF IInv, TypeOK
  <2> QED
    BY <1>1, <1>2, <2>1 DEF IInv, TypeOK, Pops, OpSet
<1>8. \A e, p : e # "unref" => (Pending(e, p)' <=> Pending(e, p))
  BY <1>1, PopPending
<1>9. /\ \A p : (Live(p)' <=> Live(p)) /\ (Owned(p)' <=> Owned(p))
      /\ \A f, p : Mappings(f, p)' = Mappings(f, p)
  BY <1>2, <1>8 DEF Live, Owned, Mappings
<1>10. \A c, p : Within(c, p)' <=> Within(c, p)
  BY <1>1, <1>2, <1>9, WithinIs, WithinNext DEF Pops
<1>11. \A u \in Threads : \A i, p : Waits(u, i, "unref", p)' <=>
         Waits(u, i, "unref", p) /\ ~(u = t /\ i = k /\ p = o)
  BY <1>1 DEF Pops
<1>12. Counted'
  <2> SUFFICES ASSUME NEW p \in Objs, Live(p)
               PROVE  /\ IsFiniteSet(References(p)')
                      /\ ref'[p] = Cardinality(References(p)') /\ ref'[p] >= 1
    BY <1>9 DEF Counted
  <2>1. CASE p = o
    <3>1. \A y : Refers(y, o)' <=> Refers(y, o) /\ y # <<"unref", t, k>>
      BY <1>9, <1>10, <1>11 DEF Refers
    <3>2. Refers(<<"unref", t, k>>, o)
      BY <1>4 DEF Refers
    <3>3. <<"unref", t, k>> \in References(o)
      BY <3>2, ReferencesAre
    <3>4. IsFiniteSet(References(o)') /\ Cardinality(References(o)') = Cardinality(References(o)) - 1
      BY <1>5, <3>1, <3>3, OneLess
    <3> QED
      BY <1>5, <1>6, <2>1, <3>4
  <2>2. CASE p # o
    <3>1. \A u \in Threads : \A i : Waits(u, i, "unref", p)' <=> Waits(u, i, "unref", p)
      BY <1>11, <2>2
    <3>2. References(p)' = References(p)
      BY <1>2, <1>9, <1>10, <3>1, SameReferences
    <3> QED
      BY <1>6, <2>2, <3>2 DEF IInv, Counted
  <2> QED
    BY <2>1, <2>2
<1> QED
  BY <1>3, <1>7, <1>12 DEF IInv

\* A turn of a cleanup that finds nothing of the file.
LEMMA PassIInv ==
  ASSUME IInv, NEW t \in Threads, At(t, "clean"), ~Found(FileOf[t], Arg(t)), Then(t, <<>>),
         UNCHANGED <<table, st, ref, slot, filp, vspace, mem, handle, maps, open>>
  PROVE  IInv'
<1>1. PICK k, s : Pops(t, k, "clean", s) /\ s = Arg(t)
  BY ThenPops DEF IInv
<1>2. /\ Structure' /\ OwnState' /\ OpState'
      /\ Tables' /\ Memory' /\ Holding' /\ Counted'
  BY <1>1, PopStructure, PopOwnState, PopOpState, PopOps, KeepTables,
     KeepMemory, KeepHolding, KeepCounted DEF IInv
<1>3. TypeOK'
  BY <1>1 DEF IInv, TypeOK, Pops, OpSet
<1>4. s \in Slots /\ s # Null
  BY <1>1, ObjsAssumption DEF IInv, Structure, Typed, Pops
<1>5. Closing'
  <2>1. ASSUME NEW p \in Objs, filp'[p] \in Files \ open'
        PROVE  \E u \in Threads : \E i \in Nat :
                 FileOf[u] = filp'[p] /\ (Waits(u, i, "clean", slot[p])' \/ Waits(u, i, "disown", p)')
    <3>1. PICK u \in Threads, i \in Nat :
            FileOf[u] = filp[p] /\ (Waits(u, i, "clean", slot[p]) \/ Waits(u, i, "disown", p))
      BY <2>1 DEF IInv, Closing
    <3>2. ASSUME Waits(u, i, "clean", slot[p]), u = t, i = k
          PROVE  FALSE
      <4>1. slot[p] = s
        BY <1>1, <3>2 DEF Pops
      <4>2. table[s] = p /\ p # Null
        BY <1>4, <4>1, ObjsAssumption DEF IInv, Tables
      <4> QED
        BY <1>1, <3>1, <3>2, <4>2 DEF Found
    <3>3. Waits(u, i, "clean", slot[p])' \/ Waits(u, i, "disown", p)'
      BY <1>1, <3>1, <3>2 DEF Pops
    <3> QED
      BY <3>1, <3>3
  <2>2. \A u \in Threads : todo'[u] # <<>> => todo[u] # <<>>
    BY <1>1, PopEmpty
  <2> QED
    BY <2>1, <2>2 DEF IInv, Closing
<1> QED
  BY <1>2, <1>3, <1>5 DEF IInv

-----------------------------------------------------------------------------
(* A thread takes up operations                                            *)

\* Operations are equal when their parts are.
LEMMA OpEq == \A d, o, e, p : Op(d, o) = Op(e, p) <=> d = e /\ o = p
<1> SUFFICES ASSUME NEW d, NEW o, NEW e, NEW p, Op(d, o) = Op(e, p)
             PROVE  d = e /\ o = p
  OBVIOUS
<1>1. Op(d, o).do = d /\ Op(e, p).do = e /\ Op(d, o).obj = o /\ Op(e, p).obj = p
  BY DEF Op
<1> QED
  BY <1>1

\* Operations are what the sequences hold.
LEMMA OpTyped == \A d \in Ops : \A o \in Objs \cup Slots : Op(d, o) \in OpSet
  BY DEF Op, OpSet

\* Start and Abort.
LEMMA SetReplaces ==
  ASSUME TypeOK, NEW t \in Threads, NEW ops \in Seq(OpSet), todo' = [todo EXCEPT ![t] = ops]
  PROVE  /\ Replaced(t, 1, ops)
         /\ todo' \in [Threads -> Seq(OpSet)] /\ todo'[t] = ops
         /\ \A u \in Threads : u # t => todo'[u] = todo[u]
<1>1. todo \in [Threads -> Seq(OpSet)] /\ DOMAIN ops = 1 .. Len(ops) /\ Len(ops) \in Nat
  <2>1. todo \in [Threads -> Seq(OpSet)]
    BY DEF TypeOK, OpSet
  <2> QED
    BY <2>1
<1>2. /\ todo' \in [Threads -> Seq(OpSet)] /\ todo'[t] = ops
      /\ \A u \in Threads : u # t => todo'[u] = todo[u]
  BY <1>1
<1>3. ASSUME NEW u \in Threads, NEW i, NEW d, NEW o
      PROVE  Waits(u, i, d, o)' <=>
               IF u = t /\ i \in Nat /\ i >= 1
                 THEN i - 1 + 1 \in 1 .. Len(ops) /\ ops[Len(ops) - (i - 1)] = Op(d, o)
                 ELSE Waits(u, i, d, o)
  <2>1. CASE u # t
    BY <1>2, <2>1 DEF Waits
  <2>2. CASE u = t
    <3>1. Waits(t, i, d, o)' <=> i \in 1 .. Len(ops) /\ ops[Len(ops) + 1 - i] = Op(d, o)
      BY <1>1, <1>2 DEF Waits
    <3>2. CASE i \in Nat /\ i >= 1
      <4>1. i - 1 + 1 = i /\ Len(ops) + 1 - i = Len(ops) - (i - 1)
        BY <1>1, <3>2
      <4> QED
        BY <2>2, <3>1, <3>2, <4>1
    <3>3. CASE ~(i \in Nat /\ i >= 1)
      <4>1. ~Waits(t, i, d, o)
        BY <3>3, WaitsType
      <4> QED
        BY <1>1, <2>2, <3>1, <3>3, <4>1
    <3> QED
      BY <3>2, <3>3
  <2> QED
    BY <2>1, <2>2
<1> QED
  BY <1>2, <1>3 DEF Replaced

\* A thread puts one operation, or several, in the place of its next one.
LEMMA Replaced1 ==
  ASSUME NEW t \in Threads, NEW k \in Nat,
         NEW d1, NEW o1,
         Replaced(t, k, <<Op(d1, o1)>>)
  PROVE  \A u \in Threads : \A i, d, o :
           Waits(u, i, d, o)' <=>
             IF u = t /\ i \in Nat /\ i >= k
               THEN \/ i = k /\ d = d1 /\ o = o1
               ELSE Waits(u, i, d, o)
<1> SUFFICES ASSUME NEW i \in Nat, i >= k, NEW d, NEW o
             PROVE  Waits(t, i, d, o)' <=>
                      \/ i = k /\ d = d1 /\ o = o1
  BY DEF Replaced
<1>1. CASE i = k
  BY <1>1, OpEq DEF Replaced
<1>2. CASE i > k
  BY <1>2 DEF Replaced
<1> QED
  BY <1>1, <1>2

LEMMA Replaced2 ==
  ASSUME NEW t \in Threads, NEW k \in Nat,
         NEW d1, NEW o1, NEW d2, NEW o2,
         Replaced(t, k, <<Op(d1, o1), Op(d2, o2)>>)
  PROVE  \A u \in Threads : \A i, d, o :
           Waits(u, i, d, o)' <=>
             IF u = t /\ i \in Nat /\ i >= k
               THEN \/ i = k /\ d = d2 /\ o = o2
                    \/ i = k + 1 /\ d = d1 /\ o = o1
               ELSE Waits(u, i, d, o)
<1> SUFFICES ASSUME NEW i \in Nat, i >= k, NEW d, NEW o
             PROVE  Waits(t, i, d, o)' <=>
                      \/ i = k /\ d = d2 /\ o = o2
                      \/ i = k + 1 /\ d = d1 /\ o = o1
  BY DEF Replaced
<1>1. CASE i = k
  BY <1>1, OpEq DEF Replaced
<1>2. CASE i = k + 1
  BY <1>2, OpEq DEF Replaced
<1>3. CASE i > k + 1
  BY <1>3 DEF Replaced
<1> QED
  BY <1>1, <1>2, <1>3

LEMMA Replaced3 ==
  ASSUME NEW t \in Threads, NEW k \in Nat,
         NEW d1, NEW o1, NEW d2, NEW o2, NEW d3, NEW o3,
         Replaced(t, k, <<Op(d1, o1), Op(d2, o2), Op(d3, o3)>>)
  PROVE  \A u \in Threads : \A i, d, o :
           Waits(u, i, d, o)' <=>
             IF u = t /\ i \in Nat /\ i >= k
               THEN \/ i = k /\ d = d3 /\ o = o3
                    \/ i = k + 1 /\ d = d2 /\ o = o2
                    \/ i = k + 2 /\ d = d1 /\ o = o1
               ELSE Waits(u, i, d, o)
<1> SUFFICES ASSUME NEW i \in Nat, i >= k, NEW d, NEW o
             PROVE  Waits(t, i, d, o)' <=>
                      \/ i = k /\ d = d3 /\ o = o3
                      \/ i = k + 1 /\ d = d2 /\ o = o2
                      \/ i = k + 2 /\ d = d1 /\ o = o1
  BY DEF Replaced
<1>1. CASE i = k
  BY <1>1, OpEq DEF Replaced
<1>2. CASE i = k + 1
  BY <1>2, OpEq DEF Replaced
<1>3. CASE i = k + 2
  BY <1>3, OpEq DEF Replaced
<1>4. CASE i > k + 2
  BY <1>4 DEF Replaced
<1> QED
  BY <1>1, <1>2, <1>3, <1>4

LEMMA Replaced4 ==
  ASSUME NEW t \in Threads, NEW k \in Nat,
         NEW d1, NEW o1, NEW d2, NEW o2, NEW d3, NEW o3, NEW d4, NEW o4,
         Replaced(t, k, <<Op(d1, o1), Op(d2, o2), Op(d3, o3), Op(d4, o4)>>)
  PROVE  \A u \in Threads : \A i, d, o :
           Waits(u, i, d, o)' <=>
             IF u = t /\ i \in Nat /\ i >= k
               THEN \/ i = k /\ d = d4 /\ o = o4
                    \/ i = k + 1 /\ d = d3 /\ o = o3
                    \/ i = k + 2 /\ d = d2 /\ o = o2
                    \/ i = k + 3 /\ d = d1 /\ o = o1
               ELSE Waits(u, i, d, o)
<1> SUFFICES ASSUME NEW i \in Nat, i >= k, NEW d, NEW o
             PROVE  Waits(t, i, d, o)' <=>
                      \/ i = k /\ d = d4 /\ o = o4
                      \/ i = k + 1 /\ d = d3 /\ o = o3
                      \/ i = k + 2 /\ d = d2 /\ o = o2
                      \/ i = k + 3 /\ d = d1 /\ o = o1
  BY DEF Replaced
<1>1. CASE i = k
  BY <1>1, OpEq DEF Replaced
<1>2. CASE i = k + 1
  BY <1>2, OpEq DEF Replaced
<1>3. CASE i = k + 2
  BY <1>3, OpEq DEF Replaced
<1>4. CASE i = k + 3
  BY <1>4, OpEq DEF Replaced
<1>5. CASE i > k + 3
  BY <1>5 DEF Replaced
<1> QED
  BY <1>1, <1>2, <1>3, <1>4, <1>5

LEMMA Replaced6 ==
  ASSUME NEW t \in Threads, NEW k \in Nat,
         NEW d1, NEW o1, NEW d2, NEW o2, NEW d3, NEW o3, NEW d4, NEW o4,
         NEW d5, NEW o5, NEW d6, NEW o6,
         Replaced(t, k, <<Op(d1, o1), Op(d2, o2), Op(d3, o3), Op(d4, o4),
                          Op(d5, o5), Op(d6, o6)>>)
  PROVE  \A u \in Threads : \A i, d, o :
           Waits(u, i, d, o)' <=>
             IF u = t /\ i \in Nat /\ i >= k
               THEN \/ i = k /\ d = d6 /\ o = o6
                    \/ i = k + 1 /\ d = d5 /\ o = o5
                    \/ i = k + 2 /\ d = d4 /\ o = o4
                    \/ i = k + 3 /\ d = d3 /\ o = o3
                    \/ i = k + 4 /\ d = d2 /\ o = o2
                    \/ i = k + 5 /\ d = d1 /\ o = o1
               ELSE Waits(u, i, d, o)
<1> SUFFICES ASSUME NEW i \in Nat, i >= k, NEW d, NEW o
             PROVE  Waits(t, i, d, o)' <=>
                      \/ i = k /\ d = d6 /\ o = o6
                      \/ i = k + 1 /\ d = d5 /\ o = o5
                      \/ i = k + 2 /\ d = d4 /\ o = o4
                      \/ i = k + 3 /\ d = d3 /\ o = o3
                      \/ i = k + 4 /\ d = d2 /\ o = o2
                      \/ i = k + 5 /\ d = d1 /\ o = o1
  BY DEF Replaced
<1>1. CASE i = k
  BY <1>1, OpEq DEF Replaced
<1>2. CASE i = k + 1
  BY <1>2, OpEq DEF Replaced
<1>3. CASE i = k + 2
  BY <1>3, OpEq DEF Replaced
<1>4. CASE i = k + 3
  BY <1>4, OpEq DEF Replaced
<1>5. CASE i = k + 4
  BY <1>5, OpEq DEF Replaced
<1>6. CASE i = k + 5
  BY <1>6, OpEq DEF Replaced
<1>7. CASE i > k + 5
  BY <1>7 DEF Replaced
<1> QED
  BY <1>1, <1>2, <1>3, <1>4, <1>5, <1>6, <1>7

LEMMA Replaced7 ==
  ASSUME NEW t \in Threads, NEW k \in Nat,
         NEW d1, NEW o1, NEW d2, NEW o2, NEW d3, NEW o3, NEW d4, NEW o4,
         NEW d5, NEW o5, NEW d6, NEW o6, NEW d7, NEW o7,
         Replaced(t, k, <<Op(d1, o1), Op(d2, o2), Op(d3, o3), Op(d4, o4),
                          Op(d5, o5), Op(d6, o6), Op(d7, o7)>>)
  PROVE  \A u \in Threads : \A i, d, o :
           Waits(u, i, d, o)' <=>
             IF u = t /\ i \in Nat /\ i >= k
               THEN \/ i = k /\ d = d7 /\ o = o7
                    \/ i = k + 1 /\ d = d6 /\ o = o6
                    \/ i = k + 2 /\ d = d5 /\ o = o5
                    \/ i = k + 3 /\ d = d4 /\ o = o4
                    \/ i = k + 4 /\ d = d3 /\ o = o3
                    \/ i = k + 5 /\ d = d2 /\ o = o2
                    \/ i = k + 6 /\ d = d1 /\ o = o1
               ELSE Waits(u, i, d, o)
<1> SUFFICES ASSUME NEW i \in Nat, i >= k, NEW d, NEW o
             PROVE  Waits(t, i, d, o)' <=>
                      \/ i = k /\ d = d7 /\ o = o7
                      \/ i = k + 1 /\ d = d6 /\ o = o6
                      \/ i = k + 2 /\ d = d5 /\ o = o5
                      \/ i = k + 3 /\ d = d4 /\ o = o4
                      \/ i = k + 4 /\ d = d3 /\ o = o3
                      \/ i = k + 5 /\ d = d2 /\ o = o2
                      \/ i = k + 6 /\ d = d1 /\ o = o1
  BY DEF Replaced
<1>1. CASE i = k
  BY <1>1, OpEq DEF Replaced
<1>2. CASE i = k + 1
  BY <1>2, OpEq DEF Replaced
<1>3. CASE i = k + 2
  BY <1>3, OpEq DEF Replaced
<1>4. CASE i = k + 3
  BY <1>4, OpEq DEF Replaced
<1>5. CASE i = k + 4
  BY <1>5, OpEq DEF Replaced
<1>6. CASE i = k + 5
  BY <1>6, OpEq DEF Replaced
<1>7. CASE i = k + 6
  BY <1>7, OpEq DEF Replaced
<1>8. CASE i > k + 6
  BY <1>8 DEF Replaced
<1> QED
  BY <1>1, <1>2, <1>3, <1>4, <1>5, <1>6, <1>7, <1>8

-----------------------------------------------------------------------------
(* The calls                                                               *)

\* What a thread finds is there and whole, and nobody is making it.
LEMMA FoundIs ==
  ASSUME IInv, NEW t \in Threads, NEW s \in Slots, Found(FileOf[t], s)
  PROVE  /\ table[s] \in Objs /\ Live(table[s]) /\ ~Dying(table[s]) /\ st[table[s]] = "live"
         /\ slot[table[s]] = s /\ s[1] = Kind(table[s])
         /\ filp[table[s]] = FileOf[t] /\ filp[table[s]] # Null
         /\ mem[table[s]] /\ ~Pending("own", table[s])
<1> DEFINE o == table[s]
<1>1. o \in Objs /\ o # Null /\ filp[o] = FileOf[t] /\ FileOf[t] # Null
  BY ObjsAssumption DEF Found, IInv, TypeOK
<1>2. st[o] = "live" /\ slot[o] = s /\ s[1] = Kind(o)
  BY <1>1 DEF IInv, Tables
<1>3. Live(o) /\ ~Dying(o)
  BY <1>1 DEF IInv, Holding, Live, Dying
<1> HIDE DEF o
<1>4. ~Pending("own", o)
  BY <1>1, PendingIs DEF IInv, Structure, Typed, OwnState
<1>5. mem[o]
  <2> SUFFICES ASSUME NEW u \in Threads, NEW i, Waits(u, i, "setup", o)
               PROVE  FALSE
    BY <1>1, <1>3, PendingIs DEF IInv, Memory
  <2> QED
    BY <1>1, MakerOwns DEF IInv
<1> QED
  BY <1>1, <1>2, <1>3, <1>4, <1>5 DEF o

\* An idle thread has nothing to run.
LEMMA IdleWaits ==
  ASSUME IInv, NEW t \in Threads, Idle(t)
  PROVE  FileOf[t] \in open /\ todo[t] = <<>> /\ \A i, d, o : ~Waits(t, i, d, o)
<1>1. todo[t] = <<>> /\ FileOf[t] \in open
  BY DEF Idle
<1>2. Len(todo[t]) = 0
  BY <1>1
<1> QED
  BY <1>1, <1>2 DEF IInv, Structure, Typed

\* Thread t, of which only a turn of a cleanup at k goes, takes up n unrefs of
\* o and, before them, e on o; e is "none" for no operation.
Takes(t, k, o, n, e) ==
  /\ t \in Threads /\ k \in Nat \ {0} /\ n \in {1, 2}
  /\ \A i, d, p : Waits(t, i, d, p) => d # "disown" /\ (i >= k => i = k /\ d = "clean")
  /\ \A u \in Threads : \A i, d, p :
       Waits(u, i, d, p)' <=>
         \/ Waits(u, i, d, p) /\ ~(u = t /\ i >= k)
         \/ u = t /\ p = o /\ i = k /\ d = "unref"
         \/ u = t /\ p = o /\ i = k + 1 /\ n = 2 /\ d = "unref"
         \/ u = t /\ p = o /\ i = k + n /\ e # "none" /\ d = e
  /\ todo' \in [Threads -> Seq(OpSet)]
  /\ Len(todo'[t]) = IF e = "none" THEN k + n - 1 ELSE k + n
  /\ \A u \in Threads : u # t => todo'[u] = todo[u]

\* Operations of other kinds and on other objects stay as they are.
LEMMA TakesPending ==
  ASSUME IInv, NEW t, NEW k, NEW o, NEW n, NEW e, Takes(t, k, o, n, e)
  PROVE  /\ \A d, p : d \notin {"clean", "unref", e} \/ (d # "clean" /\ p # o) =>
              /\ \A u \in Threads : \A i : Waits(u, i, d, p)' <=> Waits(u, i, d, p)
              /\ Pending(d, p)' <=> Pending(d, p)
<1>1. \A d, p : d \notin {"clean", "unref", e} \/ (d # "clean" /\ p # o) =>
        \A u \in Threads : \A i : Waits(u, i, d, p)' <=> Waits(u, i, d, p)
  BY DEF IInv, Structure, Typed, Takes
<1> QED
  BY <1>1, PendingIs, PendingNext

\* What a thread takes up has the shape that Structure asks for.
LEMMA TakesStructure ==
  ASSUME IInv, NEW t, NEW k, NEW o \in Objs, NEW n, NEW e \in {"none", "use", "disown"},
         Takes(t, k, o, n, e), e = "disown" => n = 2 /\ ~Pending("disown", o),
         Live(o), UNCHANGED <<st, vspace, open>>
  PROVE  Structure'
<1>1. st[o] = "live" /\ ~Dying(o) /\ k \in Nat \ {0} /\ t \in Threads /\ n \in {1, 2}
  BY DEF Live, Dying, Takes
<1>2. Typed'
  BY <1>1 DEF IInv, Structure, Typed, Ops, Takes
<1>3. Making'
  BY <1>1 DEF IInv, Structure, Typed, Making, Takes
<1>4. Following'
  <2> SUFFICES ASSUME NEW u \in Threads, NEW i \in Nat, NEW p \in Objs
               PROVE
    /\ Waits(u, i, "use", p)' => After(u, i, "unref", p)' \/ After(u, i, "drop", p)'
    /\ Waits(u, i, "disown", p)' =>
         /\ i >= 3 /\ i = Len(todo'[u])
         /\ Waits(u, i - 1, "unref", p)' /\ Waits(u, i - 2, "unref", p)'
    /\ Waits(u, i, "clear", p)' => p \in Chans /\ After(u, i, "drop", p)'
    /\ Waits(u, i, "drop", p)' => After(u, i, "unbind", p)'
    /\ Waits(u, i, "drop", p)' /\ p \in Chans => After(u, i, "unref", vspace[p])'
    /\ Waits(u, i, "unbind", p)' => After(u, i, "kfree", p)'
    BY DEF Following
  <2>1. \A d, q : Waits(u, i, d, q) /\ ~(u = t /\ i >= k) =>
          \A j \in 1 .. i - 1 : \A g, h : Waits(u, j, g, h)' <=> Waits(u, j, g, h)
    BY <1>1 DEF Takes
  <2>2. ASSUME NEW d, Waits(u, i, d, p), ~(u = t /\ i >= k)
        PROVE  \A g, h : After(u, i, g, h)' <=> After(u, i, g, h)
    BY <2>1, <2>2 DEF After
  <2>3. CASE u = t /\ i >= k
    <3>1. \A d : Waits(u, i, d, p)' => d \in {"unref", "use", "disown"} /\ p = o
      BY <1>1, <2>3 DEF Takes
    <3>2. Waits(u, i, "use", p)' => After(u, i, "unref", p)'
      <4>1. Waits(u, k, "unref", o)'
        BY <2>3 DEF Takes
      <4>2. Waits(u, i, "use", p)' => k \in 1 .. i - 1
        BY <1>1, <2>3 DEF Takes
      <4> QED
        BY <3>1, <4>1, <4>2 DEF After
    <3>3. Waits(u, i, "disown", p)' =>
            /\ i >= 3 /\ i = Len(todo'[u])
            /\ Waits(u, i - 1, "unref", p)' /\ Waits(u, i - 2, "unref", p)'
      BY <1>1, <2>3 DEF Takes
    <3> QED
      BY <3>1, <3>2, <3>3
  <2>4. CASE ~(u = t /\ i >= k)
    <3>1. \A d : Waits(u, i, d, p)' <=> Waits(u, i, d, p)
      BY <1>1, <2>4 DEF Takes
    <3>2. Waits(u, i, "disown", p) =>
            Len(todo'[u]) = Len(todo[u]) /\ (\A g, h : \A j : Waits(u, j, g, h)' <=> Waits(u, j, g, h))
      BY DEF Takes
    <3> QED
      BY <2>2, <2>4, <3>1, <3>2 DEF IInv, Structure, Following
  <2> QED
    BY <2>3, <2>4
<1>5. Unique'
  <2>1. \A u \in Threads : \A i : ~Waits(u, i, "disown", o) \/ e # "disown"
    BY PendingIs
  <2> QED
    BY <1>1, <2>1 DEF IInv, Structure, Unique, Once, Takes
<1>6. DyingZone'
  <2>1. \A u \in Threads : \A i : ~Waits(u, i, "kfree", o)
    BY <1>1, PendingIs DEF Dying
  <2> QED
    BY <1>1, <2>1 DEF IInv, Structure, Typed, DyingZone, Takes
<1>7. Backed'
  <2> SUFFICES ASSUME NEW u \in Threads, NEW i \in Nat, NEW p \in Objs, NEW d \in Ops,
                      Waits(u, i, d, p)', d # "clean", ~Dying(p)'
               PROVE  Waits(u, 1, "own", p)' \/ \E j \in 1 .. i : Waits(u, j, "unref", p)'
    BY DEF Backed
  <2>1. ~Dying(p)
    BY TakesPending DEF Dying
  <2>2. CASE Waits(u, i, d, p) /\ ~(u = t /\ i >= k)
    <3>1. Waits(u, 1, "own", p) \/ \E j \in 1 .. i : Waits(u, j, "unref", p)
      BY <2>1, <2>2 DEF IInv, Structure, Backed
    <3> QED
      BY <1>1, <2>2, <3>1 DEF IInv, Structure, Typed, Takes
  <2>3. CASE u = t /\ p = o /\ i >= k
    <3>1. Waits(u, k, "unref", p)'
      BY <2>3 DEF Takes
    <3> QED
      BY <1>1, <2>3, <3>1
  <2> QED
    BY <1>1, <2>2, <2>3 DEF Takes
<1> QED
  BY <1>2, <1>3, <1>4, <1>5, <1>6, <1>7 DEF Structure

\* The places it takes were free.
LEMMA TakesPlace ==
  ASSUME NEW t, NEW k, NEW o, NEW n, NEW e, Takes(t, k, o, n, e)
  PROVE  t \in Threads /\ k + n \in Nat
  BY DEF Takes

\* Who finds a live object finds what each of the operations needs.
LEMMA TakesStates ==
  ASSUME IInv, NEW t, NEW k, NEW o \in Objs, NEW n, NEW e \in {"none", "use", "disown"},
         Takes(t, k, o, n, e), Live(o), ~Pending("own", o), e = "use" => mem[o],
         e = "disown" => filp[o] = FileOf[t],
         \A p \in Objs : Waits(t, k, "clean", slot[p]) /\ filp[p] = FileOf[t] => p = o /\ e = "disown",
         todo[t] # <<>> \/ FileOf[t] \in open,
         \A f \in Files, c \in Chans : maps[f][c] = 0 => maps'[f][c] = 0,
         UNCHANGED <<table, st, slot, filp, vspace, mem, handle, open>>
  PROVE  OwnState' /\ OpState' /\ Tables' /\ Memory' /\ Closing' /\ SameOps({"kfree"})
<1>1. \A d, p : d \notin {"clean", "unref", e} \/ (d # "clean" /\ p # o) =>
        /\ \A u \in Threads : \A i : Waits(u, i, d, p)' <=> Waits(u, i, d, p)
        /\ Pending(d, p)' <=> Pending(d, p)
  BY TakesPending
<1>2. \A p : (Dying(p)' <=> Dying(p)) /\ (Bound(p)' <=> Bound(p)) /\ ~Dying(o)
  BY <1>1 DEF Dying, Bound, Live
<1>3. OwnState'
  <2> SUFFICES ASSUME NEW u \in Threads, NEW i \in Nat, NEW p \in Objs, Waits(u, i, "own", p)'
               PROVE  /\ ~Dying(p)' /\ filp'[p] = Null /\ ~Pending("unref", p)' /\ FileOf[u] \in open'
                      /\ p \in Vspaces => \A c \in Chans : vspace'[c] # p
                      /\ p \in Chans => \A f \in Files : maps'[f][p] = 0
    BY DEF OwnState
  <2>1. Waits(u, i, "own", p) /\ p # o
    BY <1>1, PendingIs
  <2>2. /\ ~Dying(p) /\ filp[p] = Null /\ ~Pending("unref", p) /\ FileOf[u] \in open
        /\ p \in Vspaces => \A c \in Chans : vspace[c] # p
        /\ p \in Chans => \A f \in Files : maps[f][p] = 0
    BY <2>1 DEF IInv, OwnState
  <2> QED
    BY <1>1, <1>2, <2>1, <2>2
<1>4. OpState'
  <2> SUFFICES ASSUME NEW u \in Threads, NEW i \in Nat, NEW p \in Objs
               PROVE  /\ Waits(u, i, "setup", p)' => ~mem'[p]
                      /\ Waits(u, i, "bind", p)' => slot'[p] = Null
                      /\ Waits(u, i, "disown", p)' => filp'[p] = FileOf[u]
                      /\ Waits(u, i, "unref", p)' => ~Dying(p)'
                      /\ Waits(u, i, "use", p)' => mem'[p]
                      /\ Waits(u, i, "unbind", p)' => Bound(p)'
    BY DEF OpState
  <2>1. \A d \in {"disown", "unref", "use"} : Waits(u, i, d, p)' =>
          Waits(u, i, d, p) \/ (u = t /\ p = o /\ (d = "unref" \/ d = e))
    BY DEF Takes
  <2> QED
    BY <1>1, <1>2, <2>1, ZenonT(40) DEF IInv, OpState
<1>5. SameOps({"bind", "unbind", "kfree", "setup", "drop", "clear"})
  BY <1>1 DEF SameOps
<1>6. SameOps({"bind", "unbind", "kfree"}) /\ SameOps({"setup", "drop", "clear", "kfree"})
      /\ SameOps({"kfree"})
  BY <1>5 DEF SameOps
<1>7. Closing'
  <2>1. ASSUME NEW p \in Objs, filp'[p] \in Files \ open'
        PROVE  \E u \in Threads : \E i \in Nat :
                 FileOf[u] = filp'[p] /\ (Waits(u, i, "clean", slot[p])' \/ Waits(u, i, "disown", p)')
    <3>1. PICK u \in Threads, i \in Nat :
            FileOf[u] = filp[p] /\ (Waits(u, i, "clean", slot[p]) \/ Waits(u, i, "disown", p))
      BY <2>1 DEF IInv, Closing
    <3>2. CASE u = t /\ i >= k
      <4>1. p = o /\ e = "disown" /\ FileOf[t] = filp[p]
        BY <3>1, <3>2 DEF Takes
      <4>2. t \in Threads /\ k + n \in Nat
        BY TakesPlace
      <4>3. Waits(t, k + n, "disown", p)'
        BY <4>1, <4>2 DEF Takes
      <4> QED
        BY <4>1, <4>2, <4>3
    <3>3. CASE ~(u = t /\ i >= k)
      BY <3>1, <3>3 DEF Takes
    <3> QED
      BY <3>2, <3>3
  <2>2. \A u \in Threads : todo'[u] # <<>> => todo[u] # <<>> \/ FileOf[u] \in open
    BY DEF Takes
  <2> QED
    BY <2>1, <2>2 DEF IInv, Closing
<1> QED
  BY <1>3, <1>4, <1>6, <1>7, KeepTables, KeepMemory DEF IInv

\* The references that come are the unrefs.
LEMMA TakesRefers ==
  ASSUME IInv, NEW t, NEW k, NEW o \in Objs, NEW n, NEW e \in {"none", "use", "disown"},
         Takes(t, k, o, n, e), e # "disown", UNCHANGED <<st, filp, vspace>>
  PROVE  /\ \A p : (Live(p)' <=> Live(p)) /\ (Owned(p)' <=> Owned(p))
         /\ \A c, p : Within(c, p)' <=> Within(c, p)
<1>1. \A d, p : d \notin {"clean", "unref", e} =>
        /\ \A u \in Threads : \A i : Waits(u, i, d, p)' <=> Waits(u, i, d, p)
        /\ Pending(d, p)' <=> Pending(d, p)
  BY TakesPending
<1>2. \A p : (Live(p)' <=> Live(p)) /\ (Owned(p)' <=> Owned(p))
  BY <1>1 DEF Live, Owned
<1>3. \A c, p : Within(c, p)' <=> Within(c, p)
  BY <1>1, <1>2, WithinIs, WithinNext
<1> QED
  BY <1>2, <1>3

\* A reference in place of another, or two in place of one.
LEMMA Exchange ==
  ASSUME NEW o, IsFiniteSet(References(o)), NEW x, x \in References(o), NEW y, y \notin References(o),
         \A z : Refers(z, o)' <=> (Refers(z, o) /\ z # x) \/ z = y
  PROVE  /\ IsFiniteSet(References(o)')
         /\ Cardinality(References(o)') = Cardinality(References(o))
<1>1. PICK R : R = References(o) \ {x}
  OBVIOUS
<1>2. References(o)' = R \cup {y} /\ y \notin R
  BY <1>1, ReferencesAre, ReferencesNext
<1>3. IsFiniteSet(R) /\ Cardinality(R) = Cardinality(References(o)) - 1
      /\ Cardinality(References(o)) \in Nat
  BY <1>1, FS_RemoveElement, FS_CardinalityType
<1>4. IsFiniteSet(R \cup {y}) /\ Cardinality(R \cup {y}) = Cardinality(R) + 1
  BY <1>2, <1>3, FS_AddElement
<1> QED
  BY <1>2, <1>3, <1>4

LEMMA ExchangeTwo ==
  ASSUME NEW o, IsFiniteSet(References(o)), NEW x, x \in References(o), NEW y, y \notin References(o),
         NEW w, w \notin References(o), w # y,
         \A z : Refers(z, o)' <=> (Refers(z, o) /\ z # x) \/ z = y \/ z = w
  PROVE  /\ IsFiniteSet(References(o)')
         /\ Cardinality(References(o)') = Cardinality(References(o)) + 1
<1>1. PICK R : R = References(o) \ {x}
  OBVIOUS
<1>2. References(o)' = (R \cup {y}) \cup {w} /\ y \notin R /\ w \notin R \cup {y}
  BY <1>1, ReferencesAre, ReferencesNext
<1>3. IsFiniteSet(R) /\ Cardinality(R) = Cardinality(References(o)) - 1
      /\ Cardinality(References(o)) \in Nat
  BY <1>1, FS_RemoveElement, FS_CardinalityType
<1>4. IsFiniteSet(R \cup {y}) /\ Cardinality(R \cup {y}) = Cardinality(R) + 1
  BY <1>2, <1>3, FS_AddElement
<1>5. IsFiniteSet((R \cup {y}) \cup {w})
      /\ Cardinality((R \cup {y}) \cup {w}) = Cardinality(R \cup {y}) + 1
  BY <1>2, <1>4, FS_AddElement
<1> QED
  BY <1>2, <1>3, <1>4, <1>5

LEMMA ExchangeBoth ==
  ASSUME NEW o, IsFiniteSet(References(o)),
         NEW x, x \in References(o), NEW y, y \in References(o), x # y,
         NEW z, z \notin References(o), NEW w, w \notin References(o), z # w,
         \A r : Refers(r, o)' <=> (Refers(r, o) /\ r # x /\ r # y) \/ r = z \/ r = w
  PROVE  /\ IsFiniteSet(References(o)')
         /\ Cardinality(References(o)') = Cardinality(References(o))
<1>1. PICK Q, R : Q = References(o) \ {x} /\ R = Q \ {y}
  OBVIOUS
<1>2. References(o)' = (R \cup {z}) \cup {w} /\ y \in Q /\ z \notin R /\ w \notin R \cup {z}
  BY <1>1, ReferencesAre, ReferencesNext
<1>3. IsFiniteSet(Q) /\ Cardinality(Q) = Cardinality(References(o)) - 1
      /\ Cardinality(References(o)) \in Nat
  BY <1>1, FS_RemoveElement, FS_CardinalityType
<1>4. IsFiniteSet(R) /\ Cardinality(R) = Cardinality(Q) - 1
  BY <1>1, <1>2, <1>3, FS_RemoveElement
<1>5. IsFiniteSet(R \cup {z}) /\ Cardinality(R \cup {z}) = Cardinality(R) + 1
  BY <1>2, <1>4, FS_AddElement
<1>6. IsFiniteSet((R \cup {z}) \cup {w})
      /\ Cardinality((R \cup {z}) \cup {w}) = Cardinality(R \cup {z}) + 1
  BY <1>2, <1>5, FS_AddElement
<1> QED
  BY <1>2, <1>3, <1>4, <1>5, <1>6

\* The ioctls that find an object and let it go.
LEMMA UseIInv ==
  ASSUME IInv, NEW t \in Threads, NEW s \in Slots, Use(t, s)
  PROVE  IInv'
<1>1. PICK o : o = table[s]
  OBVIOUS
<1>2. /\ Idle(t) /\ Found(FileOf[t], s)
      /\ ref' = [ref EXCEPT ![o] = @ + 1]
      /\ todo' = [todo EXCEPT ![t] = <<Op("use", o), Op("unref", o)>>]
      /\ UNCHANGED <<table, st, slot, filp, vspace, mem, handle, maps, open>>
  BY <1>1 DEF Use, Get, Start
<1>3. /\ o \in Objs /\ Live(o) /\ st[o] = "live" /\ mem[o] /\ ~Pending("own", o)
  BY <1>1, <1>2, FoundIs
<1>4. FileOf[t] \in open /\ todo[t] = <<>> /\ \A i, d, p : ~Waits(t, i, d, p)
  BY <1>2, IdleWaits
<1>5. Takes(t, 1, o, 1, "use")
  <2>1. <<Op("use", o), Op("unref", o)>> \in Seq(OpSet)
    BY <1>3, OpTyped DEF Ops
  <2>2. /\ Replaced(t, 1, <<Op("use", o), Op("unref", o)>>)
        /\ todo' \in [Threads -> Seq(OpSet)] /\ todo'[t] = <<Op("use", o), Op("unref", o)>>
        /\ \A u \in Threads : u # t => todo'[u] = todo[u]
    BY <1>2, <2>1, SetReplaces DEF IInv
  <2>3. Len(todo'[t]) = 2
    BY <2>2
  <2>4. \A u \in Threads : \A i, d, p : Waits(u, i, d, p)' <=>
          IF u = t /\ i \in Nat /\ i >= 1
            THEN (i = 1 /\ d = "unref" /\ p = o) \/ (i = 1 + 1 /\ d = "use" /\ p = o)
            ELSE Waits(u, i, d, p)
    BY <2>2, Replaced2
  <2> QED
    BY <1>4, <2>2, <2>3, <2>4 DEF Takes
<1>6. Structure'
  BY <1>2, <1>3, <1>5, TakesStructure
<1>7. OwnState' /\ OpState' /\ Tables' /\ Memory' /\ Closing' /\ SameOps({"kfree"})
  BY <1>2, <1>3, <1>4, <1>5, TakesStates
<1>8. Holding'
  BY <1>2, <1>7, KeepHolding DEF IInv
<1>9. ref'[o] = ref[o] + 1 /\ ref[o] \in Nat /\ \A p \in Objs : p # o => ref'[p] = ref[p]
  BY <1>2, <1>3 DEF IInv, TypeOK
<1>10. TypeOK'
  <2>1. ref' \in [Objs -> Nat]
    BY <1>2, <1>9 DEF IInv, TypeOK
  <2> QED
    BY <1>2, <1>5, <2>1 DEF IInv, TypeOK, Takes, OpSet
<1>11. /\ \A p : (Live(p)' <=> Live(p)) /\ (Owned(p)' <=> Owned(p))
       /\ \A c, p : Within(c, p)' <=> Within(c, p)
  BY <1>2, <1>3, <1>5, TakesRefers
<1>12. Counted'
  <2> SUFFICES ASSUME NEW p \in Objs, Live(p)
               PROVE  /\ IsFiniteSet(References(p)')
                      /\ ref'[p] = Cardinality(References(p)') /\ ref'[p] >= 1
    BY <1>11 DEF Counted
  <2>1. IsFiniteSet(References(p)) /\ ref[p] = Cardinality(References(p)) /\ ref[p] >= 1
    BY DEF IInv, Counted
  <2>2. \A u \in Threads : \A i : Waits(u, i, "unref", p)' <=>
          Waits(u, i, "unref", p) \/ (u = t /\ i = 1 /\ p = o)
    BY <1>4, <1>5 DEF Takes
  <2>3. CASE p = o
    <3>1. \A y : Refers(y, o)' <=> Refers(y, o) \/ y = <<"unref", t, 1>>
      <4>1. \A f : Mappings(f, o)' = Mappings(f, o)
        BY <1>2 DEF Mappings
      <4> QED
        BY <1>11, <2>2, <2>3, <4>1 DEF Refers
    <3>2. ~Refers(<<"unref", t, 1>>, o)
      BY <1>4 DEF Refers
    <3>3. <<"unref", t, 1>> \notin References(o)
      BY <3>2, ReferencesAre
    <3>4. IsFiniteSet(References(o)') /\ Cardinality(References(o)') = Cardinality(References(o)) + 1
      BY <2>1, <2>3, <3>1, <3>3, OneMore
    <3> QED
      BY <1>9, <2>1, <2>3, <3>4
  <2>4. CASE p # o
    <3>1. References(p)' = References(p)
      BY <1>2, <1>11, <2>2, <2>4, SameReferences
    <3> QED
      BY <1>9, <2>1, <2>4, <3>1
  <2> QED
    BY <2>3, <2>4
<1> QED
  BY <1>6, <1>7, <1>8, <1>10, <1>12 DEF IInv

\* What Free and Clean do: the file that owns o gives it up.
LEMMA GivesUpIInv ==
  ASSUME IInv, NEW t \in Threads, NEW k, NEW o \in Objs, Takes(t, k, o, 2, "disown"),
         ~Pending("disown", o), Live(o), ~Pending("own", o), filp[o] = FileOf[t],
         \A p \in Objs : Waits(t, k, "clean", slot[p]) /\ filp[p] = FileOf[t] => p = o,
         todo[t] # <<>> \/ FileOf[t] \in open,
         ref' = [ref EXCEPT ![o] = @ + 1],
         UNCHANGED <<table, st, slot, filp, vspace, mem, handle, maps, open>>
  PROVE  IInv'
<1>1. Structure'
  BY TakesStructure
<1>2. OwnState' /\ OpState' /\ Tables' /\ Memory' /\ Closing' /\ SameOps({"kfree"})
  BY TakesStates
<1>3. Holding'
  BY <1>2, KeepHolding DEF IInv
<1>4. ref'[o] = ref[o] + 1 /\ ref[o] \in Nat /\ \A p \in Objs : p # o => ref'[p] = ref[p]
  BY DEF IInv, TypeOK
<1>5. TypeOK'
  <2>1. ref' \in [Objs -> Nat]
    BY <1>4 DEF IInv, TypeOK
  <2> QED
    BY <2>1 DEF IInv, TypeOK, Takes, OpSet
<1>6. \A d, p : d \notin {"clean", "unref", "disown"} \/ (d # "clean" /\ p # o) =>
        /\ \A u \in Threads : \A i : Waits(u, i, d, p)' <=> Waits(u, i, d, p)
        /\ Pending(d, p)' <=> Pending(d, p)
  BY TakesPending
<1>7. \A p : Live(p)' <=> Live(p)
  BY <1>6 DEF Live
<1>8. \A c, p : Within(c, p)' <=> Within(c, p)
  BY <1>6, <1>7, WithinIs, WithinNext
<1>9. \A p : p # o => (Owned(p)' <=> Owned(p))
  BY <1>6 DEF Owned
<1>10. k \in Nat \ {0} /\ \A f, p : Mappings(f, p)' = Mappings(f, p)
  BY DEF Takes, Mappings
<1>11. Owned(o) /\ ~Owned(o)'
  <2>1. filp[o] # Null
    BY ObjsAssumption
  <2>2. Pending("disown", o)'
    <3>1. Waits(t, k + 2, "disown", o)'
      BY <1>10 DEF Takes
    <3> QED
      BY <3>1, PendingNext
  <2> QED
    BY <2>1, <2>2 DEF Owned
<1>12. \A u \in Threads : \A i, p : Waits(u, i, "unref", p)' <=>
         Waits(u, i, "unref", p) \/ (u = t /\ p = o /\ (i = k \/ i = k + 1))
  BY <1>10 DEF Takes
<1>13. Counted'
  <2> SUFFICES ASSUME NEW p \in Objs, Live(p)
               PROVE  /\ IsFiniteSet(References(p)')
                      /\ ref'[p] = Cardinality(References(p)') /\ ref'[p] >= 1
    BY <1>7 DEF Counted
  <2>1. IsFiniteSet(References(p)) /\ ref[p] = Cardinality(References(p)) /\ ref[p] >= 1
    BY DEF IInv, Counted
  <2>2. CASE p = o
    <3>1. PICK x, y, w : x = <<"owner", o, 1>> /\ y = <<"unref", t, k>> /\ w = <<"unref", t, k + 1>>
      OBVIOUS
    <3>2. \A z : Refers(z, o)' <=> (Refers(z, o) /\ z # x) \/ z = y \/ z = w
      BY <1>8, <1>10, <1>11, <1>12, <3>1 DEF Refers
    <3>3. \A i : Waits(t, i, "unref", o) => i < k
      BY <1>10 DEF Takes, IInv, Structure, Typed
    <3>4. Refers(x, o) /\ ~Refers(y, o) /\ ~Refers(w, o) /\ y # w
      BY <1>10, <1>11, <3>1, <3>3 DEF Refers
    <3>5. x \in References(o) /\ y \notin References(o) /\ w \notin References(o)
      BY <3>4, ReferencesAre
    <3>6. IsFiniteSet(References(o)') /\ Cardinality(References(o)') = Cardinality(References(o)) + 1
      BY <2>1, <2>2, <3>2, <3>4, <3>5, ExchangeTwo
    <3> QED
      BY <1>4, <2>1, <2>2, <3>6
  <2>3. CASE p # o
    <3>1. References(p)' = References(p)
      BY <1>8, <1>9, <1>12, <2>3, SameReferences
    <3> QED
      BY <1>4, <2>1, <2>3, <3>1
  <2> QED
    BY <2>2, <2>3
<1> QED
  BY <1>1, <1>2, <1>3, <1>5, <1>13 DEF IInv

\* pscnv_ioctl_chan_free and pscnv_ioctl_vspace_free: here SerialFrees is needed.
LEMMA FreeIInv ==
  ASSUME IInv, SerialFrees, NEW t \in Threads, NEW s \in Slots, Free(t, s)
  PROVE  IInv'
<1>1. PICK o : o = table[s]
  OBVIOUS
<1>2. /\ Idle(t) /\ Found(FileOf[t], s) /\ FreeAllowed(o)
      /\ ref' = [ref EXCEPT ![o] = @ + 1]
      /\ todo' = [todo EXCEPT ![t] = <<Op("disown", o), Op("unref", o), Op("unref", o)>>]
      /\ UNCHANGED <<table, st, slot, filp, vspace, mem, handle, maps, open>>
  BY <1>1 DEF Free, Get, Start
<1>3. /\ o \in Objs /\ Live(o) /\ ~Pending("own", o) /\ filp[o] = FileOf[t]
  BY <1>1, <1>2, FoundIs
<1>4. FileOf[t] \in open /\ todo[t] = <<>> /\ \A i, d, p : ~Waits(t, i, d, p)
  BY <1>2, IdleWaits
<1>5. Takes(t, 1, o, 2, "disown")
  <2>1. <<Op("disown", o), Op("unref", o), Op("unref", o)>> \in Seq(OpSet)
    BY <1>3, OpTyped DEF Ops
  <2>2. /\ Replaced(t, 1, <<Op("disown", o), Op("unref", o), Op("unref", o)>>)
        /\ todo' \in [Threads -> Seq(OpSet)]
        /\ todo'[t] = <<Op("disown", o), Op("unref", o), Op("unref", o)>>
        /\ \A u \in Threads : u # t => todo'[u] = todo[u]
    BY <1>2, <2>1, SetReplaces DEF IInv
  <2>3. Len(todo'[t]) = 3
    BY <2>2
  <2>4. \A u \in Threads : \A i, d, p : Waits(u, i, d, p)' <=>
          IF u = t /\ i \in Nat /\ i >= 1
            THEN \/ i = 1 /\ d = "unref" /\ p = o
                 \/ i = 1 + 1 /\ d = "unref" /\ p = o
                 \/ i = 1 + 2 /\ d = "disown" /\ p = o
            ELSE Waits(u, i, d, p)
    BY <2>2, Replaced3
  <2> QED
    BY <1>4, <2>2, <2>3, <2>4 DEF Takes
<1>6. ~Pending("disown", o)
  <2>1. ASSUME NEW u \in Threads, NEW i, Waits(u, i, "disown", o)
        PROVE  FALSE
    <3>1. i \in Nat /\ i = Len(todo[u]) /\ i >= 3
      BY <1>3, <2>1 DEF IInv, Structure, Typed, Following
    <3>2. todo[u] \in Seq(OpSet)
      BY DEF IInv, TypeOK, OpSet
    <3>3. 1 \in DOMAIN todo[u] /\ Len(todo[u]) + 1 - i = 1
      BY <3>1, <3>2
    <3>4. todo[u][1] = Op("disown", o)
      BY <2>1, <3>3 DEF Waits
    <3> QED
      BY <1>2, <3>3, <3>4 DEF FreeAllowed
  <2> QED
    BY <2>1, PendingIs
<1> QED
  BY <1>2, <1>3, <1>4, <1>5, <1>6, GivesUpIInv

\* A turn of a cleanup that finds an object of the file.
LEMMA CleanFindsIInv ==
  ASSUME IInv, NEW t \in Threads, At(t, "clean"), Get(t, Arg(t)),
         Then(t, <<Op("disown", table[Arg(t)]), Op("unref", table[Arg(t)]), Op("unref", table[Arg(t)])>>),
         UNCHANGED <<table, st, slot, filp, vspace, mem, handle, maps, open>>
  PROVE  IInv'
<1>1. PICK k, s, o : k = Len(todo[t]) /\ s = Arg(t) /\ o = table[s]
  OBVIOUS
<1>2. k \in Nat \ {0} /\ Waits(t, k, "clean", s) /\ todo[t] # <<>>
  BY <1>1, AtTop DEF IInv, At
<1>3. s \in Slots /\ FileOf[t] \notin open
  BY <1>2 DEF IInv, Structure, Typed
<1>4. /\ Found(FileOf[t], s) /\ ref' = [ref EXCEPT ![o] = @ + 1]
      /\ Then(t, <<Op("disown", o), Op("unref", o), Op("unref", o)>>)
  BY <1>1 DEF Get
<1>5. /\ o \in Objs /\ Live(o) /\ ~Pending("own", o) /\ filp[o] = FileOf[t]
  BY <1>1, <1>3, <1>4, FoundIs
<1>6. \A i, d, p : Waits(t, i, d, p) =>
        /\ i \in Nat /\ i <= k /\ (i = k => d = "clean")
        /\ d # "disown"
  <2>1. \A i, d, p : Waits(t, i, d, p) => i \in Nat /\ i <= k
    BY <1>1 DEF IInv, Structure, Typed
  <2>2. \A d, p : Waits(t, k, d, p) => d = "clean"
    BY <1>2, WaitsOne
  <2>3. \A i, p : ~Waits(t, i, "disown", p)
    BY <1>1, <2>2 DEF IInv, Structure, Typed, Following
  <2> QED
    BY <2>1, <2>2, <2>3
<1>7. Takes(t, k, o, 2, "disown")
  <2>1. <<Op("disown", o), Op("unref", o), Op("unref", o)>> \in Seq(OpSet)
    BY <1>5, OpTyped DEF Ops
  <2>2. /\ Replaced(t, k, <<Op("disown", o), Op("unref", o), Op("unref", o)>>)
        /\ todo' \in [Threads -> Seq(OpSet)]
        /\ Len(todo'[t]) = k - 1 + Len(<<Op("disown", o), Op("unref", o), Op("unref", o)>>)
        /\ \A u \in Threads : u # t => todo'[u] = todo[u]
    BY <1>1, <1>2, <1>4, <2>1, ThenReplaces DEF IInv
  <2>3. Len(todo'[t]) = k + 2
    BY <1>2, <2>2
  <2>4. \A u \in Threads : \A i, d, p : Waits(u, i, d, p)' <=>
          IF u = t /\ i \in Nat /\ i >= k
            THEN \/ i = k /\ d = "unref" /\ p = o
                 \/ i = k + 1 /\ d = "unref" /\ p = o
                 \/ i = k + 2 /\ d = "disown" /\ p = o
            ELSE Waits(u, i, d, p)
    BY <1>2, <2>2, Replaced3
  <2> QED
    BY <1>2, <1>6, <2>2, <2>3, <2>4 DEF Takes
<1>8. ~Pending("disown", o)
  <2>1. ASSUME NEW u \in Threads, NEW i, Waits(u, i, "disown", o)
        PROVE  FALSE
    <3>1. FileOf[u] = FileOf[t]
      BY <1>5, <2>1 DEF IInv, Structure, Typed, OpState
    <3>2. todo[u] # <<>>
      <4>1. Len(todo[u]) # 0
        BY <2>1 DEF IInv, Structure, Typed
      <4> QED
        BY <4>1
    <3>3. u = t
      BY <1>2, <1>3, <3>1, <3>2 DEF IInv, Closing
    <3> QED
      BY <1>6, <2>1, <3>3
  <2> QED
    BY <2>1, PendingIs
<1>9. \A p \in Objs : Waits(t, k, "clean", slot[p]) => p = o
  <2> SUFFICES ASSUME NEW p \in Objs, Waits(t, k, "clean", slot[p])
               PROVE  p = o
    OBVIOUS
  <2>1. slot[p] = s /\ s # Null
    BY <1>2, <1>3, WaitsOne, ObjsAssumption
  <2> QED
    BY <1>1, <2>1 DEF IInv, Tables
<1> QED
  BY <1>2, <1>4, <1>5, <1>7, <1>8, <1>9, GivesUpIInv

-----------------------------------------------------------------------------
(* Mappings of a channel                                                   *)

\* The mappings of c by f change by one, and no others.
LEMMA MapsChange ==
  ASSUME TypeOK, NEW f \in Files, NEW c \in Chans, NEW n \in 0 .. MaxMaps,
         maps' = [maps EXCEPT ![f][c] = n]
  PROVE  /\ maps' \in [Files -> [Chans -> 0 .. MaxMaps]] /\ Mappings(f, c)' = 1 .. n
         /\ maps'[f][c] = n
         /\ \A g \in Files, d \in Chans : g # f \/ d # c =>
              Mappings(g, d)' = Mappings(g, d) /\ maps'[g][d] = maps[g][d]
<1>1. maps \in [Files -> [Chans -> 0 .. MaxMaps]]
  BY DEF TypeOK
<1>2. maps' \in [Files -> [Chans -> 0 .. MaxMaps]] /\ maps'[f][c] = n
  BY <1>1
<1>3. ASSUME NEW g \in Files, NEW d \in Chans, g # f \/ d # c
      PROVE  maps'[g][d] = maps[g][d]
  BY <1>1, <1>3
<1> QED
  BY <1>2, <1>3 DEF Mappings

\* The number of mappings.
LEMMA MapsInt ==
  ASSUME TypeOK, NEW f \in Files, NEW c \in Chans
  PROVE  maps[f][c] \in Nat /\ maps[f][c] <= MaxMaps /\ MaxMaps \in Nat
<1>1. maps \in [Files -> [Chans -> 0 .. MaxMaps]]
  BY DEF TypeOK
<1> QED
  BY <1>1, ObjsAssumption

\* The reference of a mapping becomes the unref of its close.
LEMMA VmCloseIInv ==
  ASSUME IInv, NEW t \in Threads, NEW c \in Chans, VmClose(t, c)
  PROVE  IInv'
<1>1. PICK f, m : f = FileOf[t] /\ m = maps[f][c]
  OBVIOUS
<1>2. /\ Idle(t) /\ m > 0 /\ f \in Files /\ m \in Nat /\ m - 1 \in 0 .. MaxMaps
      /\ maps' = [maps EXCEPT ![f][c] = m - 1]
      /\ todo' = [todo EXCEPT ![t] = <<Op("unref", c)>>]
      /\ UNCHANGED <<table, st, ref, slot, filp, vspace, mem, handle, open>>
  <2>1. f \in Files
    BY <1>1, ObjsAssumption
  <2>2. m \in Nat /\ m <= MaxMaps /\ MaxMaps \in Nat
    BY <1>1, <2>1, MapsInt DEF IInv
  <2> QED
    BY <1>1, <2>1, <2>2 DEF VmClose, Start
<1>3. /\ maps' \in [Files -> [Chans -> 0 .. MaxMaps]] /\ Mappings(f, c)' = 1 .. m - 1
      /\ maps'[f][c] = m - 1
      /\ \A g \in Files, d \in Chans : g # f \/ d # c =>
              Mappings(g, d)' = Mappings(g, d) /\ maps'[g][d] = maps[g][d]
  BY <1>2, MapsChange, ZenonT(40) DEF IInv
<1>4. FileOf[t] \in open /\ todo[t] = <<>> /\ \A i, d, p : ~Waits(t, i, d, p)
  BY <1>2, IdleWaits
<1>5. c \in Objs /\ Live(c) /\ ~Pending("own", c)
  <2>1. Live(c) /\ c \in Objs
    BY <1>1, <1>2 DEF IInv, Holding, Objs
  <2>2. ASSUME NEW u \in Threads, NEW i, Waits(u, i, "own", c)
        PROVE  FALSE
    BY <1>1, <1>2, <2>1, <2>2 DEF IInv, Structure, Typed, OwnState
  <2> QED
    BY <2>1, <2>2, PendingIs
<1>6. Takes(t, 1, c, 1, "none")
  <2>1. <<Op("unref", c)>> \in Seq(OpSet)
    BY <1>5, OpTyped DEF Ops
  <2>2. /\ Replaced(t, 1, <<Op("unref", c)>>)
        /\ todo' \in [Threads -> Seq(OpSet)] /\ todo'[t] = <<Op("unref", c)>>
        /\ \A u \in Threads : u # t => todo'[u] = todo[u]
    BY <1>2, <2>1, SetReplaces DEF IInv
  <2>3. Len(todo'[t]) = 1
    BY <2>2
  <2>4. \A u \in Threads : \A i, d, p : Waits(u, i, d, p)' <=>
          IF u = t /\ i \in Nat /\ i >= 1
            THEN i = 1 /\ d = "unref" /\ p = c
            ELSE Waits(u, i, d, p)
    <3>1. Replaced(t, 1, <<Op("unref", c)>>) /\ 1 \in Nat
      BY <2>2
    <3> QED
      BY <3>1, Replaced1
  <2> QED
    BY <1>4, <2>2, <2>3, <2>4 DEF Takes
<1>7. Structure'
  BY <1>2, <1>5, <1>6, TakesStructure
<1>8. \A g \in Files, d \in Chans : maps[g][d] = 0 => maps'[g][d] = 0
  BY <1>1, <1>2, <1>3
<1>9. OwnState' /\ OpState' /\ Tables' /\ Memory' /\ Closing' /\ SameOps({"kfree"})
  BY <1>2, <1>4, <1>5, <1>6, <1>8, TakesStates
<1>10. TypeOK'
  BY <1>2, <1>3, <1>6 DEF IInv, TypeOK, Takes, OpSet
<1>11. /\ \A p : (Live(p)' <=> Live(p)) /\ (Owned(p)' <=> Owned(p))
       /\ \A d, p : Within(d, p)' <=> Within(d, p)
  BY <1>2, <1>5, <1>6, TakesRefers
<1>12. Holding'
  <2>1. \A g \in Files, d \in Chans : maps'[g][d] > 0 => maps[g][d] > 0
    <3> SUFFICES ASSUME NEW g \in Files, NEW d \in Chans, maps'[g][d] > 0
                 PROVE  maps[g][d] > 0
      OBVIOUS
    <3>1. CASE g = f /\ d = c
      BY <1>1, <1>2, <3>1
    <3>2. CASE g # f \/ d # c
      BY <1>3, <3>2
    <3> QED
      BY <3>1, <3>2
  <2> QED
    BY <1>2, <1>11, <2>1 DEF IInv, Holding
<1>13. Counted'
  <2> SUFFICES ASSUME NEW p \in Objs, Live(p)
               PROVE  /\ IsFiniteSet(References(p)')
                      /\ ref'[p] = Cardinality(References(p)') /\ ref'[p] >= 1
    BY <1>11 DEF Counted
  <2>1. IsFiniteSet(References(p)) /\ ref[p] = Cardinality(References(p)) /\ ref[p] >= 1 /\ ref' = ref
    BY <1>2 DEF IInv, Counted
  <2>2. \A u \in Threads : \A i : Waits(u, i, "unref", p)' <=>
          Waits(u, i, "unref", p) \/ (u = t /\ i = 1 /\ p = c)
    BY <1>4, <1>6 DEF Takes
  <2>3. CASE p = c
    <3>1. PICK x, y : x = <<"map", f, m>> /\ y = <<"unref", t, 1>>
      OBVIOUS
    <3>2. Mappings(f, c)' = Mappings(f, c) \ {m} /\ m \in Mappings(f, c)
      BY <1>1, <1>2, <1>3 DEF Mappings
    <3>3. \A g \in Files : g # f => Mappings(g, c)' = Mappings(g, c)
      BY <1>3
    <3>4. \A z : Refers(z, c)' <=> (Refers(z, c) /\ z # x) \/ z = y
      BY <1>11, <2>2, <2>3, <3>1, <3>2, <3>3 DEF Refers
    <3>5. Refers(x, c) /\ ~Refers(y, c)
      BY <1>2, <1>4, <3>1, <3>2 DEF Refers
    <3>6. x \in References(c) /\ y \notin References(c)
      BY <3>5, ReferencesAre
    <3> QED
      BY <2>1, <2>3, <3>4, <3>6, Exchange
  <2>4. CASE p # c
    <3>1. \A z : Refers(z, p)' <=> Refers(z, p)
      BY <1>3, <1>11, <2>2, <2>4 DEF Refers
    <3>2. References(p)' = References(p)
      BY <3>1, ReferencesAre, ReferencesNext
    <3> QED
      BY <2>1, <3>2
  <2> QED
    BY <2>3, <2>4
<1> QED
  BY <1>7, <1>9, <1>10, <1>12, <1>13 DEF IInv

\* What Mmap and VmOpen do: one mapping of a live channel more.
LEMMA MapsMoreIInv ==
  ASSUME IInv, NEW f \in Files, NEW c \in Chans, f \in open, Live(c), ~Pending("own", c),
         maps[f][c] < MaxMaps,
         maps' = [maps EXCEPT ![f][c] = maps[f][c] + 1],
         ref' = [ref EXCEPT ![c] = @ + 1],
         UNCHANGED <<table, st, slot, filp, vspace, mem, handle, todo, open>>
  PROVE  IInv'
<1>1. PICK m : m = maps[f][c]
  OBVIOUS
<1>2. m \in Nat /\ m + 1 \in 0 .. MaxMaps /\ c \in Objs
  BY <1>1, MapsInt DEF IInv, Objs
<1>3. /\ maps' \in [Files -> [Chans -> 0 .. MaxMaps]] /\ Mappings(f, c)' = 1 .. m + 1
      /\ maps'[f][c] = m + 1
      /\ \A g \in Files, d \in Chans : g # f \/ d # c =>
              Mappings(g, d)' = Mappings(g, d) /\ maps'[g][d] = maps[g][d]
  BY <1>1, <1>2, MapsChange, ZenonT(40) DEF IInv
<1>4. /\ \A u, i, d, p : Waits(u, i, d, p)' <=> Waits(u, i, d, p)
      /\ \A d, p : Pending(d, p)' <=> Pending(d, p)
  BY DEF Waits, Pending
<1>5. /\ \A p : (Live(p)' <=> Live(p)) /\ (Dying(p)' <=> Dying(p)) /\ (Owned(p)' <=> Owned(p))
      /\ \A p : Bound(p)' <=> Bound(p)
      /\ \A d, p : Within(d, p)' <=> Within(d, p)
  <2>1. \A p : (Live(p)' <=> Live(p)) /\ (Dying(p)' <=> Dying(p)) /\ (Owned(p)' <=> Owned(p))
    BY <1>4 DEF Live, Dying, Owned
  <2> QED
    BY <1>4, <2>1, WithinIs, WithinNext DEF Bound
<1>6. Structure'
  <2>1. Typed' /\ Unique' /\ DyingZone'
    BY <1>4 DEF IInv, Structure, Typed, Unique, DyingZone
  <2>2. \A t, i, d, p : After(t, i, d, p)' <=> After(t, i, d, p)
    BY <1>4 DEF After
  <2>3. Making' /\ Backed'
    BY <1>4, <1>5 DEF IInv, Structure, Making, Backed
  <2>4. Following'
    BY <1>4, <2>2 DEF IInv, Structure, Following
  <2> QED
    BY <2>1, <2>3, <2>4 DEF Structure
<1>7. OwnState'
  <2> SUFFICES ASSUME NEW u \in Threads, NEW i \in Nat, NEW p \in Objs, Waits(u, i, "own", p)'
               PROVE  /\ ~Dying(p)' /\ filp'[p] = Null /\ ~Pending("unref", p)' /\ FileOf[u] \in open'
                      /\ p \in Vspaces => \A d \in Chans : vspace'[d] # p
                      /\ p \in Chans => \A g \in Files : maps'[g][p] = 0
    BY DEF OwnState
  <2>1. Waits(u, i, "own", p) /\ p # c
    BY <1>4, PendingIs
  <2>2. /\ ~Dying(p) /\ filp[p] = Null /\ ~Pending("unref", p) /\ FileOf[u] \in open
        /\ p \in Vspaces => \A d \in Chans : vspace[d] # p
        /\ p \in Chans => \A g \in Files : maps[g][p] = 0
    BY <2>1 DEF IInv, OwnState
  <2> QED
    BY <1>3, <1>4, <1>5, <2>1, <2>2
<1>8. OpState'
  BY <1>4, <1>5 DEF IInv, OpState
<1>9. Tables' /\ Memory' /\ Closing'
  BY <1>4, KeepTables, KeepMemory, KeepClosing DEF IInv, SameOps
<1>10. ref'[c] = ref[c] + 1 /\ ref[c] \in Nat /\ \A p \in Objs : p # c => ref'[p] = ref[p]
  BY <1>2 DEF IInv, TypeOK
<1>11. TypeOK'
  <2>1. ref' \in [Objs -> Nat]
    BY <1>10 DEF IInv, TypeOK
  <2> QED
    BY <1>3, <2>1 DEF IInv, TypeOK
<1>12. Holding'
  <2>1. \A g \in Files, d \in Chans : maps'[g][d] > 0 => maps[g][d] > 0 \/ (g = f /\ d = c)
    BY <1>3
  <2> QED
    BY <1>5, <2>1 DEF IInv, Holding
<1>13. Counted'
  <2> SUFFICES ASSUME NEW p \in Objs, Live(p)
               PROVE  /\ IsFiniteSet(References(p)')
                      /\ ref'[p] = Cardinality(References(p)') /\ ref'[p] >= 1
    BY <1>5 DEF Counted
  <2>1. IsFiniteSet(References(p)) /\ ref[p] = Cardinality(References(p)) /\ ref[p] >= 1
    BY DEF IInv, Counted
  <2>2. CASE p = c
    <3>1. PICK x : x = <<"map", f, m + 1>>
      OBVIOUS
    <3>2. Mappings(f, c)' = Mappings(f, c) \cup {m + 1} /\ m + 1 \notin Mappings(f, c)
      BY <1>1, <1>2, <1>3 DEF Mappings
    <3>3. \A g \in Files : g # f => Mappings(g, c)' = Mappings(g, c)
      BY <1>3
    <3>4. \A z : Refers(z, c)' <=> Refers(z, c) \/ z = x
      BY <1>4, <1>5, <3>1, <3>2, <3>3 DEF Refers
    <3>5. ~Refers(x, c)
      BY <3>1, <3>2 DEF Refers
    <3>6. x \notin References(c)
      BY <3>5, ReferencesAre
    <3>7. IsFiniteSet(References(c)') /\ Cardinality(References(c)') = Cardinality(References(c)) + 1
      BY <2>1, <2>2, <3>4, <3>6, OneMore
    <3> QED
      BY <1>10, <2>1, <2>2, <3>7
  <2>3. CASE p # c
    <3>1. \A z : Refers(z, p)' <=> Refers(z, p)
      BY <1>3, <1>4, <1>5, <2>3 DEF Refers
    <3>2. References(p)' = References(p)
      BY <3>1, ReferencesAre, ReferencesNext
    <3> QED
      BY <1>10, <2>1, <2>3, <3>2
  <2> QED
    BY <2>2, <2>3
<1> QED
  BY <1>6, <1>7, <1>8, <1>9, <1>11, <1>12, <1>13 DEF IInv

\* pscnv_chan_mmap: the reference of the lookup becomes the one of the mapping.
LEMMA MmapIInv ==
  ASSUME IInv, NEW t \in Threads, NEW s \in Slots, Mmap(t, s)
  PROVE  IInv'
<1>1. PICK f, c : f = FileOf[t] /\ c = table[s]
  OBVIOUS
<1>2. /\ Idle(t) /\ s[1] = "chan" /\ Found(f, s) /\ maps[f][c] < MaxMaps
      /\ maps' = [maps EXCEPT ![f][c] = @ + 1]
      /\ ref' = [ref EXCEPT ![c] = @ + 1]
      /\ UNCHANGED <<table, st, slot, filp, vspace, mem, handle, todo, open>>
  BY <1>1 DEF Mmap, Get
<1>3. c \in Objs /\ Live(c) /\ ~Pending("own", c) /\ s[1] = Kind(c)
  BY <1>1, <1>2, FoundIs
<1>4. c \in Chans /\ f \in Files /\ f \in open
  BY <1>1, <1>2, <1>3, ObjsAssumption DEF Kind, Idle
<1> QED
  BY <1>2, <1>3, <1>4, MapsMoreIInv

\* pscnv_chan_vm_open: a mapping and its reference.
LEMMA VmOpenIInv ==
  ASSUME IInv, NEW f \in Files, NEW c \in Chans, VmOpen(f, c)
  PROVE  IInv'
<1>1. /\ maps[f][c] > 0 /\ maps[f][c] < MaxMaps
  BY MapsInt DEF VmOpen, IInv
<1>2. /\ maps' = [maps EXCEPT ![f][c] = @ + 1]
      /\ ref' = [ref EXCEPT ![c] = @ + 1]
      /\ UNCHANGED <<table, st, slot, filp, vspace, mem, handle, todo, open>>
  BY DEF VmOpen
<1>3. Live(c) /\ f \in open /\ c \in Objs
  BY <1>1 DEF IInv, Holding, Objs
<1>4. ~Pending("own", c)
  <2>1. ASSUME NEW u \in Threads, NEW i, Waits(u, i, "own", c)
        PROVE  FALSE
    BY <1>1, <1>3, <2>1 DEF IInv, Structure, Typed, OwnState
  <2> QED
    BY <2>1, PendingIs
<1> QED
  BY <1>1, <1>2, <1>3, <1>4, MapsMoreIInv

-----------------------------------------------------------------------------
(* Sequences that are written out                                          *)

\* Sequences are equal when their elements are.
LEMMA SeqEq ==
  ASSUME NEW S, NEW s \in Seq(S), NEW r \in Seq(S), Len(s) = Len(r), \A i \in 1 .. Len(r) : s[i] = r[i]
  PROVE  s = r
  OBVIOUS

\* The elements of a concatenation; and those of short ones.
LEMMA Joined ==
  ASSUME NEW S, NEW s \in Seq(S), NEW q \in Seq(S), NEW r \in Seq(S), Len(r) = Len(s) + Len(q),
         \A i \in 1 .. Len(s) : r[i] = s[i], \A i \in 1 .. Len(q) : r[Len(s) + i] = q[i]
  PROVE  s \o q = r
<1>1. s \o q \in Seq(S) /\ Len(s \o q) = Len(r) /\ Len(s) \in Nat /\ Len(q) \in Nat
  OBVIOUS
<1>2. ASSUME NEW i \in 1 .. Len(r)
      PROVE  (s \o q)[i] = r[i]
  <2>1. CASE i <= Len(s)
    BY <1>1, <2>1
  <2>2. CASE i > Len(s)
    <3>1. i - Len(s) \in 1 .. Len(q) /\ Len(s) + (i - Len(s)) = i
      BY <1>1, <2>2
    <3>2. (s \o q)[i] = q[i - Len(s)]
      BY <1>1, <2>2
    <3>3. r[Len(s) + (i - Len(s))] = q[i - Len(s)]
      BY <3>1
    <3> QED
      BY <3>1, <3>2, <3>3
  <2> QED
    BY <1>1, <2>1, <2>2
<1> QED
  BY <1>1, <1>2, SeqEq

LEMMA Join11 ==
  ASSUME NEW S, NEW a \in S, NEW b \in S
  PROVE  <<a>> \o <<b>> = <<a, b>>
<1>1. PICK s, q, r : s = <<a>> /\ q = <<b>> /\ r = <<a, b>>
  OBVIOUS
<1>2. /\ s \in Seq(S) /\ q \in Seq(S) /\ r \in Seq(S) /\ Len(s) = 1 /\ Len(q) = 1 /\ Len(r) = 2
      /\ s[1] = a
      /\ q[1] = b
      /\ r[1] = a /\ r[2] = b
  BY <1>1
<1>3. \A i \in 1 .. Len(s) : r[i] = s[i]
  BY <1>2
<1>4. \A i \in 1 .. Len(q) : r[Len(s) + i] = q[i]
  BY <1>2
<1>5. s \in Seq(S) /\ q \in Seq(S) /\ r \in Seq(S) /\ Len(r) = Len(s) + Len(q)
  BY <1>2
<1>6. s \o q = r
  BY <1>3, <1>4, <1>5, Joined, Zenon
<1> QED
  BY <1>1, <1>6, Zenon

LEMMA Join12 ==
  ASSUME NEW S, NEW a \in S, NEW b \in S, NEW c \in S
  PROVE  <<a>> \o <<b, c>> = <<a, b, c>>
<1>1. PICK s, q, r : s = <<a>> /\ q = <<b, c>> /\ r = <<a, b, c>>
  OBVIOUS
<1>2. /\ s \in Seq(S) /\ q \in Seq(S) /\ r \in Seq(S) /\ Len(s) = 1 /\ Len(q) = 2 /\ Len(r) = 3
      /\ s[1] = a
      /\ q[1] = b /\ q[2] = c
      /\ r[1] = a /\ r[2] = b /\ r[3] = c
  BY <1>1
<1>3. \A i \in 1 .. Len(s) : r[i] = s[i]
  BY <1>2
<1>4. \A i \in 1 .. Len(q) : r[Len(s) + i] = q[i]
  BY <1>2
<1>5. s \in Seq(S) /\ q \in Seq(S) /\ r \in Seq(S) /\ Len(r) = Len(s) + Len(q)
  BY <1>2
<1>6. s \o q = r
  BY <1>3, <1>4, <1>5, Joined, Zenon
<1> QED
  BY <1>1, <1>6, Zenon

LEMMA Join22 ==
  ASSUME NEW S, NEW a \in S, NEW b \in S, NEW c \in S, NEW d \in S
  PROVE  <<a, b>> \o <<c, d>> = <<a, b, c, d>>
<1>1. PICK s, q, r : s = <<a, b>> /\ q = <<c, d>> /\ r = <<a, b, c, d>>
  OBVIOUS
<1>2. /\ s \in Seq(S) /\ q \in Seq(S) /\ r \in Seq(S) /\ Len(s) = 2 /\ Len(q) = 2 /\ Len(r) = 4
      /\ s[1] = a /\ s[2] = b
      /\ q[1] = c /\ q[2] = d
      /\ r[1] = a /\ r[2] = b /\ r[3] = c /\ r[4] = d
  BY <1>1
<1>3. \A i \in 1 .. Len(s) : r[i] = s[i]
  BY <1>2
<1>4. \A i \in 1 .. Len(q) : r[Len(s) + i] = q[i]
  BY <1>2
<1>5. s \in Seq(S) /\ q \in Seq(S) /\ r \in Seq(S) /\ Len(r) = Len(s) + Len(q)
  BY <1>2
<1>6. s \o q = r
  BY <1>3, <1>4, <1>5, Joined, Zenon
<1> QED
  BY <1>1, <1>6, Zenon

LEMMA Join24 ==
  ASSUME NEW S, NEW a \in S, NEW b \in S, NEW c \in S, NEW d \in S, NEW e \in S, NEW f \in S
  PROVE  <<a, b>> \o <<c, d, e, f>> = <<a, b, c, d, e, f>>
<1>1. PICK s, q, r : s = <<a, b>> /\ q = <<c, d, e, f>> /\ r = <<a, b, c, d, e, f>>
  OBVIOUS
<1>2. /\ s \in Seq(S) /\ q \in Seq(S) /\ r \in Seq(S) /\ Len(s) = 2 /\ Len(q) = 4 /\ Len(r) = 6
      /\ s[1] = a /\ s[2] = b
      /\ q[1] = c /\ q[2] = d /\ q[3] = e /\ q[4] = f
      /\ r[1] = a /\ r[2] = b /\ r[3] = c /\ r[4] = d /\ r[5] = e /\ r[6] = f
  BY <1>1
<1>3. \A i \in 1 .. Len(s) : r[i] = s[i]
  BY <1>2
<1>4. \A i \in 1 .. Len(q) : r[Len(s) + i] = q[i]
  BY <1>2
<1>5. s \in Seq(S) /\ q \in Seq(S) /\ r \in Seq(S) /\ Len(r) = Len(s) + Len(q)
  BY <1>2
<1>6. s \o q = r
  BY <1>3, <1>4, <1>5, Joined, Zenon
<1> QED
  BY <1>1, <1>6, Zenon

LEMMA JoinNone ==
  ASSUME NEW S, NEW s \in Seq(S)
  PROVE  s \o <<>> = s /\ <<>> \o s = s
<1>1. PICK e : e = <<>>
  OBVIOUS
<1>2. e \in Seq(S) /\ Len(e) = 0 /\ Len(s) \in Nat
  BY <1>1
<1>3. Len(s) = Len(s) + Len(e) /\ Len(s) = Len(e) + Len(s)
      /\ (\A i \in 1 .. Len(e) : s[Len(s) + i] = e[i]) /\ (\A i \in 1 .. Len(e) : s[i] = e[i])
      /\ \A i \in 1 .. Len(s) : s[Len(e) + i] = s[i]
  BY <1>2
<1>4. s \o e = s /\ e \o s = s
  BY <1>2, <1>3, Joined, Zenon
<1> QED
  BY <1>1, <1>4, Zenon

-----------------------------------------------------------------------------
(* Undoing a half made object                                              *)

\* The operations that undo an object, one by one.
LEMMA UndoIs ==
  ASSUME NEW o \in Objs, o \in Chans => vspace[o] \in Objs
  PROVE  /\ o \in Chans =>
              /\ Undo(o, <<>>) = <<Op("unref", vspace[o]), Op("kfree", o), Op("unref", vspace[o])>>
              /\ Undo(o, <<Op("unbind", o)>>) =
                   <<Op("unref", vspace[o]), Op("unbind", o), Op("kfree", o), Op("unref", vspace[o])>>
              /\ <<Op("clear", o), Op("drop", o)>> \o Undo(o, <<Op("unbind", o)>>) =
                   <<Op("clear", o), Op("drop", o), Op("unref", vspace[o]), Op("unbind", o),
                     Op("kfree", o), Op("unref", vspace[o])>>
         /\ o \notin Chans =>
              /\ Undo(o, <<>>) = <<Op("kfree", o)>>
              /\ Undo(o, <<Op("unbind", o)>>) = <<Op("unbind", o), Op("kfree", o)>>
<1>1. PICK k, b, c, d, u : /\ k = Op("kfree", o) /\ b = Op("unbind", o) /\ u = Op("unref", vspace[o])
                           /\ c = Op("clear", o) /\ d = Op("drop", o)
  OBVIOUS
<1>2. k \in OpSet /\ b \in OpSet /\ c \in OpSet /\ d \in OpSet /\ (o \in Chans => u \in OpSet)
  BY <1>1, OpTyped DEF Ops
<1>3. CASE o \in Chans
  <2>1. Undo(o, <<>>) = <<u>> \o <<>> \o <<k, u>> /\ Undo(o, <<b>>) = <<u>> \o <<b>> \o <<k, u>>
    BY <1>1, <1>3 DEF Undo
  <2>2. <<u>> \in Seq(OpSet)
    BY <1>2, <1>3
  <2>3. <<u>> \o <<>> = <<u>> /\ <<u>> \o <<b>> = <<u, b>>
    <3>1. <<u>> \o <<>> = <<u>>
      BY <2>2, JoinNone, Zenon
    <3>2. u \in OpSet /\ b \in OpSet
      BY <1>2, <1>3
    <3> QED
      BY <3>1, <3>2, Join11, Zenon
  <2>4. <<u>> \o <<k, u>> = <<u, k, u>>
    BY <1>2, <1>3, Join12, Zenon
  <2>5. <<u, b>> \o <<k, u>> = <<u, b, k, u>>
    BY <1>2, <1>3, Join22, ZenonT(40)
  <2>6. <<c, d>> \o <<u, b, k, u>> = <<c, d, u, b, k, u>>
    <3>1. c \in OpSet /\ d \in OpSet /\ u \in OpSet /\ b \in OpSet /\ k \in OpSet
      BY <1>2, <1>3
    <3> QED
      BY <3>1, Join24
  <2> QED
    BY <1>1, <1>3, <2>1, <2>3, <2>4, <2>5, <2>6, Zenon
<1>4. CASE o \notin Chans
  <2>1. Undo(o, <<>>) = <<>> \o <<k>> /\ Undo(o, <<b>>) = <<b>> \o <<k>>
    BY <1>1, <1>4 DEF Undo
  <2>2. <<k>> \in Seq(OpSet)
    BY <1>2
  <2>3. <<>> \o <<k>> = <<k>> /\ <<b>> \o <<k>> = <<b, k>>
    BY <1>2, <2>2, JoinNone, Join11, Zenon
  <2> QED
    BY <1>1, <1>4, <2>1, <2>3, Zenon
<1> QED
  BY <1>3, <1>4

\* All that a thread has to run while it makes an object.
LEMMA MakerTodo ==
  ASSUME IInv, NEW t \in Threads, NEW k \in Nat, \A i, e, p : Waits(t, i, e, p) => i \in 1 .. k,
         NEW o, NEW d, d = "bind" \/ d = "setup" \/ d = "late", Waits(t, k, d, o)
  PROVE  /\ o \in Objs /\ st[o] = "live" /\ ~Dying(o) /\ Waits(t, 1, "own", o) /\ todo[t] # <<>>
         /\ o \in Chans =>
              /\ vspace[o] \in Vspaces /\ Live(vspace[o]) /\ Waits(t, 2, "unref", vspace[o])
              /\ \A i, e, p : Waits(t, i, e, p) =>
                   \/ i = 2 /\ e = "unref" /\ p = vspace[o]
                   \/ e \in {"bind", "setup", "handle", "late", "own"} /\ p = o
              /\ ~Waits(t, 7, "ref", vspace[o])
         /\ o \notin Chans =>
              \A i, e, p : Waits(t, i, e, p) => e \in {"bind", "setup", "own"} /\ p = o
         /\ d \in {"setup", "late"} => slot[o] # Null
         /\ d \in {"bind", "setup"} => ~mem[o]
         /\ d = "late" => mem[o] /\ o \in Chans
<1>1. o \in Objs /\ k \in Nat /\ st[o] = "live" /\ ~Dying(o) /\ Waits(t, 1, "own", o) /\ filp[o] = Null
  BY MakerOwns DEF IInv, Structure, Typed
<1>2. todo[t] # <<>>
  <2>1. Len(todo[t]) # 0
    BY <1>1 DEF IInv, Structure, Typed
  <2> QED
    BY <2>1
<1>3. \A i, e, p : Waits(t, i, e, p) => i \in Nat /\ i >= 1 /\ i <= k
  BY <1>1 DEF IInv, Structure, Typed
<1>4. CASE o \in Chans
  <2>1. /\ d = "bind" => k = 6 /\ Waits(t, 5, "setup", o)
        /\ d = "setup" => k = 5
        /\ d = "late" => k = 3
        /\ k \in Nat
    <3>1. CASE d = "bind"
      BY <1>1, <1>4, <3>1 DEF IInv, Structure, Making
    <3>2. CASE d = "setup"
      BY <1>1, <1>4, <3>2 DEF IInv, Structure, Making
    <3>3. CASE d = "late"
      BY <1>1, <1>4, <3>3 DEF IInv, Structure, Making
    <3> QED
      BY <1>1, <3>1, <3>2, <3>3
  <2>2. k >= 5 => Waits(t, 5, "setup", o) /\ Waits(t, 4, "handle", o)
    BY <1>1, <1>4, <2>1 DEF IInv, Structure, Making
  <2>3. Waits(t, 3, "late", o)
    BY <1>1, <1>4, <2>1, <2>2 DEF IInv, Structure, Making
  <2>4. Waits(t, 2, "unref", vspace[o])
    BY <1>1, <2>3 DEF IInv, Structure, Making
  <2>5. \A i, e, p : Waits(t, i, e, p) => i = 1 \/ i = 2 \/ i = 3 \/ ((i = 4 \/ i = 5) /\ k >= 5) \/ (i = 6 /\ k = 6)
    BY <1>3, <2>1
  <2>6. k = 6 => Waits(t, 6, "bind", o)
    BY <2>1
  <2>7. ASSUME NEW i, NEW e, NEW p, Waits(t, i, e, p)
        PROVE  \/ i = 2 /\ e = "unref" /\ p = vspace[o]
               \/ e \in {"bind", "setup", "handle", "late", "own"} /\ p = o
    <3>1. CASE i = 1
      BY <1>1, <2>7, <3>1, WaitsOne
    <3>2. CASE i = 2
      BY <2>4, <2>7, <3>2, WaitsOne
    <3>3. CASE i = 3
      BY <2>3, <2>7, <3>3, WaitsOne
    <3>4. CASE (i = 4 \/ i = 5) /\ k >= 5
      BY <2>2, <2>7, <3>4, WaitsOne
    <3>5. CASE i = 6 /\ k = 6
      BY <2>6, <2>7, <3>5, WaitsOne
    <3> QED
      BY <2>5, <2>7, <3>1, <3>2, <3>3, <3>4, <3>5
  <2>8. vspace[o] \in Vspaces /\ Live(vspace[o])
    BY <1>1, <1>4 DEF IInv, Holding, Live, Dying
  <2>9. ~Waits(t, 7, "ref", vspace[o])
    BY <1>3, <2>1
  <2>10. d \in {"setup", "late"} => slot[o] # Null
    <3> SUFFICES ASSUME NEW u \in Threads, NEW i, Waits(u, i, "bind", o), d \in {"setup", "late"}
                 PROVE  FALSE
      BY <1>1, PendingIs DEF IInv, Tables
    <3>1. u = t
      BY <1>1, MakerAlone DEF IInv
    <3>2. i = 6
      BY <1>1, <1>4 DEF IInv, Structure, Typed, Making
    <3> QED
      BY <1>3, <2>1, <3>1, <3>2
  <2>11. d \in {"bind", "setup"} => ~mem[o]
    BY <1>1, <2>1 DEF IInv, OpState
  <2>12. d = "late" => mem[o]
    <3> SUFFICES ASSUME NEW u \in Threads, NEW i, Waits(u, i, "setup", o), d = "late"
                 PROVE  FALSE
      BY <1>1, PendingIs DEF IInv, Memory, Live, Dying
    <3>1. u = t
      BY <1>1, MakerAlone DEF IInv
    <3>2. i = 5
      BY <1>1, <1>4 DEF IInv, Structure, Typed, Making
    <3> QED
      BY <1>3, <2>1, <3>1, <3>2
  <2> QED
    BY <1>1, <1>2, <1>4, <2>4, <2>7, <2>8, <2>9, <2>10, <2>11, <2>12
<1>5. CASE o \notin Chans
  <2>1. /\ d # "late"
        /\ d = "bind" => k = 3 /\ Waits(t, 2, "setup", o)
        /\ d = "setup" => k = 2
        /\ k \in Nat
    <3>1. CASE d = "bind"
      BY <1>1, <1>5, <3>1 DEF IInv, Structure, Making
    <3>2. CASE d = "setup"
      BY <1>1, <1>5, <3>2 DEF IInv, Structure, Making
    <3>3. CASE d = "late"
      BY <1>1, <1>5, <3>3 DEF IInv, Structure, Making
    <3> QED
      BY <1>1, <3>1, <3>2, <3>3
  <2>2. Waits(t, 2, "setup", o) /\ (k = 3 => Waits(t, 3, "bind", o))
    BY <2>1
  <2>3. \A i, e, p : Waits(t, i, e, p) => i = 1 \/ i = 2 \/ (i = 3 /\ k = 3)
    BY <1>3, <2>1
  <2>4. ASSUME NEW i, NEW e, NEW p, Waits(t, i, e, p)
        PROVE  e \in {"bind", "setup", "own"} /\ p = o
    <3>1. CASE i = 1
      BY <1>1, <2>4, <3>1, WaitsOne
    <3>2. CASE i = 2
      BY <2>2, <2>4, <3>2, WaitsOne
    <3>3. CASE i = 3 /\ k = 3
      BY <2>2, <2>4, <3>3, WaitsOne
    <3> QED
      BY <2>3, <2>4, <3>1, <3>2, <3>3
  <2>5. d = "setup" => slot[o] # Null
    <3> SUFFICES ASSUME NEW u \in Threads, NEW i, Waits(u, i, "bind", o), d = "setup"
                 PROVE  FALSE
      BY <1>1, PendingIs DEF IInv, Tables
    <3>1. u = t
      BY <1>1, MakerAlone DEF IInv
    <3>2. i = 3
      BY <1>1, <1>5 DEF IInv, Structure, Typed, Making
    <3> QED
      BY <1>3, <2>1, <3>1, <3>2
  <2>6. ~mem[o]
    BY <1>1, <2>2 DEF IInv, OpState
  <2> QED
    BY <1>1, <1>2, <1>5, <2>1, <2>4, <2>5, <2>6
<1> QED
  BY <1>4, <1>5

\* Thread t undoes channel c, which it has bound if m is 4 and which has its
\* memory if l.
UndoesChan(t, c, v, m, l) ==
  /\ t \in Threads /\ m \in {3, 4} /\ (l => m = 4)
  /\ \A u \in Threads : \A i, d, p :
       Waits(u, i, d, p)' <=>
         \/ Waits(u, i, d, p) /\ u # t
         \/ u = t /\ i = 1 /\ d = "unref" /\ p = v
         \/ u = t /\ i = 2 /\ d = "kfree" /\ p = c
         \/ u = t /\ i = 3 /\ m = 4 /\ d = "unbind" /\ p = c
         \/ u = t /\ i = m /\ d = "unref" /\ p = v
         \/ u = t /\ i = 5 /\ l /\ d = "drop" /\ p = c
         \/ u = t /\ i = 6 /\ l /\ d = "clear" /\ p = c
  /\ todo' \in [Threads -> Seq(OpSet)] /\ Len(todo'[t]) = IF l THEN 6 ELSE m
  /\ \A u \in Threads : u # t => todo'[u] = todo[u]

\* A step of pscnv_chan_new fails.
LEMMA ChanUndoIInv ==
  ASSUME IInv, NEW t \in Threads, NEW k \in Nat, \A i, e, p : Waits(t, i, e, p) => i \in 1 .. k,
         NEW c \in Chans, NEW v, v = vspace[c],
         NEW d, d = "bind" \/ d = "setup" \/ d = "late", Waits(t, k, d, c), NEW m, NEW l,
         UndoesChan(t, c, v, m, l), d = "bind" => slot[c] = Null,
         m = 4 <=> d \in {"setup", "late"}, l <=> d = "late",
         UNCHANGED <<table, st, ref, slot, filp, vspace, mem, handle, maps, open>>
  PROVE  IInv'
<1>1. /\ c \in Objs /\ st[c] = "live" /\ ~Dying(c) /\ Waits(t, 1, "own", c) /\ todo[t] # <<>>
      /\ v \in Vspaces /\ Live(v) /\ Waits(t, 2, "unref", v)
      /\ \A i, e, p : Waits(t, i, e, p) =>
           \/ i = 2 /\ e = "unref" /\ p = v
           \/ e \in {"bind", "setup", "handle", "late", "own"} /\ p = c
      /\ ~Waits(t, 7, "ref", v)
      /\ (m = 4 <=> slot[c] # Null) /\ (l <=> mem[c])
  BY MakerTodo
<1>2. v \in Objs /\ v # c /\ v \notin Chans /\ st[v] = "live" /\ ~Dying(v)
  BY <1>1, ObjsAssumption DEF Objs, Live, Dying
<1>3. \A u \in Threads : \A i, e : Waits(u, i, e, c) => u = t \/ e = "clean"
  BY <1>1, MakerAlone DEF IInv
<1>4. /\ \A u \in Threads : \A i, e, p : Waits(u, i, e, p)' <=>
           \/ Waits(u, i, e, p) /\ u # t
           \/ u = t /\ i = 1 /\ e = "unref" /\ p = v
           \/ u = t /\ i = 2 /\ e = "kfree" /\ p = c
           \/ u = t /\ i = 3 /\ m = 4 /\ e = "unbind" /\ p = c
           \/ u = t /\ i = m /\ e = "unref" /\ p = v
           \/ u = t /\ i = 5 /\ l /\ e = "drop" /\ p = c
           \/ u = t /\ i = 6 /\ l /\ e = "clear" /\ p = c
      /\ (m = 3 \/ m = 4) /\ (l => m = 4) /\ Len(todo'[t]) = IF l THEN 6 ELSE m
      /\ \A u \in Threads : u # t => todo'[u] = todo[u]
  BY DEF UndoesChan
<1>5. /\ \A e, p : p # c /\ e # "clean" => (Pending(e, p)' <=> Pending(e, p))
      /\ Pending("kfree", c)'
      /\ (slot[c] # Null => Pending("unbind", c)')
      /\ (mem[c] => Pending("drop", c)' /\ Pending("clear", c)')
  <2>1. Pending("unref", v) /\ Pending("unref", v)'
    BY <1>1, <1>4, PendingIs, PendingNext
  <2>2. ASSUME NEW e, NEW p, p # c, e # "unref" \/ p # v
        PROVE  Pending(e, p)' <=> Pending(e, p)
    <3>1. \A u \in Threads : \A i : Waits(u, i, e, p)' <=> Waits(u, i, e, p)
      BY <1>1, <1>4, <2>2
    <3> QED
      BY <3>1, PendingIs, PendingNext
  <2>3. Pending("kfree", c)'
    BY <1>4, PendingNext
  <2>4. m = 4 => Waits(t, 3, "unbind", c)'
    BY <1>4
  <2>5. l => Waits(t, 5, "drop", c)' /\ Waits(t, 6, "clear", c)'
    BY <1>4
  <2> QED
    BY <1>1, <2>1, <2>2, <2>3, <2>4, <2>5, PendingNext
<1>6. /\ \A p : p # c => (Live(p)' <=> Live(p)) /\ (Dying(p)' <=> Dying(p)) /\ (Owned(p)' <=> Owned(p))
      /\ Dying(c)' /\ ~Live(c)' /\ Live(c)
      /\ \A p : Bound(p)' <=> Bound(p)
  BY <1>1, <1>5 DEF Live, Dying, Owned, Bound
<1>7. \A u \in Threads : \A i, e, p : u # t => (Waits(u, i, e, p)' <=> Waits(u, i, e, p))
  BY <1>4
<1>8. Typed'
  BY <1>1, <1>2, <1>4 DEF IInv, Structure, Typed, Ops
<1>9. Making'
  <2>1. \A i, e, p : Waits(t, i, e, p)' => e \notin {"ref", "bind", "setup", "handle", "late", "own"}
    BY <1>4
  <2>2. \A p \in Chans : vspace'[p] = vspace[p]
    OBVIOUS
  <2> QED
    BY <1>7, <2>1, <2>2 DEF IInv, Structure, Making
<1>10. Following'
  <2> SUFFICES ASSUME NEW u \in Threads, NEW i \in Nat, NEW p \in Objs
               PROVE
    /\ Waits(u, i, "use", p)' => After(u, i, "unref", p)' \/ After(u, i, "drop", p)'
    /\ Waits(u, i, "disown", p)' =>
         /\ i >= 3 /\ i = Len(todo'[u])
         /\ Waits(u, i - 1, "unref", p)' /\ Waits(u, i - 2, "unref", p)'
    /\ Waits(u, i, "clear", p)' => p \in Chans /\ After(u, i, "drop", p)'
    /\ Waits(u, i, "drop", p)' => After(u, i, "unbind", p)'
    /\ Waits(u, i, "drop", p)' /\ p \in Chans => After(u, i, "unref", vspace[p])'
    /\ Waits(u, i, "unbind", p)' => After(u, i, "kfree", p)'
    BY DEF Following
  <2>1. CASE u # t
    <3>1. \A g, h : After(u, i, g, h)' <=> After(u, i, g, h)
      BY <1>7, <2>1 DEF After
    <3> QED
      BY <1>4, <1>7, <2>1, <3>1 DEF IInv, Structure, Following
  <2>2. CASE u = t
    <3>1. Waits(t, 2, "kfree", c)' /\ Waits(t, m, "unref", v)' /\ (m = 4 => Waits(t, 3, "unbind", c)')
          /\ (l => Waits(t, 5, "drop", c)')
      BY <1>4
    <3>2. Waits(u, i, "clear", p)' => p \in Chans /\ After(u, i, "drop", p)'
      BY <1>4, <2>2, <3>1 DEF After
    <3>3. Waits(u, i, "drop", p)' => After(u, i, "unbind", p)'
      BY <1>4, <2>2, <3>1 DEF After
    <3>4. Waits(u, i, "drop", p)' => After(u, i, "unref", vspace[p])'
      BY <1>4, <2>2, <3>1 DEF After
    <3>5. Waits(u, i, "unbind", p)' => After(u, i, "kfree", p)'
      BY <1>4, <2>2, <3>1 DEF After
    <3> QED
      BY <1>4, <2>2, <3>2, <3>3, <3>4, <3>5
  <2> QED
    BY <2>1, <2>2
<1>11. Unique'
  BY <1>3, <1>4 DEF IInv, Structure, Unique, Once
<1>12. DyingZone'
  <2>1. \A u \in Threads : \A i : ~Waits(u, i, "kfree", v)
    BY <1>2, PendingIs DEF Dying
  <2> QED
    BY <1>2, <1>3, <1>4, <2>1 DEF IInv, Structure, DyingZone, Doomed
<1>13. Backed'
  <2> SUFFICES ASSUME NEW u \in Threads, NEW i \in Nat, NEW p \in Objs, NEW e \in Ops,
                      Waits(u, i, e, p)', e # "clean", ~Dying(p)'
               PROVE  Waits(u, 1, "own", p)' \/ \E j \in 1 .. i : Waits(u, j, "unref", p)'
    BY DEF Backed
  <2>1. p # c /\ ~Dying(p)
    BY <1>6
  <2>2. CASE u # t
    <3>1. Waits(u, 1, "own", p) \/ \E j \in 1 .. i : Waits(u, j, "unref", p)
      BY <1>7, <2>1, <2>2 DEF IInv, Structure, Backed
    <3> QED
      BY <1>7, <2>2, <3>1
  <2>3. CASE u = t
    <3>1. p = v /\ i >= 1 /\ Waits(u, 1, "unref", v)'
      BY <1>4, <2>1, <2>3
    <3>2. 1 \in 1 .. i
      BY <3>1
    <3> QED
      BY <3>1, <3>2
  <2> QED
    BY <2>2, <2>3
<1>14. Structure'
  BY <1>8, <1>9, <1>10, <1>11, <1>12, <1>13 DEF Structure
<1>15. OwnState'
  <2> SUFFICES ASSUME NEW u \in Threads, NEW i \in Nat, NEW p \in Objs, Waits(u, i, "own", p)'
               PROVE  /\ ~Dying(p)' /\ filp'[p] = Null /\ ~Pending("unref", p)' /\ FileOf[u] \in open'
                      /\ p \in Vspaces => \A b \in Chans : vspace'[b] # p
                      /\ p \in Chans => \A f \in Files : maps'[f][p] = 0
    BY DEF OwnState
  <2>1. Waits(u, i, "own", p) /\ u # t
    BY <1>4
  <2>2. p # c
    BY <1>3, <2>1
  <2>3. /\ ~Dying(p) /\ filp[p] = Null /\ ~Pending("unref", p) /\ FileOf[u] \in open
        /\ p \in Vspaces => \A b \in Chans : vspace[b] # p
        /\ p \in Chans => \A f \in Files : maps[f][p] = 0
    BY <2>1 DEF IInv, OwnState
  <2> QED
    BY <1>5, <1>6, <2>2, <2>3
<1>16. OpState'
  <2> SUFFICES ASSUME NEW u \in Threads, NEW i \in Nat, NEW p \in Objs
               PROVE  /\ Waits(u, i, "setup", p)' => ~mem'[p]
                      /\ Waits(u, i, "bind", p)' => slot'[p] = Null
                      /\ Waits(u, i, "disown", p)' => filp'[p] = FileOf[u]
                      /\ Waits(u, i, "unref", p)' => ~Dying(p)'
                      /\ Waits(u, i, "use", p)' => mem'[p]
                      /\ Waits(u, i, "unbind", p)' => Bound(p)'
    BY DEF OpState
  <2>1. CASE u # t
    <3>1. Waits(u, i, "unref", p)' => p # c
      BY <1>3, <1>7, <2>1
    <3> QED
      BY <1>6, <1>7, <2>1, <3>1 DEF IInv, OpState
  <2>2. CASE u = t
    <3>1. m = 4 => Bound(c)
      BY <1>1 DEF IInv, Tables, Bound
    <3> QED
      BY <1>2, <1>4, <1>6, <2>2, <3>1
  <2> QED
    BY <2>1, <2>2
<1>17. Tables'
  BY <1>5, <1>6 DEF IInv, Tables, Kind
<1>18. Memory'
  BY <1>1, <1>5, <1>6 DEF IInv, Memory
<1>19. Holding'
  <2>1. filp[c] = Null /\ \A f \in Files : maps[f][c] = 0
    BY <1>1 DEF IInv, OwnState
  <2>2. \A b \in Chans : st[b] # "none" => vspace[b] # c
    BY ObjsAssumption DEF IInv, Holding
  <2>3. \A b \in Chans : Live(b) => st[b] # "none"
    BY DEF Live
  <2> QED
    BY <1>6, <2>1, <2>2, <2>3 DEF IInv, Holding
<1>20. Closing'
  <2>1. SameOps({"clean", "disown"})
    BY <1>1, <1>4 DEF SameOps
  <2>2. \A u \in Threads : todo'[u] # <<>> => todo[u] # <<>> \/ FileOf[u] \in open
    BY <1>1, <1>4
  <2> QED
    BY <2>1, <2>2, KeepClosing DEF IInv
<1>21. TypeOK'
  BY DEF IInv, TypeOK, UndoesChan, OpSet
<1>22. \A b \in Chans : \A p : b # c => (Within(b, p)' <=> Within(b, p))
  <2> SUFFICES ASSUME NEW b \in Chans, NEW p, b # c
               PROVE  Within(b, p)' <=> Within(b, p)
    OBVIOUS
  <2>1. \A u \in Threads : \A i : /\ Waits(u, i, "bind", b)' <=> Waits(u, i, "bind", b)
                                  /\ Waits(u, i, "ref", p)' <=> Waits(u, i, "ref", p)
    BY <1>1, <1>4
  <2> QED
    BY <1>6, <2>1, WithinIs, WithinNext
<1>23. Within(c, v) /\ ~Within(c, v)'
  <2>1. ASSUME NEW u \in Threads, NEW i, Waits(u, i, "bind", c), Waits(u, i + 1, "ref", v)
        PROVE  FALSE
    <3>1. u = t /\ i = 6
      BY <1>1, <1>3, <2>1 DEF IInv, Structure, Typed, Making
    <3> QED
      BY <1>1, <2>1, <3>1
  <2> QED
    BY <1>6, <2>1, WithinIs, WithinNext
<1>24. Counted'
  <2> SUFFICES ASSUME NEW p \in Objs, Live(p), p # c
               PROVE  /\ IsFiniteSet(References(p)')
                      /\ ref[p] = Cardinality(References(p)') /\ ref[p] >= 1
    BY <1>6 DEF Counted
  <2>1. IsFiniteSet(References(p)) /\ ref[p] = Cardinality(References(p)) /\ ref[p] >= 1
    BY DEF IInv, Counted
  <2>2. CASE p = v
    <3>1. PICK x, y, w, z : x = <<"unref", t, 2>> /\ y = <<"chan", c, 1>> /\ z = <<"unref", t, 1>>
                            /\ w = <<"unref", t, m>>
      OBVIOUS
    <3>2. \A r : Refers(r, v)' <=> ((Refers(r, v) /\ r # x /\ r # y) \/ r = z \/ r = w)
      BY <1>1, <1>2, <1>4, <1>6, <1>22, <1>23, <3>1 DEF Refers
    <3>3. Refers(x, v) /\ Refers(y, v) /\ ~Refers(z, v) /\ ~Refers(w, v) /\ x # y /\ z # w
      BY <1>1, <1>2, <1>4, <1>23, <3>1 DEF Refers
    <3>4. /\ \A r : r \in References(v) <=> Refers(r, v)
          /\ \A r : r \in References(v)' <=> Refers(r, v)'
      BY ReferencesAre, ReferencesNext
    <3> QED
      BY <2>1, <2>2, <3>2, <3>3, <3>4, ExchangeBoth
  <2>3. CASE p # v
    <3>1. \A u \in Threads : \A i : Waits(u, i, "unref", p)' <=> Waits(u, i, "unref", p)
      BY <1>1, <1>4, <2>3
    <3>2. p \in Vspaces => ~Within(c, p) /\ ~Within(c, p)'
      BY <1>6, <2>3, WithinIs, WithinNext
    <3>3. \A r : Refers(r, p)' <=> Refers(r, p)
      <4>1. \A f : Mappings(f, p)' = Mappings(f, p)
        BY DEF Mappings
      <4> QED
        BY <1>6, <1>22, <3>1, <3>2, <4>1 DEF Refers, Objs
    <3>4. References(p)' = References(p)
      BY <3>3, ReferencesAre, ReferencesNext
    <3> QED
      BY <2>1, <3>4
  <2> QED
    BY <2>2, <2>3
<1> QED
  BY <1>14, <1>15, <1>16, <1>17, <1>18, <1>19, <1>20, <1>21, <1>24 DEF IInv

\* Thread t undoes address space v, which it has bound if m is 2.
UndoesVspace(t, v, m) ==
  /\ t \in Threads /\ m \in {1, 2}
  /\ \A u \in Threads : \A i, d, p :
       Waits(u, i, d, p)' <=>
         \/ Waits(u, i, d, p) /\ u # t
         \/ u = t /\ i = 1 /\ d = "kfree" /\ p = v
         \/ u = t /\ i = 2 /\ m = 2 /\ d = "unbind" /\ p = v
  /\ todo' \in [Threads -> Seq(OpSet)] /\ Len(todo'[t]) = m
  /\ \A u \in Threads : u # t => todo'[u] = todo[u]

\* A step of pscnv_vspace_new fails.
LEMMA VspaceUndoIInv ==
  ASSUME IInv, NEW t \in Threads, NEW k \in Nat, \A i, e, p : Waits(t, i, e, p) => i \in 1 .. k,
         NEW v, v \notin Chans,
         NEW d, d = "bind" \/ d = "setup", Waits(t, k, d, v), NEW m,
         UndoesVspace(t, v, m), d = "bind" => slot[v] = Null, m = 2 <=> d = "setup",
         UNCHANGED <<table, st, ref, slot, filp, vspace, mem, handle, maps, open>>
  PROVE  IInv'
<1>1. /\ v \in Objs /\ st[v] = "live" /\ ~Dying(v) /\ Waits(t, 1, "own", v) /\ todo[t] # <<>>
      /\ \A i, e, p : Waits(t, i, e, p) => e \in {"bind", "setup", "own"} /\ p = v
      /\ (m = 2 <=> slot[v] # Null) /\ ~mem[v]
  BY MakerTodo
<1>2. v \in Vspaces
  BY <1>1 DEF Objs
<1>3. \A u \in Threads : \A i, e : Waits(u, i, e, v) => u = t \/ e = "clean"
  BY <1>1, MakerAlone DEF IInv
<1>4. /\ \A u \in Threads : \A i, e, p : Waits(u, i, e, p)' <=>
           \/ Waits(u, i, e, p) /\ u # t
           \/ u = t /\ i = 1 /\ e = "kfree" /\ p = v
           \/ u = t /\ i = 2 /\ m = 2 /\ e = "unbind" /\ p = v
      /\ (m = 1 \/ m = 2) /\ Len(todo'[t]) = m
      /\ \A u \in Threads : u # t => todo'[u] = todo[u]
  BY DEF UndoesVspace
<1>5. /\ \A e, p : p # v => (Pending(e, p)' <=> Pending(e, p))
      /\ Pending("kfree", v)'
      /\ (slot[v] # Null => Pending("unbind", v)')
  <2>1. ASSUME NEW e, NEW p, p # v
        PROVE  Pending(e, p)' <=> Pending(e, p)
    <3>1. \A u \in Threads : \A i : Waits(u, i, e, p)' <=> Waits(u, i, e, p)
      BY <1>1, <1>4, <2>1
    <3> QED
      BY <3>1, PendingIs, PendingNext
  <2>2. Pending("kfree", v)'
    BY <1>4, PendingNext
  <2>3. m = 2 => Waits(t, 2, "unbind", v)'
    BY <1>4
  <2> QED
    BY <1>1, <2>1, <2>2, <2>3, PendingNext
<1>6. /\ \A p : p # v => (Live(p)' <=> Live(p)) /\ (Dying(p)' <=> Dying(p)) /\ (Owned(p)' <=> Owned(p))
      /\ Dying(v)' /\ ~Live(v)' /\ Live(v)
      /\ \A p : Bound(p)' <=> Bound(p)
  BY <1>1, <1>5 DEF Live, Dying, Owned, Bound
<1>7. \A u \in Threads : \A i, e, p : u # t => (Waits(u, i, e, p)' <=> Waits(u, i, e, p))
  BY <1>4
<1>8. Typed'
  BY <1>1, <1>4 DEF IInv, Structure, Typed, Ops
<1>9. Making'
  <2>1. \A i, e, p : Waits(t, i, e, p)' => e \notin {"ref", "bind", "setup", "handle", "late", "own"}
    BY <1>4
  <2>2. \A p \in Chans : vspace'[p] = vspace[p]
    OBVIOUS
  <2> QED
    BY <1>7, <2>1, <2>2 DEF IInv, Structure, Making
<1>10. Following'
  <2> SUFFICES ASSUME NEW u \in Threads, NEW i \in Nat, NEW p \in Objs
               PROVE
    /\ Waits(u, i, "use", p)' => After(u, i, "unref", p)' \/ After(u, i, "drop", p)'
    /\ Waits(u, i, "disown", p)' =>
         /\ i >= 3 /\ i = Len(todo'[u])
         /\ Waits(u, i - 1, "unref", p)' /\ Waits(u, i - 2, "unref", p)'
    /\ Waits(u, i, "clear", p)' => p \in Chans /\ After(u, i, "drop", p)'
    /\ Waits(u, i, "drop", p)' => After(u, i, "unbind", p)'
    /\ Waits(u, i, "drop", p)' /\ p \in Chans => After(u, i, "unref", vspace[p])'
    /\ Waits(u, i, "unbind", p)' => After(u, i, "kfree", p)'
    BY DEF Following
  <2>1. CASE u # t
    <3>1. \A g, h : After(u, i, g, h)' <=> After(u, i, g, h)
      BY <1>7, <2>1 DEF After
    <3> QED
      BY <1>4, <1>7, <2>1, <3>1 DEF IInv, Structure, Following
  <2>2. CASE u = t
    <3>1. Waits(t, 1, "kfree", v)'
      BY <1>4
    <3>2. Waits(u, i, "unbind", p)' => After(u, i, "kfree", p)'
      BY <1>4, <2>2, <3>1 DEF After
    <3> QED
      BY <1>4, <2>2, <3>2
  <2> QED
    BY <2>1, <2>2
<1>11. Unique'
  BY <1>3, <1>4 DEF IInv, Structure, Unique, Once
<1>12. DyingZone'
  BY <1>3, <1>4 DEF IInv, Structure, DyingZone, Doomed
<1>13. Backed'
  <2> SUFFICES ASSUME NEW u \in Threads, NEW i \in Nat, NEW p \in Objs, NEW e \in Ops,
                      Waits(u, i, e, p)', e # "clean", ~Dying(p)'
               PROVE  Waits(u, 1, "own", p)' \/ \E j \in 1 .. i : Waits(u, j, "unref", p)'
    BY DEF Backed
  <2>1. p # v /\ ~Dying(p) /\ u # t
    BY <1>4, <1>6
  <2>2. Waits(u, 1, "own", p) \/ \E j \in 1 .. i : Waits(u, j, "unref", p)
    BY <1>7, <2>1 DEF IInv, Structure, Backed
  <2> QED
    BY <1>7, <2>1, <2>2
<1>14. Structure'
  BY <1>8, <1>9, <1>10, <1>11, <1>12, <1>13 DEF Structure
<1>15. OwnState'
  <2> SUFFICES ASSUME NEW u \in Threads, NEW i \in Nat, NEW p \in Objs, Waits(u, i, "own", p)'
               PROVE  /\ ~Dying(p)' /\ filp'[p] = Null /\ ~Pending("unref", p)' /\ FileOf[u] \in open'
                      /\ p \in Vspaces => \A b \in Chans : vspace'[b] # p
                      /\ p \in Chans => \A f \in Files : maps'[f][p] = 0
    BY DEF OwnState
  <2>1. Waits(u, i, "own", p) /\ u # t
    BY <1>4
  <2>2. p # v
    BY <1>3, <2>1
  <2>3. /\ ~Dying(p) /\ filp[p] = Null /\ ~Pending("unref", p) /\ FileOf[u] \in open
        /\ p \in Vspaces => \A b \in Chans : vspace[b] # p
        /\ p \in Chans => \A f \in Files : maps[f][p] = 0
    BY <2>1 DEF IInv, OwnState
  <2> QED
    BY <1>5, <1>6, <2>2, <2>3
<1>16. OpState'
  <2> SUFFICES ASSUME NEW u \in Threads, NEW i \in Nat, NEW p \in Objs
               PROVE  /\ Waits(u, i, "setup", p)' => ~mem'[p]
                      /\ Waits(u, i, "bind", p)' => slot'[p] = Null
                      /\ Waits(u, i, "disown", p)' => filp'[p] = FileOf[u]
                      /\ Waits(u, i, "unref", p)' => ~Dying(p)'
                      /\ Waits(u, i, "use", p)' => mem'[p]
                      /\ Waits(u, i, "unbind", p)' => Bound(p)'
    BY DEF OpState
  <2>1. CASE u # t
    <3>1. Waits(u, i, "unref", p)' => p # v
      BY <1>3, <1>7, <2>1
    <3> QED
      BY <1>6, <1>7, <2>1, <3>1 DEF IInv, OpState
  <2>2. CASE u = t
    <3>1. m = 2 => Bound(v)
      BY <1>1 DEF IInv, Tables, Bound
    <3> QED
      BY <1>4, <1>6, <2>2, <3>1
  <2> QED
    BY <2>1, <2>2
<1>17. Tables'
  BY <1>5, <1>6 DEF IInv, Tables, Kind
<1>18. Memory'
  BY <1>1, <1>2, <1>5, <1>6, ObjsAssumption DEF IInv, Memory
<1>19. filp[v] = Null /\ \A b \in Chans : vspace[b] # v
  BY <1>1, <1>2 DEF IInv, OwnState
<1>20. Holding'
  <2>1. \A b \in Chans : b # v
    BY <1>2, ObjsAssumption
  <2> QED
    BY <1>6, <1>19, <2>1 DEF IInv, Holding
<1>21. Closing'
  <2>1. SameOps({"clean", "disown"})
    BY <1>1, <1>4 DEF SameOps
  <2>2. \A u \in Threads : todo'[u] # <<>> => todo[u] # <<>> \/ FileOf[u] \in open
    BY <1>1, <1>4
  <2> QED
    BY <2>1, <2>2, KeepClosing DEF IInv
<1>22. TypeOK'
  BY DEF IInv, TypeOK, UndoesVspace, OpSet
<1>23. Counted'
  <2> SUFFICES ASSUME NEW p \in Objs, Live(p), p # v
               PROVE  /\ IsFiniteSet(References(p)')
                      /\ ref[p] = Cardinality(References(p)') /\ ref[p] >= 1
    BY <1>6 DEF Counted
  <2>1. IsFiniteSet(References(p)) /\ ref[p] = Cardinality(References(p)) /\ ref[p] >= 1
    BY DEF IInv, Counted
  <2>2. \A u \in Threads : \A i : Waits(u, i, "unref", p)' <=> Waits(u, i, "unref", p)
    BY <1>1, <1>4
  <2>3. \A b \in Chans : Within(b, p)' <=> Within(b, p)
    <3> SUFFICES ASSUME NEW b \in Chans
                 PROVE  Within(b, p)' <=> Within(b, p)
      OBVIOUS
    <3>1. b # v
      BY <1>2, ObjsAssumption
    <3>2. \A u \in Threads : \A i : /\ Waits(u, i, "bind", b)' <=> Waits(u, i, "bind", b)
                                    /\ Waits(u, i, "ref", p)' <=> Waits(u, i, "ref", p)
      BY <1>1, <1>4, <3>1
    <3> QED
      BY <1>6, <3>1, <3>2, WithinIs, WithinNext
  <2>4. References(p)' = References(p)
    BY <1>6, <2>2, <2>3, SameReferences
  <2> QED
    BY <2>1, <2>4
<1> QED
  BY <1>14, <1>15, <1>16, <1>17, <1>18, <1>20, <1>21, <1>22, <1>23 DEF IInv

\* No number is free.
LEMMA BindFailsIInv ==
  ASSUME IInv, NEW t \in Threads, BindFails(t)
  PROVE  IInv'
<1>1. PICK k, o : k = Len(todo[t]) /\ o = Arg(t)
  OBVIOUS
<1>2. k \in Nat /\ Waits(t, k, "bind", o)
  BY <1>1, AtTop DEF IInv, BindFails
<1>3. \A i, e, p : Waits(t, i, e, p) => i \in 1 .. k
  BY <1>1, <1>2 DEF IInv, Structure, Typed
<1>4. /\ todo' = [todo EXCEPT ![t] = Undo(o, <<>>)]
      /\ UNCHANGED <<table, st, ref, slot, filp, vspace, mem, handle, maps, open>>
  BY <1>1 DEF BindFails, Abort
<1>5. o \in Objs /\ slot[o] = Null
  <2>1. o \in Objs
    BY <1>2 DEF IInv, Structure, Typed
  <2> QED
    BY <1>2, <2>1 DEF IInv, OpState
<1>6. CASE o \in Chans
  <2>1. PICK v : v = vspace[o]
    OBVIOUS
  <2>2. v \in Objs
    BY <1>2, <1>3, <1>6, <2>1, MakerTodo DEF Objs
  <2>3. Undo(o, <<>>) =
          <<Op("unref", v), Op("kfree", o), Op("unref", v)>>
    BY <1>5, <1>6, <2>1, <2>2, UndoIs
  <2>4. <<Op("unref", v), Op("kfree", o), Op("unref", v)>> \in Seq(OpSet)
    BY <1>5, <2>2, OpTyped DEF Ops
  <2>5. Undo(o, <<>>) \in Seq(OpSet)
    BY <2>3, <2>4, Zenon
  <2>6. /\ Replaced(t, 1, Undo(o, <<>>))
        /\ todo' \in [Threads -> Seq(OpSet)]
        /\ todo'[t] = Undo(o, <<>>)
        /\ \A u \in Threads : u # t => todo'[u] = todo[u]
    BY <1>4, <2>5, SetReplaces DEF IInv
  <2>7. /\ Replaced(t, 1, <<Op("unref", v), Op("kfree", o), Op("unref", v)>>)
        /\ todo'[t] = <<Op("unref", v), Op("kfree", o), Op("unref", v)>>
    BY <2>3, <2>6, Zenon
  <2>8. Len(todo'[t]) = 3
    BY <2>7
  <2>9. 1 \in Nat
    OBVIOUS
  <2>10. \A u \in Threads : \A i, d, p : Waits(u, i, d, p)' <=>
          IF u = t /\ i \in Nat /\ i >= 1
            THEN    \/ i = 1 /\ d = "unref" /\ p = v
                    \/ i = 1 + 1 /\ d = "kfree" /\ p = o
                    \/ i = 1 + 2 /\ d = "unref" /\ p = v
            ELSE Waits(u, i, d, p)
    BY <2>7, <2>9, Replaced3, Zenon
  <2>11. UndoesChan(t, o, v, 3, FALSE)
    <3>1. \A u \in Threads : \A i, d, p : Waits(u, i, d, p) => i \in Nat /\ i >= 1
      BY DEF IInv, Structure, Typed
    <3>2. \A u \in Threads : \A i, d, p : Waits(u, i, d, p)' <=>
            \/ Waits(u, i, d, p) /\ u # t
            \/ u = t /\ i = 1 /\ d = "unref" /\ p = v
            \/ u = t /\ i = 2 /\ d = "kfree" /\ p = o
            \/ u = t /\ i = 3 /\ 3 = 4 /\ d = "unbind" /\ p = o
            \/ u = t /\ i = 3 /\ d = "unref" /\ p = v
            \/ u = t /\ i = 5 /\ FALSE /\ d = "drop" /\ p = o
            \/ u = t /\ i = 6 /\ FALSE /\ d = "clear" /\ p = o
      BY <2>10, <3>1
    <3> QED
      BY <2>6, <2>8, <3>2 DEF UndoesChan
  <2>12. /\ (3 = 4 <=> "bind" \in {"setup", "late"}) /\ (FALSE <=> "bind" = "late")
         /\ ("bind" = "bind" \/ "bind" = "setup" \/ "bind" = "late")
         /\ ("bind" = "bind" => slot[o] = Null)
    BY <1>5
  <2> QED
    BY <1>2, <1>3, <1>4, <1>5, <1>6, <2>1, <2>11, <2>12, ChanUndoIInv, Zenon
<1>7. CASE o \notin Chans
  <2>1. Undo(o, <<>>) = <<Op("kfree", o)>>
    BY <1>5, <1>7, UndoIs
  <2>2. <<Op("kfree", o)>> \in Seq(OpSet)
    BY <1>5, OpTyped DEF Ops
  <2>3. Undo(o, <<>>) \in Seq(OpSet)
    BY <2>1, <2>2, Zenon
  <2>4. /\ Replaced(t, 1, Undo(o, <<>>))
        /\ todo' \in [Threads -> Seq(OpSet)]
        /\ todo'[t] = Undo(o, <<>>)
        /\ \A u \in Threads : u # t => todo'[u] = todo[u]
    BY <1>4, <2>3, SetReplaces DEF IInv
  <2>5. Replaced(t, 1, <<Op("kfree", o)>>) /\ todo'[t] = <<Op("kfree", o)>>
    BY <2>1, <2>4, Zenon
  <2>6. Len(todo'[t]) = 1
    BY <2>5
  <2>7. 1 \in Nat
    OBVIOUS
  <2>8. \A u \in Threads : \A i, d, p : Waits(u, i, d, p)' <=>
          IF u = t /\ i \in Nat /\ i >= 1
            THEN    \/ i = 1 /\ d = "kfree" /\ p = o
            ELSE Waits(u, i, d, p)
    BY <2>5, <2>7, Replaced1, Zenon
  <2>9. UndoesVspace(t, o, 1)
    BY <1>3, <2>4, <2>6, <2>8 DEF UndoesVspace
  <2>10. 1 = 2 <=> "bind" = "setup"
    OBVIOUS
  <2> QED
    BY <1>2, <1>3, <1>4, <1>5, <1>7, <2>9, <2>10, VspaceUndoIInv
<1> QED
  BY <1>6, <1>7

\* do_chan_new or do_vspace_new fails, and the number is given back.
LEMMA SetupFailsIInv ==
  ASSUME IInv, NEW t \in Threads, SetupFails(t)
  PROVE  IInv'
<1>1. PICK k, o : k = Len(todo[t]) /\ o = Arg(t)
  OBVIOUS
<1>2. k \in Nat /\ Waits(t, k, "setup", o)
  BY <1>1, AtTop DEF IInv, SetupFails
<1>3. \A i, e, p : Waits(t, i, e, p) => i \in 1 .. k
  BY <1>1, <1>2 DEF IInv, Structure, Typed
<1>4. /\ todo' = [todo EXCEPT ![t] = Undo(o, <<Op("unbind", o)>>)]
      /\ UNCHANGED <<table, st, ref, slot, filp, vspace, mem, handle, maps, open>>
  BY <1>1 DEF SetupFails, Abort
<1>5. o \in Objs
  BY <1>2 DEF IInv, Structure, Typed
<1>6. CASE o \in Chans
  <2>1. PICK v : v = vspace[o]
    OBVIOUS
  <2>2. v \in Objs
    BY <1>2, <1>3, <1>6, <2>1, MakerTodo DEF Objs
  <2>3. Undo(o, <<Op("unbind", o)>>) =
          <<Op("unref", v), Op("unbind", o), Op("kfree", o), Op("unref", v)>>
    BY <1>5, <1>6, <2>1, <2>2, UndoIs
  <2>4. <<Op("unref", v), Op("unbind", o), Op("kfree", o), Op("unref", v)>> \in Seq(OpSet)
    BY <1>5, <2>2, OpTyped DEF Ops
  <2>5. Undo(o, <<Op("unbind", o)>>) \in Seq(OpSet)
    BY <2>3, <2>4, Zenon
  <2>6. /\ Replaced(t, 1, Undo(o, <<Op("unbind", o)>>))
        /\ todo' \in [Threads -> Seq(OpSet)]
        /\ todo'[t] = Undo(o, <<Op("unbind", o)>>)
        /\ \A u \in Threads : u # t => todo'[u] = todo[u]
    BY <1>4, <2>5, SetReplaces DEF IInv
  <2>7. /\ Replaced(t, 1, <<Op("unref", v), Op("unbind", o), Op("kfree", o), Op("unref", v)>>)
        /\ todo'[t] = <<Op("unref", v), Op("unbind", o), Op("kfree", o), Op("unref", v)>>
    BY <2>3, <2>6, Zenon
  <2>8. Len(todo'[t]) = 4
    BY <2>7
  <2>9. 1 \in Nat
    OBVIOUS
  <2>10. \A u \in Threads : \A i, d, p : Waits(u, i, d, p)' <=>
          IF u = t /\ i \in Nat /\ i >= 1
            THEN    \/ i = 1 /\ d = "unref" /\ p = v
                    \/ i = 1 + 1 /\ d = "kfree" /\ p = o
                    \/ i = 1 + 2 /\ d = "unbind" /\ p = o
                    \/ i = 1 + 3 /\ d = "unref" /\ p = v
            ELSE Waits(u, i, d, p)
    BY <2>7, <2>9, Replaced4, Zenon
  <2>11. UndoesChan(t, o, v, 4, FALSE)
    <3>1. \A u \in Threads : \A i, d, p : Waits(u, i, d, p) => i \in Nat /\ i >= 1
      BY DEF IInv, Structure, Typed
    <3>2. \A u \in Threads : \A i, d, p : Waits(u, i, d, p)' <=>
            \/ Waits(u, i, d, p) /\ u # t
            \/ u = t /\ i = 1 /\ d = "unref" /\ p = v
            \/ u = t /\ i = 2 /\ d = "kfree" /\ p = o
            \/ u = t /\ i = 3 /\ 4 = 4 /\ d = "unbind" /\ p = o
            \/ u = t /\ i = 4 /\ d = "unref" /\ p = v
            \/ u = t /\ i = 5 /\ FALSE /\ d = "drop" /\ p = o
            \/ u = t /\ i = 6 /\ FALSE /\ d = "clear" /\ p = o
      BY <2>10, <3>1
    <3> QED
      BY <2>6, <2>8, <3>2 DEF UndoesChan
  <2>12. /\ (4 = 4 <=> "setup" \in {"setup", "late"}) /\ (FALSE <=> "setup" = "late")
         /\ ("setup" = "bind" \/ "setup" = "setup" \/ "setup" = "late")
         /\ ("setup" = "bind" => slot[o] = Null)
    BY <1>5
  <2> QED
    BY <1>2, <1>3, <1>4, <1>5, <1>6, <2>1, <2>11, <2>12, ChanUndoIInv, Zenon
<1>7. CASE o \notin Chans
  <2>1. Undo(o, <<Op("unbind", o)>>) = <<Op("unbind", o), Op("kfree", o)>>
    BY <1>5, <1>7, UndoIs
  <2>2. <<Op("unbind", o), Op("kfree", o)>> \in Seq(OpSet)
    BY <1>5, OpTyped DEF Ops
  <2>3. Undo(o, <<Op("unbind", o)>>) \in Seq(OpSet)
    BY <2>1, <2>2, Zenon
  <2>4. /\ Replaced(t, 1, Undo(o, <<Op("unbind", o)>>))
        /\ todo' \in [Threads -> Seq(OpSet)]
        /\ todo'[t] = Undo(o, <<Op("unbind", o)>>)
        /\ \A u \in Threads : u # t => todo'[u] = todo[u]
    BY <1>4, <2>3, SetReplaces DEF IInv
  <2>5. Replaced(t, 1, <<Op("unbind", o), Op("kfree", o)>>) /\ todo'[t] = <<Op("unbind", o), Op("kfree", o)>>
    BY <2>1, <2>4, Zenon
  <2>6. Len(todo'[t]) = 2
    BY <2>5
  <2>7. 1 \in Nat
    OBVIOUS
  <2>8. \A u \in Threads : \A i, d, p : Waits(u, i, d, p)' <=>
          IF u = t /\ i \in Nat /\ i >= 1
            THEN    \/ i = 1 /\ d = "kfree" /\ p = o
                    \/ i = 1 + 1 /\ d = "unbind" /\ p = o
            ELSE Waits(u, i, d, p)
    BY <2>5, <2>7, Replaced2, ZenonT(40)
  <2>9. UndoesVspace(t, o, 2)
    BY <1>3, <2>4, <2>6, <2>8 DEF UndoesVspace
  <2>10. 2 = 2 <=> "setup" = "setup"
    OBVIOUS
  <2> QED
    BY <1>2, <1>3, <1>4, <1>5, <1>7, <2>9, <2>10, VspaceUndoIInv
<1> QED
  BY <1>6, <1>7

\* The allocation of ch->cache fails: handle, memory and number go.
LEMMA LateFailsIInv ==
  ASSUME IInv, NEW t \in Threads, LateFails(t)
  PROVE  IInv'
<1>1. PICK k, o : k = Len(todo[t]) /\ o = Arg(t)
  OBVIOUS
<1>2. k \in Nat /\ Waits(t, k, "late", o)
  BY <1>1, AtTop DEF IInv, LateFails
<1>3. \A i, e, p : Waits(t, i, e, p) => i \in 1 .. k
  BY <1>1, <1>2 DEF IInv, Structure, Typed
<1>4. /\ todo' = [todo EXCEPT ![t] = <<Op("clear", o), Op("drop", o)>> \o Undo(o, <<Op("unbind", o)>>)]
      /\ UNCHANGED <<table, st, ref, slot, filp, vspace, mem, handle, maps, open>>
  BY <1>1 DEF LateFails, Abort
<1>5. o \in Objs
  BY <1>2 DEF IInv, Structure, Typed
<1>6. o \in Chans /\ slot[o] # Null
  BY <1>2, <1>3, MakerTodo
<1> QED
  <2>1. PICK v : v = vspace[o]
    OBVIOUS
  <2>2. v \in Objs
    BY <1>2, <1>3, <1>6, <2>1, MakerTodo DEF Objs
  <2>3. <<Op("clear", o), Op("drop", o)>> \o Undo(o, <<Op("unbind", o)>>) =
          <<Op("clear", o), Op("drop", o), Op("unref", v), Op("unbind", o), Op("kfree", o), Op("unref", v)>>
    BY <1>5, <1>6, <2>1, <2>2, UndoIs
  <2>4. <<Op("clear", o), Op("drop", o), Op("unref", v), Op("unbind", o), Op("kfree", o), Op("unref", v)>> \in Seq(OpSet)
    BY <1>5, <2>2, OpTyped DEF Ops
  <2>5. <<Op("clear", o), Op("drop", o)>> \o Undo(o, <<Op("unbind", o)>>) \in Seq(OpSet)
    BY <2>3, <2>4, Zenon
  <2>6. /\ Replaced(t, 1, <<Op("clear", o), Op("drop", o)>> \o Undo(o, <<Op("unbind", o)>>))
        /\ todo' \in [Threads -> Seq(OpSet)]
        /\ todo'[t] = <<Op("clear", o), Op("drop", o)>> \o Undo(o, <<Op("unbind", o)>>)
        /\ \A u \in Threads : u # t => todo'[u] = todo[u]
    BY <1>4, <2>5, SetReplaces DEF IInv
  <2>7. /\ Replaced(t, 1, <<Op("clear", o), Op("drop", o), Op("unref", v), Op("unbind", o), Op("kfree", o), Op("unref", v)>>)
        /\ todo'[t] = <<Op("clear", o), Op("drop", o), Op("unref", v), Op("unbind", o), Op("kfree", o), Op("unref", v)>>
    BY <2>3, <2>6, Zenon
  <2>8. Len(todo'[t]) = 6
    BY <2>7
  <2>9. 1 \in Nat
    OBVIOUS
  <2>10. \A u \in Threads : \A i, d, p : Waits(u, i, d, p)' <=>
          IF u = t /\ i \in Nat /\ i >= 1
            THEN    \/ i = 1 /\ d = "unref" /\ p = v
                    \/ i = 1 + 1 /\ d = "kfree" /\ p = o
                    \/ i = 1 + 2 /\ d = "unbind" /\ p = o
                    \/ i = 1 + 3 /\ d = "unref" /\ p = v
                    \/ i = 1 + 4 /\ d = "drop" /\ p = o
                    \/ i = 1 + 5 /\ d = "clear" /\ p = o
            ELSE Waits(u, i, d, p)
    BY <2>7, <2>9, Replaced6, ZenonT(40)
  <2>11. UndoesChan(t, o, v, 4, TRUE)
    <3>1. \A u \in Threads : \A i, d, p : Waits(u, i, d, p) => i \in Nat /\ i >= 1
      BY DEF IInv, Structure, Typed
    <3>2. \A u \in Threads : \A i, d, p : Waits(u, i, d, p)' <=>
            \/ Waits(u, i, d, p) /\ u # t
            \/ u = t /\ i = 1 /\ d = "unref" /\ p = v
            \/ u = t /\ i = 2 /\ d = "kfree" /\ p = o
            \/ u = t /\ i = 3 /\ 4 = 4 /\ d = "unbind" /\ p = o
            \/ u = t /\ i = 4 /\ d = "unref" /\ p = v
            \/ u = t /\ i = 5 /\ TRUE /\ d = "drop" /\ p = o
            \/ u = t /\ i = 6 /\ TRUE /\ d = "clear" /\ p = o
      BY <2>10, <3>1
    <3> QED
      BY <2>6, <2>8, <3>2 DEF UndoesChan
  <2>12. /\ (4 = 4 <=> "late" \in {"setup", "late"}) /\ (TRUE <=> "late" = "late")
         /\ ("late" = "bind" \/ "late" = "setup" \/ "late" = "late")
         /\ ("late" = "bind" => slot[o] = Null)
    BY <1>5
  <2> QED
    BY <1>2, <1>3, <1>4, <1>5, <1>6, <2>1, <2>11, <2>12, ChanUndoIInv, Zenon

-----------------------------------------------------------------------------
(* The calls that make an object                                           *)

\* Nothing is known of a structure that has not been allocated.
LEMMA FreshIs ==
  ASSUME IInv, NEW o \in Objs, st[o] = "none"
  PROVE  /\ \A u \in Threads : \A i, d : Waits(u, i, d, o) => d = "clean"
         /\ \A d : d # "clean" => ~Pending(d, o)
         /\ slot[o] = Null /\ ~mem[o] /\ filp[o] = Null /\ ~Live(o) /\ ~Dying(o)
         /\ o \in Chans => ~handle[o] /\ \A f \in Files : maps[f][o] = 0
         /\ o \in Vspaces => \A c \in Chans : vspace[c] # o
         /\ \A s \in Slots : table[s] # o
<1>1. \A u \in Threads : \A i, d : Waits(u, i, d, o) => d = "clean"
  BY DEF IInv, Structure, Typed
<1>2. \A d : d # "clean" => ~Pending(d, o)
  BY <1>1, PendingIs
<1>3. ~Dying(o) /\ ~Live(o)
  BY <1>2 DEF Dying, Live
<1>4. slot[o] = Null
  BY DEF IInv, Tables
<1>5. ~mem[o] /\ (o \in Chans => ~handle[o])
  BY DEF IInv, Memory
<1>6. filp[o] = Null
  BY <1>3 DEF IInv, Holding
<1>7. ASSUME o \in Chans, NEW f \in Files
      PROVE  maps[f][o] = 0
  <2>1. maps[f][o] \in 0 .. MaxMaps /\ MaxMaps \in Nat
    BY <1>7, ObjsAssumption DEF IInv, TypeOK
  <2>2. ~(maps[f][o] > 0)
    BY <1>3, <1>7 DEF IInv, Holding
  <2> QED
    BY <2>1, <2>2
<1>8. o \in Vspaces => \A c \in Chans : vspace[c] # o
  BY DEF IInv, Holding
<1>9. \A s \in Slots : table[s] # o
  BY ObjsAssumption DEF IInv, Tables
<1> QED
  BY <1>1, <1>2, <1>3, <1>4, <1>5, <1>6, <1>7, <1>8, <1>9

\* pscnv_ioctl_vspace_new: a new address space, which nobody else knows.
LEMMA VspaceNewIInv ==
  ASSUME IInv, NEW t \in Threads, NEW v \in Vspaces, VspaceNew(t, v)
  PROVE  IInv'
<1>1. /\ Idle(t) /\ st[v] = "none"
      /\ st' = [st EXCEPT ![v] = "live"] /\ ref' = [ref EXCEPT ![v] = 1]
      /\ todo' = [todo EXCEPT ![t] = <<Op("bind", v), Op("setup", v), Op("own", v)>>]
      /\ UNCHANGED <<table, slot, filp, vspace, mem, handle, maps, open>>
  BY DEF VspaceNew, Start
<1>2. v \in Objs /\ v \notin Chans
  BY ObjsAssumption DEF Objs
<1>3. FileOf[t] \in open /\ todo[t] = <<>> /\ \A i, d, p : ~Waits(t, i, d, p)
  BY <1>1, IdleWaits
<1>4. /\ \A u \in Threads : \A i, d : Waits(u, i, d, v) => d = "clean"
      /\ \A d : d # "clean" => ~Pending(d, v)
      /\ slot[v] = Null /\ ~mem[v] /\ filp[v] = Null /\ ~Live(v) /\ ~Dying(v)
      /\ \A c \in Chans : vspace[c] # v
      /\ \A s \in Slots : table[s] # v
  BY <1>1, <1>2, FreshIs
<1>5. /\ \A u \in Threads : \A i, d, p : Waits(u, i, d, p)' <=>
           \/ Waits(u, i, d, p)
           \/ u = t /\ p = v /\ ((i = 1 /\ d = "own") \/ (i = 2 /\ d = "setup") \/ (i = 3 /\ d = "bind"))
      /\ todo' \in [Threads -> Seq(OpSet)] /\ Len(todo'[t]) = 3
      /\ \A u \in Threads : u # t => todo'[u] = todo[u]
  <2>1. <<Op("bind", v), Op("setup", v), Op("own", v)>> \in Seq(OpSet)
    BY <1>2, OpTyped DEF Ops
  <2>2. /\ Replaced(t, 1, <<Op("bind", v), Op("setup", v), Op("own", v)>>)
        /\ todo' \in [Threads -> Seq(OpSet)]
        /\ todo'[t] = <<Op("bind", v), Op("setup", v), Op("own", v)>>
        /\ \A u \in Threads : u # t => todo'[u] = todo[u]
    BY <1>1, <2>1, SetReplaces DEF IInv
  <2>3. Len(todo'[t]) = 3
    BY <2>2
  <2>4. \A u \in Threads : \A i, d, p : Waits(u, i, d, p)' <=>
          IF u = t /\ i \in Nat /\ i >= 1
            THEN \/ i = 1 /\ d = "own" /\ p = v
                 \/ i = 1 + 1 /\ d = "setup" /\ p = v
                 \/ i = 1 + 2 /\ d = "bind" /\ p = v
            ELSE Waits(u, i, d, p)
    BY <2>2, Replaced3
  <2> QED
    BY <1>3, <2>2, <2>3, <2>4
<1>6. /\ st'[v] = "live" /\ \A p \in Objs : p # v => st'[p] = st[p]
      /\ ref'[v] = 1 /\ \A p \in Objs : p # v => ref'[p] = ref[p]
  BY <1>1, <1>2 DEF IInv, TypeOK
<1>7. TypeOK'
  <2>1. st' \in [Objs -> {"none", "live", "freed"}] /\ ref' \in [Objs -> Nat]
    BY <1>1 DEF IInv, TypeOK
  <2> QED
    BY <1>1, <1>5, <2>1 DEF IInv, TypeOK, OpSet
<1>8. /\ \A d, p : d \notin {"own", "setup", "bind"} \/ p # v => (Pending(d, p)' <=> Pending(d, p))
      /\ Pending("own", v)' /\ Pending("setup", v)' /\ Pending("bind", v)'
  <2>1. \A d, p : d \notin {"own", "setup", "bind"} \/ p # v =>
          \A u \in Threads : \A i : Waits(u, i, d, p)' <=> Waits(u, i, d, p)
    BY <1>5
  <2>2. Waits(t, 1, "own", v)' /\ Waits(t, 2, "setup", v)' /\ Waits(t, 3, "bind", v)'
    BY <1>5
  <2> QED
    BY <2>1, <2>2, PendingIs, PendingNext, Zenon
<1>9. /\ \A p : p # v /\ p \in Objs => (Live(p)' <=> Live(p))
      /\ Live(v)' /\ ~Dying(v)'
      /\ \A p : Dying(p)' <=> Dying(p)
  BY <1>4, <1>6, <1>8 DEF Live, Dying
<1>10. Typed'
  <2> SUFFICES ASSUME NEW u \in Threads, NEW i, NEW d, NEW p, Waits(u, i, d, p)'
               PROVE  /\ i \in Nat /\ 1 <= i /\ i <= Len(todo'[u]) /\ d \in Ops
                      /\ IF d = "clean" THEN p \in Slots /\ FileOf[u] \notin open'
                                        ELSE p \in Objs /\ st'[p] = "live"
    BY DEF Typed
  <2>1. CASE Waits(u, i, d, p)
    <3>1. u # t /\ (d # "clean" => p # v)
      BY <1>3, <1>4, <2>1
    <3> QED
      BY <1>1, <1>5, <1>6, <2>1, <3>1 DEF IInv, Structure, Typed
  <2>2. CASE ~Waits(u, i, d, p)
    <3>1. u = t /\ p = v /\ ((i = 1 /\ d = "own") \/ (i = 2 /\ d = "setup") \/ (i = 3 /\ d = "bind"))
      BY <1>5, <2>2
    <3>2. i \in Nat /\ 1 <= i /\ i <= 3 /\ d \in Ops /\ d # "clean"
      BY <3>1 DEF Ops
    <3> QED
      BY <1>2, <1>5, <1>6, <3>1, <3>2
  <2> QED
    BY <2>1, <2>2
<1>11. Making'
  <2> SUFFICES ASSUME NEW u \in Threads, NEW i \in Nat, NEW p \in Objs
               PROVE  /\ Waits(u, i, "ref", p)' =>
                           i = 7 /\ \E c \in Chans : Waits(u, 6, "bind", c)' /\ vspace[c] = p
                      /\ Waits(u, i, "bind", p)' =>
                           IF p \in Chans THEN i = 6 /\ Waits(u, 5, "setup", p)'
                                          ELSE i = 3 /\ Waits(u, 2, "setup", p)'
                      /\ Waits(u, i, "setup", p)' =>
                           IF p \in Chans THEN i = 5 /\ Waits(u, 4, "handle", p)'
                                          ELSE i = 2 /\ Waits(u, 1, "own", p)'
                      /\ Waits(u, i, "handle", p)' => p \in Chans /\ i = 4 /\ Waits(u, 3, "late", p)'
                      /\ Waits(u, i, "late", p)' =>
                           p \in Chans /\ i = 3 /\ Waits(u, 2, "unref", vspace[p])' /\ Waits(u, 1, "own", p)'
                      /\ Waits(u, i, "own", p)' => i = 1
    BY <1>1 DEF Making
  <2>1. CASE u = t
    BY <1>2, <1>3, <1>5, <2>1
  <2>2. CASE u # t
    <3>1. \A j, d, q : Waits(u, j, d, q)' <=> Waits(u, j, d, q)
      BY <1>5, <2>2
    <3>2. /\ Waits(u, i, "ref", p) =>
               i = 7 /\ \E c \in Chans : Waits(u, 6, "bind", c) /\ vspace[c] = p
          /\ Waits(u, i, "bind", p) =>
               IF p \in Chans THEN i = 6 /\ Waits(u, 5, "setup", p)
                              ELSE i = 3 /\ Waits(u, 2, "setup", p)
          /\ Waits(u, i, "setup", p) =>
               IF p \in Chans THEN i = 5 /\ Waits(u, 4, "handle", p)
                              ELSE i = 2 /\ Waits(u, 1, "own", p)
          /\ Waits(u, i, "handle", p) => p \in Chans /\ i = 4 /\ Waits(u, 3, "late", p)
          /\ Waits(u, i, "late", p) =>
               p \in Chans /\ i = 3 /\ Waits(u, 2, "unref", vspace[p]) /\ Waits(u, 1, "own", p)
          /\ Waits(u, i, "own", p) => i = 1
      BY DEF IInv, Structure, Making
    <3>3. PICK x : x = vspace[p]
      OBVIOUS
    <3>4. /\ Waits(u, 5, "setup", p)' <=> Waits(u, 5, "setup", p)
          /\ Waits(u, 2, "setup", p)' <=> Waits(u, 2, "setup", p)
          /\ Waits(u, 4, "handle", p)' <=> Waits(u, 4, "handle", p)
          /\ Waits(u, 1, "own", p)' <=> Waits(u, 1, "own", p)
          /\ Waits(u, 3, "late", p)' <=> Waits(u, 3, "late", p)
          /\ Waits(u, 2, "unref", x)' <=> Waits(u, 2, "unref", x)
          /\ \A c : Waits(u, 6, "bind", c)' <=> Waits(u, 6, "bind", c)
      BY <3>1, Zenon
    <3>5. \A d : Waits(u, i, d, p)' <=> Waits(u, i, d, p)
      BY <3>1, Zenon
    <3> QED
      BY <1>1, <3>2, <3>3, <3>4, <3>5
  <2> QED
    BY <2>1, <2>2
<1>12. Following'
  <2> SUFFICES ASSUME NEW u \in Threads, NEW i \in Nat, NEW p \in Objs
               PROVE  /\ Waits(u, i, "use", p)' => After(u, i, "unref", p)' \/ After(u, i, "drop", p)'
                      /\ Waits(u, i, "disown", p)' =>
                           /\ i >= 3 /\ i = Len(todo'[u])
                           /\ Waits(u, i - 1, "unref", p)' /\ Waits(u, i - 2, "unref", p)'
                      /\ Waits(u, i, "clear", p)' => p \in Chans /\ After(u, i, "drop", p)'
                      /\ Waits(u, i, "drop", p)' => After(u, i, "unbind", p)'
                      /\ Waits(u, i, "drop", p)' /\ p \in Chans => After(u, i, "unref", vspace[p])'
                      /\ Waits(u, i, "unbind", p)' => After(u, i, "kfree", p)'
    BY <1>1 DEF Following
  <2>1. CASE u = t
    BY <1>3, <1>5, <2>1
  <2>2. CASE u # t
    BY <1>1, <1>5, <2>2 DEF IInv, Structure, Following, After
  <2> QED
    BY <2>1, <2>2
<1>13. Unique'
  BY <1>3, <1>4, <1>5 DEF IInv, Structure, Unique, Once
<1>14. DyingZone'
  <2> SUFFICES ASSUME NEW u \in Threads, NEW i \in Nat, NEW w \in Threads, NEW j \in Nat,
                      NEW p \in Objs, NEW d \in Ops,
                      Waits(u, i, "kfree", p)', d # "clean", Waits(w, j, d, p)'
               PROVE  u = w /\ i <= j /\ d \in Doomed
    BY DEF DyingZone
  <2>1. Waits(u, i, "kfree", p) /\ p # v
    BY <1>4, <1>5
  <2>2. Waits(w, j, d, p)
    BY <1>5, <2>1
  <2> QED
    BY <2>1, <2>2 DEF IInv, Structure, DyingZone
<1>15. Backed'
  <2> SUFFICES ASSUME NEW u \in Threads, NEW i \in Nat, NEW p \in Objs, NEW d \in Ops,
                      Waits(u, i, d, p)', d # "clean", ~Dying(p)'
               PROVE  Waits(u, 1, "own", p)' \/ \E j \in 1 .. i : Waits(u, j, "unref", p)'
    BY DEF Backed
  <2>1. CASE Waits(u, i, d, p)
    BY <1>5, <1>9, <2>1 DEF IInv, Structure, Backed
  <2>2. CASE ~Waits(u, i, d, p)
    BY <1>5, <2>2
  <2> QED
    BY <2>1, <2>2
<1>16. Structure'
  BY <1>10, <1>11, <1>12, <1>13, <1>14, <1>15 DEF Structure
<1>17. OwnState'
  <2> SUFFICES ASSUME NEW u \in Threads, NEW i \in Nat, NEW p \in Objs, Waits(u, i, "own", p)'
               PROVE  /\ ~Dying(p) /\ filp[p] = Null /\ ~Pending("unref", p) /\ FileOf[u] \in open
                      /\ p \in Vspaces => \A c \in Chans : vspace[c] # p
                      /\ p \in Chans => \A f \in Files : maps[f][p] = 0
    BY <1>1, <1>8, <1>9 DEF OwnState
  <2>1. CASE Waits(u, i, "own", p)
    BY <2>1 DEF IInv, OwnState
  <2>2. CASE ~Waits(u, i, "own", p)
    BY <1>2, <1>3, <1>4, <1>5, <2>2
  <2> QED
    BY <2>1, <2>2
<1>18. OpState'
  <2>1. \A u \in Threads : \A i, p : \A d \in {"disown", "unref", "use", "unbind"} :
          Waits(u, i, d, p)' <=> Waits(u, i, d, p)
    BY <1>5
  <2>2. \A u \in Threads : \A i, p : \A d \in {"setup", "bind"} :
          Waits(u, i, d, p)' => Waits(u, i, d, p) \/ p = v
    BY <1>5
  <2> QED
    BY <1>1, <1>4, <1>9, <2>1, <2>2 DEF IInv, OpState, Bound
<1>19. Tables'
  BY <1>1, <1>4, <1>6, <1>8, <1>9 DEF IInv, Tables, Kind
<1>20. Memory'
  BY <1>1, <1>2, <1>4, <1>6, <1>8, <1>9 DEF IInv, Memory
<1>21. Holding'
  <2>1. \A p \in Objs : Live(p) => Live(p)'
    BY <1>9
  <2>2. \A c \in Chans : c \in Objs /\ c # v
    BY <1>2 DEF Objs
  <2>3. \A x \in Vspaces : x \in Objs
    BY DEF Objs
  <2>4. \A o \in Objs : filp'[o] # Null => Live(o)'
    BY <1>1, <2>1 DEF IInv, Holding
  <2>5. \A f \in Files, c \in Chans : maps'[f][c] > 0 => Live(c)' /\ f \in open'
    BY <1>1, <2>1, <2>2 DEF IInv, Holding
  <2>6. ASSUME NEW c \in Chans
        PROVE  /\ st'[c] # "none" => vspace'[c] \in Vspaces
               /\ Live(c)' => \A x : x = vspace[c] => Live(x)'
    <3>1. c \in Objs /\ c # v
      BY <2>2
    <3>2. st'[c] = st[c] /\ (Live(c)' <=> Live(c))
      BY <1>6, <1>9, <3>1
    <3>3. Live(c) => Live(vspace[c]) /\ vspace[c] \in Objs
      BY <2>3 DEF IInv, Holding, Live
    <3>4. st[c] # "none" => vspace[c] \in Vspaces
      BY DEF IInv, Holding
    <3> QED
      BY <1>1, <2>1, <3>2, <3>3, <3>4
  <2>7. \A x \in Vspaces : st'[x] = "none" => \A c \in Chans : vspace'[c] # x
    BY <1>1, <1>4, <1>6, <2>3 DEF IInv, Holding
  <2> QED
    <3>1. (\A c \in Chans : Live(c) => Live(vspace[c]))'
      BY <1>1, <2>6
    <3> QED
      BY <1>1, <2>4, <2>5, <2>6, <2>7, <3>1 DEF Holding
<1>22. Counted'
  <2> SUFFICES ASSUME NEW p \in Objs, Live(p)'
               PROVE  /\ IsFiniteSet(References(p)')
                      /\ ref'[p] = Cardinality(References(p)') /\ ref'[p] >= 1
    BY DEF Counted
  <2>1. \A u \in Threads : \A i, x : Waits(u, i, "unref", x)' <=> Waits(u, i, "unref", x)
    BY <1>5
  <2>2. \A c \in Chans, x \in Vspaces : Within(c, x)' <=> Within(c, x)
    <3>1. \A c \in Chans : Live(c)' <=> Live(c)
      BY <1>2, <1>9 DEF Objs
    <3>2. \A c \in Chans : c # v
      BY <1>2
    <3> SUFFICES ASSUME NEW c \in Chans, NEW x \in Vspaces
                 PROVE  Within(c, x)' <=> Within(c, x)
      OBVIOUS
    <3>3. Live(c)' <=> Live(c)
      BY <3>1
    <3>4. \A u \in Threads : \A i : /\ Waits(u, i, "bind", c)' <=> Waits(u, i, "bind", c)
                                    /\ Waits(u, i, "ref", x)' <=> Waits(u, i, "ref", x)
      BY <1>5, <3>2
    <3> QED
      BY <1>1, <3>3, <3>4, WithinIs, WithinNext
  <2>3. CASE p # v
    <3>1. IsFiniteSet(References(p)) /\ ref[p] = Cardinality(References(p)) /\ ref[p] >= 1
      BY <1>9, <2>3 DEF IInv, Counted
    <3>2. Owned(p)' <=> Owned(p)
      BY <1>1, <1>8, <2>3 DEF Owned
    <3>3. \A x : Refers(x, p)' <=> Refers(x, p)
      <4>1. p \notin Chans => p \in Vspaces
        BY DEF Objs
      <4>2. \A f : Mappings(f, p)' = Mappings(f, p)
        BY <1>1 DEF Mappings
      <4> QED
        BY <2>1, <2>2, <3>2, <4>1, <4>2 DEF Refers
    <3>4. References(p)' = References(p)
      BY <3>3, ReferencesAre, ReferencesNext
    <3> QED
      BY <1>6, <2>3, <3>1, <3>4
  <2>4. CASE p = v
    <3>1. Owned(v)'
      BY <1>4, <1>8 DEF Owned
    <3>2. \A c \in Chans : ~Within(c, v)'
      BY <1>1, <1>4, WithinNext
    <3>3. \A u \in Threads : \A i : ~Waits(u, i, "unref", v)'
      BY <1>4, <2>1
    <3>4. \A x : Refers(x, v)' <=> x = <<"owner", v, 1>>
      BY <1>2, <3>1, <3>2, <3>3 DEF Refers
    <3>5. References(v)' = {<<"owner", v, 1>>}
      BY <3>4, ReferencesNext
    <3>6. IsFiniteSet(References(v)') /\ Cardinality(References(v)') = 1
      BY <3>5, FS_Singleton
    <3> QED
      BY <1>6, <2>4, <3>6
  <2> QED
    BY <2>3, <2>4
<1>23. Closing'
  <2>1. SameOps({"clean", "disown"})
    BY <1>5 DEF SameOps
  <2>2. \A u \in Threads : todo'[u] # <<>> => todo[u] # <<>> \/ FileOf[u] \in open
    BY <1>3, <1>5
  <2> QED
    BY <1>1, <2>1, <2>2, KeepClosing DEF IInv
<1> QED
  BY <1>7, <1>16, <1>17, <1>18, <1>19, <1>20, <1>21, <1>22, <1>23 DEF IInv

\* pscnv_ioctl_chan_new: a new channel, and the reference of the lookup.
LEMMA ChanNewIInv ==
  ASSUME IInv, NEW t \in Threads, NEW s \in Slots, NEW c \in Chans, ChanNew(t, s, c)
  PROVE  IInv'
<1>1. PICK v : v = table[s]
  OBVIOUS
<1>2. /\ Idle(t) /\ s[1] = "vspace" /\ st[c] = "none" /\ Found(FileOf[t], s)
      /\ ref' = [ref EXCEPT ![v] = @ + 1, ![c] = 1]
      /\ st' = [st EXCEPT ![c] = "live"] /\ vspace' = [vspace EXCEPT ![c] = v]
      /\ todo' = [todo EXCEPT ![t] = <<Op("ref", v), Op("bind", c), Op("setup", c), Op("handle", c),
                                       Op("late", c), Op("unref", v), Op("own", c)>>]
      /\ UNCHANGED <<table, slot, filp, mem, handle, maps, open>>
  BY <1>1 DEF ChanNew, Start
<1>3. /\ v \in Objs /\ Live(v) /\ ~Dying(v) /\ st[v] = "live" /\ "vspace" = Kind(v)
      /\ ~Pending("own", v)
  BY <1>1, <1>2, FoundIs
<1>4. c \in Objs /\ v \in Vspaces /\ v \notin Chans /\ c # v
  BY <1>3, ObjsAssumption DEF Objs, Kind
<1>5. FileOf[t] \in open /\ todo[t] = <<>> /\ \A i, d, p : ~Waits(t, i, d, p)
  BY <1>2, IdleWaits
<1>6. /\ \A u \in Threads : \A i, d : Waits(u, i, d, c) => d = "clean"
      /\ \A d : d # "clean" => ~Pending(d, c)
      /\ slot[c] = Null /\ ~mem[c] /\ filp[c] = Null /\ ~Live(c) /\ ~Dying(c)
      /\ ~handle[c] /\ \A f \in Files : maps[f][c] = 0
      /\ \A r \in Slots : table[r] # c
  BY <1>2, <1>4, FreshIs
<1>7. /\ \A u \in Threads : \A i, d, p : Waits(u, i, d, p)' <=>
           \/ Waits(u, i, d, p)
           \/ u = t /\ i = 1 /\ d = "own" /\ p = c
           \/ u = t /\ i = 2 /\ d = "unref" /\ p = v
           \/ u = t /\ i = 3 /\ d = "late" /\ p = c
           \/ u = t /\ i = 4 /\ d = "handle" /\ p = c
           \/ u = t /\ i = 5 /\ d = "setup" /\ p = c
           \/ u = t /\ i = 6 /\ d = "bind" /\ p = c
           \/ u = t /\ i = 7 /\ d = "ref" /\ p = v
      /\ todo' \in [Threads -> Seq(OpSet)] /\ Len(todo'[t]) = 7
      /\ \A u \in Threads : u # t => todo'[u] = todo[u]
  <2>1. <<Op("ref", v), Op("bind", c), Op("setup", c), Op("handle", c),
          Op("late", c), Op("unref", v), Op("own", c)>> \in Seq(OpSet)
    BY <1>3, <1>4, OpTyped DEF Ops
  <2>2. /\ Replaced(t, 1, <<Op("ref", v), Op("bind", c), Op("setup", c), Op("handle", c),
                            Op("late", c), Op("unref", v), Op("own", c)>>)
        /\ todo' \in [Threads -> Seq(OpSet)]
        /\ todo'[t] = <<Op("ref", v), Op("bind", c), Op("setup", c), Op("handle", c),
                        Op("late", c), Op("unref", v), Op("own", c)>>
        /\ \A u \in Threads : u # t => todo'[u] = todo[u]
    BY <1>2, <2>1, SetReplaces DEF IInv
  <2>3. Len(todo'[t]) = 7
    BY <2>2
  <2>4. 1 \in Nat
    OBVIOUS
  <2>5. \A u \in Threads : \A i, d, p : Waits(u, i, d, p)' <=>
          IF u = t /\ i \in Nat /\ i >= 1
            THEN \/ i = 1 /\ d = "own" /\ p = c
                 \/ i = 1 + 1 /\ d = "unref" /\ p = v
                 \/ i = 1 + 2 /\ d = "late" /\ p = c
                 \/ i = 1 + 3 /\ d = "handle" /\ p = c
                 \/ i = 1 + 4 /\ d = "setup" /\ p = c
                 \/ i = 1 + 5 /\ d = "bind" /\ p = c
                 \/ i = 1 + 6 /\ d = "ref" /\ p = v
            ELSE Waits(u, i, d, p)
    <3>1. Replaced(t, 1, <<Op("ref", v), Op("bind", c), Op("setup", c), Op("handle", c),
                           Op("late", c), Op("unref", v), Op("own", c)>>)
      BY <2>2
    <3> QED
      BY <2>4, <3>1, Replaced7, ZenonT(40)
  <2>6. \A u \in Threads : \A i, d, p : Waits(u, i, d, p)' <=>
           \/ Waits(u, i, d, p)
           \/ u = t /\ i = 1 /\ d = "own" /\ p = c
           \/ u = t /\ i = 2 /\ d = "unref" /\ p = v
           \/ u = t /\ i = 3 /\ d = "late" /\ p = c
           \/ u = t /\ i = 4 /\ d = "handle" /\ p = c
           \/ u = t /\ i = 5 /\ d = "setup" /\ p = c
           \/ u = t /\ i = 6 /\ d = "bind" /\ p = c
           \/ u = t /\ i = 7 /\ d = "ref" /\ p = v
    BY <1>5, <2>5
  <2> QED
    BY <2>2, <2>3, <2>6
<1>8. /\ st'[c] = "live" /\ \A p \in Objs : p # c => st'[p] = st[p]
      /\ ref'[c] = 1 /\ ref'[v] = ref[v] + 1
      /\ \A p \in Objs : p # c /\ p # v => ref'[p] = ref[p]
      /\ vspace'[c] = v /\ \A d \in Chans : d # c => vspace'[d] = vspace[d]
  BY <1>2, <1>3, <1>4 DEF IInv, TypeOK
<1>9. TypeOK'
  <2>1. st' \in [Objs -> {"none", "live", "freed"}]
    BY <1>2 DEF IInv, TypeOK
  <2>2. vspace' \in [Chans -> Vspaces \cup {Null}]
    BY <1>2, <1>4 DEF IInv, TypeOK
  <2>3. ref' \in [Objs -> Nat]
    <3>1. ref \in [Objs -> Nat] /\ ref[v] \in Nat
      BY <1>3 DEF IInv, TypeOK
    <3> QED
      BY <1>2, <1>4, <3>1
  <2> QED
    BY <1>2, <1>7, <2>1, <2>2, <2>3 DEF IInv, TypeOK, OpSet
<1>10. /\ \A d, p : d \in {"clean", "use", "disown", "clear", "drop", "unbind", "kfree"} =>
            /\ \A u \in Threads : \A i : Waits(u, i, d, p)' <=> Waits(u, i, d, p)
            /\ Pending(d, p)' <=> Pending(d, p)
       /\ \A d, p : d \in {"own", "setup", "bind", "handle", "late"} /\ p # c =>
            /\ \A u \in Threads : \A i : Waits(u, i, d, p)' <=> Waits(u, i, d, p)
            /\ Pending(d, p)' <=> Pending(d, p)
       /\ \A d, p : d \in {"unref", "ref"} /\ p # v =>
            /\ \A u \in Threads : \A i : Waits(u, i, d, p)' <=> Waits(u, i, d, p)
            /\ Pending(d, p)' <=> Pending(d, p)
       /\ Pending("own", c)' /\ Pending("setup", c)' /\ Pending("bind", c)'
  <2>1. \A d, p : d \in {"clean", "use", "disown", "clear", "drop", "unbind", "kfree"} =>
          \A u \in Threads : \A i : Waits(u, i, d, p)' <=> Waits(u, i, d, p)
    BY <1>7
  <2>2. \A d, p : d \in {"own", "setup", "bind", "handle", "late"} /\ p # c =>
          \A u \in Threads : \A i : Waits(u, i, d, p)' <=> Waits(u, i, d, p)
    BY <1>7
  <2>3. \A d, p : d \in {"unref", "ref"} /\ p # v =>
          \A u \in Threads : \A i : Waits(u, i, d, p)' <=> Waits(u, i, d, p)
    BY <1>7
  <2>4. Waits(t, 1, "own", c)' /\ Waits(t, 5, "setup", c)' /\ Waits(t, 6, "bind", c)'
    BY <1>7
  <2>5. Pending("own", c)' /\ Pending("setup", c)' /\ Pending("bind", c)'
    BY <2>4, PendingNext, Zenon
  <2>6. \A d, p : (\A u \in Threads : \A i : Waits(u, i, d, p)' <=> Waits(u, i, d, p)) =>
                  (Pending(d, p)' <=> Pending(d, p))
    BY PendingIs, PendingNext, Zenon
  <2> QED
    BY <2>1, <2>2, <2>3, <2>5, <2>6
<1>11. /\ \A p \in Objs : p # c => (Live(p)' <=> Live(p))
       /\ Live(c)' /\ ~Dying(c)'
       /\ \A p : Dying(p)' <=> Dying(p)
  BY <1>6, <1>8, <1>10 DEF Live, Dying
<1>12. Typed'
  <2> SUFFICES ASSUME NEW u \in Threads, NEW i, NEW d, NEW p, Waits(u, i, d, p)'
               PROVE  /\ i \in Nat /\ 1 <= i /\ i <= Len(todo'[u]) /\ d \in Ops
                      /\ IF d = "clean" THEN p \in Slots /\ FileOf[u] \notin open'
                                        ELSE p \in Objs /\ st'[p] = "live"
    BY DEF Typed
  <2>1. CASE Waits(u, i, d, p)
    <3>1. u # t /\ (d # "clean" => p # c)
      BY <1>5, <1>6, <2>1
    <3> QED
      BY <1>2, <1>7, <1>8, <2>1, <3>1 DEF IInv, Structure, Typed
  <2>2. CASE ~Waits(u, i, d, p)
    <3>1. u = t /\ (p = v \/ p = c) /\ i \in 1 .. 7 /\ d \in Ops /\ d # "clean"
      BY <1>7, <2>2 DEF Ops
    <3>2. p \in Objs /\ st'[p] = "live"
      BY <1>3, <1>4, <1>8, <3>1
    <3>3. i \in Nat /\ 1 <= i /\ i <= Len(todo'[u])
      <4>1. Len(todo'[u]) = 7
        BY <1>7, <3>1
      <4> QED
        BY <3>1, <4>1
    <3> QED
      BY <3>1, <3>2, <3>3
  <2> QED
    BY <2>1, <2>2
<1>13. Making'
  <2> SUFFICES ASSUME NEW u \in Threads, NEW i \in Nat, NEW p \in Objs, NEW x, x = vspace'[p]
               PROVE  /\ Waits(u, i, "ref", p)' =>
                           i = 7 /\ \E b \in Chans : Waits(u, 6, "bind", b)' /\ vspace'[b] = p
                      /\ Waits(u, i, "bind", p)' =>
                           IF p \in Chans THEN i = 6 /\ Waits(u, 5, "setup", p)'
                                          ELSE i = 3 /\ Waits(u, 2, "setup", p)'
                      /\ Waits(u, i, "setup", p)' =>
                           IF p \in Chans THEN i = 5 /\ Waits(u, 4, "handle", p)'
                                          ELSE i = 2 /\ Waits(u, 1, "own", p)'
                      /\ Waits(u, i, "handle", p)' => p \in Chans /\ i = 4 /\ Waits(u, 3, "late", p)'
                      /\ Waits(u, i, "late", p)' =>
                           p \in Chans /\ i = 3 /\ Waits(u, 2, "unref", x)' /\ Waits(u, 1, "own", p)'
                      /\ Waits(u, i, "own", p)' => i = 1
    BY DEF Making
  <2>1. CASE u = t
    BY <1>4, <1>5, <1>7, <1>8, <2>1
  <2>2. CASE u # t
    <3>1. \A j, d, q : Waits(u, j, d, q)' <=> Waits(u, j, d, q)
      BY <1>7, <2>2
    <3>2. /\ Waits(u, i, "ref", p) =>
               i = 7 /\ \E b \in Chans : Waits(u, 6, "bind", b) /\ vspace[b] = p
          /\ Waits(u, i, "bind", p) =>
               IF p \in Chans THEN i = 6 /\ Waits(u, 5, "setup", p)
                              ELSE i = 3 /\ Waits(u, 2, "setup", p)
          /\ Waits(u, i, "setup", p) =>
               IF p \in Chans THEN i = 5 /\ Waits(u, 4, "handle", p)
                              ELSE i = 2 /\ Waits(u, 1, "own", p)
          /\ Waits(u, i, "handle", p) => p \in Chans /\ i = 4 /\ Waits(u, 3, "late", p)
          /\ Waits(u, i, "late", p) =>
               p \in Chans /\ i = 3 /\ Waits(u, 2, "unref", vspace[p]) /\ Waits(u, 1, "own", p)
          /\ Waits(u, i, "own", p) => i = 1
      BY DEF IInv, Structure, Making
    <3>3. Waits(u, i, "late", p) => p # c /\ x = vspace[p]
      BY <1>6, <1>8, <3>2
    <3>4. \A b \in Chans : Waits(u, 6, "bind", b) => vspace'[b] = vspace[b]
      BY <1>6, <1>8
    <3>5. /\ Waits(u, 5, "setup", p)' <=> Waits(u, 5, "setup", p)
          /\ Waits(u, 2, "setup", p)' <=> Waits(u, 2, "setup", p)
          /\ Waits(u, 4, "handle", p)' <=> Waits(u, 4, "handle", p)
          /\ Waits(u, 1, "own", p)' <=> Waits(u, 1, "own", p)
          /\ Waits(u, 3, "late", p)' <=> Waits(u, 3, "late", p)
          /\ Waits(u, 2, "unref", x)' <=> Waits(u, 2, "unref", x)
          /\ \A b : Waits(u, 6, "bind", b)' <=> Waits(u, 6, "bind", b)
      BY <3>1, Zenon
    <3>6. \A d : Waits(u, i, d, p)' <=> Waits(u, i, d, p)
      BY <3>1, Zenon
    <3> QED
      BY <3>2, <3>3, <3>4, <3>5, <3>6
  <2> QED
    BY <2>1, <2>2
<1>14. Following'
  <2> SUFFICES ASSUME NEW u \in Threads, NEW i \in Nat, NEW p \in Objs
               PROVE  /\ Waits(u, i, "use", p)' => After(u, i, "unref", p)' \/ After(u, i, "drop", p)'
                      /\ Waits(u, i, "disown", p)' =>
                           /\ i >= 3 /\ i = Len(todo'[u])
                           /\ Waits(u, i - 1, "unref", p)' /\ Waits(u, i - 2, "unref", p)'
                      /\ Waits(u, i, "clear", p)' => p \in Chans /\ After(u, i, "drop", p)'
                      /\ Waits(u, i, "drop", p)' => After(u, i, "unbind", p)'
                      /\ Waits(u, i, "drop", p)' /\ p \in Chans => After(u, i, "unref", vspace[p])'
                      /\ Waits(u, i, "unbind", p)' => After(u, i, "kfree", p)'
    BY DEF Following
  <2>1. CASE u = t
    <3>1. \A d \in {"use", "disown", "clear", "drop", "unbind"} : ~Waits(u, i, d, p)'
      BY <1>5, <1>7, <2>1
    <3> QED
      BY <3>1
  <2>2. CASE u # t
    <3>1. \A j, d, q : Waits(u, j, d, q)' <=> Waits(u, j, d, q)
      BY <1>7, <2>2
    <3>2. p \in Chans /\ Waits(u, i, "drop", p) => vspace'[p] = vspace[p]
      BY <1>6, <1>8
    <3>3. todo'[u] = todo[u]
      BY <1>7, <2>2
    <3> QED
      BY <3>1, <3>2, <3>3 DEF IInv, Structure, Following, After
  <2> QED
    BY <2>1, <2>2
<1>15. Unique'
  <2> SUFFICES ASSUME NEW u \in Threads, NEW i \in Nat, NEW w \in Threads, NEW j \in Nat,
                      NEW p \in Objs, NEW d \in Once, Waits(u, i, d, p)', Waits(w, j, d, p)'
               PROVE  u = w /\ i = j
    BY DEF Unique
  <2>1. CASE p = c
    <3>1. ~Waits(u, i, d, p) /\ ~Waits(w, j, d, p)
      BY <1>6, <2>1 DEF Once
    <3> QED
      BY <1>4, <1>7, <2>1, <3>1 DEF Once
  <2>2. CASE p # c
    <3>1. Waits(u, i, d, p) /\ Waits(w, j, d, p)
      <4>1. CASE d = "own"
        BY <1>10, <2>2, <4>1
      <4>2. CASE d \in {"disown", "drop", "unbind"}
        BY <1>7, <4>2
      <4> QED
        BY <4>1, <4>2 DEF Once
    <3> QED
      BY <3>1 DEF IInv, Structure, Unique
  <2> QED
    BY <2>1, <2>2
<1>16. DyingZone'
  <2> SUFFICES ASSUME NEW u \in Threads, NEW i \in Nat, NEW w \in Threads, NEW j \in Nat,
                      NEW p \in Objs, NEW d \in Ops,
                      Waits(u, i, "kfree", p)', d # "clean", Waits(w, j, d, p)'
               PROVE  u = w /\ i <= j /\ d \in Doomed
    BY DEF DyingZone
  <2>1. Waits(u, i, "kfree", p) /\ p # c /\ p # v
    <3>1. Waits(u, i, "kfree", p)
      BY <1>7
    <3>2. Dying(p)
      BY <3>1, PendingIs DEF Dying
    <3> QED
      BY <1>3, <1>6, <3>1, <3>2
  <2>2. Waits(w, j, d, p)
    BY <1>7, <2>1
  <2> QED
    BY <2>1, <2>2 DEF IInv, Structure, DyingZone
<1>17. Backed'
  <2> SUFFICES ASSUME NEW u \in Threads, NEW i \in Nat, NEW p \in Objs, NEW d \in Ops,
                      Waits(u, i, d, p)', d # "clean", ~Dying(p)'
               PROVE  Waits(u, 1, "own", p)' \/ \E j \in 1 .. i : Waits(u, j, "unref", p)'
    BY DEF Backed
  <2>1. CASE Waits(u, i, d, p)
    BY <1>7, <1>11, <2>1 DEF IInv, Structure, Backed
  <2>2. CASE ~Waits(u, i, d, p)
    <3>1. u = t /\ (p = c \/ (p = v /\ i \in {2, 7}))
      BY <1>7, <2>2
    <3>2. Waits(t, 1, "own", c)' /\ Waits(t, 2, "unref", v)'
      BY <1>7
    <3> QED
      BY <3>1, <3>2
  <2> QED
    BY <2>1, <2>2
<1>18. Structure'
  BY <1>12, <1>13, <1>14, <1>15, <1>16, <1>17 DEF Structure
<1>19. OwnState'
  <2> SUFFICES ASSUME NEW u \in Threads, NEW i \in Nat, NEW p \in Objs, Waits(u, i, "own", p)'
               PROVE  /\ ~Dying(p) /\ filp[p] = Null /\ ~Pending("unref", p)' /\ FileOf[u] \in open
                      /\ p \in Vspaces => \A b \in Chans : vspace'[b] # p
                      /\ p \in Chans => \A f \in Files : maps[f][p] = 0
    BY <1>2, <1>11 DEF OwnState
  <2>1. CASE p = c
    <3>1. ~Pending("unref", c)'
      BY <1>4, <1>6, <1>10
    <3>2. u = t
      BY <1>6, <1>7, <2>1
    <3> QED
      BY <1>4, <1>5, <1>6, <2>1, <3>1, <3>2, ObjsAssumption
  <2>2. CASE p # c
    <3>1. Waits(u, i, "own", p)
      BY <1>10, <2>2
    <3>2. p # v
      BY <1>3, <3>1, PendingIs
    <3>3. ~Pending("unref", p)'
      BY <1>10, <3>1, <3>2 DEF IInv, OwnState
    <3> QED
      BY <1>8, <3>1, <3>2, <3>3 DEF IInv, OwnState
  <2> QED
    BY <2>1, <2>2
<1>20. OpState'
  <2>1. \A u \in Threads : \A i, p : \A d \in {"disown", "use", "unbind"} :
          Waits(u, i, d, p)' <=> Waits(u, i, d, p)
    BY <1>10
  <2>2. \A u \in Threads : \A i, p : \A d \in {"setup", "bind"} :
          Waits(u, i, d, p)' => Waits(u, i, d, p) \/ p = c
    BY <1>10
  <2>3. \A u \in Threads : \A i, p : Waits(u, i, "unref", p)' => Waits(u, i, "unref", p) \/ p = v
    BY <1>10
  <2> QED
    BY <1>2, <1>3, <1>6, <1>11, <2>1, <2>2, <2>3 DEF IInv, OpState, Bound
<1>21. Tables'
  BY <1>2, <1>6, <1>8, <1>10, <1>11 DEF IInv, Tables, Kind
<1>22. Memory'
  BY <1>2, <1>4, <1>6, <1>8, <1>10, <1>11 DEF IInv, Memory
<1>23. \A p \in Objs : Live(p) => Live(p)'
  BY <1>11
<1>24. Holding'
  <2>1. \A o \in Objs : filp'[o] # Null => Live(o)'
    BY <1>2, <1>23 DEF IInv, Holding
  <2>2. \A d \in Chans : d \in Objs
    BY DEF Objs
  <2>3. \A f \in Files, d \in Chans : maps'[f][d] > 0 => Live(d)' /\ f \in open'
    BY <1>2, <1>23, <2>2 DEF IInv, Holding
  <2>4. ASSUME NEW d \in Chans
        PROVE  /\ st'[d] # "none" => vspace'[d] \in Vspaces
               /\ Live(d)' => \A x : x = vspace'[d] => Live(x)'
    <3>1. CASE d = c
      BY <1>3, <1>4, <1>8, <1>23, <3>1
    <3>2. CASE d # c
      <4>1. d \in Objs
        BY <2>2
      <4>2. st'[d] = st[d] /\ (Live(d)' <=> Live(d)) /\ vspace'[d] = vspace[d]
        BY <1>8, <1>11, <3>2, <4>1
      <4>3. Live(d) => Live(vspace[d]) /\ vspace[d] \in Objs
        BY DEF IInv, Holding, Live, Objs
      <4>4. st[d] # "none" => vspace[d] \in Vspaces
        BY DEF IInv, Holding
      <4> QED
        BY <1>23, <4>2, <4>3, <4>4
    <3> QED
      BY <3>1, <3>2
  <2>5. \A x \in Vspaces : st'[x] = "none" => \A d \in Chans : vspace'[d] # x
    <3> SUFFICES ASSUME NEW x \in Vspaces, st'[x] = "none", NEW d \in Chans
                 PROVE  vspace'[d] # x
      OBVIOUS
    <3>1. x \in Objs /\ x # c /\ st[x] = "none" /\ x # v
      BY <1>3, <1>8, ObjsAssumption DEF Objs
    <3>2. vspace[d] # x
      BY <3>1 DEF IInv, Holding
    <3> QED
      BY <1>8, <3>1, <3>2
  <2>6. (\A d \in Chans : Live(d) => Live(vspace[d]))'
    BY <2>4
  <2> QED
    BY <2>1, <2>3, <2>4, <2>5, <2>6 DEF Holding
<1>25. \A p : p # c => (Owned(p)' <=> Owned(p))
  BY <1>2, <1>10 DEF Owned
<1>26. Owned(c)'
  BY <1>6, <1>10 DEF Owned
<1>27. \A d \in Chans, x \in Vspaces : Within(d, x)' <=> Within(d, x)
  <2> SUFFICES ASSUME NEW d \in Chans, NEW x \in Vspaces
               PROVE  Within(d, x)' <=> Within(d, x)
    OBVIOUS
  <2>1. CASE d = c
    <3>1. ~Within(c, x)
      BY <1>6, WithinIs
    <3>2. Waits(t, 6, "bind", c)' /\ Waits(t, 6 + 1, "ref", v)'
      BY <1>7
    <3>3. ~Within(c, x)'
      BY <1>8, <3>2, WithinNext
    <3> QED
      BY <2>1, <3>1, <3>3
  <2>2. CASE d # c
    <3>1. d \in Objs
      BY DEF Objs
    <3>2. (Live(d)' <=> Live(d)) /\ vspace'[d] = vspace[d]
      BY <1>8, <1>11, <2>2, <3>1
    <3>3. \A u \in Threads : \A i : Waits(u, i, "bind", d)' <=> Waits(u, i, "bind", d)
      BY <1>10, <2>2
    <3>4. \A u \in Threads : \A i : Waits(u, i, "bind", d) =>
            (Waits(u, i + 1, "ref", x)' <=> Waits(u, i + 1, "ref", x))
      BY <1>5, <1>7
    <3> QED
      BY <3>2, <3>3, <3>4, WithinIs, WithinNext
  <2> QED
    BY <2>1, <2>2
<1>28. Counted'
  <2> SUFFICES ASSUME NEW p \in Objs, Live(p)'
               PROVE  /\ IsFiniteSet(References(p)')
                      /\ ref'[p] = Cardinality(References(p)') /\ ref'[p] >= 1
    BY DEF Counted
  <2>1. p # c => IsFiniteSet(References(p)) /\ ref[p] = Cardinality(References(p)) /\ ref[p] >= 1
    BY <1>11 DEF IInv, Counted
  <2>2. \A f, x : Mappings(f, x)' = Mappings(f, x)
    BY <1>2 DEF Mappings
  <2>3. p \notin Chans => p \in Vspaces
    BY DEF Objs
  <2>4. CASE p # c /\ p # v
    <3>1. \A u \in Threads : \A i : Waits(u, i, "unref", p)' <=> Waits(u, i, "unref", p)
      BY <1>10, <2>4
    <3>2. \A x : Refers(x, p)' <=> Refers(x, p)
      BY <1>25, <1>27, <2>2, <2>3, <2>4, <3>1 DEF Refers
    <3>3. References(p)' = References(p)
      BY <3>2, ReferencesAre, ReferencesNext
    <3> QED
      BY <1>8, <2>1, <2>4, <3>3
  <2>5. CASE p = v
    <3>1. PICK y : y = <<"unref", t, 2>>
      OBVIOUS
    <3>2. \A u \in Threads : \A i : Waits(u, i, "unref", v)' <=> Waits(u, i, "unref", v) \/ (u = t /\ i = 2)
      BY <1>7
    <3>3. \A x : Refers(x, v)' <=> Refers(x, v) \/ x = y
      BY <1>4, <1>25, <1>27, <3>1, <3>2 DEF Refers
    <3>4. ~Refers(y, v)
      BY <1>5, <3>1 DEF Refers
    <3>5. y \notin References(v)
      BY <3>4, ReferencesAre
    <3>6. IsFiniteSet(References(v)') /\ Cardinality(References(v)') = Cardinality(References(v)) + 1
      BY <1>4, <2>1, <2>5, <3>3, <3>5, OneMore
    <3>7. ref[v] \in Nat
      BY <1>3 DEF IInv, TypeOK
    <3> QED
      BY <1>4, <1>8, <2>1, <2>5, <3>6, <3>7
  <2>6. CASE p = c
    <3>1. \A u \in Threads : \A i : ~Waits(u, i, "unref", c)'
      BY <1>4, <1>6, <1>10
    <3>2. \A f \in Files : \A n : n \notin Mappings(f, c)'
      BY <1>2, <1>6 DEF Mappings
    <3>3. \A x : Refers(x, c)' <=> x = <<"owner", c, 1>>
      BY <1>26, <3>1, <3>2 DEF Refers
    <3>4. References(c)' = {<<"owner", c, 1>>}
      BY <3>3, ReferencesNext
    <3>5. IsFiniteSet(References(c)') /\ Cardinality(References(c)') = 1
      BY <3>4, FS_Singleton
    <3> QED
      BY <1>8, <2>6, <3>5
  <2> QED
    BY <2>4, <2>5, <2>6
<1>29. Closing'
  <2>1. SameOps({"clean", "disown"})
    BY <1>10, SMTT(30) DEF SameOps
  <2>2. \A u \in Threads : todo'[u] # <<>> => todo[u] # <<>> \/ FileOf[u] \in open
    BY <1>5, <1>7
  <2> QED
    BY <1>2, <2>1, <2>2, KeepClosing DEF IInv
<1> QED
  BY <1>9, <1>18, <1>19, <1>20, <1>21, <1>22, <1>24, <1>28, <1>29 DEF IInv

-----------------------------------------------------------------------------
(* The death of a client                                                   *)

\* The places of what is joined.
LEMMA Concatenated ==
  ASSUME NEW S, NEW q \in Seq(S), NEW r \in Seq(S)
  PROVE  /\ q \o r \in Seq(S) /\ Len(q) \in Nat /\ Len(r) \in Nat /\ Len(q \o r) = Len(q) + Len(r)
         /\ \A i \in 1 .. Len(q) : (q \o r)[i] = q[i]
         /\ \A i \in 1 .. Len(r) : (q \o r)[Len(q) + i] = r[i]
<1>1. /\ q \o r \in Seq(S) /\ Len(q) \in Nat /\ Len(r) \in Nat /\ Len(q \o r) = Len(q) + Len(r)
  OBVIOUS
<1>2. \A i \in 1 .. Len(q) : (q \o r)[i] = q[i]
  BY <1>1
<1>3. ASSUME NEW i \in 1 .. Len(r)
      PROVE  (q \o r)[Len(q) + i] = r[i]
  <2>1. Len(q) + i \in 1 .. Len(q) + Len(r) /\ ~(Len(q) + i <= Len(q)) /\ (Len(q) + i) - Len(q) = i
    BY <1>1
  <2> QED
    BY <1>1, <2>1
<1> QED
  BY <1>1, <1>2, <1>3

\* The loops of pscnv_chan_cleanup and pscnv_vspace_cleanup go through the
\* tables: every slot has its turn.
LEMMA CleanupIs ==
  /\ Cleanup \in Seq(OpSet)
  /\ \A j \in 1 .. Len(Cleanup) : \E s \in Slots : Cleanup[j] = Op("clean", s)
  /\ \A s \in Slots : \E j \in 1 .. Len(Cleanup) : Cleanup[j] = Op("clean", s)
<1> DEFINE Q == [i \in 1 .. MaxCid |-> Op("clean", <<"chan", i>>)]
           R == [i \in 1 .. MaxVid |-> Op("clean", <<"vspace", i>>)]
<1>1. MaxCid \in Nat /\ MaxVid \in Nat
  BY ObjsAssumption
<1>2. (\A i \in 1 .. MaxCid : <<"chan", i>> \in Slots) /\ (\A i \in 1 .. MaxVid : <<"vspace", i>> \in Slots)
  BY DEF Slots
<1>3. \A s \in Slots : Op("clean", s) \in OpSet
  BY OpTyped DEF Ops
<1>4. Q \in Seq(OpSet) /\ Len(Q) = MaxCid /\ \A i \in 1 .. MaxCid : Q[i] = Op("clean", <<"chan", i>>)
  BY <1>1, <1>2, <1>3
<1>5. R \in Seq(OpSet) /\ Len(R) = MaxVid /\ \A i \in 1 .. MaxVid : R[i] = Op("clean", <<"vspace", i>>)
  BY <1>1, <1>2, <1>3
<1>6. Cleanup = Q \o R
  BY DEF Cleanup
<1> HIDE DEF Q, R
<1>7. /\ Cleanup \in Seq(OpSet) /\ Len(Cleanup) = MaxCid + MaxVid
      /\ \A i \in 1 .. MaxCid : Cleanup[i] = Op("clean", <<"chan", i>>)
      /\ \A i \in 1 .. MaxVid : Cleanup[MaxCid + i] = Op("clean", <<"vspace", i>>)
  BY <1>4, <1>5, <1>6, Concatenated
<1>8. ASSUME NEW j \in 1 .. Len(Cleanup)
      PROVE  \E s \in Slots : Cleanup[j] = Op("clean", s)
  <2>1. CASE j <= MaxCid
    <3>1. j \in 1 .. MaxCid
      BY <1>1, <1>7, <2>1
    <3> QED
      BY <1>2, <1>7, <3>1
  <2>2. CASE j > MaxCid
    <3>1. j - MaxCid \in 1 .. MaxVid /\ MaxCid + (j - MaxCid) = j
      BY <1>1, <1>7, <2>2
    <3>2. Cleanup[MaxCid + (j - MaxCid)] = Op("clean", <<"vspace", j - MaxCid>>)
      BY <1>7, <3>1
    <3> QED
      BY <1>2, <3>1, <3>2
  <2> QED
    BY <1>1, <1>7, <2>1, <2>2
<1>9. ASSUME NEW s \in Slots
      PROVE  \E j \in 1 .. Len(Cleanup) : Cleanup[j] = Op("clean", s)
  <2>1. CASE s \in {"chan"} \X (1 .. MaxCid)
    <3>1. PICK i \in 1 .. MaxCid : s = <<"chan", i>>
      BY <2>1
    <3>2. i \in 1 .. Len(Cleanup)
      BY <1>1, <1>7
    <3> QED
      BY <1>7, <3>1, <3>2
  <2>2. CASE s \in {"vspace"} \X (1 .. MaxVid)
    <3>1. PICK i \in 1 .. MaxVid : s = <<"vspace", i>>
      BY <2>2
    <3>2. MaxCid + i \in 1 .. Len(Cleanup)
      BY <1>1, <1>7
    <3> QED
      BY <1>7, <3>1, <3>2
  <2> QED
    BY <2>1, <2>2 DEF Slots
<1> QED
  BY <1>7, <1>8, <1>9

\* The calls under way stay as they are.
LEMMA KeepMaking ==
  ASSUME Making, SameOps({"ref", "bind", "setup", "handle", "late", "own", "unref"}), vspace' = vspace
  PROVE  Making'
<1> SUFFICES ASSUME NEW u \in Threads, NEW i \in Nat, NEW p \in Objs, NEW x, x = vspace[p]
             PROVE  /\ Waits(u, i, "ref", p)' =>
                         i = 7 /\ \E b \in Chans : Waits(u, 6, "bind", b)' /\ vspace[b] = p
                    /\ Waits(u, i, "bind", p)' =>
                         IF p \in Chans THEN i = 6 /\ Waits(u, 5, "setup", p)'
                                        ELSE i = 3 /\ Waits(u, 2, "setup", p)'
                    /\ Waits(u, i, "setup", p)' =>
                         IF p \in Chans THEN i = 5 /\ Waits(u, 4, "handle", p)'
                                        ELSE i = 2 /\ Waits(u, 1, "own", p)'
                    /\ Waits(u, i, "handle", p)' => p \in Chans /\ i = 4 /\ Waits(u, 3, "late", p)'
                    /\ Waits(u, i, "late", p)' =>
                         p \in Chans /\ i = 3 /\ Waits(u, 2, "unref", x)' /\ Waits(u, 1, "own", p)'
                    /\ Waits(u, i, "own", p)' => i = 1
  BY DEF Making
<1>1. \A j, q : /\ Waits(u, j, "ref", q)' <=> Waits(u, j, "ref", q)
                /\ Waits(u, j, "bind", q)' <=> Waits(u, j, "bind", q)
                /\ Waits(u, j, "setup", q)' <=> Waits(u, j, "setup", q)
                /\ Waits(u, j, "handle", q)' <=> Waits(u, j, "handle", q)
                /\ Waits(u, j, "late", q)' <=> Waits(u, j, "late", q)
                /\ Waits(u, j, "own", q)' <=> Waits(u, j, "own", q)
                /\ Waits(u, j, "unref", q)' <=> Waits(u, j, "unref", q)
  BY DEF SameOps
<1>2. /\ Waits(u, i, "ref", p) =>
           i = 7 /\ \E b \in Chans : Waits(u, 6, "bind", b) /\ vspace[b] = p
      /\ Waits(u, i, "bind", p) =>
           IF p \in Chans THEN i = 6 /\ Waits(u, 5, "setup", p)
                          ELSE i = 3 /\ Waits(u, 2, "setup", p)
      /\ Waits(u, i, "setup", p) =>
           IF p \in Chans THEN i = 5 /\ Waits(u, 4, "handle", p)
                          ELSE i = 2 /\ Waits(u, 1, "own", p)
      /\ Waits(u, i, "handle", p) => p \in Chans /\ i = 4 /\ Waits(u, 3, "late", p)
      /\ Waits(u, i, "late", p) =>
           p \in Chans /\ i = 3 /\ Waits(u, 2, "unref", x) /\ Waits(u, 1, "own", p)
      /\ Waits(u, i, "own", p) => i = 1
  BY DEF Making
<1>3. \A b : Waits(u, 6, "bind", b)' <=> Waits(u, 6, "bind", b)
  BY <1>1
<1>4. /\ Waits(u, 5, "setup", p)' <=> Waits(u, 5, "setup", p)
      /\ Waits(u, 2, "setup", p)' <=> Waits(u, 2, "setup", p)
      /\ Waits(u, 4, "handle", p)' <=> Waits(u, 4, "handle", p)
      /\ Waits(u, 3, "late", p)' <=> Waits(u, 3, "late", p)
      /\ Waits(u, 2, "unref", x)' <=> Waits(u, 2, "unref", x)
      /\ Waits(u, 1, "own", p)' <=> Waits(u, 1, "own", p)
      /\ Waits(u, i, "ref", p)' <=> Waits(u, i, "ref", p)
      /\ Waits(u, i, "bind", p)' <=> Waits(u, i, "bind", p)
      /\ Waits(u, i, "setup", p)' <=> Waits(u, i, "setup", p)
      /\ Waits(u, i, "handle", p)' <=> Waits(u, i, "handle", p)
      /\ Waits(u, i, "late", p)' <=> Waits(u, i, "late", p)
      /\ Waits(u, i, "own", p)' <=> Waits(u, i, "own", p)
  BY <1>1
<1> QED
  BY <1>2, <1>3, <1>4

\* nouveau_preclose: what the file owns has a turn of the cleanup ahead.
LEMMA CloseIInv ==
  ASSUME IInv, NEW t \in Threads, Close(t)
  PROVE  IInv'
<1>1. PICK f : f = FileOf[t]
  OBVIOUS
<1>2. /\ Idle(t) /\ f \in Files /\ f \in open
      /\ \A u \in Threads : FileOf[u] = f => todo[u] = <<>>
      /\ \A c \in Chans : maps[f][c] = 0
      /\ open' = open \ {f}
      /\ todo' = [todo EXCEPT ![t] = Cleanup]
      /\ UNCHANGED <<table, st, ref, slot, filp, vspace, mem, handle, maps>>
  BY <1>1, ObjsAssumption DEF Close, Start, Idle
<1>3. todo[t] = <<>> /\ \A i, d, p : ~Waits(t, i, d, p)
  BY <1>2, IdleWaits
<1>4. /\ Replaced(t, 1, Cleanup) /\ todo' \in [Threads -> Seq(OpSet)] /\ todo'[t] = Cleanup
      /\ \A u \in Threads : u # t => todo'[u] = todo[u]
  BY <1>2, CleanupIs, SetReplaces DEF IInv
<1>5. ASSUME NEW i, NEW d, NEW p, Waits(t, i, d, p)'
      PROVE  d = "clean" /\ p \in Slots /\ i \in Nat /\ 1 <= i /\ i <= Len(todo'[t])
  <2>1. Len(todo'[t]) \in Nat /\ DOMAIN todo'[t] = 1 .. Len(todo'[t])
    BY <1>4
  <2>2. i \in 1 .. Len(todo'[t]) /\ todo'[t][Len(todo'[t]) + 1 - i] = Op(d, p)
    BY <1>5, <2>1 DEF Waits
  <2>3. Len(todo'[t]) + 1 - i \in 1 .. Len(todo'[t])
    BY <2>1, <2>2
  <2>4. PICK r \in Slots : Op(d, p) = Op("clean", r)
    <3>1. PICK j : j = Len(todo'[t]) + 1 - i
      OBVIOUS
    <3>2. j \in 1 .. Len(Cleanup)
      <4>1. Len(todo'[t]) = Len(Cleanup)
        BY <1>4
      <4> QED
        BY <2>3, <3>1, <4>1
    <3>3. PICK r \in Slots : Cleanup[j] = Op("clean", r)
      BY <3>2, CleanupIs
    <3>4. todo'[t][j] = Cleanup[j]
      BY <1>4
    <3>5. todo'[t][j] = Op(d, p)
      BY <2>2, <3>1
    <3> QED
      BY <3>3, <3>4, <3>5
  <2>5. d = "clean" /\ p = r
    BY <2>4, OpEq
  <2> QED
    BY <2>1, <2>2, <2>5
<1>6. ASSUME NEW r \in Slots
      PROVE  \E i \in Nat : Waits(t, i, "clean", r)'
  <2>1. PICK j \in 1 .. Len(Cleanup) : Cleanup[j] = Op("clean", r)
    BY CleanupIs
  <2>2. Len(Cleanup) \in Nat /\ DOMAIN Cleanup = 1 .. Len(Cleanup)
    BY CleanupIs
  <2> DEFINE i == Len(Cleanup) + 1 - j
  <2>3. i \in 1 .. Len(Cleanup) /\ Len(Cleanup) + 1 - i = j /\ i \in Nat
    BY <2>2
  <2> HIDE DEF i
  <2>4. Waits(t, i, "clean", r)'
    BY <1>4, <2>1, <2>2, <2>3 DEF Waits
  <2> QED
    BY <2>3, <2>4
<1>7. \A u \in Threads : u # t => \A i, d, p : Waits(u, i, d, p)' <=> Waits(u, i, d, p)
  BY <1>4 DEF Waits
<1>8. \A u \in Threads : \A i, d, p : d # "clean" => (Waits(u, i, d, p)' <=> Waits(u, i, d, p))
  BY <1>3, <1>5, <1>7
<1>9. \A d, p : d # "clean" => (Pending(d, p)' <=> Pending(d, p))
  BY <1>8, PendingIs, PendingNext
<1>10. /\ \A p : (Dying(p)' <=> Dying(p)) /\ (Live(p)' <=> Live(p)) /\ (Bound(p)' <=> Bound(p))
       /\ \A u \in Threads : \A i, d, p : d # "clean" => (After(u, i, d, p)' <=> After(u, i, d, p))
  BY <1>2, <1>8, <1>9 DEF Dying, Live, Bound, After
<1>11. TypeOK'
  BY <1>2, <1>4 DEF IInv, TypeOK, OpSet
<1>12. Typed'
  <2> SUFFICES ASSUME NEW u \in Threads, NEW i, NEW d, NEW p, Waits(u, i, d, p)'
               PROVE  /\ i \in Nat /\ 1 <= i /\ i <= Len(todo'[u]) /\ d \in Ops
                      /\ IF d = "clean" THEN p \in Slots /\ FileOf[u] \notin open'
                                        ELSE p \in Objs /\ st'[p] = "live"
    BY DEF Typed
  <2>1. CASE u = t
    BY <1>1, <1>2, <1>5, <2>1 DEF Ops
  <2>2. CASE u # t
    BY <1>2, <1>4, <1>7, <2>2 DEF IInv, Structure, Typed
  <2> QED
    BY <2>1, <2>2
<1>13. Making'
  <2>1. SameOps({"ref", "bind", "setup", "handle", "late", "own", "unref"})
    BY <1>8 DEF SameOps
  <2> QED
    BY <1>2, <2>1, KeepMaking DEF IInv, Structure
<1>14. Following'
  <2> SUFFICES ASSUME NEW u \in Threads, NEW i \in Nat, NEW p \in Objs
               PROVE  /\ Waits(u, i, "use", p)' => After(u, i, "unref", p)' \/ After(u, i, "drop", p)'
                      /\ Waits(u, i, "disown", p)' =>
                           /\ i >= 3 /\ i = Len(todo'[u])
                           /\ Waits(u, i - 1, "unref", p)' /\ Waits(u, i - 2, "unref", p)'
                      /\ Waits(u, i, "clear", p)' => p \in Chans /\ After(u, i, "drop", p)'
                      /\ Waits(u, i, "drop", p)' => After(u, i, "unbind", p)'
                      /\ Waits(u, i, "drop", p)' /\ p \in Chans => After(u, i, "unref", vspace[p])'
                      /\ Waits(u, i, "unbind", p)' => After(u, i, "kfree", p)'
    BY <1>2 DEF Following
  <2>1. Waits(u, i, "disown", p)' => u # t /\ todo'[u] = todo[u]
    BY <1>4, <1>5
  <2> QED
    BY <1>2, <1>8, <1>10, <2>1 DEF IInv, Structure, Following
<1>15. Unique' /\ DyingZone'
  BY <1>8 DEF IInv, Structure, Unique, DyingZone, Once
<1>16. Backed'
  BY <1>8, <1>10 DEF IInv, Structure, Backed
<1>17. Structure'
  BY <1>12, <1>13, <1>14, <1>15, <1>16 DEF Structure
<1>18. OwnState'
  <2> SUFFICES ASSUME NEW u \in Threads, NEW i \in Nat, NEW p \in Objs, Waits(u, i, "own", p)'
               PROVE  /\ ~Dying(p) /\ filp[p] = Null /\ ~Pending("unref", p) /\ FileOf[u] \in open'
                      /\ p \in Vspaces => \A b \in Chans : vspace[b] # p
                      /\ p \in Chans => \A g \in Files : maps[g][p] = 0
    BY <1>2, <1>9, <1>10 DEF OwnState
  <2>1. Waits(u, i, "own", p)
    BY <1>8
  <2>2. FileOf[u] # f
    <3>1. 1 <= i /\ i <= Len(todo[u])
      BY <2>1 DEF IInv, Structure, Typed
    <3>2. todo[u] # <<>>
      BY <3>1
    <3> QED
      BY <1>2, <3>2
  <2> QED
    BY <1>2, <2>1, <2>2 DEF IInv, OwnState
<1>19. OpState'
  BY <1>2, <1>8, <1>10 DEF IInv, OpState
<1>20. SameOps({"bind", "unbind", "kfree"}) /\ SameOps({"setup", "drop", "clear", "kfree"})
       /\ SameOps({"unref", "own", "disown", "kfree", "bind", "ref"})
  BY <1>8 DEF SameOps
<1>21. Tables' /\ Memory' /\ Counted'
  BY <1>2, <1>20, KeepTables, KeepMemory, KeepCounted DEF IInv
<1>22. Holding'
  <2>1. \A g \in Files, c \in Chans : maps'[g][c] > 0 => Live(c)' /\ g \in open'
    <3> SUFFICES ASSUME NEW g \in Files, NEW c \in Chans, maps[g][c] > 0
                 PROVE  Live(c)' /\ g \in open'
      BY <1>2
    <3>1. g # f
      BY <1>2
    <3> QED
      BY <1>2, <1>10, <3>1 DEF IInv, Holding
  <2> QED
    BY <1>2, <1>10, <2>1 DEF IInv, Holding
<1>23. Closing'
  <2>1. ASSUME NEW p \in Objs, filp[p] \in Files \ open'
        PROVE  \E u \in Threads : \E i \in Nat :
                 FileOf[u] = filp[p] /\ (Waits(u, i, "clean", slot[p])' \/ Waits(u, i, "disown", p)')
    <3>1. CASE filp[p] = f
      <4>1. Live(p) /\ filp[p] # Null
        BY <1>2, <3>1, ObjsAssumption DEF IInv, Holding
      <4>2. ~Pending("bind", p)
        BY <4>1, PendingIs, MakerOwns DEF IInv
      <4>3. slot[p] \in Slots
        BY <4>1, <4>2 DEF IInv, Tables, Live, Dying, TypeOK
      <4>4. PICK i \in Nat : Waits(t, i, "clean", slot[p])'
        <5>1. PICK r : r = slot[p]
          OBVIOUS
        <5>2. PICK i \in Nat : Waits(t, i, "clean", r)'
          BY <1>6, <4>3, <5>1
        <5> QED
          BY <1>2, <5>1, <5>2
      <4> QED
        BY <1>1, <3>1, <4>4
    <3>2. CASE filp[p] # f
      <4>1. PICK u \in Threads, i \in Nat :
              FileOf[u] = filp[p] /\ (Waits(u, i, "clean", slot[p]) \/ Waits(u, i, "disown", p))
        BY <1>2, <2>1, <3>2 DEF IInv, Closing
      <4>2. u # t
        BY <1>3, <4>1
      <4> QED
        BY <1>2, <1>7, <4>1, <4>2
    <3> QED
      BY <3>1, <3>2
  <2>2. ASSUME NEW u \in Threads, NEW w \in Threads, FileOf[u] = FileOf[w], FileOf[u] \notin open',
               todo'[u] # <<>>, todo'[w] # <<>>
        PROVE  u = w
    <3>1. CASE FileOf[u] = f
      BY <1>2, <1>4, <2>2, <3>1
    <3>2. CASE FileOf[u] # f
      BY <1>1, <1>2, <1>4, <2>2, <3>2 DEF IInv, Closing
    <3> QED
      BY <3>1, <3>2
  <2> QED
    BY <1>2, <2>1, <2>2 DEF Closing
<1> QED
  BY <1>11, <1>17, <1>18, <1>19, <1>21, <1>22, <1>23 DEF IInv

-----------------------------------------------------------------------------
(* The last reference goes                                                 *)

\* Thread t is at an unref of o, its k-th operation.
LastUnref(t, k, o) ==
  /\ t \in Threads /\ k \in Nat \ {0} /\ Waits(t, k, "unref", o)
  /\ \A i, d, p : Waits(t, i, d, p) => i \in 1 .. k /\ (i = k => d = "unref" /\ p = o)

\* Whoever drops the last reference is the only one who knows the object.
LEMMA LastKnows ==
  ASSUME IInv, NEW t, NEW k, NEW o, LastUnref(t, k, o), ref[o] = 1
  PROVE  /\ o \in Objs /\ st[o] = "live" /\ Live(o) /\ ~Dying(o)
         /\ filp[o] = Null /\ mem[o] /\ Bound(o)
         /\ o \in Chans => \A f \in Files : maps[f][o] = 0
         /\ o \notin Chans => \A c \in Chans : Live(c) => vspace[c] # o
         /\ \A u \in Threads : \A i, d : Waits(u, i, d, o) => d = "clean" \/ (u = t /\ i = k /\ d = "unref")
<1>1. t \in Threads /\ k \in Nat \ {0} /\ Waits(t, k, "unref", o)
  BY DEF LastUnref
<1>2. o \in Objs /\ st[o] = "live"
  BY <1>1 DEF IInv, Structure, Typed
<1>3. ~Dying(o) /\ Live(o)
  BY <1>1, <1>2 DEF IInv, OpState, Live, Dying
<1>4. IsFiniteSet(References(o)) /\ Cardinality(References(o)) = 1
  BY <1>2, <1>3 DEF IInv, Counted
<1>5. Refers(<<"unref", t, k>>, o)
  BY <1>1 DEF Refers
<1>6. \A x : Refers(x, o) => x = <<"unref", t, k>>
  <2>1. PICK y : y = <<"unref", t, k>>
    OBVIOUS
  <2>2. y \in References(o)
    BY <1>5, <2>1, ReferencesAre
  <2>3. PICK z : References(o) = {z}
    BY <1>4, FS_Singleton
  <2>4. \A x \in References(o) : x = y
    BY <2>2, <2>3
  <2> QED
    BY <2>1, <2>4, ReferencesAre
<1>7. \A u \in Threads : \A i : Waits(u, i, "unref", o) => u = t /\ i = k
  <2> SUFFICES ASSUME NEW u \in Threads, NEW i, Waits(u, i, "unref", o)
               PROVE  u = t /\ i = k
    OBVIOUS
  <2>1. Refers(<<"unref", u, i>>, o)
    BY DEF Refers
  <2>2. <<"unref", u, i>> = <<"unref", t, k>>
    BY <1>6, <2>1
  <2> QED
    BY <2>2
<1>8. ~Pending("own", o)
  <2>1. ASSUME NEW u \in Threads, NEW i, Waits(u, i, "own", o)
        PROVE  ~Pending("unref", o)
    <3>1. i \in Nat
      BY <2>1 DEF IInv, Structure, Typed
    <3> QED
      BY <1>2, <2>1, <3>1 DEF IInv, OwnState
  <2> QED
    BY <1>1, <2>1, PendingIs
<1>9. ASSUME NEW u \in Threads, NEW i, NEW d, Waits(u, i, d, o), d # "clean"
      PROVE  u = t /\ i = k /\ d = "unref"
  <2>1. i \in Nat /\ d \in Ops
    BY <1>9 DEF IInv, Structure, Typed
  <2>2. ~Waits(u, 1, "own", o)
    BY <1>8, PendingIs
  <2>3. PICK j \in 1 .. i : Waits(u, j, "unref", o)
    BY <1>2, <1>3, <1>9, <2>1, <2>2 DEF IInv, Structure, Backed
  <2>4. u = t /\ k <= i
    BY <1>7, <2>3
  <2>5. i = k
    BY <1>1, <1>9, <2>1, <2>4 DEF LastUnref
  <2> QED
    BY <1>9, <2>4, <2>5 DEF LastUnref
<1>10. \A d : d \notin {"clean", "unref"} => ~Pending(d, o)
  BY <1>9, PendingIs
<1>11. filp[o] = Null
  <2> SUFFICES ASSUME filp[o] # Null
               PROVE  FALSE
    OBVIOUS
  <2>1. Refers(<<"owner", o, 1>>, o)
    BY <1>10 DEF Refers, Owned
  <2>2. <<"owner", o, 1>> = <<"unref", t, k>>
    BY <1>6, <2>1
  <2> QED
    BY <2>2
<1>12. ASSUME o \in Chans, NEW f \in Files
       PROVE  maps[f][o] = 0
  <2>1. maps[f][o] \in 0 .. MaxMaps /\ MaxMaps \in Nat
    BY <1>12, ObjsAssumption DEF IInv, TypeOK
  <2>2. ASSUME maps[f][o] > 0
        PROVE  FALSE
    <3>1. 1 \in Mappings(f, o)
      BY <2>1, <2>2 DEF Mappings
    <3>2. Refers(<<"map", f, 1>>, o)
      BY <1>12, <3>1 DEF Refers
    <3>3. <<"map", f, 1>> = <<"unref", t, k>>
      BY <1>6, <3>2
    <3> QED
      BY <3>3
  <2> QED
    BY <2>1, <2>2
<1>13. ASSUME o \notin Chans, NEW c \in Chans, Live(c), vspace[c] = o
       PROVE  FALSE
  <2>1. Within(c, o)
    <3>1. \A u \in Threads : \A i : ~Waits(u, i, "ref", o)
      BY <1>9
    <3> QED
      BY <1>13, <3>1, WithinIs
  <2>2. Refers(<<"chan", c, 1>>, o)
    BY <1>13, <2>1 DEF Refers
  <2>3. <<"chan", c, 1>> = <<"unref", t, k>>
    BY <1>6, <2>2
  <2> QED
    BY <2>3
<1>14. mem[o]
  BY <1>2, <1>3, <1>10 DEF IInv, Memory
<1>15. Bound(o)
  BY <1>2, <1>3, <1>10 DEF IInv, Tables, Bound
<1> QED
  BY <1>2, <1>3, <1>9, <1>11, <1>12, <1>13, <1>14, <1>15

\* Thread t puts the steps that destroy o in the place of its last unref; n is
\* 1 for a channel, which holds address space v, and 0 for an address space.
Destroys(t, k, o, v, n) ==
  /\ LastUnref(t, k, o) /\ n \in {0, 1} /\ (n = 1 <=> o \in Chans)
  /\ \A u \in Threads : \A i, d, p :
       Waits(u, i, d, p)' <=>
         \/ Waits(u, i, d, p) /\ ~(u = t /\ i = k)
         \/ u = t /\ i = k /\ d = "kfree" /\ p = o
         \/ u = t /\ i = k + 1 /\ n = 1 /\ d = "unref" /\ p = v
         \/ u = t /\ i = k + n + 1 /\ d = "unbind" /\ p = o
         \/ u = t /\ i = k + n + 2 /\ d = "drop" /\ p = o
         \/ u = t /\ i = k + 4 /\ n = 1 /\ d = "clear" /\ p = o
         \/ u = t /\ i = k + 5 /\ n = 1 /\ d = "use" /\ p = o
  /\ todo' \in [Threads -> Seq(OpSet)] /\ Len(todo'[t]) = IF n = 1 THEN k + 5 ELSE k + 2
  /\ \A u \in Threads : u # t => todo'[u] = todo[u]

\* What waits when the destruction begins.
LEMMA DestroysWaits ==
  ASSUME IInv, NEW t, NEW k, NEW o, NEW v, NEW n, Destroys(t, k, o, v, n), ref[o] = 1
  PROVE  /\ \A d, p : d \notin {"unref", "kfree", "unbind", "drop", "clear", "use"} \/ (p # o /\ d # "unref") =>
              /\ \A u \in Threads : \A i : Waits(u, i, d, p)' <=> Waits(u, i, d, p)
              /\ Pending(d, p)' <=> Pending(d, p)
         /\ Waits(t, k, "kfree", o)' /\ Waits(t, k + n + 1, "unbind", o)' /\ Waits(t, k + n + 2, "drop", o)'
         /\ n = 1 => Waits(t, k + 1, "unref", v)' /\ Waits(t, k + 4, "clear", o)' /\ Waits(t, k + 5, "use", o)'
         /\ \A u \in Threads : \A i, p : Waits(u, i, "unref", p)' <=>
              (Waits(u, i, "unref", p) /\ p # o) \/ (u = t /\ i = k + 1 /\ n = 1 /\ p = v)
         /\ \A u \in Threads : \A i, d : Waits(u, i, d, o)' /\ d # "clean" /\ (n = 1 => v # o) =>
              u = t /\ k <= i /\ d \in Doomed /\ (n = 0 => d \notin {"clear", "use"})
<1>1. /\ t \in Threads /\ k \in Nat /\ Waits(t, k, "unref", o) /\ n \in {0, 1}
      /\ \A d, p : Waits(t, k, d, p) => d = "unref" /\ p = o
  BY DEF Destroys, LastUnref
<1>2. \A u \in Threads : \A i, d : Waits(u, i, d, o) => d = "clean" \/ (u = t /\ i = k /\ d = "unref")
  BY LastKnows DEF Destroys
<1>3. \A d, p : d \notin {"unref", "kfree", "unbind", "drop", "clear", "use"} \/ (p # o /\ d # "unref") =>
        \A u \in Threads : \A i : Waits(u, i, d, p)' <=> Waits(u, i, d, p)
  BY <1>1 DEF Destroys
<1>4. \A d, p : d \notin {"unref", "kfree", "unbind", "drop", "clear", "use"} \/ (p # o /\ d # "unref") =>
        (Pending(d, p)' <=> Pending(d, p))
  BY <1>3, PendingIs, PendingNext
<1>5. Waits(t, k, "kfree", o)' /\ Waits(t, k + n + 1, "unbind", o)' /\ Waits(t, k + n + 2, "drop", o)'
  BY <1>1 DEF Destroys
<1>6. n = 1 => Waits(t, k + 1, "unref", v)' /\ Waits(t, k + 4, "clear", o)' /\ Waits(t, k + 5, "use", o)'
  BY <1>1 DEF Destroys
<1>7. \A u \in Threads : \A i, p : Waits(u, i, "unref", p)' <=>
        (Waits(u, i, "unref", p) /\ p # o) \/ (u = t /\ i = k + 1 /\ n = 1 /\ p = v)
  BY <1>1, <1>2 DEF Destroys
<1>8. \A u \in Threads : \A i, d : Waits(u, i, d, o)' /\ d # "clean" /\ (n = 1 => v # o) =>
        u = t /\ k <= i /\ d \in Doomed /\ (n = 0 => d \notin {"clear", "use"})
  BY <1>1, <1>2 DEF Destroys, Doomed
<1> QED
  BY <1>3, <1>4, <1>5, <1>6, <1>7, <1>8

\* The steps of ref_free have the shape that Structure asks for.
LEMMA DestroysStructure ==
  ASSUME IInv, NEW t, NEW k, NEW o, NEW v, NEW n, Destroys(t, k, o, v, n), ref[o] = 1,
         n = 1 => v = vspace[o], UNCHANGED <<st, vspace, open>>
  PROVE  Structure'
<1>1. /\ t \in Threads /\ k \in Nat \ {0} /\ Waits(t, k, "unref", o) /\ n \in {0, 1}
      /\ (n = 1 <=> o \in Chans)
      /\ \A i, d, p : Waits(t, i, d, p) => i \in 1 .. k /\ (i = k => d = "unref" /\ p = o)
  BY DEF Destroys, LastUnref
<1>2. /\ o \in Objs /\ st[o] = "live" /\ Live(o) /\ ~Dying(o)
      /\ \A u \in Threads : \A i, d : Waits(u, i, d, o) => d = "clean" \/ (u = t /\ i = k /\ d = "unref")
  BY LastKnows DEF Destroys
<1>3. n = 1 => v \in Vspaces /\ v \in Objs /\ v # o /\ Live(v) /\ st[v] = "live" /\ ~Dying(v)
  <2> SUFFICES ASSUME n = 1
               PROVE  v \in Vspaces /\ v \in Objs /\ v # o /\ Live(v) /\ st[v] = "live" /\ ~Dying(v)
    OBVIOUS
  <2>1. v \in Vspaces /\ Live(v)
    BY <1>1, <1>2 DEF IInv, Holding
  <2> QED
    BY <1>1, <2>1, ObjsAssumption DEF Live, Dying, Objs
<1>4. /\ \A d, p : d \notin {"unref", "kfree", "unbind", "drop", "clear", "use"} \/ (p # o /\ d # "unref") =>
           /\ \A u \in Threads : \A i : Waits(u, i, d, p)' <=> Waits(u, i, d, p)
           /\ Pending(d, p)' <=> Pending(d, p)
      /\ Waits(t, k, "kfree", o)' /\ Waits(t, k + n + 1, "unbind", o)' /\ Waits(t, k + n + 2, "drop", o)'
      /\ n = 1 => Waits(t, k + 1, "unref", v)' /\ Waits(t, k + 4, "clear", o)' /\ Waits(t, k + 5, "use", o)'
      /\ \A u \in Threads : \A i, p : Waits(u, i, "unref", p)' <=>
           (Waits(u, i, "unref", p) /\ p # o) \/ (u = t /\ i = k + 1 /\ n = 1 /\ p = v)
  BY DestroysWaits
<1>5. /\ \A u \in Threads : \A i, d : Waits(u, i, d, o)' /\ d # "clean" =>
           u = t /\ k <= i /\ d \in Doomed /\ (n = 0 => d \notin {"clear", "use"})
  BY <1>3, DestroysWaits
<1>6. \A u \in Threads : \A i, d, p :
        Waits(u, i, d, p)' <=>
          \/ Waits(u, i, d, p) /\ ~(u = t /\ i = k)
          \/ u = t /\ i = k /\ d = "kfree" /\ p = o
          \/ u = t /\ i = k + 1 /\ n = 1 /\ d = "unref" /\ p = v
          \/ u = t /\ i = k + n + 1 /\ d = "unbind" /\ p = o
          \/ u = t /\ i = k + n + 2 /\ d = "drop" /\ p = o
          \/ u = t /\ i = k + 4 /\ n = 1 /\ d = "clear" /\ p = o
          \/ u = t /\ i = k + 5 /\ n = 1 /\ d = "use" /\ p = o
  BY DEF Destroys
<1>7. \A u \in Threads : \A i, d, p : Waits(u, i, d, p) /\ p # o => Waits(u, i, d, p)'
  BY <1>1, <1>6
<1>8. Typed'
  <2> SUFFICES ASSUME NEW u \in Threads, NEW i, NEW d, NEW p, Waits(u, i, d, p)'
               PROVE  /\ i \in Nat /\ 1 <= i /\ i <= Len(todo'[u]) /\ d \in Ops
                      /\ IF d = "clean" THEN p \in Slots /\ FileOf[u] \notin open'
                                        ELSE p \in Objs /\ st'[p] = "live"
    BY DEF Typed
  <2>1. CASE Waits(u, i, d, p) /\ ~(u = t /\ i = k)
    <3>1. /\ i \in Nat /\ 1 <= i /\ i <= Len(todo[u]) /\ d \in Ops
          /\ IF d = "clean" THEN p \in Slots /\ FileOf[u] \notin open
                            ELSE p \in Objs /\ st[p] = "live"
      BY <2>1 DEF IInv, Structure, Typed
    <3>2. i <= Len(todo'[u])
      <4>1. CASE u = t
        <5>1. i <= k
          BY <1>1, <2>1, <4>1
        <5>2. k <= Len(todo'[u])
          BY <1>1, <4>1 DEF Destroys
        <5>3. Len(todo'[u]) \in Nat
          BY <1>1, <4>1 DEF Destroys
        <5> QED
          BY <1>1, <3>1, <5>1, <5>2, <5>3
      <4>2. CASE u # t
        BY <3>1, <4>2 DEF Destroys
      <4> QED
        BY <4>1, <4>2
    <3> QED
      BY <3>1, <3>2
  <2>2. CASE ~(Waits(u, i, d, p) /\ ~(u = t /\ i = k))
    <3>1. u = t /\ d \in Ops /\ d # "clean" /\ (p = o \/ (n = 1 /\ p = v))
      BY <1>6, <2>2 DEF Ops
    <3>2. i \in Nat /\ k <= i /\ i <= IF n = 1 THEN k + 5 ELSE k + 2
      BY <1>1, <1>6, <2>2
    <3>3. Len(todo'[u]) = IF n = 1 THEN k + 5 ELSE k + 2
      BY <3>1 DEF Destroys
    <3>4. p \in Objs /\ st'[p] = "live"
      BY <1>2, <1>3, <3>1
    <3>5. 1 <= i /\ i <= Len(todo'[u])
      BY <1>1, <3>2, <3>3
    <3> QED
      BY <3>1, <3>2, <3>4, <3>5
  <2> QED
    BY <2>1, <2>2
<1>9. Making'
  <2> SUFFICES ASSUME NEW u \in Threads, NEW i \in Nat, NEW p \in Objs, NEW x, x = vspace[p]
               PROVE  /\ Waits(u, i, "ref", p)' =>
                           i = 7 /\ \E b \in Chans : Waits(u, 6, "bind", b)' /\ vspace[b] = p
                      /\ Waits(u, i, "bind", p)' =>
                           IF p \in Chans THEN i = 6 /\ Waits(u, 5, "setup", p)'
                                          ELSE i = 3 /\ Waits(u, 2, "setup", p)'
                      /\ Waits(u, i, "setup", p)' =>
                           IF p \in Chans THEN i = 5 /\ Waits(u, 4, "handle", p)'
                                          ELSE i = 2 /\ Waits(u, 1, "own", p)'
                      /\ Waits(u, i, "handle", p)' => p \in Chans /\ i = 4 /\ Waits(u, 3, "late", p)'
                      /\ Waits(u, i, "late", p)' =>
                           p \in Chans /\ i = 3 /\ Waits(u, 2, "unref", x)' /\ Waits(u, 1, "own", p)'
                      /\ Waits(u, i, "own", p)' => i = 1
    BY DEF Making
  <2>1. \A j, q : /\ Waits(u, j, "ref", q)' <=> Waits(u, j, "ref", q)
                  /\ Waits(u, j, "bind", q)' <=> Waits(u, j, "bind", q)
                  /\ Waits(u, j, "setup", q)' <=> Waits(u, j, "setup", q)
                  /\ Waits(u, j, "handle", q)' <=> Waits(u, j, "handle", q)
                  /\ Waits(u, j, "late", q)' <=> Waits(u, j, "late", q)
                  /\ Waits(u, j, "own", q)' <=> Waits(u, j, "own", q)
    BY <1>4
  <2>2. /\ Waits(u, i, "ref", p) =>
             i = 7 /\ \E b \in Chans : Waits(u, 6, "bind", b) /\ vspace[b] = p
        /\ Waits(u, i, "bind", p) =>
             IF p \in Chans THEN i = 6 /\ Waits(u, 5, "setup", p)
                            ELSE i = 3 /\ Waits(u, 2, "setup", p)
        /\ Waits(u, i, "setup", p) =>
             IF p \in Chans THEN i = 5 /\ Waits(u, 4, "handle", p)
                            ELSE i = 2 /\ Waits(u, 1, "own", p)
        /\ Waits(u, i, "handle", p) => p \in Chans /\ i = 4 /\ Waits(u, 3, "late", p)
        /\ Waits(u, i, "late", p) =>
             p \in Chans /\ i = 3 /\ Waits(u, 2, "unref", x) /\ Waits(u, 1, "own", p)
        /\ Waits(u, i, "own", p) => i = 1
    BY DEF IInv, Structure, Making
  <2>3. Waits(u, i, "late", p) /\ Waits(u, 2, "unref", x) => Waits(u, 2, "unref", x)'
    <3> SUFFICES ASSUME Waits(u, i, "late", p), Waits(u, 2, "unref", x), x = o
                 PROVE  FALSE
      BY <1>7
    <3>1. u = t /\ k = 2
      BY <1>2
    <3>2. i = 3
      BY <2>2
    <3> QED
      BY <1>1, <3>1, <3>2
  <2>4. \A b : Waits(u, 6, "bind", b)' <=> Waits(u, 6, "bind", b)
    BY <2>1
  <2>5. /\ Waits(u, 5, "setup", p)' <=> Waits(u, 5, "setup", p)
        /\ Waits(u, 2, "setup", p)' <=> Waits(u, 2, "setup", p)
        /\ Waits(u, 4, "handle", p)' <=> Waits(u, 4, "handle", p)
        /\ Waits(u, 3, "late", p)' <=> Waits(u, 3, "late", p)
        /\ Waits(u, 1, "own", p)' <=> Waits(u, 1, "own", p)
        /\ Waits(u, i, "ref", p)' <=> Waits(u, i, "ref", p)
        /\ Waits(u, i, "bind", p)' <=> Waits(u, i, "bind", p)
        /\ Waits(u, i, "setup", p)' <=> Waits(u, i, "setup", p)
        /\ Waits(u, i, "handle", p)' <=> Waits(u, i, "handle", p)
        /\ Waits(u, i, "late", p)' <=> Waits(u, i, "late", p)
        /\ Waits(u, i, "own", p)' <=> Waits(u, i, "own", p)
    BY <2>1
  <2> QED
    BY <2>2, <2>3, <2>4, <2>5
<1>10. Following'
  <2> SUFFICES ASSUME NEW u \in Threads, NEW i \in Nat, NEW p \in Objs
               PROVE  /\ Waits(u, i, "use", p)' => After(u, i, "unref", p)' \/ After(u, i, "drop", p)'
                      /\ Waits(u, i, "disown", p)' =>
                           /\ i >= 3 /\ i = Len(todo'[u])
                           /\ Waits(u, i - 1, "unref", p)' /\ Waits(u, i - 2, "unref", p)'
                      /\ Waits(u, i, "clear", p)' => p \in Chans /\ After(u, i, "drop", p)'
                      /\ Waits(u, i, "drop", p)' => After(u, i, "unbind", p)'
                      /\ Waits(u, i, "drop", p)' /\ p \in Chans => After(u, i, "unref", vspace[p])'
                      /\ Waits(u, i, "unbind", p)' => After(u, i, "kfree", p)'
    BY DEF Following
  <2>1. CASE p = o
    <3>1. \A d : Waits(u, i, d, o)' /\ d # "clean" =>
            u = t /\ d \in Doomed /\ (n = 0 => d \notin {"clear", "use"})
      BY <1>5
    <3>2. /\ Waits(u, i, "use", o)' => i = k + 5 /\ n = 1
          /\ Waits(u, i, "clear", o)' => i = k + 4 /\ n = 1
          /\ Waits(u, i, "drop", o)' => i = k + n + 2
          /\ Waits(u, i, "unbind", o)' => i = k + n + 1
      BY <1>2, <1>6
    <3>3. u = t /\ (Waits(u, i, "use", o)' \/ Waits(u, i, "clear", o)') => After(u, i, "drop", o)'
      <4>1. n = 1 /\ (i = k + 5 \/ i = k + 4) => k + n + 2 \in 1 .. i - 1
        BY <1>1
      <4> QED
        BY <1>4, <3>2, <4>1 DEF After
    <3>4. u = t /\ Waits(u, i, "drop", o)' => After(u, i, "unbind", o)'
      <4>1. i = k + n + 2 => k + n + 1 \in 1 .. i - 1
        BY <1>1
      <4> QED
        BY <1>4, <3>2, <4>1 DEF After
    <3>5. u = t /\ Waits(u, i, "drop", o)' /\ n = 1 => After(u, i, "unref", v)'
      <4>1. i = k + n + 2 /\ n = 1 => k + 1 \in 1 .. i - 1
        BY <1>1
      <4> QED
        BY <1>4, <3>2, <4>1 DEF After
    <3>6. u = t /\ Waits(u, i, "unbind", o)' => After(u, i, "kfree", o)'
      <4>1. i = k + n + 1 => k \in 1 .. i - 1
        BY <1>1
      <4> QED
        BY <1>4, <3>2, <4>1 DEF After
    <3>7. n = 1 => vspace'[o] = v
      OBVIOUS
    <3>8. (Waits(u, i, "drop", o)' /\ o \in Chans => After(u, i, "unref", vspace[o])')
      BY <1>1, <3>1, <3>5, <3>7 DEF After
    <3> QED
      BY <1>1, <2>1, <3>1, <3>2, <3>3, <3>4, <3>6, <3>8 DEF Doomed
  <2>2. CASE p # o
    <3>1. \A d : d # "unref" => (Waits(u, i, d, p)' <=> Waits(u, i, d, p))
      BY <1>4, <2>2
    <3>2. \A d, q : After(u, i, d, q) /\ q # o => After(u, i, d, q)'
      BY <1>7 DEF After
    <3>3. /\ Waits(u, i, "use", p) => After(u, i, "unref", p) \/ After(u, i, "drop", p)
          /\ Waits(u, i, "disown", p) =>
               /\ i >= 3 /\ i = Len(todo[u])
               /\ Waits(u, i - 1, "unref", p) /\ Waits(u, i - 2, "unref", p)
          /\ Waits(u, i, "clear", p) => p \in Chans /\ After(u, i, "drop", p)
          /\ Waits(u, i, "drop", p) => After(u, i, "unbind", p)
          /\ Waits(u, i, "drop", p) /\ p \in Chans => After(u, i, "unref", vspace[p])
          /\ Waits(u, i, "unbind", p) => After(u, i, "kfree", p)
      BY DEF IInv, Structure, Following
    <3>4. Waits(u, i, "disown", p) => i >= 3 /\ i = Len(todo'[u])
                                      /\ Waits(u, i - 1, "unref", p)' /\ Waits(u, i - 2, "unref", p)'
      <4> SUFFICES ASSUME Waits(u, i, "disown", p)
                   PROVE  /\ i >= 3 /\ i = Len(todo'[u])
                          /\ Waits(u, i - 1, "unref", p)' /\ Waits(u, i - 2, "unref", p)'
        OBVIOUS
      <4>1. i >= 3 /\ i = Len(todo[u]) /\ Waits(u, i - 1, "unref", p) /\ Waits(u, i - 2, "unref", p)
        BY <3>3
      <4>2. u # t
        <5> SUFFICES ASSUME u = t
                     PROVE  FALSE
          OBVIOUS
        <5>1. i <= k /\ i # k
          BY <1>1, <2>2
        <5>2. k <= Len(todo[t])
          BY <1>1 DEF IInv, Structure, Typed
        <5> QED
          BY <1>1, <4>1, <5>1, <5>2
      <4> QED
        BY <1>7, <2>2, <4>1, <4>2 DEF Destroys
    <3>5. Waits(u, i, "drop", p) /\ p \in Chans => After(u, i, "unref", vspace[p])'
      <4> SUFFICES ASSUME Waits(u, i, "drop", p), p \in Chans
                   PROVE  After(u, i, "unref", vspace[p])'
        OBVIOUS
      <4>1. PICK x : x = vspace[p]
        OBVIOUS
      <4>2. PICK j \in 1 .. i - 1 : Waits(u, j, "unref", x)
        BY <3>3, <4>1 DEF After
      <4>3. x # o
        <5> SUFFICES ASSUME x = o
                     PROVE  FALSE
          OBVIOUS
        <5>1. u = t /\ j = k
          BY <1>2, <4>2
        <5>2. i <= k
          BY <1>1, <5>1
        <5> QED
          BY <1>1, <4>2, <5>1, <5>2
      <4>4. Waits(u, j, "unref", x)'
        BY <1>7, <4>2, <4>3
      <4> QED
        BY <4>1, <4>4 DEF After
    <3> QED
      BY <2>2, <3>1, <3>2, <3>3, <3>4, <3>5
  <2> QED
    BY <2>1, <2>2
<1>11. Unique'
  <2> SUFFICES ASSUME NEW u \in Threads, NEW i \in Nat, NEW w \in Threads, NEW j \in Nat,
                      NEW p \in Objs, NEW d \in Once, Waits(u, i, d, p)', Waits(w, j, d, p)'
               PROVE  u = w /\ i = j
    BY DEF Unique
  <2>1. CASE p = o
    BY <1>2, <1>5, <1>6, <2>1 DEF Once, Doomed
  <2>2. CASE p # o
    <3>1. Waits(u, i, d, p) /\ Waits(w, j, d, p)
      BY <1>4, <2>2 DEF Once
    <3> QED
      BY <3>1 DEF IInv, Structure, Unique
  <2> QED
    BY <2>1, <2>2
<1>12. DyingZone'
  <2> SUFFICES ASSUME NEW u \in Threads, NEW i \in Nat, NEW w \in Threads, NEW j \in Nat,
                      NEW p \in Objs, NEW d \in Ops,
                      Waits(u, i, "kfree", p)', d # "clean", Waits(w, j, d, p)'
               PROVE  u = w /\ i <= j /\ d \in Doomed
    BY DEF DyingZone
  <2>1. CASE p = o
    <3>1. u = t /\ i = k
      BY <1>2, <1>6, <2>1
    <3> QED
      BY <1>5, <2>1, <3>1
  <2>2. CASE p # o
    <3>1. Waits(u, i, "kfree", p)
      BY <1>4, <2>2
    <3>2. ~(n = 1 /\ p = v)
      BY <1>3, <3>1, PendingIs DEF Dying
    <3>3. Waits(w, j, d, p)
      BY <1>6, <2>2, <3>2
    <3> QED
      BY <3>1, <3>3 DEF IInv, Structure, DyingZone
  <2> QED
    BY <2>1, <2>2
<1>13. Backed'
  <2> SUFFICES ASSUME NEW u \in Threads, NEW i \in Nat, NEW p \in Objs, NEW d \in Ops,
                      Waits(u, i, d, p)', d # "clean", ~Dying(p)'
               PROVE  Waits(u, 1, "own", p)' \/ \E j \in 1 .. i : Waits(u, j, "unref", p)'
    BY DEF Backed
  <2>1. p # o
    BY <1>1, <1>4, PendingNext DEF Dying
  <2>2. CASE Waits(u, i, d, p)
    <3>1. ~Dying(p)
      BY <1>4, <2>1 DEF Dying
    <3>2. Waits(u, 1, "own", p) \/ \E j \in 1 .. i : Waits(u, j, "unref", p)
      BY <2>2, <3>1 DEF IInv, Structure, Backed
    <3> QED
      BY <1>7, <2>1, <3>2
  <2>3. CASE ~Waits(u, i, d, p)
    <3>1. d = "unref"
      BY <1>6, <2>1, <2>3
    <3>2. i \in 1 .. i
      BY <1>1, <1>6, <2>1, <2>3
    <3> QED
      BY <3>1, <3>2
  <2> QED
    BY <2>2, <2>3
<1> QED
  BY <1>8, <1>9, <1>10, <1>11, <1>12, <1>13 DEF Structure

\* The destruction begins: the object is dying, its address space loses a channel.
LEMMA DestroysIInv ==
  ASSUME IInv, NEW t, NEW k, NEW o, NEW v, NEW n, Destroys(t, k, o, v, n), ref[o] = 1,
         n = 1 => v = vspace[o], ref' = [ref EXCEPT ![o] = @ - 1],
         UNCHANGED <<table, st, slot, filp, vspace, mem, handle, maps, open>>
  PROVE  IInv'
<1>1. /\ t \in Threads /\ k \in Nat \ {0} /\ Waits(t, k, "unref", o) /\ n \in {0, 1}
      /\ (n = 1 <=> o \in Chans)
      /\ todo' \in [Threads -> Seq(OpSet)] /\ \A u \in Threads : u # t => todo'[u] = todo[u]
  BY DEF Destroys, LastUnref
<1>2. /\ o \in Objs /\ st[o] = "live" /\ Live(o) /\ ~Dying(o)
      /\ filp[o] = Null /\ mem[o] /\ Bound(o)
      /\ o \in Chans => \A f \in Files : maps[f][o] = 0
      /\ o \notin Chans => \A c \in Chans : Live(c) => vspace[c] # o
      /\ \A u \in Threads : \A i, d : Waits(u, i, d, o) => d = "clean" \/ (u = t /\ i = k /\ d = "unref")
  BY LastKnows DEF Destroys
<1>3. n = 1 => v \in Vspaces /\ v \in Objs /\ v # o /\ v \notin Chans /\ Live(v) /\ ~Dying(v)
  <2> SUFFICES ASSUME n = 1
               PROVE  v \in Vspaces /\ v \in Objs /\ v # o /\ v \notin Chans /\ Live(v) /\ ~Dying(v)
    OBVIOUS
  <2>1. v \in Vspaces /\ Live(v)
    BY <1>1, <1>2 DEF IInv, Holding
  <2> QED
    BY <1>1, <2>1, ObjsAssumption DEF Live, Dying, Objs
<1>4. /\ \A d, p : d \notin {"unref", "kfree", "unbind", "drop", "clear", "use"} \/ (p # o /\ d # "unref") =>
           /\ \A u \in Threads : \A i : Waits(u, i, d, p)' <=> Waits(u, i, d, p)
           /\ Pending(d, p)' <=> Pending(d, p)
      /\ Waits(t, k, "kfree", o)' /\ Waits(t, k + n + 1, "unbind", o)' /\ Waits(t, k + n + 2, "drop", o)'
      /\ n = 1 => Waits(t, k + 1, "unref", v)' /\ Waits(t, k + 4, "clear", o)' /\ Waits(t, k + 5, "use", o)'
      /\ \A u \in Threads : \A i, p : Waits(u, i, "unref", p)' <=>
           (Waits(u, i, "unref", p) /\ p # o) \/ (u = t /\ i = k + 1 /\ n = 1 /\ p = v)
  BY DestroysWaits
<1>5. \A u \in Threads : \A i, d : Waits(u, i, d, o)' /\ d # "clean" =>
        u = t /\ k <= i /\ d \in Doomed /\ (n = 0 => d \notin {"clear", "use"})
  BY <1>3, DestroysWaits
<1>6. Structure'
  BY DestroysStructure
<1>7. /\ Pending("kfree", o)' /\ Pending("unbind", o)' /\ Pending("drop", o)'
      /\ n = 1 => Pending("clear", o)'
  BY <1>1, <1>4, PendingNext
<1>8. /\ \A p : p # o => (Dying(p)' <=> Dying(p)) /\ (Live(p)' <=> Live(p))
      /\ Dying(o)' /\ ~Live(o)'
      /\ \A p : Bound(p)' <=> Bound(p)
  BY <1>4, <1>7 DEF Dying, Live, Bound
<1>9. ref'[o] = 0 /\ \A p \in Objs : p # o => ref'[p] = ref[p]
  BY <1>2 DEF IInv, TypeOK
<1>10. TypeOK'
  <2>1. ref' \in [Objs -> Nat]
    BY <1>2, <1>9 DEF IInv, TypeOK
  <2> QED
    BY <1>1, <2>1 DEF IInv, TypeOK, OpSet
<1>11. n = 1 => ~Pending("own", v)
  <2> SUFFICES ASSUME n = 1, NEW u \in Threads, NEW i, Waits(u, i, "own", v)
               PROVE  FALSE
    BY PendingIs
  <2>1. i \in Nat
    BY DEF IInv, Structure, Typed
  <2> QED
    BY <1>1, <1>3, <2>1 DEF IInv, OwnState
<1>12. OwnState'
  <2> SUFFICES ASSUME NEW u \in Threads, NEW i \in Nat, NEW p \in Objs, Waits(u, i, "own", p)'
               PROVE  /\ ~Dying(p)' /\ filp[p] = Null /\ ~Pending("unref", p)' /\ FileOf[u] \in open
                      /\ p \in Vspaces => \A c \in Chans : vspace[c] # p
                      /\ p \in Chans => \A f \in Files : maps[f][p] = 0
    BY DEF OwnState
  <2>1. Waits(u, i, "own", p)
    BY <1>4
  <2>2. p # o /\ ~(n = 1 /\ p = v)
    BY <1>2, <1>11, <2>1, PendingIs
  <2>3. /\ ~Dying(p) /\ filp[p] = Null /\ ~Pending("unref", p) /\ FileOf[u] \in open
        /\ p \in Vspaces => \A c \in Chans : vspace[c] # p
        /\ p \in Chans => \A f \in Files : maps[f][p] = 0
    BY <2>1 DEF IInv, OwnState
  <2>4. ~Pending("unref", p)'
    <3>1. \A w \in Threads : \A j : Waits(w, j, "unref", p)' <=> Waits(w, j, "unref", p)
      BY <1>4, <2>2
    <3> QED
      BY <2>3, <3>1, PendingIs, PendingNext
  <2> QED
    BY <1>8, <2>2, <2>3, <2>4
<1>13. OpState'
  <2> SUFFICES ASSUME NEW u \in Threads, NEW i \in Nat, NEW p \in Objs
               PROVE  /\ Waits(u, i, "setup", p)' => ~mem[p]
                      /\ Waits(u, i, "bind", p)' => slot[p] = Null
                      /\ Waits(u, i, "disown", p)' => filp[p] = FileOf[u]
                      /\ Waits(u, i, "unref", p)' => ~Dying(p)'
                      /\ Waits(u, i, "use", p)' => mem[p]
                      /\ Waits(u, i, "unbind", p)' => Bound(p)'
    BY DEF OpState
  <2>1. \A d \in {"setup", "bind", "disown"} : Waits(u, i, d, p)' => Waits(u, i, d, p)
    BY <1>4
  <2>2. \A d \in {"use", "unbind"} : Waits(u, i, d, p)' => Waits(u, i, d, p) \/ p = o
    BY <1>4
  <2>3. Waits(u, i, "unref", p)' => ~Dying(p)'
    <3>1. Waits(u, i, "unref", p)' => (Waits(u, i, "unref", p) /\ p # o) \/ (n = 1 /\ p = v)
      BY <1>4
    <3>2. Waits(u, i, "unref", p) => ~Dying(p)
      BY DEF IInv, OpState
    <3> QED
      BY <1>3, <1>8, <3>1, <3>2
  <2>4. /\ Waits(u, i, "setup", p)' => ~mem[p]
        /\ Waits(u, i, "bind", p)' => slot[p] = Null
        /\ Waits(u, i, "disown", p)' => filp[p] = FileOf[u]
    BY <2>1 DEF IInv, OpState
  <2>5. Waits(u, i, "use", p)' => mem[p]
    BY <1>2, <2>2 DEF IInv, OpState
  <2>6. Waits(u, i, "unbind", p)' => Bound(p)'
    BY <1>2, <1>8, <2>2 DEF IInv, OpState
  <2> QED
    BY <2>3, <2>4, <2>5, <2>6
<1>14. Tables'
  <2>1. ASSUME NEW p \in Objs
        PROVE  /\ slot[p] # Null => table[slot[p]] = p
               /\ st[p] = "live" /\ slot[p] = Null => Pending("bind", p)' \/ Dying(p)'
               /\ Dying(p)' /\ slot[p] # Null => Pending("unbind", p)'
               /\ st[p] = "none" => slot[p] = Null
    <3>1. CASE p = o
      BY <1>7, <1>8, <3>1 DEF IInv, Tables
    <3>2. CASE p # o
      <4>1. (Pending("bind", p)' <=> Pending("bind", p)) /\ (Pending("unbind", p)' <=> Pending("unbind", p))
        BY <1>4, <3>2
      <4> QED
        BY <1>8, <3>2, <4>1 DEF IInv, Tables
    <3> QED
      BY <3>1, <3>2
  <2> QED
    BY <2>1 DEF IInv, Tables, Kind
<1>15. Memory'
  <2>1. ASSUME NEW p \in Objs
        PROVE  /\ Live(p)' /\ ~mem[p] => Pending("setup", p)'
               /\ Dying(p)' /\ mem[p] => Pending("drop", p)'
               /\ st[p] = "none" => ~mem[p]
               /\ p \in Chans /\ handle[p] => mem[p]
               /\ p \in Chans /\ Dying(p)' /\ handle[p] => Pending("clear", p)'
    <3>1. CASE p = o
      BY <1>1, <1>7, <1>8, <3>1 DEF IInv, Memory
    <3>2. CASE p # o
      <4>1. /\ Pending("setup", p)' <=> Pending("setup", p)
            /\ Pending("drop", p)' <=> Pending("drop", p)
            /\ Pending("clear", p)' <=> Pending("clear", p)
        BY <1>4, <3>2
      <4> QED
        BY <1>8, <3>2, <4>1 DEF IInv, Memory
    <3> QED
      BY <3>1, <3>2
  <2> QED
    BY <2>1 DEF Memory
<1>16. Holding'
  <2>1. \A p \in Objs : filp[p] # Null => Live(p)'
    BY <1>2, <1>8 DEF IInv, Holding
  <2>2. \A f \in Files, c \in Chans : maps[f][c] > 0 => Live(c)' /\ f \in open
    <3> SUFFICES ASSUME NEW f \in Files, NEW c \in Chans, maps[f][c] > 0
                 PROVE  Live(c)' /\ f \in open
      OBVIOUS
    <3>1. c # o
      BY <1>2
    <3> QED
      BY <1>8, <3>1 DEF IInv, Holding
  <2>3. ASSUME NEW c \in Chans, Live(c)', NEW x, x = vspace[c]
        PROVE  Live(x)'
    <3>1. Live(c)
      BY <1>8, <2>3
    <3>2. Live(x) /\ x \in Vspaces
      BY <2>3, <3>1 DEF IInv, Holding, Live
    <3>3. x # o
      BY <1>2, <2>3, <3>1, <3>2, ObjsAssumption
    <3> QED
      BY <1>8, <3>2, <3>3
  <2>4. (\A c \in Chans : Live(c) => Live(vspace[c]))'
    BY <2>3
  <2> QED
    BY <2>1, <2>2, <2>4 DEF IInv, Holding
<1>17. \A p : p # o => (Owned(p)' <=> Owned(p))
  BY <1>4 DEF Owned
<1>18. \A c \in Chans : \A x : c # o => (Within(c, x)' <=> Within(c, x))
  <2> SUFFICES ASSUME NEW c \in Chans, NEW x, c # o
               PROVE  Within(c, x)' <=> Within(c, x)
    OBVIOUS
  <2>1. \A u \in Threads : \A i : /\ Waits(u, i, "bind", c)' <=> Waits(u, i, "bind", c)
                                  /\ Waits(u, i, "ref", x)' <=> Waits(u, i, "ref", x)
    BY <1>4
  <2>2. (Live(c)' <=> Live(c)) /\ vspace'[c] = vspace[c]
    BY <1>8
  <2> QED
    BY <2>1, <2>2, WithinIs, WithinNext
<1>19. n = 1 => /\ \A x : ~Within(o, x)'
                /\ \A x : Within(o, x) <=> x = v
  <2> SUFFICES ASSUME n = 1, NEW x
               PROVE  ~Within(o, x)' /\ (Within(o, x) <=> x = v)
    OBVIOUS
  <2>1. ~Within(o, x)'
    BY <1>8, WithinNext
  <2>2. \A u \in Threads : \A i : ~Waits(u, i, "bind", o)
    BY <1>2
  <2> QED
    BY <1>2, <2>1, <2>2, WithinIs
<1>20. \A f, p : Mappings(f, p)' = Mappings(f, p)
  BY DEF Mappings
<1>21. Counted'
  <2> SUFFICES ASSUME NEW p \in Objs, Live(p)'
               PROVE  /\ IsFiniteSet(References(p)')
                      /\ ref'[p] = Cardinality(References(p)') /\ ref'[p] >= 1
    BY DEF Counted
  <2>1. p # o
    BY <1>8
  <2>2. IsFiniteSet(References(p)) /\ ref[p] = Cardinality(References(p)) /\ ref[p] >= 1
    BY <1>8, <2>1 DEF IInv, Counted
  <2>3. CASE n = 1 /\ p = v
    <3>1. PICK x, y : x = <<"chan", o, 1>> /\ y = <<"unref", t, k + 1>>
      OBVIOUS
    <3>2. \A u \in Threads : \A i : Waits(u, i, "unref", v)' <=>
            Waits(u, i, "unref", v) \/ (u = t /\ i = k + 1)
      BY <1>3, <1>4, <2>3
    <3>3. \A c \in Chans : Within(c, v)' <=> Within(c, v) /\ c # o
      BY <1>18, <1>19, <2>3
    <3>4. (Owned(v)' <=> Owned(v)) /\ v \notin Chans
      BY <1>3, <1>17, <2>3
    <3>5. \A z : Refers(z, v)' <=> (Refers(z, v) /\ z # x) \/ z = y
      BY <1>1, <3>1, <3>2, <3>3, <3>4 DEF Refers
    <3>6. Refers(x, v)
      BY <1>1, <1>19, <2>3, <3>1, <3>4 DEF Refers
    <3>7. ~Refers(y, v)
      <4>1. ~Waits(t, k + 1, "unref", v)
        <5>1. k + 1 \notin 1 .. k
          BY <1>1
        <5> QED
          BY <5>1 DEF Destroys, LastUnref
      <4> QED
        BY <3>1, <4>1 DEF Refers
    <3>8. x \in References(v) /\ y \notin References(v)
      BY <3>6, <3>7, ReferencesAre
    <3>9. IsFiniteSet(References(v)') /\ Cardinality(References(v)') = Cardinality(References(v))
      BY <2>2, <2>3, <3>5, <3>8, Exchange
    <3> QED
      BY <1>9, <2>1, <2>2, <2>3, <3>9
  <2>4. CASE ~(n = 1 /\ p = v)
    <3>1. \A u \in Threads : \A i : Waits(u, i, "unref", p)' <=> Waits(u, i, "unref", p)
      BY <1>4, <2>1, <2>4
    <3>2. \A c \in Chans : Within(c, p)' <=> Within(c, p)
      BY <1>1, <1>18, <1>19, <2>4
    <3>3. References(p)' = References(p)
      BY <1>17, <2>1, <3>1, <3>2, SameReferences
    <3> QED
      BY <1>9, <2>1, <2>2, <3>3
  <2> QED
    BY <2>3, <2>4
<1>22. Closing'
  <2>1. SameOps({"clean", "disown"})
    BY <1>4 DEF SameOps
  <2>2. \A u \in Threads : todo'[u] # <<>> => todo[u] # <<>>
    <3>1. todo[t] # <<>>
      <4>1. 1 <= k /\ k <= Len(todo[t])
        BY <1>1 DEF IInv, Structure, Typed
      <4> QED
        BY <1>1, <4>1
    <3> QED
      BY <1>1, <3>1
  <2> QED
    BY <2>1, <2>2, KeepClosing DEF IInv
<1> QED
  BY <1>6, <1>10, <1>12, <1>13, <1>14, <1>15, <1>16, <1>21, <1>22 DEF IInv

\* The last unref.
LEMMA UnrefDestroysIInv ==
  ASSUME IInv, NEW t \in Threads, Unref(t), ref[Arg(t)] = 1
  PROVE  IInv'
<1>1. PICK k, o : k = Len(todo[t]) /\ o = Arg(t)
  OBVIOUS
<1>2. /\ At(t, "unref") /\ ref[o] = 1 /\ Then(t, Destroy(o)) /\ todo[t] # <<>>
      /\ ref' = [ref EXCEPT ![o] = @ - 1]
      /\ UNCHANGED <<table, st, slot, filp, vspace, mem, handle, maps, open>>
  BY <1>1 DEF Unref, At
<1>3. k \in Nat \ {0} /\ Waits(t, k, "unref", o)
  BY <1>1, <1>2, AtTop DEF IInv
<1>4. LastUnref(t, k, o)
  <2>1. \A i, d, p : Waits(t, i, d, p) => i \in 1 .. k
    BY <1>1, <1>3 DEF IInv, Structure, Typed
  <2>2. \A d, p : Waits(t, k, d, p) => d = "unref" /\ p = o
    BY <1>3, WaitsOne
  <2> QED
    BY <1>3, <2>1, <2>2 DEF LastUnref
<1>5. o \in Objs
  BY <1>3 DEF IInv, Structure, Typed
<1>6. CASE o \in Chans
  <2>1. PICK v : v = vspace[o]
    OBVIOUS
  <2>2. v \in Objs
    <3>1. Live(o)
      BY <1>2, <1>4, LastKnows
    <3>2. v \in Vspaces
      BY <1>6, <2>1, <3>1 DEF IInv, Holding, Live
    <3> QED
      BY <3>2 DEF Objs
  <2>3. Destroy(o) = <<Op("use", o), Op("clear", o), Op("drop", o), Op("unbind", o),
                       Op("unref", v), Op("kfree", o)>>
    BY <1>6, <2>1 DEF Destroy
  <2>4. <<Op("use", o), Op("clear", o), Op("drop", o), Op("unbind", o),
          Op("unref", v), Op("kfree", o)>> \in Seq(OpSet)
    BY <1>5, <2>2, OpTyped DEF Ops
  <2>5. Destroy(o) \in Seq(OpSet) /\ Len(Destroy(o)) = 6
    BY <2>3, <2>4
  <2>6. /\ Replaced(t, k, Destroy(o)) /\ todo' \in [Threads -> Seq(OpSet)]
        /\ Len(todo'[t]) = k - 1 + 6
        /\ \A u \in Threads : u # t => todo'[u] = todo[u]
    BY <1>1, <1>2, <2>5, ThenReplaces DEF IInv
  <2>7. Replaced(t, k, <<Op("use", o), Op("clear", o), Op("drop", o), Op("unbind", o),
                         Op("unref", v), Op("kfree", o)>>)
    BY <2>3, <2>6, Zenon
  <2>8. k \in Nat
    BY <1>3
  <2>9. \A u \in Threads : \A i, d, p : Waits(u, i, d, p)' <=>
          IF u = t /\ i \in Nat /\ i >= k
            THEN \/ i = k /\ d = "kfree" /\ p = o
                 \/ i = k + 1 /\ d = "unref" /\ p = v
                 \/ i = k + 2 /\ d = "unbind" /\ p = o
                 \/ i = k + 3 /\ d = "drop" /\ p = o
                 \/ i = k + 4 /\ d = "clear" /\ p = o
                 \/ i = k + 5 /\ d = "use" /\ p = o
            ELSE Waits(u, i, d, p)
    BY <2>7, <2>8, Replaced6, ZenonT(40)
  <2>10. Destroys(t, k, o, v, 1)
    <3>1. \A u \in Threads : \A i, d, p : Waits(u, i, d, p)' <=>
            \/ Waits(u, i, d, p) /\ ~(u = t /\ i = k)
            \/ u = t /\ i = k /\ d = "kfree" /\ p = o
            \/ u = t /\ i = k + 1 /\ 1 = 1 /\ d = "unref" /\ p = v
            \/ u = t /\ i = k + 1 + 1 /\ d = "unbind" /\ p = o
            \/ u = t /\ i = k + 1 + 2 /\ d = "drop" /\ p = o
            \/ u = t /\ i = k + 4 /\ 1 = 1 /\ d = "clear" /\ p = o
            \/ u = t /\ i = k + 5 /\ 1 = 1 /\ d = "use" /\ p = o
      BY <1>3, <1>4, <2>9 DEF LastUnref
    <3>2. Len(todo'[t]) = k + 5
      BY <1>3, <2>6
    <3> QED
      BY <1>4, <1>6, <2>6, <3>1, <3>2 DEF Destroys
  <2> QED
    BY <1>2, <2>1, <2>10, DestroysIInv
<1>7. CASE o \notin Chans
  <2>1. Destroy(o) = <<Op("drop", o), Op("unbind", o), Op("kfree", o)>>
    BY <1>7 DEF Destroy
  <2>2. <<Op("drop", o), Op("unbind", o), Op("kfree", o)>> \in Seq(OpSet)
    BY <1>5, OpTyped DEF Ops
  <2>3. Destroy(o) \in Seq(OpSet) /\ Len(Destroy(o)) = 3
    BY <2>1, <2>2
  <2>4. /\ Replaced(t, k, Destroy(o)) /\ todo' \in [Threads -> Seq(OpSet)]
        /\ Len(todo'[t]) = k - 1 + 3
        /\ \A u \in Threads : u # t => todo'[u] = todo[u]
    BY <1>1, <1>2, <2>3, ThenReplaces DEF IInv
  <2>5. Replaced(t, k, <<Op("drop", o), Op("unbind", o), Op("kfree", o)>>)
    BY <2>1, <2>4, Zenon
  <2>6. k \in Nat
    BY <1>3
  <2>7. \A u \in Threads : \A i, d, p : Waits(u, i, d, p)' <=>
          IF u = t /\ i \in Nat /\ i >= k
            THEN \/ i = k /\ d = "kfree" /\ p = o
                 \/ i = k + 1 /\ d = "unbind" /\ p = o
                 \/ i = k + 2 /\ d = "drop" /\ p = o
            ELSE Waits(u, i, d, p)
    BY <2>5, <2>6, Replaced3
  <2>8. Destroys(t, k, o, Null, 0)
    <3>1. \A u \in Threads : \A i, d, p : Waits(u, i, d, p)' <=>
            \/ Waits(u, i, d, p) /\ ~(u = t /\ i = k)
            \/ u = t /\ i = k /\ d = "kfree" /\ p = o
            \/ u = t /\ i = k + 1 /\ 0 = 1 /\ d = "unref" /\ p = Null
            \/ u = t /\ i = k + 0 + 1 /\ d = "unbind" /\ p = o
            \/ u = t /\ i = k + 0 + 2 /\ d = "drop" /\ p = o
            \/ u = t /\ i = k + 4 /\ 0 = 1 /\ d = "clear" /\ p = o
            \/ u = t /\ i = k + 5 /\ 0 = 1 /\ d = "use" /\ p = o
      BY <1>3, <1>4, <2>7 DEF LastUnref
    <3>2. Len(todo'[t]) = k + 2
      BY <1>3, <2>4
    <3> QED
      BY <1>4, <1>7, <2>4, <3>1, <3>2 DEF Destroys
  <2>9. 0 = 1 => Null = vspace[o]
    OBVIOUS
  <2> QED
    BY <1>2, <2>8, <2>9, DestroysIInv
<1> QED
  BY <1>6, <1>7

-----------------------------------------------------------------------------
(* The theorems                                                            *)

\* At first nothing is allocated and no thread has anything to run.
LEMMA InitIInv ==
  ASSUME Init
  PROVE  IInv
<1>1. /\ table = [s \in Slots |-> Null] /\ st = [o \in Objs |-> "none"]
      /\ ref = [o \in Objs |-> 0] /\ slot = [o \in Objs |-> Null]
      /\ filp = [o \in Objs |-> Null] /\ vspace = [c \in Chans |-> Null]
      /\ mem = [o \in Objs |-> FALSE] /\ handle = [c \in Chans |-> FALSE]
      /\ maps = [f \in Files |-> [c \in Chans |-> 0]]
      /\ todo = [t \in Threads |-> <<>>] /\ open = Files
  BY DEF Init
<1>2. \A t \in Threads : \A i, d, o : ~Waits(t, i, d, o)
  BY <1>1 DEF Waits
<1>3. \A d, o : ~Pending(d, o)
  BY <1>2, PendingIs
<1>4. TypeOK
  <2>1. maps \in [Files -> [Chans -> 0 .. MaxMaps]]
    BY <1>1, ObjsAssumption
  <2>2. todo \in [Threads -> Seq(OpSet)]
    <3>1. <<>> \in Seq(OpSet)
      OBVIOUS
    <3> QED
      BY <1>1, <3>1
  <2> QED
    BY <1>1, <2>1, <2>2 DEF TypeOK, OpSet
<1>5. Structure
  BY <1>2 DEF Structure, Typed, Making, Following, Unique, DyingZone, Backed, Once
<1>6. OwnState /\ OpState
  BY <1>2 DEF OwnState, OpState
<1>7. Tables /\ Memory
  <2>1. \A o \in Chans : o \in Objs
    BY DEF Objs
  <2> QED
    BY <1>1, <1>3, <2>1 DEF Tables, Memory, Dying, Live
<1>8. Holding
  <2>1. \A c \in Chans : c \in Objs
    BY DEF Objs
  <2>2. \A v \in Vspaces : v # Null
    BY ObjsAssumption DEF Objs
  <2>3. \A f \in Files, c \in Chans : maps[f][c] = 0
    BY <1>1
  <2>4. \A c \in Chans : st[c] = "none" /\ vspace[c] = Null
    BY <1>1, <2>1
  <2>5. \A o \in Objs : filp[o] = Null
    BY <1>1
  <2> QED
    BY <2>2, <2>3, <2>4, <2>5 DEF Holding, Live
<1>9. Counted
  BY <1>1 DEF Counted, Live
<1>10. Closing
  <2>1. \A o \in Objs : filp[o] \notin Files
    BY <1>1, ObjsAssumption
  <2> QED
    BY <1>1, <2>1 DEF Closing
<1> QED
  BY <1>4, <1>5, <1>6, <1>7, <1>8, <1>9, <1>10 DEF IInv

\* A step that changes nothing.
LEMMA StutterIInv ==
  ASSUME IInv, UNCHANGED vars
  PROVE  IInv'
<1>1. /\ UNCHANGED <<table, st, ref, slot, filp, vspace, mem, handle, maps, open>>
      /\ todo' = todo
  BY DEF vars
<1>2. \A u, i, d, o : Waits(u, i, d, o)' <=> Waits(u, i, d, o)
  BY <1>1 DEF Waits
<1>3. \A D : SameOps(D)
  BY <1>2 DEF SameOps
<1>4. \A d, o : Pending(d, o)' <=> Pending(d, o)
  BY <1>2, PendingIs, PendingNext
<1>5. TypeOK'
  BY <1>1 DEF IInv, TypeOK
<1>6. Structure'
  BY <1>1, <1>2, <1>4 DEF IInv, Structure, Typed, Making, Following, After, Unique, DyingZone,
                          Backed, Dying
<1>7. OwnState' /\ OpState'
  BY <1>1, <1>2, <1>4 DEF IInv, OwnState, OpState, Dying, Bound
<1>8. Tables' /\ Memory' /\ Holding' /\ Closing'
  BY <1>1, <1>3, KeepTables, KeepMemory, KeepHolding, KeepClosing DEF IInv
<1>9. Counted'
  BY <1>1, <1>3, KeepCounted DEF IInv
<1> QED
  BY <1>5, <1>6, <1>7, <1>8, <1>9 DEF IInv

\* Every step preserves the invariant.
LEMMA NextIInv ==
  ASSUME SerialFrees, IInv, [Next]_vars
  PROVE  IInv'
<1>1. ASSUME NEW t \in Threads, Call(t)
      PROVE  IInv'
  <2>1. ASSUME NEW v \in Vspaces, VspaceNew(t, v)
        PROVE  IInv'
    BY <2>1, VspaceNewIInv
  <2>2. ASSUME NEW s \in Slots, NEW c \in Chans, ChanNew(t, s, c)
        PROVE  IInv'
    BY <2>2, ChanNewIInv
  <2>3. ASSUME NEW s \in Slots, Use(t, s)
        PROVE  IInv'
    BY <2>3, UseIInv
  <2>4. ASSUME NEW s \in Slots, Free(t, s)
        PROVE  IInv'
    BY <2>4, FreeIInv
  <2>5. ASSUME NEW s \in Slots, Mmap(t, s)
        PROVE  IInv'
    BY <2>5, MmapIInv
  <2>6. ASSUME NEW c \in Chans, VmClose(t, c)
        PROVE  IInv'
    BY <2>6, VmCloseIInv
  <2>7. CASE Close(t)
    BY <2>7, CloseIInv
  <2> QED
    BY <1>1, <2>1, <2>2, <2>3, <2>4, <2>5, <2>6, <2>7 DEF Call
<1>2. ASSUME NEW t \in Threads, Step(t)
      PROVE  IInv'
  <2>1. CASE Bind(t)
    BY <2>1, BindIInv
  <2>2. CASE BindFails(t)
    BY <2>2, BindFailsIInv
  <2>3. CASE Setup(t)
    BY <2>3, SetupIInv
  <2>4. CASE SetupFails(t)
    BY <2>4, SetupFailsIInv
  <2>5. CASE Handle(t)
    BY <2>5, HandleIInv
  <2>6. CASE Late(t) \/ Touch(t)
    BY <2>6, TouchLateIInv
  <2>7. CASE LateFails(t)
    BY <2>7, LateFailsIInv
  <2>8. CASE Own(t)
    BY <2>8, OwnIInv
  <2>9. CASE Disown(t)
    BY <2>9, DisownIInv
  <2>10. CASE Ref(t)
    BY <2>10, RefIInv
  <2>11. CASE Unref(t)
    BY <2>11, UnrefKeepsIInv, UnrefDestroysIInv
  <2>12. CASE Clear(t)
    BY <2>12, ClearIInv
  <2>13. CASE Drop(t)
    BY <2>13, DropIInv
  <2>14. CASE Unbind(t)
    BY <2>14, UnbindIInv
  <2>15. CASE Kfree(t)
    BY <2>15, KfreeIInv
  <2>16. CASE Clean(t)
    <3>1. CASE /\ Get(t, Arg(t))
               /\ Then(t, <<Op("disown", table[Arg(t)]), Op("unref", table[Arg(t)]),
                            Op("unref", table[Arg(t)])>>)
      BY <2>16, <3>1, CleanFindsIInv DEF Clean
    <3>2. CASE ~Found(FileOf[t], Arg(t)) /\ Then(t, <<>>) /\ UNCHANGED ref
      BY <2>16, <3>2, PassIInv DEF Clean
    <3> QED
      BY <2>16, <3>1, <3>2 DEF Clean
  <2> QED
    BY <1>2, <2>1, <2>2, <2>3, <2>4, <2>5, <2>6, <2>7, <2>8, <2>9, <2>10, <2>11, <2>12, <2>13,
       <2>14, <2>15, <2>16 DEF Step
<1>3. ASSUME NEW f \in Files, NEW c \in Chans, VmOpen(f, c)
      PROVE  IInv'
  BY <1>3, VmOpenIInv
<1>4. CASE UNCHANGED vars
  BY <1>4, StutterIInv
<1> QED
  BY <1>1, <1>2, <1>3, <1>4 DEF Next

\* The invariant holds at all times.
LEMMA Invariance == ASSUME SerialFrees PROVE Spec => []IInv
<1>1. Init => IInv
  BY InitIInv
<1>2. IInv /\ [Next]_vars => IInv'
  BY NextIInv
<1> QED
  BY <1>1, <1>2, PTL DEF Spec

\* Under every interleaving of ioctls, forks of mappings, failures and deaths
\* of clients, the kref of an object that nobody is destroying is the number
\* of references that exist: no path of pscnv_chan.c, pscnv_vm.c and
\* pscnv_ioctl.c takes one too few or gives one back twice.  Two frees of one
\* number at a time would (pscnv_ioctl.c clears filp without the lock), hence
\* SerialFrees, here and below.
THEOREM SpecRefsBalance == ASSUME SerialFrees PROVE Spec => []RefsBalance
<1>1. IInv => RefsBalance
  BY DEF IInv, RefsBalance, Counted
<1> QED
  BY <1>1, Invariance, PTL

\* The memory of an address space is there as soon as a channel can be in it.
LEMMA SpaceReady ==
  ASSUME IInv, NEW c \in Chans, NEW v, v = vspace[c], v \in Vspaces, Live(v)
  PROVE  st[v] = "live" /\ mem[v]
<1>1. v \in Objs /\ v \notin Chans
  BY ObjsAssumption DEF Objs
<1>2. ASSUME ~mem[v]
      PROVE  FALSE
  <2>1. PICK t \in Threads : \E i : Waits(t, i, "setup", v)
    BY <1>1, <1>2, PendingIs DEF IInv, Memory
  <2>2. PICK i : Waits(t, i, "setup", v)
    BY <2>1
  <2>3. i \in Nat
    BY <2>2 DEF IInv, Structure, Typed
  <2>4. Waits(t, 1, "own", v)
    BY <1>1, <2>2, <2>3 DEF IInv, Structure, Making
  <2> QED
    BY <1>1, <2>4 DEF IInv, OwnState
<1> QED
  BY <1>2 DEF Live

\* What pscnv_get_chan, pscnv_get_vspace and the tables hand out stays there
\* while it is used: no thread is about to work on a freed structure or on
\* one without its memory, and the tables lead to no freed structure, to no
\* channel without its address space and to no handle without its memory.
THEOREM SpecNothingDangles == ASSUME SerialFrees PROVE Spec => []NothingDangles
<1>1. ASSUME IInv
      PROVE  NoUseAfterFree
  <2> SUFFICES ASSUME NEW t \in Threads, todo[t] # <<>>, Head(todo[t]).do # "clean"
               PROVE  /\ st[Arg(t)] = "live"
                      /\ Head(todo[t]).do = "use" => mem[Arg(t)]
    BY DEF NoUseAfterFree
  <2>1. PICK d, k : d = Head(todo[t]).do /\ k = Len(todo[t])
    OBVIOUS
  <2>2. k \in Nat /\ Waits(t, k, d, Arg(t))
    BY <1>1, <2>1, AtTop DEF At, IInv
  <2>3. Arg(t) \in Objs /\ st[Arg(t)] = "live"
    BY <1>1, <2>1, <2>2 DEF IInv, Structure, Typed
  <2>4. d = "use" => mem[Arg(t)]
    BY <1>1, <2>2, <2>3 DEF IInv, OpState
  <2> QED
    BY <2>1, <2>3, <2>4
<1>2. ASSUME IInv
      PROVE  TablesLive
  <2> SUFFICES ASSUME NEW s \in Slots, NEW o, o = table[s], o # Null
               PROVE  /\ st[o] = "live"
                      /\ o \in Chans /\ mem[o] => st[vspace[o]] = "live" /\ mem[vspace[o]]
                      /\ o \in Chans /\ handle[o] => mem[o]
    BY DEF TablesLive
  <2>1. o \in Objs /\ st[o] = "live"
    BY <1>2 DEF IInv, Tables, TypeOK
  <2>2. ASSUME o \in Chans, mem[o], NEW v, v = vspace[o]
        PROVE  st[v] = "live" /\ mem[v]
    <3>1. v \in Vspaces
      BY <1>2, <2>1, <2>2 DEF IInv, Holding
    <3>2. Live(v)
      <4>1. CASE Live(o)
        BY <1>2, <2>2, <4>1 DEF IInv, Holding
      <4>2. CASE Dying(o)
        <5>1. PICK t \in Threads : \E i : Waits(t, i, "drop", o)
          BY <1>2, <2>1, <2>2, <4>2, PendingIs DEF IInv, Memory
        <5>2. PICK i : Waits(t, i, "drop", o)
          BY <5>1
        <5>3. i \in Nat
          BY <1>2, <5>2 DEF IInv, Structure, Typed
        <5>4. PICK j : Waits(t, j, "unref", v)
          BY <1>2, <2>1, <2>2, <5>2, <5>3 DEF IInv, Structure, Following, After
        <5>5. j \in Nat /\ st[v] = "live" /\ v \in Objs
          BY <1>2, <5>4 DEF IInv, Structure, Typed
        <5>6. ~Dying(v)
          BY <1>2, <5>4, <5>5 DEF IInv, OpState
        <5> QED
          BY <5>5, <5>6 DEF Live, Dying
      <4> QED
        BY <2>1, <4>1, <4>2 DEF Live, Dying
    <3> QED
      BY <1>2, <2>2, <3>1, <3>2, SpaceReady
  <2>3. o \in Chans /\ handle[o] => mem[o]
    BY <1>2, <2>1 DEF IInv, Memory
  <2> QED
    BY <2>1, <2>2, <2>3
<1>3. IInv => NothingDangles
  BY <1>1, <1>2 DEF NothingDangles
<1> QED
  BY <1>3, Invariance, PTL

\* pscnv_chan_unbind and pscnv_vspace_unbind clear an entry of the table once
\* and only while it leads to the object that goes: their BUG_ONs never trip.
THEOREM SpecUnbindAsserts == ASSUME SerialFrees PROVE Spec => []UnbindAsserts
<1>1. ASSUME IInv
      PROVE  UnbindAsserts
  <2> SUFFICES ASSUME NEW t \in Threads, At(t, "unbind")
               PROVE  Bound(Arg(t))
    BY DEF UnbindAsserts
  <2>1. PICK k : k = Len(todo[t])
    OBVIOUS
  <2>2. k \in Nat /\ Waits(t, k, "unbind", Arg(t))
    BY <1>1, <2>1, AtTop DEF IInv
  <2>3. Arg(t) \in Objs
    BY <1>1, <2>2 DEF IInv, Structure, Typed
  <2> QED
    BY <1>1, <2>2, <2>3 DEF IInv, OpState
<1> QED
  BY <1>1, Invariance, PTL

\* When nouveau_preclose has run for every file and the threads are done, the
\* tables are empty and every structure has been freed: no cycle of references
\* and no path that fails or races keeps an object for ever.
THEOREM SpecDeathReleases == ASSUME SerialFrees PROVE Spec => []DeathReleases
<1>1. ASSUME IInv
      PROVE  DeathReleases
  <2> SUFFICES ASSUME open = {}, \A t \in Threads : todo[t] = <<>>
               PROVE  /\ \A s \in Slots : table[s] = Null
                      /\ \A o \in Objs : st[o] # "live"
    BY DEF DeathReleases
  <2>1. \A t \in Threads : \A i, d, o : ~Waits(t, i, d, o)
    BY DEF Waits
  <2>2. \A d, o : ~Pending(d, o)
    BY <2>1, PendingIs
  <2>3. \A o \in Objs : filp[o] = Null
    BY <1>1, <2>1 DEF IInv, Closing, TypeOK
  <2>4. \A f \in Files, c \in Chans : maps[f][c] = 0
    <3>1. \A f \in Files, c \in Chans : maps[f][c] \in Nat
      BY <1>1, ObjsAssumption DEF IInv, TypeOK
    <3>2. \A f \in Files, c \in Chans : ~(maps[f][c] > 0)
      BY <1>1 DEF IInv, Holding
    <3> QED
      BY <3>1, <3>2
  <2>5. ASSUME NEW o \in Objs, Live(o), \A x : ~Refers(x, o)
        PROVE  FALSE
    <3>1. References(o) = {}
      BY <2>5, ReferencesAre
    <3>2. ref[o] = Cardinality(References(o)) /\ ref[o] >= 1
      BY <1>1, <2>5 DEF IInv, Counted
    <3>3. Cardinality(References(o)) = 0
      BY <3>1, FS_EmptySet
    <3> QED
      BY <3>2, <3>3
  <2>6. \A o \in Objs : ~Owned(o)
    BY <2>2, <2>3 DEF Owned
  <2>7. ASSUME NEW c \in Chans
        PROVE  st[c] # "live"
    <3>1. c \in Objs
      BY DEF Objs
    <3>2. \A f \in Files : Mappings(f, c) = {}
      BY <2>4 DEF Mappings
    <3>3. \A x : ~Refers(x, c)
      BY <2>1, <2>6, <3>1, <3>2 DEF Refers
    <3> QED
      BY <2>2, <2>5, <3>1, <3>3 DEF Live
  <2>8. ASSUME NEW v \in Objs, v \notin Chans
        PROVE  st[v] # "live"
    <3>1. \A c \in Chans : ~Within(c, v)
      BY <2>7 DEF Within, Live
    <3>2. \A x : ~Refers(x, v)
      BY <2>1, <2>6, <2>8, <3>1 DEF Refers
    <3> QED
      BY <2>2, <2>5, <3>2 DEF Live
  <2>9. \A o \in Objs : st[o] # "live"
    BY <2>7, <2>8
  <2>10. \A s \in Slots : table[s] = Null
    BY <1>1, <2>9 DEF IInv, Tables, TypeOK
  <2> QED
    BY <2>9, <2>10
<1> QED
  BY <1>1, Invariance, PTL
=============================================================================
