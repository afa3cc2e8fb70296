---------------------------- MODULE RangeAlloc ----------------------------
(***************************************************************************)
(* What the range allocator promises its callers, in terms of units only:  *)
(* an object gets units of [Start, End) that nobody has, all at once, of   *)
(* one storage type that shares no block with the other type, and gives    *)
(* them back all at once.  Nodes, chains, merging and rollback are the     *)
(* business of PscnvMM.                                                    *)
(***************************************************************************)
EXTENDS Integers

CONSTANTS Start, End, TS, Objs

VARIABLES
  owned,   \* owned[o]: the units object o holds
  kind,    \* kind[o]: their storage type, 0 or 1
  up       \* FALSE once the allocator is taken down

avars == <<owned, kind, up>>

\* Whether unit a may hold type t next to what the other objects hold; the
\* units outside the range count as type 0.
Compatible(a, t) ==
  LET block == (a \div TS) * TS .. (a \div TS) * TS + TS - 1
  IN /\ t = 1 => block \subseteq Start .. End - 1
     /\ \A o \in Objs : owned[o] \cap block # {} => kind[o] = t

Init ==
  /\ owned = [o \in Objs |-> {}]
  /\ kind = [o \in Objs |-> 0]
  /\ up = TRUE

Others(o) == \A p \in Objs \ {o} : owned'[p] = owned[p] /\ kind'[p] = kind[p]

Alloc(o) ==
  /\ up /\ owned[o] = {}
  /\ owned'[o] # {} /\ owned'[o] \subseteq Start .. End - 1
  /\ \A p \in Objs : owned'[o] \cap owned[p] = {}
  /\ kind'[o] \in {0, 1}
  /\ \A a \in owned'[o] : Compatible(a, kind'[o])
  /\ Others(o) /\ UNCHANGED up

Free(o) ==
  /\ up /\ owned[o] # {}
  /\ owned'[o] = {} /\ kind'[o] = 0
  /\ Others(o) /\ UNCHANGED up

\* The allocator goes away only when nobody holds anything.
Down ==
  /\ up /\ \A o \in Objs : owned[o] = {}
  /\ up' = FALSE
  /\ UNCHANGED <<owned, kind>>

Next == (\E o \in Objs : Alloc(o) \/ Free(o)) \/ Down

Spec == Init /\ [][Next]_avars
=============================================================================
