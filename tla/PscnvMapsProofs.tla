-------------------------- MODULE PscnvMapsProofs --------------------------
(***************************************************************************)
(* RefsExact, NoStaleTranslation, MapsExact and LocksOrdered of PscnvMaps, *)
(* for any number of threads, address spaces and objects, of any size.     *)
(*                                                                         *)
(* The inductive invariant, IInv of PscnvMapsStages, gives each thread a   *)
(* stage and speaks of stages.  So the proof has two parts.  The first is  *)
(* about sequences: what a thread has still to run is always the program   *)
(* of a stage, its first operation is the one of the stage, what a step    *)
(* puts in front makes the program of another stage (...Move, ...Call),    *)
(* and the operations that are pending are counted by stages (Pending...). *)
(* The second is about stages: what a step must do to keep each part of    *)
(* the invariant (Keep...), and one lemma for each action, ...Keeps, that  *)
(* takes the parts one after the other.                                    *)
(***************************************************************************)
EXTENDS PscnvMapsStages, FiniteSetTheorems, SequenceTheorems, TLAPS

-----------------------------------------------------------------------------
(* Sequences of operations                                                 *)

Dos == {"lock", "unlock", "place", "write", "find", "unref", "check", "takedown",
        "assign", "mapped", "clear", "flush", "mmfree", "release"}
Ops == [do : Dos, vs : Spaces \cup {Null}, bo : Bos \cup {Null}, at : Int \cup {Null}]

\* An object has a page at least.
LEMMA Some == \A b \in Bos : Size[b] \in Nat \ {0}
BY MapsAssumption

\* The address space of the BAR is none of a client.
LEMMA Spaced == Bar \in Spaces /\ Vs \subseteq Spaces /\ \A vs \in Vs : vs # Bar
BY MapsAssumption DEF Spaces

\* A sequence before another.
LEMMA Joined ==
  ASSUME NEW s \in Seq(Ops), NEW q \in Seq(Ops)
  PROVE  /\ s \o q \in Seq(Ops) /\ Len(s \o q) = Len(s) + Len(q) /\ Len(q) \in Nat
         /\ \A i \in 1 .. Len(s) + Len(q) :
              (s \o q)[i] = IF i <= Len(s) THEN s[i] ELSE q[i - Len(s)]
BY ConcatProperties

\* Sequences one after the other, however they are grouped.
LEMMA Assoc ==
  ASSUME NEW x \in Seq(Ops), NEW y \in Seq(Ops), NEW z \in Seq(Ops)
  PROVE  (x \o y) \o z = x \o (y \o z)
BY ConcatAssociative

\* One operation before a sequence.
LEMMA DoIs ==
  ASSUME NEW op \in Ops, NEW q \in Seq(Ops)
  PROVE  /\ Do(op, q) \in Seq(Ops) /\ Do(op, q) # <<>>
         /\ Head(Do(op, q)) = op /\ Tail(Do(op, q)) = q
         /\ Len(Do(op, q)) = Len(q) + 1
<1> DEFINE h == <<op>>
           r == h \o q
<1>1. h \in Seq(Ops) /\ Len(h) = 1 /\ h[1] = op
  OBVIOUS
<1> HIDE DEF h
<1>2. /\ r \in Seq(Ops) /\ Len(r) = Len(h) + Len(q) /\ Len(q) \in Nat
      /\ \A i \in 1 .. Len(h) + Len(q) : r[i] = IF i <= Len(h) THEN h[i] ELSE q[i - Len(h)]
  BY <1>1, Joined, Zenon
<1> HIDE DEF r
<1>3. r # <<>> /\ Head(r) = r[1] /\ r[1] = op
  <2>1. r # <<>>
    BY <1>1, <1>2
  <2>2. Head(r) = r[1]
    BY <1>2, <2>1, HeadTailProperties
  <2> QED
    BY <1>1, <1>2, <2>1, <2>2
<1>4. /\ Tail(r) \in Seq(Ops) /\ Len(Tail(r)) = Len(r) - 1
      /\ \A i \in 1 .. Len(Tail(r)) : Tail(r)[i] = r[i + 1]
  BY <1>2, <1>3, HeadTailProperties
<1>5. \A i \in 1 .. Len(q) : Tail(r)[i] = q[i]
  <2> SUFFICES ASSUME NEW i \in 1 .. Len(q) PROVE Tail(r)[i] = q[i]
    OBVIOUS
  <2>1. i + 1 \in 1 .. 1 + Len(q) /\ ~(i + 1 <= 1) /\ (i + 1) - 1 = i
    BY <1>2
  <2>2. r[i + 1] = q[(i + 1) - 1]
    BY <1>1, <1>2, <2>1
  <2> QED
    BY <1>1, <1>2, <1>4, <2>1, <2>2
<1>6. Tail(r) = q
  BY <1>1, <1>2, <1>4, <1>5, SeqEqual
<1> QED
  BY <1>1, <1>2, <1>3, <1>6 DEF h, r, Do

\* Sequences of the model, written that way.
LEMMA TuplesAre ==
  /\ <<>> \in Seq(Ops)
  /\ \A a \in Ops : <<a>> = Do(a, <<>>) /\ Do(a, <<>>) \in Seq(Ops)
  /\ \A a, b \in Ops : <<a, b>> = Do(a, Do(b, <<>>))
  /\ \A a, b, c \in Ops : /\ <<a, b, c>> = Do(a, Do(b, Do(c, <<>>)))
                          /\ Do(a, Do(b, Do(c, <<>>))) \in Seq(Ops)
<1>1. <<>> \in Seq(Ops)
  OBVIOUS
<1>2. \A x \in Seq(Ops) : x \o <<>> = x
  OBVIOUS
<1>3. \A a \in Ops : <<a>> = Do(a, <<>>)
  <2> SUFFICES ASSUME NEW a \in Ops
               PROVE  <<a>> = Do(a, <<>>)
    OBVIOUS
  <2>1. <<a>> \in Seq(Ops)
    OBVIOUS
  <2> QED
    BY <1>2, <2>1 DEF Do
<1>4. \A a \in Ops : \A q \in Seq(Ops) : Do(a, q) \in Seq(Ops)
  BY DoIs
<1>5. ASSUME NEW a \in Ops, NEW b \in Ops
      PROVE  <<a, b>> = Do(a, Do(b, <<>>))
  <2> DEFINE s == <<a, b>>
             s1 == <<b>>
             r == Do(a, s1)
  <2>1. /\ s \in Seq(Ops) /\ s1 \in Seq(Ops) /\ Len(s) = 2 /\ Len(s1) = 1
        /\ s[1] = a /\ s[2] = b /\ s1[1] = b
    OBVIOUS
  <2>2. s1 = Do(b, <<>>)
    BY <1>3
  <2> HIDE DEF s, s1
  <2>3. /\ r \in Seq(Ops) /\ r # <<>> /\ Head(r) = a /\ Tail(r) = s1 /\ Len(r) = 2
    <3>1. s1 \in Seq(Ops) /\ Len(s1) + 1 = 2
      BY <2>1
    <3>2. /\ r \in Seq(Ops) /\ r # <<>> /\ Head(r) = a /\ Tail(r) = s1
          /\ Len(r) = Len(s1) + 1
      BY <3>1, DoIs, Zenon
    <3> HIDE DEF r
    <3> QED
      BY <3>1, <3>2
  <2> HIDE DEF r
  <2>4. r[1] = a /\ r[2] = b
    <3>1. \A i \in 1 .. Len(Tail(r)) : Tail(r)[i] = r[i + 1]
      BY <2>3, HeadTailProperties
    <3>2. s1[1] = r[1 + 1]
      BY <2>1, <2>3, <3>1
    <3> QED
      BY <2>1, <2>3, <3>2
  <2>5. s = r
    BY <2>1, <2>3, <2>4, SeqEqual
  <2> QED
    BY <2>2, <2>5 DEF s, r
<1>6. ASSUME NEW a \in Ops, NEW b \in Ops, NEW c \in Ops
      PROVE  <<a, b, c>> = Do(a, Do(b, Do(c, <<>>)))
  <2> DEFINE s == <<a, b, c>>
             s2 == <<b, c>>
             r == Do(a, s2)
  <2>1. /\ s \in Seq(Ops) /\ s2 \in Seq(Ops) /\ Len(s) = 3 /\ Len(s2) = 2
        /\ s[1] = a /\ s[2] = b /\ s[3] = c /\ s2[1] = b /\ s2[2] = c
    OBVIOUS
  <2>2. s2 = Do(b, Do(c, <<>>))
    BY <1>5
  <2> HIDE DEF s, s2
  <2>3. /\ r \in Seq(Ops) /\ r # <<>> /\ Head(r) = a /\ Tail(r) = s2 /\ Len(r) = 3
    <3>1. s2 \in Seq(Ops) /\ Len(s2) + 1 = 3
      BY <2>1
    <3>2. /\ r \in Seq(Ops) /\ r # <<>> /\ Head(r) = a /\ Tail(r) = s2
          /\ Len(r) = Len(s2) + 1
      BY <3>1, DoIs, Zenon
    <3> HIDE DEF r
    <3> QED
      BY <3>1, <3>2
  <2> HIDE DEF r
  <2>4. r[1] = a /\ r[2] = b /\ r[3] = c
    <3>1. \A i \in 1 .. Len(Tail(r)) : Tail(r)[i] = r[i + 1]
      BY <2>3, HeadTailProperties
    <3>2. s2[1] = r[1 + 1] /\ s2[2] = r[2 + 1]
      BY <2>1, <2>3, <3>1
    <3> QED
      BY <2>1, <2>3, <3>2
  <2>5. s = r
    BY <2>1, <2>3, <2>4, SeqEqual
  <2> QED
    BY <2>2, <2>5 DEF s, r
<1>7. \A a \in Ops : Do(a, <<>>) \in Seq(Ops)
  BY <1>1, <1>4
<1>8. \A a, b, c \in Ops : Do(a, Do(b, Do(c, <<>>))) \in Seq(Ops)
  BY <1>4, <1>7
<1> QED
  BY <1>1, <1>3, <1>5, <1>6, <1>7, <1>8

\* Put before other operations.
LEMMA Dones ==
  ASSUME NEW q \in Seq(Ops)
  PROVE  /\ <<>> \o q = q
         /\ \A a \in Ops : <<a>> \o q = Do(a, q)
         /\ \A a, b, c \in Ops : <<a, b, c>> \o q = Do(a, Do(b, Do(c, q)))
<1>1. <<>> \o q = q
  OBVIOUS
<1>2. \A a \in Ops : <<a>> \o q = Do(a, q)
  BY DEF Do
<1>3. ASSUME NEW a \in Ops, NEW x \in Seq(Ops)
      PROVE  Do(a, x) \o q = Do(a, x \o q)
  <2>1. <<a>> \in Seq(Ops)
    OBVIOUS
  <2>2. (<<a>> \o x) \o q = <<a>> \o (x \o q)
    BY <2>1, Assoc, Zenon
  <2> QED
    BY <2>2 DEF Do
<1>4. ASSUME NEW a \in Ops, NEW b \in Ops, NEW c \in Ops
      PROVE  <<a, b, c>> \o q = Do(a, Do(b, Do(c, q)))
  <2>1. Do(c, <<>>) \in Seq(Ops) /\ Do(b, Do(c, <<>>)) \in Seq(Ops)
    BY TuplesAre, DoIs
  <2>2. /\ Do(c, <<>>) \o q = Do(c, <<>> \o q)
        /\ Do(b, Do(c, <<>>)) \o q = Do(b, Do(c, <<>>) \o q)
        /\ Do(a, Do(b, Do(c, <<>>))) \o q = Do(a, Do(b, Do(c, <<>>)) \o q)
    BY <1>3, <2>1, TuplesAre
  <2>3. <<a, b, c>> = Do(a, Do(b, Do(c, <<>>)))
    BY TuplesAre, Zenon
  <2> QED
    BY <1>1, <2>2, <2>3
<1> QED
  BY <1>1, <1>2, <1>4

\* What an operation is made of.
LEMMA OpsAre ==
  ASSUME NEW do \in Dos, NEW vs \in Spaces \cup {Null}, NEW b \in Bos \cup {Null},
         NEW at \in Int \cup {Null}
  PROVE  /\ Op(do, vs, b, at) \in Ops /\ Op(do, vs, b, at).do = do
         /\ Op(do, vs, b, at).vs = vs /\ Op(do, vs, b, at).bo = b /\ Op(do, vs, b, at).at = at
BY DEF Op, Ops

\* An operation on an object.
LEMMA OnsAre ==
  ASSUME NEW do \in Dos, NEW b \in Bos \cup {Null}
  PROVE  On(do, b) \in Ops /\ On(do, b).do = do /\ On(do, b).vs = Null /\ On(do, b).bo = b
BY DEF On, Op, Ops

\* The operations on a mutex.
LEMMA LocksAre ==
  ASSUME NEW vs \in Spaces \cup {Null}
  PROVE  /\ Lock(vs) \in Ops /\ Lock(vs).do = "lock" /\ Lock(vs).vs = vs
         /\ Unlock(vs) \in Ops /\ Unlock(vs).do = "unlock" /\ Unlock(vs).vs = vs
BY DEF Lock, Unlock, Op, Ops, Dos

\* The entries of a range, one at a time.
LEMMA EntriesAre ==
  ASSUME NEW do \in Dos, NEW vs \in Spaces \cup {Null}, NEW b \in Bos, NEW at \in Int, NEW q \in Seq(Ops),
         NEW i \in Nat, i <= Size[b]
  PROVE  /\ Entries(do, vs, b, at, i, q) \in Seq(Ops)
         /\ i = Size[b] => Entries(do, vs, b, at, i, q) = q
         /\ i < Size[b] => Entries(do, vs, b, at, i, q)
                             = Do(Op(do, vs, b, at + i), Entries(do, vs, b, at, i + 1, q))
<1> DEFINE n == Size[b]
           F(k) == [j \in 1 .. n - k |-> Op(do, vs, b, at + k + j - 1)]
<1>1. n \in Nat \ {0}
  BY Some
<1>2. \A k \in Int : Op(do, vs, b, k) \in Ops
  BY OpsAre
<1>3. ASSUME NEW k \in Nat, k <= n
      PROVE  /\ F(k) \in Seq(Ops) /\ Len(F(k)) = n - k
             /\ \A j \in 1 .. n - k : F(k)[j] = Op(do, vs, b, at + k + j - 1)
  <2>1. n - k \in Nat /\ \A j \in 1 .. n - k : at + k + j - 1 \in Int
    BY <1>1, <1>3
  <2>2. F(k) \in [1 .. n - k -> Ops]
    BY <1>2, <2>1
  <2>3. \A m \in Nat : \A g \in [1 .. m -> Ops] : g \in Seq(Ops) /\ Len(g) = m
    OBVIOUS
  <2>4. \A j \in 1 .. n - k : F(k)[j] = Op(do, vs, b, at + k + j - 1)
    OBVIOUS
  <2> HIDE DEF F
  <2> QED
    BY <2>1, <2>2, <2>3, <2>4
<1>4. Entries(do, vs, b, at, i, q) = F(i) \o q
  BY DEF Entries
<1>5. CASE i = n
  <2>1. F(i) \in Seq(Ops) /\ Len(F(i)) = 0
    <3>1. i <= n /\ n - i = 0
      BY <1>1, <1>5
    <3>2. F(i) \in Seq(Ops) /\ Len(F(i)) = n - i
      BY <1>3, <3>1
    <3> HIDE DEF F
    <3> QED
      BY <3>1, <3>2
  <2> DEFINE f == F(i)
  <2>2. f = <<>>
    <3>1. f \in Seq(Ops) /\ Len(f) = 0
      BY <2>1
    <3> HIDE DEF f
    <3> QED
      BY <3>1
  <2>3. Entries(do, vs, b, at, i, q) = f \o q
    BY <1>4
  <2> HIDE DEF f
  <2>4. f \o q = q
    BY <2>2, Dones
  <2> HIDE DEF F
  <2> QED
    BY <1>5, <2>3, <2>4
<1>6. CASE i < n
  <2>1. i + 1 \in Nat /\ i + 1 <= n
    BY <1>1, <1>6
  <2>2. /\ F(i) \in Seq(Ops) /\ Len(F(i)) = n - i
        /\ F(i + 1) \in Seq(Ops) /\ Len(F(i + 1)) = n - (i + 1)
        /\ \A j \in 1 .. n - i : F(i)[j] = Op(do, vs, b, at + i + j - 1)
        /\ \A j \in 1 .. n - (i + 1) : F(i + 1)[j] = Op(do, vs, b, at + (i + 1) + j - 1)
    BY <1>3, <1>6, <2>1
  <2>3. Entries(do, vs, b, at, i + 1, q) = F(i + 1) \o q
    BY DEF Entries
  <2> DEFINE op == Op(do, vs, b, at + i)
             f == F(i)
             g == F(i + 1)
             r == <<op>> \o g
  <2>4. op \in Ops
    BY <1>2
  <2>5. <<op>> \in Seq(Ops) /\ Len(<<op>>) = 1 /\ <<op>>[1] = op
    BY <2>4
  <2>6. /\ f \in Seq(Ops) /\ Len(f) = n - i /\ g \in Seq(Ops) /\ Len(g) = n - (i + 1)
        /\ f[1] = op
        /\ \A j \in 1 .. n - (i + 1) : f[j + 1] = g[j]
    <3>1. 1 \in 1 .. n - i /\ at + i + 1 - 1 = at + i
      BY <1>1, <1>6
    <3>2. ASSUME NEW j \in 1 .. n - (i + 1)
          PROVE  f[j + 1] = g[j]
      <4>1. j + 1 \in 1 .. n - i /\ at + i + (j + 1) - 1 = at + (i + 1) + j - 1
        BY <1>1
      <4> QED
        BY <2>2, <4>1
    <3> QED
      BY <2>2, <3>1, <3>2
  <2> HIDE DEF op, f, g, F
  <2>7. /\ r \in Seq(Ops) /\ Len(r) = 1 + Len(g)
        /\ \A j \in 1 .. 1 + Len(g) : r[j] = IF j <= 1 THEN <<op>>[j] ELSE g[j - 1]
    BY <2>5, <2>6, Joined
  <2> HIDE DEF r
  <2>8. ASSUME NEW j \in 1 .. n - i
        PROVE  f[j] = r[j]
    <3>1. CASE j = 1
      BY <1>1, <1>6, <2>5, <2>6, <2>7, <3>1
    <3>2. CASE j # 1
      <4>1. j - 1 \in 1 .. n - (i + 1) /\ (j - 1) + 1 = j /\ ~(j <= 1) /\ j \in 1 .. 1 + Len(g)
        BY <1>1, <2>6, <3>2
      <4> QED
        BY <2>6, <2>7, <4>1
    <3> QED
      BY <3>1, <3>2
  <2>9. f = r
    <3>1. Len(f) = Len(r) /\ Len(f) = n - i
      BY <1>1, <2>6, <2>7
    <3> QED
      BY <2>6, <2>7, <2>8, <3>1, SeqEqual
  <2>10. r \o q = <<op>> \o (g \o q)
    BY <2>5, <2>6, Assoc, Zenon DEF r
  <2>11. f \o q \in Seq(Ops)
    BY <2>6, Joined
  <2>12. Entries(do, vs, b, at, i, q) = f \o q /\ Entries(do, vs, b, at, i + 1, q) = g \o q
    BY <1>4, <2>3 DEF f, g
  <2>13. f \o q = Do(op, g \o q)
    BY <2>9, <2>10 DEF Do
  <2>14. i # n
    BY <1>1, <1>6
  <2> QED
    BY <2>11, <2>12, <2>13, <2>14 DEF op
<1> QED
  BY <1>1, <1>5, <1>6

-----------------------------------------------------------------------------
(* Stages                                                                  *)



\* The fields of a stage.
LEMMA FieldsAre ==
  ASSUME NEW s \in Stages
  PROVE  /\ s.vs \in Spaces \cup {Null} /\ s.bo \in Bos \cup {Null}
         /\ s.at \in Int \cup {Null} /\ s.bat \in Int \cup {Null} /\ s.i \in Nat
BY DEF Stages

\* The stage after each, as implications.
LEMMA NextPcIs ==
  ASSUME NEW s
  PROVE  /\ s.pc = "lockplace" => NextPc(s) = "place"
         /\ s.pc = "place" => NextPc(s) = "unlock"
         /\ s.pc = "write" =>
              NextPc(s) = IF ~Last(s) THEN "write" ELSE IF s.k = "mmap" THEN "assign" ELSE "unlock"
         /\ s.pc = "assign" => NextPc(s) = "unlock"
         /\ s.pc = "unlock" =>
              /\ s.k = "mmap" => NextPc(s) = "mapped"
              /\ s.k = "bad" => NextPc(s) = "drop"
              /\ s.k \notin {"mmap", "bad"} => NextPc(s) = "idle"
         /\ s.pc = "check" => NextPc(s) = "mapped"
         /\ s.pc = "lockfind" => NextPc(s) = "find"
         /\ s.pc = "undo" => NextPc(s) = IF ~Last(s) THEN "undo" ELSE "undoflush"
         /\ s.pc = "undoflush" => NextPc(s) = "clear"
         /\ s.pc = "clear" => NextPc(s) = IF ~Last(s) THEN "clear" ELSE "flush"
         /\ s.pc = "flush" => NextPc(s) = IF s.k = "bad" THEN "mmfree" ELSE "put"
         /\ s.pc = "put" => NextPc(s) = "mmfree"
         /\ s.pc = "mmfree" =>
              /\ s.k = "map" => NextPc(s) = "unlock"
              /\ s.k = "bad" => NextPc(s) = "assign"
              /\ s.k \notin {"map", "bad"} => NextPc(s) = "down"
         /\ s.pc = "flock" => NextPc(s) = "fclear"
         /\ s.pc = "fclear" => NextPc(s) = IF ~Last(s) THEN "fclear" ELSE "fflush"
         /\ s.pc = "fflush" => NextPc(s) = "fmmfree"
         /\ s.pc = "fmmfree" => NextPc(s) = "funlock"
         /\ s.pc = "funlock" => NextPc(s) = "release"
         /\ s.pc = "release" => NextPc(s) = IF s.k = "none" THEN "idle" ELSE "mmfree"
         /\ s.pc = "find" => NextPc(s) = "unlock"
         /\ s.pc \in {"idle", "drop", "mapped", "down"} => NextPc(s) = "idle"
BY DEF NextPc

\* The fields of the next stage.
LEMMA AfterIs ==
  ASSUME NEW s \in Stages
  PROVE  /\ After(s).pc = NextPc(s)
         /\ After(s).k = IF NextPc(s) \in {"idle", "drop"} THEN "none" ELSE s.k
         /\ After(s).vs = s.vs /\ After(s).bo = s.bo /\ After(s).at = s.at /\ After(s).bat = s.bat
         /\ After(s).i = IF NextPc(s) = s.pc THEN s.i + 1 ELSE 0
         /\ NextPc(s) \in Pcs => After(s) \in Stages
<1> DEFINE kk == IF NextPc(s) \in {"idle", "drop"} THEN "none" ELSE s.k
           ii == IF NextPc(s) = s.pc THEN s.i + 1 ELSE 0
           pp == NextPc(s)
<1>1. After(s) = [s EXCEPT !.pc = pp, !.k = kk, !.i = ii]
  BY DEF After
<1>2. kk \in Kinds /\ ii \in Nat
  <2>1. s.k \in Kinds /\ s.i \in Nat
    BY DEF Stages
  <2>2. ii \in Nat
    BY <2>1
  <2>3. kk \in Kinds
    BY <2>1 DEF Kinds
  <2> QED
    BY <2>2, <2>3
<1> HIDE DEF kk, ii, pp
<1>3. /\ After(s).pc = pp /\ After(s).k = kk /\ After(s).i = ii
      /\ After(s).vs = s.vs /\ After(s).bo = s.bo /\ After(s).at = s.at /\ After(s).bat = s.bat
      /\ pp \in Pcs => After(s) \in Stages
  <2> DEFINE a == [s EXCEPT !.pc = pp, !.k = kk, !.i = ii]
  <2>1. /\ a.pc = pp /\ a.k = kk /\ a.i = ii
        /\ a.vs = s.vs /\ a.bo = s.bo /\ a.at = s.at /\ a.bat = s.bat
        /\ pp \in Pcs => a \in Stages
    BY <1>2 DEF Stages
  <2> QED
    BY <1>1, <2>1
<1> QED
  BY <1>3 DEF pp, kk, ii

\* The program of each stage, as implications.
LEMMA ProgramIs ==
  ASSUME NEW s
  PROVE  /\ s.pc = "idle" => Program(s) = <<>>
         /\ s.pc = "drop" => Program(s) = Do(On("unref", s.bo), <<>>)
         /\ s.pc = "check" => Program(s) = Do(On("check", s.bo), Do(On("mapped", s.bo), <<>>))
         /\ s.pc = "mapped" => Program(s) = Do(On("mapped", s.bo), <<>>)
         /\ s.pc = "lockplace" => Program(s) = Do(Lock(s.vs), PlaceEnd(s))
         /\ s.pc = "place" => Program(s) = PlaceEnd(s)
         /\ s.pc = "write" => Program(s) = Entries("write", s.vs, s.bo, s.at, s.i, WriteEnd(s))
         /\ s.pc = "assign" => Program(s) = AssignEnd(s)
         /\ s.pc = "unlock" => Program(s) = End(s)
         /\ s.pc = "lockfind" => Program(s) = Do(Lock(s.vs), FindEnd(s))
         /\ s.pc = "find" => Program(s) = FindEnd(s)
         /\ s.pc = "undo" => Program(s) = Entries("clear", s.vs, s.bo, s.at, s.i, UndoFlushEnd(s))
         /\ s.pc = "undoflush" => Program(s) = UndoFlushEnd(s)
         /\ s.pc = "clear" => Program(s) = ClearEnd(s, s.i)
         /\ s.pc = "flush" => Program(s) = FlushEnd(s)
         /\ s.pc = "put" => Program(s) = PutEnd(s)
         /\ s.pc = "mmfree" => Program(s) = MmFreeEnd(s)
         /\ s.pc = "down" => Program(s) = End(s)
         /\ s.pc = "flock" => Program(s) = Do(Lock(Bar), FClearEnd(s, 0))
         /\ s.pc = "fclear" => Program(s) = FClearEnd(s, s.i)
         /\ s.pc = "fflush" => Program(s) = FFlushEnd(s)
         /\ s.pc = "fmmfree" => Program(s) = FMmFreeEnd(s)
         /\ s.pc = "funlock" => Program(s) = FUnlockEnd(s)
         /\ s.pc = "release" => Program(s) = ReleaseEnd(s)
BY DEF Program

\* How the program of each kind ends.
LEMMA EndIs ==
  ASSUME NEW s
  PROVE  /\ s.k = "none" => End(s) = <<>>
         /\ s.k = "map" => End(s) = Do(Unlock(s.vs), <<>>)
         /\ s.k = "mmap" => End(s) = Do(Unlock(s.vs), Do(On("mapped", s.bo), <<>>))
         /\ s.k = "bad" => End(s) = Do(Unlock(s.vs), Do(On("unref", s.bo), <<>>))
         /\ s.k = "down" => End(s) = Do(Op("takedown", s.vs, Null, Null), <<>>)
BY DEF End

\* What a stage ends with is made of operations.
LEMMA EndsTyped ==
  ASSUME NEW s \in Stages
  PROVE  /\ End(s) \in Seq(Ops) /\ AssignEnd(s) \in Seq(Ops) /\ WriteEnd(s) \in Seq(Ops)
         /\ PlaceEnd(s) \in Seq(Ops) /\ FindEnd(s) \in Seq(Ops) /\ MmFreeEnd(s) \in Seq(Ops)
         /\ PutEnd(s) \in Seq(Ops) /\ FlushEnd(s) \in Seq(Ops)
         /\ ReleaseEnd(s) \in Seq(Ops) /\ FUnlockEnd(s) \in Seq(Ops)
         /\ FMmFreeEnd(s) \in Seq(Ops) /\ FFlushEnd(s) \in Seq(Ops)
         /\ Do(On("mapped", s.bo), <<>>) \in Seq(Ops) /\ Do(On("unref", s.bo), <<>>) \in Seq(Ops)
         /\ <<>> \in Seq(Ops)
<1>1. /\ s.vs \in Spaces \cup {Null} /\ s.bo \in Bos \cup {Null} /\ s.k \in Kinds
      /\ s.at \in Int \cup {Null} /\ s.bat \in Int \cup {Null} /\ s.i \in Nat
      /\ Bar \in Spaces
  BY Spaced DEF Stages
<1>2. \A do \in Dos : /\ On(do, s.bo) \in Ops /\ Op(do, s.vs, Null, Null) \in Ops
                      /\ Op(do, s.vs, s.bo, s.at) \in Ops /\ Op(do, s.vs, s.bo, Null) \in Ops
                      /\ Op(do, s.vs, Null, s.at) \in Ops /\ Op(do, Bar, s.bo, s.bat) \in Ops
  BY <1>1, OpsAre, OnsAre
<1>3. /\ Lock(s.vs) \in Ops /\ Unlock(s.vs) \in Ops /\ Lock(Bar) \in Ops /\ Unlock(Bar) \in Ops
  BY <1>1, LocksAre
<1>4. /\ {"lock", "unlock", "place", "write", "find", "unref", "check"} \subseteq Dos
      /\ {"takedown", "assign", "mapped", "clear", "flush", "mmfree", "release"} \subseteq Dos
  BY DEF Dos
<1>5. \A op \in Ops : \A q \in Seq(Ops) : Do(op, q) \in Seq(Ops)
  BY DoIs
<1>6. <<>> \in Seq(Ops)
  OBVIOUS
<1>7. Do(On("mapped", s.bo), <<>>) \in Seq(Ops) /\ Do(On("unref", s.bo), <<>>) \in Seq(Ops)
  BY <1>2, <1>4, <1>5, <1>6
<1>8. End(s) \in Seq(Ops)
  <2>1. Op("takedown", s.vs, Null, Null) \in Ops
    BY <1>2, <1>4
  <2> QED
    BY <1>1, <1>3, <1>5, <1>6, <1>7, <2>1, EndIs DEF Kinds
<1>9. AssignEnd(s) \in Seq(Ops)
  BY <1>2, <1>4, <1>5, <1>8 DEF AssignEnd
<1>10. WriteEnd(s) \in Seq(Ops) /\ PlaceEnd(s) \in Seq(Ops) /\ FindEnd(s) \in Seq(Ops)
  BY <1>2, <1>4, <1>5, <1>8, <1>9 DEF WriteEnd, PlaceEnd, FindEnd
<1>11. MmFreeEnd(s) \in Seq(Ops)
  BY <1>2, <1>4, <1>5, <1>8, <1>9 DEF MmFreeEnd
<1>12. PutEnd(s) \in Seq(Ops)
  BY <1>2, <1>4, <1>5, <1>11 DEF PutEnd
<1>13. FlushEnd(s) \in Seq(Ops)
  BY <1>2, <1>4, <1>5, <1>12 DEF FlushEnd
<1>14. ReleaseEnd(s) \in Seq(Ops)
  BY <1>2, <1>4, <1>5, <1>6, <1>11 DEF ReleaseEnd
<1>15. FUnlockEnd(s) \in Seq(Ops)
  BY <1>3, <1>5, <1>14 DEF FUnlockEnd
<1>16. FMmFreeEnd(s) \in Seq(Ops)
  BY <1>2, <1>4, <1>5, <1>15 DEF FMmFreeEnd
<1>17. FFlushEnd(s) \in Seq(Ops)
  BY <1>2, <1>4, <1>5, <1>16 DEF FFlushEnd
<1> QED
  BY <1>6, <1>7, <1>8, <1>9, <1>10, <1>11, <1>12, <1>13, <1>14, <1>15, <1>16, <1>17

\* Stages of the same program end the same way.
LEMMA EndsSame ==
  ASSUME NEW s, NEW a, a.k = s.k, a.vs = s.vs, a.bo = s.bo, a.at = s.at
  PROVE  /\ End(a) = End(s) /\ AssignEnd(a) = AssignEnd(s) /\ WriteEnd(a) = WriteEnd(s)
         /\ PlaceEnd(a) = PlaceEnd(s) /\ FindEnd(a) = FindEnd(s) /\ MmFreeEnd(a) = MmFreeEnd(s)
         /\ PutEnd(a) = PutEnd(s) /\ FlushEnd(a) = FlushEnd(s) /\ ReleaseEnd(a) = ReleaseEnd(s)
         /\ FUnlockEnd(a) = FUnlockEnd(s) /\ UndoFlushEnd(a) = UndoFlushEnd(s)
         /\ \A i : ClearEnd(a, i) = ClearEnd(s, i)
         /\ a.bat = s.bat => /\ FMmFreeEnd(a) = FMmFreeEnd(s) /\ FFlushEnd(a) = FFlushEnd(s)
                             /\ \A i : FClearEnd(a, i) = FClearEnd(s, i)
<1>1. End(a) = End(s)
  BY DEF End
<1>2. AssignEnd(a) = AssignEnd(s)
  BY <1>1 DEF AssignEnd
<1>3. /\ WriteEnd(a) = WriteEnd(s) /\ PlaceEnd(a) = PlaceEnd(s) /\ FindEnd(a) = FindEnd(s)
      /\ MmFreeEnd(a) = MmFreeEnd(s)
  BY <1>1, <1>2 DEF WriteEnd, PlaceEnd, FindEnd, MmFreeEnd
<1>4. PutEnd(a) = PutEnd(s) /\ ReleaseEnd(a) = ReleaseEnd(s)
  BY <1>3 DEF PutEnd, ReleaseEnd
<1>5. FlushEnd(a) = FlushEnd(s) /\ FUnlockEnd(a) = FUnlockEnd(s)
  BY <1>4 DEF FlushEnd, FUnlockEnd
<1>6. \A i : ClearEnd(a, i) = ClearEnd(s, i)
  BY <1>5 DEF ClearEnd
<1>7. UndoFlushEnd(a) = UndoFlushEnd(s)
  BY <1>6 DEF UndoFlushEnd
<1>8. a.bat = s.bat => FMmFreeEnd(a) = FMmFreeEnd(s)
  BY <1>5 DEF FMmFreeEnd
<1>9. a.bat = s.bat => FFlushEnd(a) = FFlushEnd(s)
  BY <1>8 DEF FFlushEnd
<1>10. a.bat = s.bat => \A i : FClearEnd(a, i) = FClearEnd(s, i)
  BY <1>9 DEF FClearEnd
<1> QED
  BY <1>1, <1>2, <1>3, <1>4, <1>5, <1>6, <1>7, <1>8, <1>9, <1>10

\* The operation of a stage.
NowOf(s) ==
  CASE s.pc \in {"drop", "put"} -> On("unref", s.bo)
    [] s.pc \in {"check", "mapped", "release"} -> On(s.pc, s.bo)
    [] s.pc \in {"lockplace", "lockfind"} -> Lock(s.vs)
    [] s.pc = "place" -> Op("place", s.vs, s.bo, Null)
    [] s.pc = "write" -> Op("write", s.vs, s.bo, s.at + s.i)
    [] s.pc \in {"assign", "mmfree", "flush"} -> Op(s.pc, s.vs, s.bo, s.at)
    [] s.pc = "unlock" -> Unlock(s.vs)
    [] s.pc = "find" -> Op("find", s.vs, Null, s.at)
    [] s.pc \in {"undo", "clear"} -> Op("clear", s.vs, s.bo, s.at + s.i)
    [] s.pc = "undoflush" -> Op("flush", s.vs, s.bo, s.at)
    [] s.pc = "down" -> Op("takedown", s.vs, Null, Null)
    [] s.pc = "flock" -> Lock(Bar)
    [] s.pc = "fclear" -> Op("clear", Bar, s.bo, s.bat + s.i)
    [] s.pc = "fflush" -> Op("flush", Bar, s.bo, s.bat)
    [] s.pc = "fmmfree" -> Op("mmfree", Bar, s.bo, s.bat)
    [] s.pc = "funlock" -> Unlock(Bar)

\* The operation of each stage, as implications.
LEMMA NowOfIs ==
  ASSUME NEW s
  PROVE  /\ s.pc = "drop" => NowOf(s) = On("unref", s.bo)
         /\ s.pc = "put" => NowOf(s) = On("unref", s.bo)
         /\ s.pc = "check" => NowOf(s) = On("check", s.bo)
         /\ s.pc = "mapped" => NowOf(s) = On("mapped", s.bo)
         /\ s.pc = "release" => NowOf(s) = On("release", s.bo)
         /\ s.pc = "lockplace" => NowOf(s) = Lock(s.vs)
         /\ s.pc = "lockfind" => NowOf(s) = Lock(s.vs)
         /\ s.pc = "place" => NowOf(s) = Op("place", s.vs, s.bo, Null)
         /\ s.pc = "write" => NowOf(s) = Op("write", s.vs, s.bo, s.at + s.i)
         /\ s.pc = "assign" => NowOf(s) = Op("assign", s.vs, s.bo, s.at)
         /\ s.pc = "mmfree" => NowOf(s) = Op("mmfree", s.vs, s.bo, s.at)
         /\ s.pc = "flush" => NowOf(s) = Op("flush", s.vs, s.bo, s.at)
         /\ s.pc = "unlock" => NowOf(s) = Unlock(s.vs)
         /\ s.pc = "find" => NowOf(s) = Op("find", s.vs, Null, s.at)
         /\ s.pc = "undo" => NowOf(s) = Op("clear", s.vs, s.bo, s.at + s.i)
         /\ s.pc = "clear" => NowOf(s) = Op("clear", s.vs, s.bo, s.at + s.i)
         /\ s.pc = "undoflush" => NowOf(s) = Op("flush", s.vs, s.bo, s.at)
         /\ s.pc = "down" => NowOf(s) = Op("takedown", s.vs, Null, Null)
         /\ s.pc = "flock" => NowOf(s) = Lock(Bar)
         /\ s.pc = "fclear" => NowOf(s) = Op("clear", Bar, s.bo, s.bat + s.i)
         /\ s.pc = "fflush" => NowOf(s) = Op("flush", Bar, s.bo, s.bat)
         /\ s.pc = "fmmfree" => NowOf(s) = Op("mmfree", Bar, s.bo, s.bat)
         /\ s.pc = "funlock" => NowOf(s) = Unlock(Bar)
BY DEF NowOf

\* A stage goes on to a stage.
LEMMA AfterFormed ==
  ASSUME NEW s, WellFormed(s)
  PROVE  WellFormed(After(s))
<1> DEFINE a == After(s)
<1>1. /\ s \in Stages /\ s.pc \in Pcs /\ s.k \in Kinds /\ s.i \in Nat
      /\ a.vs = s.vs /\ a.bo = s.bo /\ a.at = s.at /\ a.bat = s.bat /\ a.pc = NextPc(s)
      /\ a.k = IF NextPc(s) \in {"idle", "drop"} THEN "none" ELSE s.k
      /\ a.i = IF NextPc(s) = s.pc THEN s.i + 1 ELSE 0
      /\ NextPc(s) \in Pcs => a \in Stages
  BY AfterIs DEF WellFormed, Stages
<1> HIDE DEF a
<1>2. a.pc \in Pcs /\ a \in Stages
  BY <1>1, NextPcIs DEF Pcs, WithNode, Freeing
<1>3. Suits(a.pc, a.k)
  BY <1>1, NextPcIs DEF Pcs, Kinds, WithNode, Freeing, WellFormed, Suits
<1>4. s.k \in {"map", "down"} => s.vs \in Vs
  BY DEF WellFormed
<1>5. /\ a.k \in {"map", "down"} => a.vs \in Vs
      /\ a.k \in {"mmap", "bad"} => a.vs = Bar
  BY <1>1 DEF WellFormed
<1>6. a.pc \notin {"idle", "lockfind", "find", "down"} /\ ~(a.pc = "unlock" /\ a.k = "map")
       => a.bo \in Bos
  BY <1>1, NextPcIs DEF Pcs, Kinds, WithNode, Freeing, WellFormed, Suits
<1>7. Has(a) \/ a.pc = "assign" => Has(s) \/ s.pc = "assign"
  BY <1>1, NextPcIs DEF Pcs, Kinds, WithNode, Freeing, WellFormed, Suits, Has
<1>8. a.pc \in Freeing \ {"funlock", "release"} => a.bat \in Int
  BY <1>1, NextPcIs DEF Pcs, Kinds, WithNode, Freeing, WellFormed, Suits
<1>9. a.pc \in {"write", "undo", "clear", "fclear"} => a.i < Size[a.bo]
  <2>1. a.pc \in {"write", "undo", "clear", "fclear"} => Size[a.bo] \in Nat \ {0}
    BY <1>6, Some
  <2>2. a.pc \in {"write", "undo", "clear", "fclear"} =>
          \/ a.i = 0
          \/ a.i = s.i + 1 /\ s.i + 1 < Size[s.bo]
    BY <1>1, NextPcIs DEF Pcs, Kinds, WithNode, Freeing, Last
  <2> QED
    BY <1>1, <2>1, <2>2
<1> QED
  BY <1>1, <1>2, <1>3, <1>5, <1>6, <1>7, <1>8, <1>9 DEF WellFormed, a

\* The operation of a stage comes first, and what is left is the next stage's.
LEMMA ProgramStep ==
  ASSUME NEW s, WellFormed(s), s.pc # "idle"
  PROVE  /\ Program(s) = Do(NowOf(s), Program(After(s)))
         /\ NowOf(s) \in Ops /\ Program(After(s)) \in Seq(Ops)
<1> DEFINE a == After(s)
<1>1. /\ s \in Stages /\ s.pc \in Pcs /\ s.k \in Kinds /\ s.i \in Nat
      /\ a.vs = s.vs /\ a.bo = s.bo /\ a.at = s.at /\ a.bat = s.bat /\ a.pc = NextPc(s)
      /\ a.k = IF NextPc(s) \in {"idle", "drop"} THEN "none" ELSE s.k
      /\ a.i = IF NextPc(s) = s.pc THEN s.i + 1 ELSE 0
  BY AfterIs DEF WellFormed, Stages
<1>2. Suits(s.pc, s.k) /\ WellFormed(a)
  BY AfterFormed DEF WellFormed
<1>3. NextPc(s) \notin {"idle", "drop"} =>
         /\ End(a) = End(s) /\ AssignEnd(a) = AssignEnd(s) /\ WriteEnd(a) = WriteEnd(s)
         /\ PlaceEnd(a) = PlaceEnd(s) /\ FindEnd(a) = FindEnd(s) /\ MmFreeEnd(a) = MmFreeEnd(s)
         /\ PutEnd(a) = PutEnd(s) /\ FlushEnd(a) = FlushEnd(s) /\ ReleaseEnd(a) = ReleaseEnd(s)
         /\ FUnlockEnd(a) = FUnlockEnd(s) /\ UndoFlushEnd(a) = UndoFlushEnd(s)
         /\ FMmFreeEnd(a) = FMmFreeEnd(s) /\ FFlushEnd(a) = FFlushEnd(s)
         /\ \A i : ClearEnd(a, i) = ClearEnd(s, i) /\ FClearEnd(a, i) = FClearEnd(s, i)
  BY <1>1, EndsSame
<1>4. /\ End(s) \in Seq(Ops) /\ AssignEnd(s) \in Seq(Ops) /\ WriteEnd(s) \in Seq(Ops)
      /\ PlaceEnd(s) \in Seq(Ops) /\ FindEnd(s) \in Seq(Ops) /\ MmFreeEnd(s) \in Seq(Ops)
      /\ PutEnd(s) \in Seq(Ops) /\ FlushEnd(s) \in Seq(Ops)
      /\ ReleaseEnd(s) \in Seq(Ops) /\ FUnlockEnd(s) \in Seq(Ops)
      /\ FMmFreeEnd(s) \in Seq(Ops) /\ FFlushEnd(s) \in Seq(Ops)
      /\ Do(On("mapped", s.bo), <<>>) \in Seq(Ops) /\ Do(On("unref", s.bo), <<>>) \in Seq(Ops)
      /\ <<>> \in Seq(Ops)
  BY <1>1, EndsTyped
<1>5. ASSUME NEW b \in Bos, s.bo = b
      PROVE  /\ Size[b] \in Nat \ {0}
             /\ s.at \in Int => ClearEnd(s, 0) \in Seq(Ops) /\ UndoFlushEnd(s) \in Seq(Ops)
             /\ s.bat \in Int => FClearEnd(s, 0) \in Seq(Ops)
  <2>1. Size[b] \in Nat \ {0} /\ 0 <= Size[b]
    BY Some
  <2>2. s.vs \in Spaces \cup {Null} /\ s.at \in Int \cup {Null} /\ "clear" \in Dos /\ "flush" \in Dos /\ Bar \in Spaces
    BY <1>1, Spaced DEF Stages, Dos
  <2>3. s.at \in Int => ClearEnd(s, 0) \in Seq(Ops)
    BY <1>4, <1>5, <2>1, <2>2, EntriesAre DEF ClearEnd
  <2>4. s.at \in Int => UndoFlushEnd(s) \in Seq(Ops)
    BY <1>5, <2>2, <2>3, OpsAre, DoIs DEF UndoFlushEnd
  <2>5. s.bat \in Int => FClearEnd(s, 0) \in Seq(Ops)
    BY <1>4, <1>5, <2>1, <2>2, EntriesAre DEF FClearEnd
  <2> QED
    BY <2>1, <2>3, <2>4, <2>5
<1>6. s.vs \in Spaces \cup {Null} /\ s.at \in Int \cup {Null} /\ s.bat \in Int \cup {Null}
      /\ s.bo \in Bos \cup {Null} /\ Bar \in Spaces
  BY <1>1, Spaced DEF Stages
<1>7. ASSUME NEW do \in Dos, NEW at \in Int, NEW vs \in Spaces \cup {Null}, NEW q \in Seq(Ops), s.bo \in Bos, s.i < Size[s.bo]
      PROVE  /\ Entries(do, vs, s.bo, at, s.i, q)
                  = Do(Op(do, vs, s.bo, at + s.i),
                       IF Last(s) THEN q ELSE Entries(do, vs, s.bo, at, s.i + 1, q))
             /\ Op(do, vs, s.bo, at + s.i) \in Ops
             /\ ~Last(s) => Entries(do, vs, s.bo, at, s.i + 1, q) \in Seq(Ops)
  <2>1. /\ s.i + 1 \in Nat /\ s.i + 1 <= Size[s.bo] /\ s.i <= Size[s.bo] /\ at + s.i \in Int
        /\ Last(s) <=> s.i + 1 = Size[s.bo]
    BY <1>1, <1>5, <1>7 DEF Last
  <2>2. Entries(do, vs, s.bo, at, s.i, q)
          = Do(Op(do, vs, s.bo, at + s.i), Entries(do, vs, s.bo, at, s.i + 1, q))
    <3>1. \A i \in Nat : i <= Size[s.bo] /\ i < Size[s.bo] =>
            Entries(do, vs, s.bo, at, i, q)
              = Do(Op(do, vs, s.bo, at + i), Entries(do, vs, s.bo, at, i + 1, q))
      BY <1>7, EntriesAre
    <3> QED
      BY <1>1, <1>7, <2>1, <3>1
  <2>3. /\ Entries(do, vs, s.bo, at, s.i + 1, q) \in Seq(Ops)
        /\ Last(s) => Entries(do, vs, s.bo, at, s.i + 1, q) = q
    BY <1>7, <2>1, EntriesAre
  <2> QED
    BY <1>6, <2>1, <2>2, <2>3, OpsAre
<1>8. /\ Lock(s.vs) \in Ops /\ Unlock(s.vs) \in Ops /\ Lock(Bar) \in Ops /\ Unlock(Bar) \in Ops
      /\ On("unref", s.bo) \in Ops /\ On("check", s.bo) \in Ops /\ On("mapped", s.bo) \in Ops
      /\ On("release", s.bo) \in Ops /\ Op("place", s.vs, s.bo, Null) \in Ops
      /\ Op("assign", s.vs, s.bo, s.at) \in Ops /\ Op("mmfree", s.vs, s.bo, s.at) \in Ops
      /\ Op("flush", s.vs, s.bo, s.at) \in Ops /\ Op("find", s.vs, Null, s.at) \in Ops
      /\ Op("takedown", s.vs, Null, Null) \in Ops /\ Op("flush", Bar, s.bo, s.bat) \in Ops
      /\ Op("mmfree", Bar, s.bo, s.bat) \in Ops
  <2>1. \A do \in Dos : /\ On(do, s.bo) \in Ops /\ Op(do, s.vs, Null, Null) \in Ops
                        /\ Op(do, s.vs, s.bo, s.at) \in Ops /\ Op(do, s.vs, s.bo, Null) \in Ops
                        /\ Op(do, s.vs, Null, s.at) \in Ops /\ Op(do, Bar, s.bo, s.bat) \in Ops
    BY <1>6, OpsAre, OnsAre
  <2>2. /\ {"lock", "unlock", "place", "write", "find", "unref", "check"} \subseteq Dos
        /\ {"takedown", "assign", "mapped", "clear", "flush", "mmfree", "release"} \subseteq Dos
    BY DEF Dos
  <2> QED
    BY <1>6, <2>1, <2>2, LocksAre
<1> SUFFICES /\ Program(s) = Do(NowOf(s), Program(a))
             /\ NowOf(s) \in Ops /\ Program(a) \in Seq(Ops)
  OBVIOUS
<1> HIDE DEF a
<1>9. CASE s.pc = "drop"
  BY <1>1, <1>2, <1>3, <1>4, <1>8, <1>9, NowOfIs, NextPcIs, ProgramIs, EndIs, SMTT(30)
     DEF Kinds, Suits, WithNode, Freeing
<1>10. CASE s.pc = "check"
  BY <1>1, <1>2, <1>3, <1>4, <1>8, <1>10, NowOfIs, NextPcIs, ProgramIs, EndIs, SMTT(30)
     DEF Kinds, Suits, WithNode, Freeing
<1>11. CASE s.pc = "mapped"
  BY <1>1, <1>2, <1>3, <1>4, <1>8, <1>11, NowOfIs, NextPcIs, ProgramIs, EndIs, ZenonT(30)
     DEF Kinds, Suits, WithNode, Freeing
<1>12. CASE s.pc = "lockplace"
  BY <1>1, <1>2, <1>3, <1>4, <1>8, <1>12, NowOfIs, NextPcIs, ProgramIs, EndIs, SMTT(30)
     DEF Kinds, Suits, WithNode, Freeing
<1>13. CASE s.pc = "place"
  BY <1>1, <1>2, <1>3, <1>4, <1>8, <1>13, NowOfIs, NextPcIs, ProgramIs, EndIs, SMTT(30)
     DEF Suits, PlaceEnd, WithNode, Freeing
<1>14. CASE s.pc = "assign"
  BY <1>1, <1>2, <1>3, <1>4, <1>8, <1>14, NowOfIs, NextPcIs, ProgramIs, EndIs, SMTT(30)
     DEF Suits, AssignEnd, WithNode, Freeing
<1>15. CASE s.pc = "unlock"
  <2>1. s.k \in {"map", "mmap", "bad"}
    BY <1>1, <1>2, <1>15 DEF Kinds, Suits, WithNode, Freeing
  <2>2. CASE s.k = "map"
    BY <1>1, <1>4, <1>8, <1>15, <2>2, NowOfIs, NextPcIs, ProgramIs, EndIs, ZenonT(30)
  <2>3. CASE s.k = "mmap"
    BY <1>1, <1>4, <1>8, <1>15, <2>3, NowOfIs, NextPcIs, ProgramIs, EndIs, SMTT(30)
  <2>4. CASE s.k = "bad"
    BY <1>1, <1>4, <1>8, <1>15, <2>4, NowOfIs, NextPcIs, ProgramIs, EndIs, SMTT(30)
  <2> QED
    BY <2>1, <2>2, <2>3, <2>4
<1>16. CASE s.pc = "lockfind"
  BY <1>1, <1>2, <1>3, <1>4, <1>8, <1>16, NowOfIs, NextPcIs, ProgramIs, EndIs, SMTT(30)
     DEF Kinds, Suits, WithNode, Freeing
<1>17. CASE s.pc = "find"
  BY <1>1, <1>2, <1>3, <1>4, <1>8, <1>17, NowOfIs, NextPcIs, ProgramIs, EndIs, SMTT(30)
     DEF Kinds, Suits, FindEnd, WithNode, Freeing
<1>18. CASE s.pc = "undoflush"
  <2>1. s.bo \in Bos /\ s.at \in Int
    BY <1>18 DEF WellFormed, Has, WithNode
  <2>2. a.pc = "clear" /\ a.i = 0 /\ NextPc(s) = "clear"
    BY <1>1, <1>18, NextPcIs
  <2>3. Program(a) = ClearEnd(s, 0) /\ ClearEnd(s, 0) \in Seq(Ops)
    BY <1>3, <1>5, <2>1, <2>2, ProgramIs
  <2> QED
    BY <1>8, <1>18, <2>3, NowOfIs, ProgramIs DEF UndoFlushEnd
<1>19. CASE s.pc = "flush"
  BY <1>1, <1>2, <1>3, <1>4, <1>8, <1>19, NowOfIs, NextPcIs, ProgramIs, EndIs, SMTT(30)
     DEF Suits, FlushEnd, PutEnd, WithNode, Freeing
<1>20. CASE s.pc = "put"
  BY <1>1, <1>2, <1>3, <1>4, <1>8, <1>20, NowOfIs, NextPcIs, ProgramIs, EndIs, SMTT(30)
     DEF Suits, PutEnd, WithNode, Freeing
<1>21. CASE s.pc = "mmfree"
  BY <1>1, <1>2, <1>3, <1>4, <1>8, <1>21, NowOfIs, NextPcIs, ProgramIs, EndIs, SMTT(30)
     DEF Suits, MmFreeEnd, WithNode, Freeing
<1>22. CASE s.pc = "down"
  <2>1. s.k = "down"
    BY <1>1, <1>2, <1>22 DEF Kinds, Suits, WithNode, Freeing
  <2>2. Program(a) = <<>>
    BY <1>1, <1>22, NextPcIs, ProgramIs
  <2> QED
    BY <1>4, <1>8, <1>22, <2>1, <2>2, NowOfIs, ProgramIs, EndIs, SMTT(30)
<1>23. CASE s.pc = "flock"
  <2>1. s.bo \in Bos /\ s.bat \in Int
    BY <1>23 DEF WellFormed, Freeing
  <2>2. a.pc = "fclear" /\ a.i = 0 /\ NextPc(s) = "fclear"
    BY <1>1, <1>23, NextPcIs
  <2>3. Program(a) = FClearEnd(s, 0) /\ FClearEnd(s, 0) \in Seq(Ops)
    BY <1>3, <1>5, <2>1, <2>2, ProgramIs
  <2> QED
    BY <1>8, <1>23, <2>3, NowOfIs, ProgramIs
<1>24. CASE s.pc = "fflush"
  BY <1>1, <1>2, <1>3, <1>4, <1>8, <1>24, NowOfIs, NextPcIs, ProgramIs, EndIs, SMTT(30)
     DEF Suits, FFlushEnd, WithNode, Freeing
<1>25. CASE s.pc = "fmmfree"
  BY <1>1, <1>2, <1>3, <1>4, <1>8, <1>25, NowOfIs, NextPcIs, ProgramIs, EndIs, SMTT(30)
     DEF Suits, FMmFreeEnd, WithNode, Freeing
<1>26. CASE s.pc = "funlock"
  BY <1>1, <1>2, <1>3, <1>4, <1>8, <1>26, NowOfIs, NextPcIs, ProgramIs, EndIs, SMTT(30)
     DEF Suits, FUnlockEnd, WithNode, Freeing
<1>27. CASE s.pc = "release"
  BY <1>1, <1>2, <1>3, <1>4, <1>8, <1>27, NowOfIs, NextPcIs, ProgramIs, EndIs, SMTT(30)
     DEF Suits, ReleaseEnd, WithNode, Freeing
<1>28. CASE s.pc = "write"
  <2>1. /\ s.bo \in Bos /\ s.at \in Int /\ s.i < Size[s.bo] /\ "write" \in Dos
        /\ WriteEnd(s) \in Seq(Ops)
    BY <1>4, <1>5, <1>28 DEF WellFormed, Has, WithNode, Freeing, Dos
  <2> DEFINE q == WriteEnd(s)
             r == Entries("write", s.vs, s.bo, s.at, s.i + 1, q)
  <2>2. /\ Entries("write", s.vs, s.bo, s.at, s.i, q)
             = Do(Op("write", s.vs, s.bo, s.at + s.i), IF Last(s) THEN q ELSE r)
        /\ Op("write", s.vs, s.bo, s.at + s.i) \in Ops
        /\ ~Last(s) => r \in Seq(Ops)
    BY <1>6, <1>7, <2>1
  <2>3. Program(s) = Entries("write", s.vs, s.bo, s.at, s.i, q)
    BY <1>28, ProgramIs DEF WriteEnd
  <2>4. ~Last(s) => Program(a) = r
    BY <1>1, <1>3, <1>28, NextPcIs, ProgramIs DEF WriteEnd
  <2>5. Last(s) => Program(a) = q
    BY <1>1, <1>2, <1>3, <1>28, NextPcIs, ProgramIs DEF WriteEnd, Suits, WithNode, Freeing
  <2> HIDE DEF q, r
  <2> QED
    BY <1>28, <2>1, <2>2, <2>3, <2>4, <2>5, NowOfIs DEF q
<1>29. CASE s.pc = "undo"
  <2>1. /\ s.bo \in Bos /\ s.at \in Int /\ s.i < Size[s.bo] /\ "clear" \in Dos
        /\ UndoFlushEnd(s) \in Seq(Ops)
    BY <1>4, <1>5, <1>29 DEF WellFormed, Has, WithNode, Freeing, Dos
  <2> DEFINE q == UndoFlushEnd(s)
             r == Entries("clear", s.vs, s.bo, s.at, s.i + 1, q)
  <2>2. /\ Entries("clear", s.vs, s.bo, s.at, s.i, q)
             = Do(Op("clear", s.vs, s.bo, s.at + s.i), IF Last(s) THEN q ELSE r)
        /\ Op("clear", s.vs, s.bo, s.at + s.i) \in Ops
        /\ ~Last(s) => r \in Seq(Ops)
    BY <1>6, <1>7, <2>1
  <2>3. Program(s) = Entries("clear", s.vs, s.bo, s.at, s.i, q)
    BY <1>29, ProgramIs DEF UndoFlushEnd
  <2>4. ~Last(s) => Program(a) = r
    BY <1>1, <1>3, <1>29, NextPcIs, ProgramIs DEF UndoFlushEnd
  <2>5. Last(s) => Program(a) = q
    BY <1>1, <1>2, <1>3, <1>29, NextPcIs, ProgramIs DEF WriteEnd, Suits, WithNode, Freeing
  <2> HIDE DEF q, r
  <2> QED
    BY <1>29, <2>1, <2>2, <2>3, <2>4, <2>5, NowOfIs DEF q
<1>30. CASE s.pc = "clear"
  <2>1. /\ s.bo \in Bos /\ s.at \in Int /\ s.i < Size[s.bo] /\ "clear" \in Dos
        /\ FlushEnd(s) \in Seq(Ops)
    BY <1>4, <1>5, <1>30 DEF WellFormed, Has, WithNode, Freeing, Dos
  <2> DEFINE q == FlushEnd(s)
             r == Entries("clear", s.vs, s.bo, s.at, s.i + 1, q)
  <2>2. /\ Entries("clear", s.vs, s.bo, s.at, s.i, q)
             = Do(Op("clear", s.vs, s.bo, s.at + s.i), IF Last(s) THEN q ELSE r)
        /\ Op("clear", s.vs, s.bo, s.at + s.i) \in Ops
        /\ ~Last(s) => r \in Seq(Ops)
    BY <1>6, <1>7, <2>1
  <2>3. Program(s) = Entries("clear", s.vs, s.bo, s.at, s.i, q)
    BY <1>30, ProgramIs DEF ClearEnd
  <2>4. ~Last(s) => Program(a) = r
    BY <1>1, <1>3, <1>30, NextPcIs, ProgramIs DEF ClearEnd
  <2>5. Last(s) => Program(a) = q
    BY <1>1, <1>2, <1>3, <1>30, NextPcIs, ProgramIs DEF WriteEnd, Suits, WithNode, Freeing
  <2> HIDE DEF q, r
  <2> QED
    BY <1>30, <2>1, <2>2, <2>3, <2>4, <2>5, NowOfIs DEF q
<1>31. CASE s.pc = "fclear"
  <2>1. /\ s.bo \in Bos /\ s.bat \in Int /\ s.i < Size[s.bo] /\ "clear" \in Dos
        /\ FFlushEnd(s) \in Seq(Ops)
    BY <1>4, <1>5, <1>31 DEF WellFormed, Has, WithNode, Freeing, Dos
  <2> DEFINE q == FFlushEnd(s)
             r == Entries("clear", Bar, s.bo, s.bat, s.i + 1, q)
  <2>2. /\ Entries("clear", Bar, s.bo, s.bat, s.i, q)
             = Do(Op("clear", Bar, s.bo, s.bat + s.i), IF Last(s) THEN q ELSE r)
        /\ Op("clear", Bar, s.bo, s.bat + s.i) \in Ops
        /\ ~Last(s) => r \in Seq(Ops)
    BY <1>6, <1>7, <2>1
  <2>3. Program(s) = Entries("clear", Bar, s.bo, s.bat, s.i, q)
    BY <1>31, ProgramIs DEF FClearEnd
  <2>4. ~Last(s) => Program(a) = r
    BY <1>1, <1>3, <1>31, NextPcIs, ProgramIs DEF FClearEnd
  <2>5. Last(s) => Program(a) = q
    BY <1>1, <1>2, <1>3, <1>31, NextPcIs, ProgramIs DEF WriteEnd, Suits, WithNode, Freeing
  <2> HIDE DEF q, r
  <2> QED
    BY <1>31, <2>1, <2>2, <2>3, <2>4, <2>5, NowOfIs DEF q
<1> QED
  BY <1>1, <1>9, <1>10, <1>11, <1>12, <1>13, <1>14, <1>15, <1>16, <1>17, <1>18, <1>19, <1>20, <1>21, <1>22, <1>23, <1>24, <1>25, <1>26, <1>27, <1>28, <1>29, <1>30, <1>31
     DEF Pcs, WithNode, Freeing

-----------------------------------------------------------------------------
(* What the steps put in front                                             *)

\* An operation for each page of an object, before others.
LEMMA ArrayIs ==
  ASSUME NEW do \in Dos, NEW vs \in Spaces, NEW b \in Bos, NEW at \in Int
  PROVE  LET f == [i \in 1 .. Size[b] |-> Op(do, vs, b, at + i - 1)]
         IN  /\ f \in Seq(Ops)
             /\ \A q : f \o q = Entries(do, vs, b, at, 0, q)
<1> DEFINE n == Size[b]
           f == [i \in 1 .. n |-> Op(do, vs, b, at + i - 1)]
           g == [j \in 1 .. n - 0 |-> Op(do, vs, b, at + 0 + j - 1)]
<1>1. n \in Nat \ {0} /\ \A k \in Int : Op(do, vs, b, k) \in Ops
  BY Some, OpsAre
<1>2. n - 0 = n /\ \A i \in 1 .. n : at + i - 1 \in Int /\ at + 0 + i - 1 = at + i - 1
  BY <1>1
<1>3. f = g
  BY <1>2
<1>4. f \in [1 .. n -> Ops]
  BY <1>1, <1>2
<1>5. \A m \in Nat : \A h \in [1 .. m -> Ops] : h \in Seq(Ops)
  OBVIOUS
<1>6. f \in Seq(Ops)
  <2> HIDE DEF f
  <2> QED
    BY <1>1, <1>4, <1>5
<1>7. \A q : Entries(do, vs, b, at, 0, q) = g \o q
  BY DEF Entries
<1>8. \A q : f \o q = Entries(do, vs, b, at, 0, q)
  <2> HIDE DEF f, g
  <2> QED
    BY <1>3, <1>7
<1> QED
  BY <1>6, <1>8

\* The writes of a map, before others.
LEMMA MapIs ==
  ASSUME NEW vs \in Spaces, NEW b \in Bos, NEW at \in Int, NEW q \in Seq(Ops)
  PROVE  /\ (DoMap(vs, b, at) \o <<>>) \o q = Entries("write", vs, b, at, 0, q)
         /\ (DoMap(vs, b, at) \o <<Op("assign", vs, b, at)>>) \o q
              = Entries("write", vs, b, at, 0, Do(Op("assign", vs, b, at), q))
<1> DEFINE f == DoMap(vs, b, at)
           op == Op("assign", vs, b, at)
<1>1. "write" \in Dos /\ "assign" \in Dos
  BY DEF Dos
<1>2. f \in Seq(Ops) /\ \A r : f \o r = Entries("write", vs, b, at, 0, r)
  BY <1>1, ArrayIs DEF DoMap
<1>3. op \in Ops
  BY <1>1, OpsAre
<1> HIDE DEF f, op
<1>4. <<op>> \in Seq(Ops)
  BY <1>3
<1>5. f \o <<>> = f
  BY <1>2
<1>6. (f \o <<op>>) \o q = f \o (<<op>> \o q)
  BY <1>2, <1>4, Assoc, Zenon
<1> QED
  BY <1>2, <1>5, <1>6 DEF f, op, Do

\* The clears and the flush of an unmap, before others.
LEMMA UnmapIs ==
  ASSUME NEW vs \in Spaces, NEW b \in Bos, NEW at \in Int
  PROVE  /\ DoUnmap(vs, b, at) \in Seq(Ops)
         /\ \A q \in Seq(Ops) :
              /\ DoUnmap(vs, b, at) \o q
                   = Entries("clear", vs, b, at, 0, Do(Op("flush", vs, b, at), q))
              /\ DoUnmap(vs, b, at) \o q \in Seq(Ops)
<1> DEFINE f == [i \in 1 .. Size[b] |-> Op("clear", vs, b, at + i - 1)]
           op == Op("flush", vs, b, at)
<1>1. "clear" \in Dos /\ "flush" \in Dos
  BY DEF Dos
<1>2. f \in Seq(Ops) /\ \A r : f \o r = Entries("clear", vs, b, at, 0, r)
  BY <1>1, ArrayIs
<1>3. op \in Ops
  BY <1>1, OpsAre
<1>4. DoUnmap(vs, b, at) = f \o <<op>>
  BY DEF DoUnmap
<1> HIDE DEF f, op
<1>5. <<op>> \in Seq(Ops)
  BY <1>3
<1>6. f \o <<op>> \in Seq(Ops)
  BY <1>2, <1>5, Joined
<1>7. ASSUME NEW q \in Seq(Ops)
      PROVE  (f \o <<op>>) \o q = f \o (<<op>> \o q) /\ (f \o <<op>>) \o q \in Seq(Ops)
  <2>1. (f \o <<op>>) \o q = f \o (<<op>> \o q)
    BY <1>2, <1>5, Assoc, Zenon
  <2>2. (f \o <<op>>) \o q \in Seq(Ops)
    BY <1>6, Joined, Zenon
  <2> QED
    BY <2>1, <2>2
<1> QED
  BY <1>2, <1>4, <1>6, <1>7 DEF op, Do

\* An unmap with what follows in pscnv_vspace_unmap_node_unlocked, before others.
LEMMA UnmapNodeIs ==
  ASSUME NEW vs \in Spaces, NEW b \in Bos, NEW at \in Int
  PROVE  /\ UnmapNode(vs, b, at) \in Seq(Ops)
         /\ \A q \in Seq(Ops) :
              /\ UnmapNode(vs, b, at) \o q
                   = LET r == Do(Op("mmfree", vs, b, at), q)
                     IN  Entries("clear", vs, b, at, 0,
                           Do(Op("flush", vs, b, at), IF vs = Bar THEN r ELSE Do(On("unref", b), r)))
              /\ UnmapNode(vs, b, at) \o q \in Seq(Ops)
<1> DEFINE u == DoUnmap(vs, b, at)
           m == Op("mmfree", vs, b, at)
           o == On("unref", b)
           x == IF vs = Bar THEN <<>> ELSE <<o>>
<1>1. "mmfree" \in Dos /\ "unref" \in Dos
  BY DEF Dos
<1>2. m \in Ops /\ o \in Ops
  BY <1>1, OpsAre, OnsAre
<1>3. /\ u \in Seq(Ops)
      /\ \A q \in Seq(Ops) : u \o q = Entries("clear", vs, b, at, 0, Do(Op("flush", vs, b, at), q))
  BY UnmapIs
<1>4. UnmapNode(vs, b, at) = (u \o x) \o <<m>>
  BY DEF UnmapNode
<1> HIDE DEF u, m, o
<1>5. x \in Seq(Ops) /\ <<m>> \in Seq(Ops)
  BY <1>2
<1>6. u \o x \in Seq(Ops)
  BY <1>3, <1>5, Joined
<1>7. (u \o x) \o <<m>> \in Seq(Ops)
  BY <1>5, <1>6, Joined
<1>8. ASSUME NEW q \in Seq(Ops)
      PROVE  /\ ((u \o x) \o <<m>>) \o q = u \o (IF vs = Bar THEN Do(m, q) ELSE Do(o, Do(m, q)))
             /\ ((u \o x) \o <<m>>) \o q \in Seq(Ops)
             /\ (IF vs = Bar THEN Do(m, q) ELSE Do(o, Do(m, q))) \in Seq(Ops)
  <2>1. /\ Do(m, q) \in Seq(Ops) /\ Do(o, Do(m, q)) \in Seq(Ops)
        /\ x \o Do(m, q) = IF vs = Bar THEN Do(m, q) ELSE Do(o, Do(m, q))
    BY <1>2, DoIs, Dones
  <2> HIDE DEF x
  <2>2. ((u \o x) \o <<m>>) \o q = (u \o x) \o (<<m>> \o q)
    BY <1>5, <1>6, Assoc, Zenon
  <2>3. <<m>> \o q = Do(m, q)
    BY DEF Do
  <2>4. (u \o x) \o Do(m, q) = u \o (x \o Do(m, q))
    BY <1>3, <1>5, <2>1, Assoc, Zenon
  <2>5. ((u \o x) \o <<m>>) \o q \in Seq(Ops)
    BY <1>7, Joined, Zenon
  <2> QED
    BY <2>1, <2>2, <2>3, <2>4, <2>5
<1> HIDE DEF x
<1>9. ASSUME NEW q \in Seq(Ops)
      PROVE  /\ UnmapNode(vs, b, at) \o q
                   = Entries("clear", vs, b, at, 0,
                       Do(Op("flush", vs, b, at), IF vs = Bar THEN Do(m, q) ELSE Do(o, Do(m, q))))
             /\ UnmapNode(vs, b, at) \o q \in Seq(Ops)
  BY <1>3, <1>4, <1>8
<1> QED
  BY <1>4, <1>7, <1>9 DEF m, o

\* The end of an object, before what its thread was at.
LEMMA MemFreeIs ==
  ASSUME NEW b \in Bos, NEW q \in Seq(Ops), map1[b] \in Int \cup {Null}
  PROVE  MemFree(b) \o q =
           IF map1[b] = Null THEN Do(On("release", b), q)
           ELSE Do(Lock(Bar), Entries("clear", Bar, b, map1[b], 0,
                  Do(Op("flush", Bar, b, map1[b]), Do(Op("mmfree", Bar, b, map1[b]),
                    Do(Unlock(Bar), Do(On("release", b), q))))))
<1> DEFINE o == On("release", b)
           l == Lock(Bar)
           k == Unlock(Bar)
           u == UnmapNode(Bar, b, map1[b])
<1>1. o \in Ops /\ l \in Ops /\ k \in Ops /\ Bar \in Spaces
  BY LocksAre, OnsAre, Spaced DEF Dos
<1>2. CASE map1[b] = Null
  <2>1. MemFree(b) = <<>> \o <<o>>
    BY <1>2 DEF MemFree
  <2> HIDE DEF o
  <2>2. <<>> \o <<o>> = <<o>>
    BY <1>1
  <2>3. MemFree(b) \o q = Do(o, q)
    BY <2>1, <2>2 DEF Do
  <2> QED
    BY <1>2, <2>3 DEF o
<1>3. CASE map1[b] # Null
  <2> DEFINE at == map1[b]
  <2>1. at \in Int
    BY <1>3
  <2>2. /\ u \in Seq(Ops)
        /\ \A r \in Seq(Ops) :
             u \o r = Entries("clear", Bar, b, at, 0,
                        Do(Op("flush", Bar, b, at), Do(Op("mmfree", Bar, b, at), r)))
    BY <1>1, <2>1, UnmapNodeIs
  <2>3. MemFree(b) = ((<<l>> \o u) \o <<k>>) \o <<o>>
    BY <1>3 DEF MemFree
  <2> HIDE DEF o, l, k, u
  <2>4. <<l>> \in Seq(Ops) /\ <<k>> \in Seq(Ops) /\ <<o>> \in Seq(Ops)
    BY <1>1
  <2>5. <<l>> \o u \in Seq(Ops)
    BY <2>2, <2>4, Joined
  <2>6. (<<l>> \o u) \o <<k>> \in Seq(Ops)
    BY <2>4, <2>5, Joined
  <2>7. <<o>> \o q \in Seq(Ops)
    BY <2>4, Joined
  <2>8. <<k>> \o (<<o>> \o q) \in Seq(Ops)
    BY <2>4, <2>7, Joined
  <2>9. (((<<l>> \o u) \o <<k>>) \o <<o>>) \o q = ((<<l>> \o u) \o <<k>>) \o (<<o>> \o q)
    BY <2>4, <2>6, Assoc, ZenonT(30)
  <2>10. ((<<l>> \o u) \o <<k>>) \o (<<o>> \o q) = (<<l>> \o u) \o (<<k>> \o (<<o>> \o q))
    BY <2>4, <2>5, <2>7, Assoc, ZenonT(30)
  <2>11. (<<l>> \o u) \o (<<k>> \o (<<o>> \o q)) = <<l>> \o (u \o (<<k>> \o (<<o>> \o q)))
    BY <2>2, <2>4, <2>8, Assoc, ZenonT(30)
  <2>12. MemFree(b) \o q = Do(l, u \o Do(k, Do(o, q)))
    BY <2>3, <2>9, <2>10, <2>11, SMTT(30) DEF Do
  <2>13. Do(k, Do(o, q)) \in Seq(Ops)
    BY <2>8 DEF Do
  <2>14. u \o Do(k, Do(o, q)) = Entries("clear", Bar, b, at, 0,
           Do(Op("flush", Bar, b, at), Do(Op("mmfree", Bar, b, at), Do(k, Do(o, q)))))
    BY <2>2, <2>13
  <2> QED
    BY <1>3, <2>12, <2>14 DEF o, l, k
<1> QED
  BY <1>2, <1>3

-----------------------------------------------------------------------------
(* From stage to stage                                                     *)

Stage(pc, k, vs, b, at, bat, i) ==
  [pc |-> pc, k |-> k, vs |-> vs, bo |-> b, at |-> at, bat |-> bat, i |-> i]

\* A thread goes to a stage.
Goes(t, s) == WellFormed(s) /\ todo' = [todo EXCEPT ![t] = Program(s)]

\* The fields of a stage that is written down.
LEMMA StageIs ==
  ASSUME NEW pc, NEW k, NEW vs, NEW b, NEW at, NEW bat, NEW i
  PROVE  LET s == Stage(pc, k, vs, b, at, bat, i)
         IN  /\ s.pc = pc /\ s.k = k /\ s.vs = vs /\ s.bo = b /\ s.at = at /\ s.bat = bat /\ s.i = i
             /\ (/\ pc \in Pcs /\ k \in Kinds /\ vs \in Spaces \cup {Null} /\ b \in Bos \cup {Null}
                 /\ at \in Int \cup {Null} /\ bat \in Int \cup {Null} /\ i \in Nat) => s \in Stages
BY DEF Stage, Stages

\* A thread that is about to do something is at a stage that does it.
LEMMA HereIs ==
  ASSUME NEW sh, Programs(sh), NEW t \in Threads
  PROVE  /\ WellFormed(sh[t]) /\ todo[t] = Program(sh[t])
         /\ Idle(t) <=> sh[t].pc = "idle"
         /\ \A do : At(t, do) =>
              /\ sh[t].pc # "idle" /\ Now(t) = NowOf(sh[t]) /\ Now(t).do = do
              /\ NowOf(sh[t]) \in Ops
              /\ Tail(todo[t]) = Program(After(sh[t]))
              /\ Program(After(sh[t])) \in Seq(Ops)
              /\ WellFormed(After(sh[t]))
<1> DEFINE s == sh[t]
<1>1. WellFormed(s) /\ todo[t] = Program(s)
  BY DEF Programs
<1> HIDE DEF s
<1>2. s.pc = "idle" => todo[t] = <<>>
  BY <1>1, ProgramIs
<1>3. ASSUME s.pc # "idle"
      PROVE  /\ todo[t] # <<>> /\ Head(todo[t]) = NowOf(s) /\ Tail(todo[t]) = Program(After(s))
             /\ NowOf(s) \in Ops /\ Program(After(s)) \in Seq(Ops)
  <2>1. /\ Program(s) = Do(NowOf(s), Program(After(s)))
        /\ NowOf(s) \in Ops /\ Program(After(s)) \in Seq(Ops)
    BY <1>1, <1>3, ProgramStep
  <2> DEFINE op == NowOf(s)
             q == Program(After(s))
  <2>2. op \in Ops /\ q \in Seq(Ops) /\ todo[t] = Do(op, q)
    BY <1>1, <2>1
  <2> HIDE DEF op, q
  <2>3. todo[t] # <<>> /\ Head(todo[t]) = op /\ Tail(todo[t]) = q
    BY <2>2, DoIs
  <2> QED
    BY <2>2, <2>3 DEF op, q
<1>4. WellFormed(After(s))
  BY <1>1, AfterFormed
<1> QED
  BY <1>1, <1>2, <1>3, <1>4 DEF Idle, At, Now, s

\* The stages at which a thread can be, by the operation that it is about to run.
LEMMA AtIs ==
  ASSUME NEW sh, Programs(sh), NEW t \in Threads, NEW do, At(t, do)
  PROVE  /\ do = "lock" => sh[t].pc \in {"lockplace", "lockfind", "flock"}
         /\ do = "unlock" => sh[t].pc \in {"unlock", "funlock"}
         /\ do = "place" => sh[t].pc = "place"
         /\ do = "write" => sh[t].pc = "write"
         /\ do = "assign" => sh[t].pc = "assign"
         /\ do = "check" => sh[t].pc = "check"
         /\ do = "mapped" => sh[t].pc = "mapped"
         /\ do = "find" => sh[t].pc = "find"
         /\ do = "clear" => sh[t].pc \in {"undo", "clear", "fclear"}
         /\ do = "flush" => sh[t].pc \in {"undoflush", "flush", "fflush"}
         /\ do = "mmfree" => sh[t].pc \in {"mmfree", "fmmfree"}
         /\ do = "unref" => sh[t].pc \in {"drop", "put"}
         /\ do = "release" => sh[t].pc = "release"
         /\ do = "takedown" => sh[t].pc = "down"
<1> DEFINE s == sh[t]
<1>1. /\ s.pc # "idle" /\ s.pc \in Pcs /\ NowOf(s).do = do
  BY HereIs DEF WellFormed, Stages
<1>2. /\ \A d, b : On(d, b).do = d
      /\ \A d, vs, b, at : Op(d, vs, b, at).do = d
      /\ \A vs : Lock(vs).do = "lock" /\ Unlock(vs).do = "unlock"
  BY DEF On, Op, Lock, Unlock
<1> HIDE DEF s
<1>3. /\ s.pc \in {"lockplace", "lockfind", "flock"} => do = "lock"
      /\ s.pc \in {"unlock", "funlock"} => do = "unlock"
      /\ s.pc \in {"undo", "clear", "fclear"} => do = "clear"
      /\ s.pc \in {"undoflush", "flush", "fflush"} => do = "flush"
      /\ s.pc \in {"mmfree", "fmmfree"} => do = "mmfree"
      /\ s.pc \in {"drop", "put"} => do = "unref"
      /\ s.pc = "down" => do = "takedown"
      /\ s.pc \in {"place", "write", "assign", "check", "mapped", "find", "release"} => do = s.pc
  BY <1>1, <1>2, NowOfIs
<1> QED
  BY <1>1, <1>3 DEF Pcs, WithNode, Freeing, s

\* A thread that does its operation and nothing else goes to the next stage.
LEMMA PlainMove ==
  ASSUME NEW sh, Programs(sh), NEW t \in Threads, NEW do, At(t, do), Then(t, <<>>)
  PROVE  Goes(t, After(sh[t]))
<1>1. /\ WellFormed(After(sh[t])) /\ Tail(todo[t]) = Program(After(sh[t]))
      /\ Program(After(sh[t])) \in Seq(Ops)
  BY HereIs
<1>2. todo' = [todo EXCEPT ![t] = <<>> \o Tail(todo[t])]
  BY DEF Then
<1>3. <<>> \o Tail(todo[t]) = Program(After(sh[t]))
  BY <1>1, Dones
<1> QED
  BY <1>1, <1>2, <1>3 DEF Goes

\* The stages of a thread that places, and what is around it.
LEMMA PlaceMove ==
  ASSUME NEW sh, Programs(sh), NEW t \in Threads, At(t, "place"), NEW at \in Int,
         PagesOf(Now(t).bo, at) \subseteq Page(Now(t).vs),
         Then(t, DoMap(Now(t).vs, Now(t).bo, at)
                   \o IF Now(t).vs = Bar THEN <<Op("assign", Now(t).vs, Now(t).bo, at)>> ELSE <<>>)
  PROVE  /\ Goes(t, Stage("write", sh[t].k, sh[t].vs, sh[t].bo, at, Null, 0))
         /\ Now(t).vs = sh[t].vs /\ Now(t).bo = sh[t].bo /\ sh[t].pc = "place"
         /\ sh[t].bo \in Bos /\ sh[t].vs \in Spaces /\ sh[t].k \in {"map", "mmap"}
<1> DEFINE s == sh[t]
           r == Stage("write", s.k, s.vs, s.bo, at, Null, 0)
<1>1. /\ s.pc = "place" /\ WellFormed(s) /\ Now(t) = NowOf(s)
      /\ Tail(todo[t]) = Program(After(s)) /\ Program(After(s)) \in Seq(Ops)
  BY AtIs, HereIs
<1>2. s \in Stages /\ s.k \in {"map", "mmap"} /\ s.bo \in Bos
  BY <1>1 DEF WellFormed, Suits, WithNode, Freeing, Stages, Kinds
<1>3. s.vs \in Spaces /\ (s.vs = Bar <=> s.k = "mmap")
  BY <1>1, <1>2, Spaced DEF WellFormed
<1>4. Now(t).vs = s.vs /\ Now(t).bo = s.bo
  <2>1. Now(t) = Op("place", s.vs, s.bo, Null)
    BY <1>1, NowOfIs
  <2> QED
    BY <2>1 DEF Op
<1>5. Program(After(s)) = End(s) /\ End(s) \in Seq(Ops)
  <2>1. /\ NextPc(s) = "unlock" /\ After(s).pc = "unlock" /\ After(s).k = s.k /\ After(s).vs = s.vs
        /\ After(s).bo = s.bo /\ After(s).at = s.at
    BY <1>1, <1>2, NextPcIs, AfterIs
  <2>2. Program(After(s)) = End(After(s))
    BY <2>1, ProgramIs
  <2> QED
    BY <1>2, <2>1, <2>2, EndsSame, EndsTyped
<1>6. /\ r.pc = "write" /\ r.k = s.k /\ r.vs = s.vs /\ r.bo = s.bo /\ r.at = at /\ r.bat = Null
      /\ r.i = 0 /\ r \in Stages
  <2>1. "write" \in Pcs /\ s.k \in Kinds /\ s.bo \in Bos /\ s.vs \in Spaces
    BY <1>2, <1>3 DEF Pcs, Kinds, WithNode
  <2> QED
    BY <2>1, StageIs
<1> HIDE DEF r, s
<1>7. WellFormed(r)
  <2>1. Suits(r.pc, r.k)
    BY <1>2, <1>6 DEF Suits, WithNode
  <2>2. Size[s.bo] \in Nat \ {0}
    BY <1>2, Some
  <2> QED
    BY <1>1, <1>2, <1>4, <1>6, <2>1, <2>2 DEF WellFormed, Freeing
<1>8. Program(r) = Entries("write", s.vs, s.bo, at, 0, WriteEnd(r))
  BY <1>6, ProgramIs
<1>9. WriteEnd(r) = IF s.vs = Bar THEN Do(Op("assign", s.vs, s.bo, at), End(s)) ELSE End(s)
  <2>1. End(r) = End(s)
    BY <1>6 DEF End
  <2> QED
    BY <1>2, <1>3, <1>6, <2>1 DEF WriteEnd, AssignEnd
<1>10. todo' = [todo EXCEPT ![t] = (DoMap(s.vs, s.bo, at)
                 \o IF s.vs = Bar THEN <<Op("assign", s.vs, s.bo, at)>> ELSE <<>>) \o End(s)]
  BY <1>1, <1>4, <1>5 DEF Then
<1>11. (DoMap(s.vs, s.bo, at) \o IF s.vs = Bar THEN <<Op("assign", s.vs, s.bo, at)>> ELSE <<>>)
           \o End(s) = Program(r)
  <2>1. CASE s.vs = Bar
    BY <1>2, <1>3, <1>5, <1>8, <1>9, <2>1, MapIs
  <2>2. CASE s.vs # Bar
    BY <1>2, <1>3, <1>5, <1>8, <1>9, <2>2, MapIs, ZenonT(30)
  <2> QED
    BY <2>1, <2>2
<1> QED
  BY <1>1, <1>2, <1>3, <1>4, <1>7, <1>10, <1>11 DEF Goes, r, s

\* No room for a map: a client's returns, one into the BAR gives its reference back.
LEMMA PlaceFailsMove ==
  ASSUME NEW sh, Programs(sh), NEW t \in Threads, At(t, "place"),
         Now(t).vs = Bar, Start(t, <<Unlock(Bar), On("unref", Now(t).bo)>>)
  PROVE  /\ Goes(t, Stage("unlock", "bad", Bar, sh[t].bo, Null, Null, 0))
         /\ sh[t].k = "mmap" /\ sh[t].bo \in Bos /\ sh[t].pc = "place"
<1> DEFINE s == sh[t]
           r == Stage("unlock", "bad", Bar, s.bo, Null, Null, 0)
<1>1. s.pc = "place" /\ WellFormed(s) /\ Now(t) = NowOf(s)
  BY AtIs, HereIs
<1>2. s \in Stages /\ s.k \in {"map", "mmap"} /\ s.bo \in Bos
  BY <1>1 DEF WellFormed, Suits, WithNode, Freeing, Stages, Kinds
<1>3. Now(t).vs = s.vs /\ Now(t).bo = s.bo
  <2>1. Now(t) = Op("place", s.vs, s.bo, Null)
    BY <1>1, NowOfIs
  <2> QED
    BY <2>1 DEF Op
<1>4. s.k = "mmap"
  BY <1>1, <1>2, <1>3, Spaced DEF WellFormed
<1>5. /\ r.pc = "unlock" /\ r.k = "bad" /\ r.vs = Bar /\ r.bo = s.bo /\ r \in Stages
  BY <1>2, Spaced, StageIs DEF Pcs, Kinds
<1> HIDE DEF r, s
<1>6. WellFormed(r)
  BY <1>2, <1>5 DEF WellFormed, Suits, Has, WithNode, Freeing
<1>7. Program(r) = Do(Unlock(Bar), Do(On("unref", s.bo), <<>>))
  BY <1>5, ProgramIs, EndIs
<1>8. Unlock(Bar) \in Ops /\ On("unref", s.bo) \in Ops
  BY <1>2, Spaced, LocksAre, OnsAre DEF Dos
<1>9. <<Unlock(Bar), On("unref", s.bo)>> = Program(r)
  BY <1>7, <1>8, TuplesAre, Zenon
<1>10. todo' = [todo EXCEPT ![t] = Program(r)]
  BY <1>3, <1>9 DEF Start
<1> QED
  BY <1>1, <1>2, <1>4, <1>6, <1>10 DEF Goes, r, s

\* A page table is missing: what was written is cleared, and the node unmapped.
LEMMA WriteFailsMove ==
  ASSUME NEW sh, Programs(sh), NEW t \in Threads, At(t, "write"), NEW at \in Int,
         PagesOf(sh[t].bo, at) \subseteq Page(sh[t].vs),
         Start(t, DoUnmap(Now(t).vs, Now(t).bo, at) \o UnmapNode(Now(t).vs, Now(t).bo, at)
                     \o IF Now(t).vs = Bar
                        THEN <<Op("assign", Now(t).vs, Now(t).bo, at), Unlock(Now(t).vs),
                               On("unref", Now(t).bo)>>
                        ELSE <<Unlock(Now(t).vs)>>)
  PROVE  /\ Goes(t, Stage("undo", IF sh[t].k = "mmap" THEN "bad" ELSE "map",
                          sh[t].vs, sh[t].bo, at, Null, 0))
         /\ sh[t].pc = "write" /\ sh[t].bo \in Bos /\ sh[t].vs \in Spaces
         /\ sh[t].k \in {"map", "mmap"}
<1> DEFINE s == sh[t]
           kk == IF s.k = "mmap" THEN "bad" ELSE "map"
           r == Stage("undo", kk, s.vs, s.bo, at, Null, 0)
<1>1. s.pc = "write" /\ WellFormed(s) /\ Now(t) = NowOf(s)
  BY AtIs, HereIs
<1>2. s \in Stages /\ s.k \in {"map", "mmap"} /\ s.bo \in Bos
  BY <1>1 DEF WellFormed, Suits, WithNode, Freeing, Stages, Kinds
<1>3. s.vs \in Spaces /\ (s.vs = Bar <=> s.k = "mmap") /\ (s.k = "map" => s.vs \in Vs)
  BY <1>1, <1>2, Spaced DEF WellFormed
<1>4. Now(t).vs = s.vs /\ Now(t).bo = s.bo
  <2>1. Now(t) = Op("write", s.vs, s.bo, s.at + s.i)
    BY <1>1, NowOfIs
  <2> QED
    BY <2>1 DEF Op
<1>5. kk \in {"map", "bad"} /\ (s.vs = Bar <=> kk = "bad") /\ (kk = "map" => s.vs \in Vs)
  BY <1>3, <1>2
<1> HIDE DEF kk
<1>6. /\ r.pc = "undo" /\ r.k = kk /\ r.vs = s.vs /\ r.bo = s.bo /\ r.at = at /\ r.i = 0
      /\ r \in Stages
  <2>1. "undo" \in Pcs /\ kk \in Kinds
    BY <1>5 DEF Pcs, Kinds, WithNode
  <2> QED
    BY <1>2, <1>3, <2>1, StageIs
<1> HIDE DEF r
<1>7. WellFormed(r)
  <2>1. Suits(r.pc, r.k)
    BY <1>5, <1>6 DEF Suits, WithNode
  <2>2. Size[s.bo] \in Nat \ {0}
    BY <1>2, Some
  <2> QED
    BY <1>2, <1>3, <1>5, <1>6, <2>1, <2>2 DEF WellFormed, Freeing
<1> DEFINE as == Op("assign", s.vs, s.bo, at)
           un == Unlock(s.vs)
           go == On("unref", s.bo)
           mm == Op("mmfree", s.vs, s.bo, at)
           fl == Op("flush", s.vs, s.bo, at)
           E(q) == Entries("clear", s.vs, s.bo, at, 0, q)
           z == IF s.vs = Bar THEN <<as, un, go>> ELSE <<un>>
           x == DoUnmap(s.vs, s.bo, at)
           y == UnmapNode(s.vs, s.bo, at)
<1>8. as \in Ops /\ un \in Ops /\ go \in Ops /\ mm \in Ops
  BY <1>2, <1>3, LocksAre, OnsAre, OpsAre DEF Dos
<1>9. /\ x \in Seq(Ops) /\ y \in Seq(Ops)
      /\ \A q \in Seq(Ops) : x \o q = E(Do(fl, q)) /\ x \o q \in Seq(Ops)
      /\ \A q \in Seq(Ops) :
           /\ y \o q = E(Do(fl, IF s.vs = Bar THEN Do(mm, q) ELSE Do(go, Do(mm, q))))
           /\ y \o q \in Seq(Ops)
  <2>1. s.vs \in Spaces /\ s.bo \in Bos
    BY <1>2, <1>3
  <2> HIDE DEF s
  <2> QED
    BY <2>1, UnmapIs, UnmapNodeIs
<1>10. todo' = [todo EXCEPT ![t] = (x \o y) \o z]
  BY <1>4 DEF Start
<1> HIDE DEF x, y, as, un, go, mm
<1>11. z \in Seq(Ops) /\ z = IF s.vs = Bar THEN Do(as, Do(un, Do(go, <<>>))) ELSE Do(un, <<>>)
  <2>1. /\ <<as, un, go>> = Do(as, Do(un, Do(go, <<>>))) /\ <<un>> = Do(un, <<>>)
        /\ Do(as, Do(un, Do(go, <<>>))) \in Seq(Ops) /\ Do(un, <<>>) \in Seq(Ops)
    BY <1>8, TuplesAre, Zenon
  <2>2. CASE s.vs = Bar
    BY <2>1, <2>2
  <2>3. CASE s.vs # Bar
    BY <2>1, <2>3
  <2> QED
    BY <2>2, <2>3
<1> HIDE DEF z
<1>12. (x \o y) \o z = x \o (y \o z)
  <2>1. x \in Seq(Ops) /\ y \in Seq(Ops) /\ z \in Seq(Ops)
    BY <1>9, <1>11
  <2> QED
    BY <2>1, Assoc, Zenon
<1>13. x \o (y \o z) = E(Do(fl, E(Do(fl, IF s.vs = Bar THEN Do(mm, z) ELSE Do(go, Do(mm, z))))))
  <2>1. x \o (y \o z) = E(Do(fl, y \o z))
    BY <1>9, <1>11
  <2>2. y \o z = E(Do(fl, IF s.vs = Bar THEN Do(mm, z) ELSE Do(go, Do(mm, z))))
    BY <1>9, <1>11
  <2> HIDE DEF E
  <2> QED
    BY <2>1, <2>2
<1>14. End(r) = IF s.vs = Bar THEN Do(un, Do(go, <<>>)) ELSE Do(un, <<>>)
  BY <1>5, <1>6, EndIs DEF un, go
<1>15. MmFreeEnd(r) = Do(mm, z)
  BY <1>5, <1>6, <1>11, <1>14 DEF MmFreeEnd, AssignEnd, mm, as
<1>16. PutEnd(r) = IF s.vs = Bar THEN Do(mm, z) ELSE Do(go, Do(mm, z))
  BY <1>5, <1>6, <1>15 DEF PutEnd, go
<1>17. FlushEnd(r) = Do(fl, PutEnd(r))
  BY <1>6 DEF FlushEnd
<1>18. Program(r) = E(Do(fl, E(FlushEnd(r))))
  BY <1>6, ProgramIs DEF UndoFlushEnd, ClearEnd
<1>19. Program(r) = (x \o y) \o z
  BY <1>12, <1>13, <1>16, <1>17, <1>18
<1> QED
  BY <1>1, <1>2, <1>3, <1>7, <1>10, <1>19 DEF Goes, r, kk

\* An object that is not in the BAR is put there.
LEMMA CheckMove ==
  ASSUME NEW sh, Programs(sh), NEW t \in Threads, At(t, "check"),
         Then(t, VspaceMap(Bar, Now(t).bo))
  PROVE  /\ Goes(t, Stage("lockplace", "mmap", Bar, sh[t].bo, Null, Null, 0))
         /\ sh[t].pc = "check" /\ sh[t].k = "mmap" /\ sh[t].bo \in Bos
<1> DEFINE s == sh[t]
           r == Stage("lockplace", "mmap", Bar, s.bo, Null, Null, 0)
<1>1. /\ s.pc = "check" /\ WellFormed(s) /\ Now(t) = NowOf(s)
      /\ Tail(todo[t]) = Program(After(s))
  BY AtIs, HereIs
<1>2. s \in Stages /\ s.k = "mmap" /\ s.bo \in Bos
  BY <1>1 DEF WellFormed, Suits, WithNode, Freeing, Stages, Kinds
<1>3. Now(t).bo = s.bo
  <2>1. Now(t) = On("check", s.bo)
    BY <1>1, NowOfIs
  <2> QED
    BY <2>1 DEF On, Op
<1>4. Program(After(s)) = Do(On("mapped", s.bo), <<>>)
  BY <1>1, <1>2, NextPcIs, AfterIs, ProgramIs
<1>5. r.pc = "lockplace" /\ r.k = "mmap" /\ r.vs = Bar /\ r.bo = s.bo /\ r \in Stages
  BY <1>2, Spaced, StageIs DEF Pcs, Kinds
<1> HIDE DEF r
<1>6. WellFormed(r)
  BY <1>2, <1>5 DEF WellFormed, Suits, Has, WithNode, Freeing
<1>7. Program(r) = Do(Lock(Bar), Do(Op("place", Bar, s.bo, Null),
                     Do(Unlock(Bar), Do(On("mapped", s.bo), <<>>))))
  BY <1>5, ProgramIs, EndIs DEF PlaceEnd
<1>8. /\ Lock(Bar) \in Ops /\ Unlock(Bar) \in Ops /\ Op("place", Bar, s.bo, Null) \in Ops
      /\ Do(On("mapped", s.bo), <<>>) \in Seq(Ops)
  <2>1. On("mapped", s.bo) \in Ops /\ <<>> \in Seq(Ops)
    BY <1>2, OnsAre DEF Dos
  <2> QED
    BY <1>2, <2>1, Spaced, LocksAre, OpsAre, DoIs DEF Dos
<1>9. todo' = [todo EXCEPT ![t] = <<Lock(Bar), Op("place", Bar, s.bo, Null), Unlock(Bar)>>
                                    \o Do(On("mapped", s.bo), <<>>)]
  BY <1>1, <1>3, <1>4 DEF Then, VspaceMap
<1>10. <<Lock(Bar), Op("place", Bar, s.bo, Null), Unlock(Bar)>> \o Do(On("mapped", s.bo), <<>>)
          = Program(r)
  BY <1>7, <1>8, Dones
<1> QED
  BY <1>1, <1>2, <1>6, <1>9, <1>10 DEF Goes, r

\* The node that is found is unmapped.
LEMMA FindMove ==
  ASSUME NEW sh, Programs(sh), NEW t \in Threads, At(t, "find"),
         NEW b \in Bos, NEW at \in Int, PagesOf(b, at) \subseteq Page(Now(t).vs),
         Then(t, UnmapNode(Now(t).vs, b, at))
  PROVE  /\ Goes(t, Stage("clear", "map", sh[t].vs, b, at, Null, 0))
         /\ sh[t].pc = "find" /\ sh[t].k = "map" /\ sh[t].vs \in Vs /\ Now(t).vs = sh[t].vs
<1> DEFINE s == sh[t]
           r == Stage("clear", "map", s.vs, b, at, Null, 0)
<1>1. /\ s.pc = "find" /\ WellFormed(s) /\ Now(t) = NowOf(s)
      /\ Tail(todo[t]) = Program(After(s))
  BY AtIs, HereIs
<1>2. s \in Stages /\ s.k = "map" /\ s.vs \in Vs /\ s.vs \in Spaces /\ s.vs # Bar
  BY <1>1, Spaced DEF WellFormed, Suits, WithNode, Freeing, Stages, Kinds
<1>3. Now(t).vs = s.vs
  <2>1. Now(t) = Op("find", s.vs, Null, s.at)
    BY <1>1, NowOfIs
  <2> QED
    BY <2>1 DEF Op
<1>4. Program(After(s)) = Do(Unlock(s.vs), <<>>)
  BY <1>1, <1>2, NextPcIs, AfterIs, ProgramIs, EndIs
<1>5. /\ r.pc = "clear" /\ r.k = "map" /\ r.vs = s.vs /\ r.bo = b /\ r.at = at /\ r.i = 0
      /\ r \in Stages
  BY <1>2, StageIs DEF Pcs, Kinds, WithNode
<1> HIDE DEF r
<1>6. WellFormed(r)
  <2>1. Size[b] \in Nat \ {0}
    BY Some
  <2> QED
    BY <1>2, <1>3, <1>5, <2>1 DEF WellFormed, Suits, WithNode, Freeing
<1> DEFINE q == Do(Unlock(s.vs), <<>>)
<1>7. q \in Seq(Ops)
  BY <1>2, LocksAre, TuplesAre
<1>8. UnmapNode(s.vs, b, at) \o q
        = Entries("clear", s.vs, b, at, 0,
            Do(Op("flush", s.vs, b, at), Do(On("unref", b), Do(Op("mmfree", s.vs, b, at), q))))
  <2>1. s.vs \in Spaces /\ s.vs # Bar
    BY <1>2
  <2> HIDE DEF s, q
  <2> QED
    BY <1>7, <2>1, UnmapNodeIs
<1>9. Program(r) = Entries("clear", s.vs, b, at, 0, FlushEnd(r))
  BY <1>5, ProgramIs DEF ClearEnd
<1>10. FlushEnd(r) = Do(Op("flush", s.vs, b, at), Do(On("unref", b), Do(Op("mmfree", s.vs, b, at), q)))
  <2>1. End(r) = q
    BY <1>5, EndIs
  <2>2. PutEnd(r) = Do(On("unref", b), Do(Op("mmfree", s.vs, b, at), q))
    BY <1>5, <2>1 DEF PutEnd, MmFreeEnd
  <2> QED
    BY <1>5, <2>2 DEF FlushEnd
<1>11. todo' = [todo EXCEPT ![t] = UnmapNode(s.vs, b, at) \o q]
  BY <1>1, <1>3, <1>4 DEF Then
<1> QED
  BY <1>1, <1>2, <1>3, <1>6, <1>8, <1>9, <1>10, <1>11 DEF Goes, r

\* The last reference is given back: the object is taken out of the BAR and freed.
LEMMA UnrefMove ==
  ASSUME NEW sh, Programs(sh), NEW t \in Threads, At(t, "unref"),
         map1 \in [Bos -> Page(Bar) \cup {Null}], Then(t, MemFree(Now(t).bo))
  PROVE  LET s == sh[t]
         IN  /\ Goes(t, Stage(IF map1[s.bo] = Null THEN "release" ELSE "flock",
                              s.k, s.vs, s.bo, s.at, map1[s.bo], 0))
             /\ s.pc \in {"drop", "put"} /\ s.bo \in Bos /\ Now(t).bo = s.bo
<1> DEFINE s == sh[t]
           m == map1[s.bo]
           r == Stage(IF m = Null THEN "release" ELSE "flock", s.k, s.vs, s.bo, s.at, m, 0)
<1>1. /\ s.pc \in {"drop", "put"} /\ WellFormed(s) /\ Now(t) = NowOf(s)
      /\ Tail(todo[t]) = Program(After(s)) /\ Program(After(s)) \in Seq(Ops)
  BY AtIs, HereIs
<1>2. /\ s \in Stages /\ s.bo \in Bos /\ (s.pc = "drop" <=> s.k = "none")
      /\ s.k \in {"none", "map", "down"} /\ s.vs \in Spaces \cup {Null} /\ s.at \in Int \cup {Null}
      /\ (s.k # "none" => s.vs \in Vs /\ s.at \in Int /\ PagesOf(s.bo, s.at) \subseteq Page(s.vs))
  BY <1>1 DEF WellFormed, Suits, WithNode, Freeing, Stages, Kinds, Has
<1>3. Now(t).bo = s.bo
  <2>1. Now(t) = On("unref", s.bo)
    BY <1>1, NowOfIs
  <2> QED
    BY <2>1 DEF On, Op
<1>4. m \in Int \cup {Null}
  <2>1. Page(Bar) \subseteq Int
    BY Spaced, MapsAssumption DEF Page
  <2> QED
    BY <1>2, <2>1
<1>5. Program(After(s)) = IF s.k = "none" THEN <<>> ELSE MmFreeEnd(s)
  <2>1. CASE s.pc = "drop"
    BY <1>1, <1>2, <2>1, NextPcIs, AfterIs, ProgramIs
  <2>2. CASE s.pc = "put"
    <3>1. /\ After(s).pc = "mmfree" /\ After(s).k = s.k /\ After(s).vs = s.vs
          /\ After(s).bo = s.bo /\ After(s).at = s.at
      BY <1>1, <1>2, <2>2, NextPcIs, AfterIs
    <3>2. Program(After(s)) = MmFreeEnd(After(s))
      BY <3>1, ProgramIs
    <3> QED
      BY <1>2, <2>2, <3>1, <3>2, EndsSame
  <2> QED
    BY <1>1, <2>1, <2>2
<1>6. /\ r.pc = (IF m = Null THEN "release" ELSE "flock") /\ r.k = s.k /\ r.vs = s.vs /\ r.bo = s.bo
      /\ r.at = s.at /\ r.bat = m /\ r.i = 0 /\ r \in Stages
  <2>1. (IF m = Null THEN "release" ELSE "flock") \in Pcs /\ s.k \in Kinds
    BY <1>2 DEF Pcs, Kinds, Freeing
  <2>2. m \in Int \cup {Null}
    BY <1>4
  <2> HIDE DEF m
  <2> QED
    BY <1>2, <2>1, <2>2, StageIs
<1> HIDE DEF r
<1>7. WellFormed(r)
  BY <1>2, <1>4, <1>6 DEF WellFormed, Suits, Has, WithNode, Freeing
<1> DEFINE q == Program(After(s))
<1>8. MemFree(s.bo) \o q =
           IF m = Null THEN Do(On("release", s.bo), q)
           ELSE Do(Lock(Bar), Entries("clear", Bar, s.bo, m, 0,
                  Do(Op("flush", Bar, s.bo, m), Do(Op("mmfree", Bar, s.bo, m),
                    Do(Unlock(Bar), Do(On("release", s.bo), q))))))
  <2>1. q \in Seq(Ops) /\ s.bo \in Bos /\ m \in Int \cup {Null}
    BY <1>1, <1>2, <1>4
  <2> HIDE DEF s, q
  <2> QED
    BY <2>1, MemFreeIs
<1>9. ReleaseEnd(r) = Do(On("release", s.bo), q)
  <2>1. MmFreeEnd(r) = MmFreeEnd(s)
    BY <1>6, EndsSame
  <2> QED
    BY <1>5, <1>6, <2>1 DEF ReleaseEnd
<1>10. Program(r) = MemFree(s.bo) \o q
  <2>1. CASE m = Null
    <3>1. Program(r) = ReleaseEnd(r)
      BY <1>6, <2>1, ProgramIs
    <3> QED
      BY <1>8, <1>9, <2>1, <3>1
  <2>2. CASE m # Null
    <3>1. Program(r) = Do(Lock(Bar), FClearEnd(r, 0))
      BY <1>6, <2>2, ProgramIs
    <3>2. FFlushEnd(r) = Do(Op("flush", Bar, s.bo, m), Do(Op("mmfree", Bar, s.bo, m),
                    Do(Unlock(Bar), Do(On("release", s.bo), q))))
      BY <1>6, <1>9 DEF FFlushEnd, FMmFreeEnd, FUnlockEnd
    <3> QED
      BY <1>6, <1>8, <2>2, <3>1, <3>2 DEF FClearEnd
  <2> QED
    BY <2>1, <2>2
<1>11. todo' = [todo EXCEPT ![t] = MemFree(s.bo) \o q]
  BY <1>1, <1>3 DEF Then
<1> QED
  BY <1>1, <1>2, <1>3, <1>7, <1>10, <1>11 DEF Goes, r

\* The lowest node of an address space that goes is unmapped.
LEMMA TakedownMove ==
  ASSUME NEW sh, Programs(sh), NEW t \in Threads, At(t, "takedown"),
         NEW b \in Bos, NEW at \in Int, PagesOf(b, at) \subseteq Page(Now(t).vs),
         Then(t, <<On("unref", b), Op("mmfree", Now(t).vs, b, at), Now(t)>>)
  PROVE  Goes(t, Stage("put", "down", sh[t].vs, b, at, Null, 0))
<1> DEFINE s == sh[t]
           r == Stage("put", "down", s.vs, b, at, Null, 0)
<1>1. /\ s.pc = "down" /\ WellFormed(s) /\ Now(t) = NowOf(s)
      /\ Tail(todo[t]) = Program(After(s))
  BY AtIs, HereIs
<1>2. s \in Stages /\ s.k = "down" /\ s.vs \in Vs /\ s.vs \in Spaces
  BY <1>1, Spaced DEF WellFormed, Suits, WithNode, Freeing, Stages, Kinds
<1>3. Now(t) = Op("takedown", s.vs, Null, Null) /\ Now(t).vs = s.vs
  <2>1. Now(t) = Op("takedown", s.vs, Null, Null)
    BY <1>1, NowOfIs
  <2> QED
    BY <2>1 DEF Op
<1>4. Program(After(s)) = <<>>
  BY <1>1, <1>2, NextPcIs, AfterIs, ProgramIs
<1>5. /\ r.pc = "put" /\ r.k = "down" /\ r.vs = s.vs /\ r.bo = b /\ r.at = at /\ r.i = 0
      /\ r \in Stages
  BY <1>2, StageIs DEF Pcs, Kinds, WithNode
<1> HIDE DEF r
<1>6. WellFormed(r)
  BY <1>2, <1>3, <1>5, SMTT(30) DEF WellFormed, Suits, WithNode, Freeing
<1> DEFINE o == On("unref", b)
           m == Op("mmfree", s.vs, b, at)
           d == Op("takedown", s.vs, Null, Null)
<1>7. o \in Ops /\ m \in Ops /\ d \in Ops
  BY <1>2, OnsAre, OpsAre, ZenonT(30) DEF Dos
<1>8. Program(r) = Do(o, Do(m, Do(d, <<>>)))
  BY <1>5, ProgramIs, EndIs DEF PutEnd, MmFreeEnd
<1>9. todo' = [todo EXCEPT ![t] = <<o, m, d>> \o <<>>]
  BY <1>1, <1>3, <1>4 DEF Then
<1> HIDE DEF o, m, d, s
<1>10. <<o, m, d>> \o <<>> = Program(r)
  BY <1>7, <1>8, TuplesAre, Dones
<1> QED
  BY <1>6, <1>9, <1>10 DEF Goes, r, s

\* The calls of a thread that is idle.
LEMMA UnrefCall ==
  ASSUME NEW t \in Threads, NEW b \in Bos, Start(t, <<On("unref", b)>>)
  PROVE  Goes(t, Stage("drop", "none", Null, b, Null, Null, 0))
<1> DEFINE r == Stage("drop", "none", Null, b, Null, Null, 0)
<1>1. r.pc = "drop" /\ r.k = "none" /\ r.bo = b /\ r \in Stages
  BY StageIs DEF Pcs, Kinds
<1> HIDE DEF r
<1>2. WellFormed(r)
  BY <1>1 DEF WellFormed, Suits, Has, WithNode, Freeing
<1>3. Program(r) = <<On("unref", b)>>
  <2>1. On("unref", b) \in Ops
    BY OnsAre DEF Dos
  <2> QED
    BY <1>1, <2>1, ProgramIs, TuplesAre
<1> QED
  BY <1>2, <1>3 DEF Goes, Start, r

\* A thread starts a map.
LEMMA MapCall ==
  ASSUME NEW t \in Threads, NEW vs \in Vs, NEW b \in Bos, Start(t, VspaceMap(vs, b))
  PROVE  Goes(t, Stage("lockplace", "map", vs, b, Null, Null, 0))
<1> DEFINE r == Stage("lockplace", "map", vs, b, Null, Null, 0)
<1>1. vs \in Spaces
  BY Spaced
<1>2. r.pc = "lockplace" /\ r.k = "map" /\ r.vs = vs /\ r.bo = b /\ r \in Stages
  BY <1>1, StageIs DEF Pcs, Kinds
<1> HIDE DEF r
<1>3. WellFormed(r)
  BY <1>2 DEF WellFormed, Suits, Has, WithNode, Freeing
<1> DEFINE l == Lock(vs)
           p == Op("place", vs, b, Null)
           u == Unlock(vs)
<1>4. l \in Ops /\ p \in Ops /\ u \in Ops
  BY <1>1, LocksAre, OpsAre DEF Dos
<1>5. Program(r) = Do(l, Do(p, Do(u, <<>>)))
  BY <1>2, ProgramIs, EndIs DEF PlaceEnd
<1>6. todo' = [todo EXCEPT ![t] = <<l, p, u>>]
  BY DEF Start, VspaceMap
<1> HIDE DEF l, p, u
<1>7. <<l, p, u>> = Program(r)
  BY <1>4, <1>5, TuplesAre
<1> QED
  BY <1>3, <1>6, <1>7 DEF Goes, r

\* A thread starts an unmap.
LEMMA UnmapCall ==
  ASSUME NEW t \in Threads, NEW vs \in Vs, NEW at \in Int,
         Start(t, <<Lock(vs), Op("find", vs, Null, at), Unlock(vs)>>)
  PROVE  Goes(t, Stage("lockfind", "map", vs, Null, at, Null, 0))
<1> DEFINE r == Stage("lockfind", "map", vs, Null, at, Null, 0)
<1>1. vs \in Spaces
  BY Spaced
<1>2. r.pc = "lockfind" /\ r.k = "map" /\ r.vs = vs /\ r.at = at /\ r \in Stages
  BY <1>1, StageIs DEF Pcs, Kinds
<1> HIDE DEF r
<1>3. WellFormed(r)
  BY <1>2 DEF WellFormed, Suits, Has, WithNode, Freeing
<1> DEFINE l == Lock(vs)
           p == Op("find", vs, Null, at)
           u == Unlock(vs)
<1>4. l \in Ops /\ p \in Ops /\ u \in Ops
  BY <1>1, LocksAre, OpsAre DEF Dos
<1>5. Program(r) = Do(l, Do(p, Do(u, <<>>)))
  BY <1>2, ProgramIs, EndIs DEF FindEnd
<1>6. todo' = [todo EXCEPT ![t] = <<l, p, u>>]
  BY DEF Start
<1> HIDE DEF l, p, u
<1>7. <<l, p, u>> = Program(r)
  BY <1>4, <1>5, TuplesAre
<1> QED
  BY <1>3, <1>6, <1>7 DEF Goes, r

\* A thread starts an mmap.
LEMMA MmapCall ==
  ASSUME NEW t \in Threads, NEW b \in Bos, Start(t, <<On("check", b), On("mapped", b)>>)
  PROVE  Goes(t, Stage("check", "mmap", Bar, b, Null, Null, 0))
<1> DEFINE r == Stage("check", "mmap", Bar, b, Null, Null, 0)
<1>1. r.pc = "check" /\ r.k = "mmap" /\ r.vs = Bar /\ r.bo = b /\ r \in Stages
  BY StageIs, Spaced DEF Pcs, Kinds
<1> HIDE DEF r
<1>2. WellFormed(r)
  BY <1>1 DEF WellFormed, Suits, Has, WithNode, Freeing
<1> DEFINE c == On("check", b)
           m == On("mapped", b)
<1>3. c \in Ops /\ m \in Ops
  BY OnsAre DEF Dos
<1>4. Program(r) = Do(c, Do(m, <<>>))
  BY <1>1, ProgramIs
<1>5. todo' = [todo EXCEPT ![t] = <<c, m>>]
  BY DEF Start
<1> HIDE DEF c, m
<1>6. <<c, m>> = Program(r)
  BY <1>3, <1>4, TuplesAre
<1> QED
  BY <1>2, <1>5, <1>6 DEF Goes, r

\* A thread starts to take an address space down.
LEMMA FreeCall ==
  ASSUME NEW t \in Threads, NEW vs \in Vs, Start(t, <<Op("takedown", vs, Null, Null)>>)
  PROVE  Goes(t, Stage("down", "down", vs, Null, Null, Null, 0))
<1> DEFINE r == Stage("down", "down", vs, Null, Null, Null, 0)
<1>1. vs \in Spaces
  BY Spaced
<1>2. r.pc = "down" /\ r.k = "down" /\ r.vs = vs /\ r \in Stages
  BY <1>1, StageIs DEF Pcs, Kinds
<1> HIDE DEF r
<1>3. WellFormed(r)
  BY <1>2 DEF WellFormed, Suits, Has, WithNode, Freeing
<1>4. Program(r) = <<Op("takedown", vs, Null, Null)>>
  <2>1. Op("takedown", vs, Null, Null) \in Ops
    BY <1>1, OpsAre DEF Dos
  <2> QED
    BY <1>2, <2>1, ProgramIs, EndIs, TuplesAre
<1> QED
  BY <1>3, <1>4 DEF Goes, Start, r

\* A thread has moved, and the others are where they were.
Moves(sh, sh2, t) ==
  sh2 \in [Threads -> Stages] /\ \A u \in Threads : u # t => sh2[u] = sh[u]

\* A thread that goes to a stage moves there.
LEMMA MovesIs ==
  ASSUME NEW sh \in [Threads -> Stages], Programs(sh), NEW t \in Threads, NEW s, Goes(t, s)
  PROVE  LET sh2 == [sh EXCEPT ![t] = s]
         IN  Moves(sh, sh2, t) /\ sh2[t] = s /\ Programs(sh2)'
<1> DEFINE sh2 == [sh EXCEPT ![t] = s]
<1>1. s \in Stages /\ WellFormed(s)
  BY DEF Goes, WellFormed
<1>2. sh2 \in [Threads -> Stages] /\ sh2[t] = s /\ \A u \in Threads : u # t => sh2[u] = sh[u]
  BY <1>1
<1> HIDE DEF sh2
<1>3. \A u \in Threads : WellFormed(sh2[u])
  BY <1>1, <1>2 DEF Programs
<1>4. todo' = [u \in Threads |-> Program(sh2[u])]
  BY <1>2 DEF Goes, Programs
<1> QED
  BY <1>2, <1>3, <1>4 DEF Moves, Programs, sh2

\* No thread has moved.
LEMMA StaysIs ==
  ASSUME NEW sh \in [Threads -> Stages], Programs(sh), UNCHANGED todo, NEW t \in Threads
  PROVE  Moves(sh, sh, t) /\ Programs(sh)'
BY DEF Moves, Programs

-----------------------------------------------------------------------------
(* How many operations are pending                                         *)

Places(Q, q) == {k \in DOMAIN q : q[k] \in Q}
Amount(Q, q) == Cardinality(Places(Q, q))

Queue == UNION {{t} \X DOMAIN todo[t] : t \in Threads}

\* The counts of the model, over the queue.
LEMMA PendingIs ==
  /\ Pending(LAMBDA op : op.do = "mapped")
       = Cardinality({tk \in Queue : todo[tk[1]][tk[2]].do = "mapped"})
  /\ \A b : Pending(LAMBDA op : op = On("mapped", b))
       = Cardinality({tk \in Queue : todo[tk[1]][tk[2]] = On("mapped", b)})
  /\ \A vs : Pending(LAMBDA op : op.vs = vs)
       = Cardinality({tk \in Queue : todo[tk[1]][tk[2]].vs = vs})
  /\ \A b : Pending(LAMBDA op : op.do = "mmfree" /\ op.bo = b /\ op.vs # Bar)
       = Cardinality({tk \in Queue : /\ todo[tk[1]][tk[2]].do = "mmfree"
                                     /\ todo[tk[1]][tk[2]].bo = b /\ todo[tk[1]][tk[2]].vs # Bar})
  /\ \A b : Pending(LAMBDA op : /\ op.do \in {"unref", "place", "mapped"}
                                /\ op.bo = b /\ op.vs # Bar)
       = Cardinality({tk \in Queue : /\ todo[tk[1]][tk[2]].do \in {"unref", "place", "mapped"}
                                     /\ todo[tk[1]][tk[2]].bo = b /\ todo[tk[1]][tk[2]].vs # Bar})
BY DEF Pending, Queue

\* Amounts of sequences add up.
LEMMA PlacesJoin ==
  ASSUME NEW Q, NEW x \in Seq(Ops), NEW q \in Seq(Ops)
  PROVE  /\ IsFiniteSet(Places(Q, q)) /\ Amount(Q, q) \in Nat
         /\ Amount(Q, x \o q) = Amount(Q, x) + Amount(Q, q)
<1>1. ASSUME NEW y \in Seq(Ops)
      PROVE  IsFiniteSet(Places(Q, y)) /\ Places(Q, y) \subseteq 1 .. Len(y) /\ Len(y) \in Nat
  <2>1. Places(Q, y) \subseteq 1 .. Len(y) /\ Len(y) \in Nat
    BY DEF Places
  <2>2. IsFiniteSet(1 .. Len(y))
    BY <2>1, FS_Interval
  <2> QED
    BY <2>1, <2>2, FS_Subset
<1> DEFINE n == Len(x)
           A == Places(Q, x)
           B == Places(Q, q)
           C == {k + n : k \in B}
           F == [k \in B |-> k + n]
<1>2. /\ IsFiniteSet(A) /\ IsFiniteSet(B) /\ n \in Nat
      /\ A \subseteq 1 .. n /\ B \subseteq 1 .. Len(q) /\ Len(q) \in Nat
  BY <1>1
<1>3. Places(Q, x \o q) = A \cup C
  <2>1. /\ DOMAIN (x \o q) = 1 .. n + Len(q)
        /\ \A i \in 1 .. n + Len(q) : (x \o q)[i] = IF i <= n THEN x[i] ELSE q[i - n]
    <3>1. x \o q \in Seq(Ops) /\ Len(x \o q) = n + Len(q)
      BY Joined
    <3> QED
      BY <3>1, Joined
  <2>2. DOMAIN x = 1 .. n /\ DOMAIN q = 1 .. Len(q)
    OBVIOUS
  <2> HIDE DEF n
  <2>3. ASSUME NEW k \in 1 .. n + Len(q)
        PROVE  k \in Places(Q, x \o q) <=> k \in A \/ k \in C
    <3>1. CASE k <= n
      <4>1. k \in Places(Q, x \o q) <=> x[k] \in Q
        BY <2>1, <3>1 DEF Places
      <4>2. k \in A <=> x[k] \in Q
        BY <1>2, <2>2, <3>1 DEF Places
      <4>3. k \notin C
        BY <1>2, <3>1
      <4> QED
        BY <4>1, <4>2, <4>3
    <3>2. CASE k > n
      <4>1. k \in Places(Q, x \o q) <=> q[k - n] \in Q
        BY <1>2, <2>1, <3>2 DEF Places
      <4>2. k \notin A
        BY <1>2, <3>2
      <4>3. k \in C <=> k - n \in B
        BY <1>2, <3>2
      <4>4. k - n \in 1 .. Len(q)
        BY <1>2, <3>2
      <4>5. k - n \in B <=> q[k - n] \in Q
        BY <2>2, <4>4 DEF Places
      <4> QED
        BY <4>1, <4>2, <4>3, <4>5
    <3> QED
      BY <1>2, <3>1, <3>2
  <2>4. A \subseteq 1 .. n + Len(q) /\ C \subseteq 1 .. n + Len(q)
    BY <1>2
  <2>5. Places(Q, x \o q) \subseteq 1 .. n + Len(q)
    BY <2>1 DEF Places
  <2> HIDE DEF A, C
  <2> QED
    BY <2>3, <2>4, <2>5
<1>4. A \cap C = {}
  BY <1>2
<1> HIDE DEF A, B, n
<1>5. F \in Bijection(B, C)
  <2>1. F \in [B -> C] /\ \A i, j \in B : F[i] = F[j] => i = j
    BY <1>2
  <2>2. \A c \in C : \E k \in B : F[k] = c
    OBVIOUS
  <2> QED
    BY <2>1, <2>2 DEF Bijection, Injection, Surjection, IsInjective
<1> HIDE DEF F, C
<1>6. IsFiniteSet(C) /\ Cardinality(C) = Cardinality(B)
  BY <1>2, <1>5, FS_Bijection DEF ExistsBijection
<1>7. Cardinality(A \cup C) = Cardinality(A) + Cardinality(C)
  <2>1. Cardinality(A \cap C) = 0
    BY <1>4, FS_EmptySet
  <2>2. Cardinality(A) \in Nat /\ Cardinality(C) \in Nat
    BY <1>2, <1>6, FS_CardinalityType
  <2>3. Cardinality(A \cup C) = Cardinality(A) + Cardinality(C) - Cardinality(A \cap C)
    BY <1>2, <1>6, FS_Union
  <2> QED
    BY <2>1, <2>2, <2>3
<1>8. Cardinality(B) \in Nat
  BY <1>2, FS_CardinalityType
<1>9. Cardinality(A \cup C) = Cardinality(A) + Cardinality(B)
  BY <1>6, <1>7
<1> QED
  BY <1>2, <1>3, <1>8, <1>9 DEF A, B, Amount

\* What one operation adds to an amount.
LEMMA AmountIs ==
  ASSUME NEW Q
  PROVE  /\ Amount(Q, <<>>) = 0
         /\ \A op \in Ops : \A q \in Seq(Ops) :
              Amount(Q, Do(op, q)) = (IF op \in Q THEN 1 ELSE 0) + Amount(Q, q)
<1>1. Amount(Q, <<>>) = 0
  <2>1. Places(Q, <<>>) = {}
    BY DEF Places
  <2> QED
    BY <2>1, FS_EmptySet DEF Amount
<1>2. ASSUME NEW op \in Ops, NEW q \in Seq(Ops)
      PROVE  Amount(Q, Do(op, q)) = (IF op \in Q THEN 1 ELSE 0) + Amount(Q, q)
  <2>1. <<op>> \in Seq(Ops) /\ DOMAIN <<op>> = {1} /\ <<op>>[1] = op
    OBVIOUS
  <2>2. Places(Q, <<op>>) = IF op \in Q THEN {1} ELSE {}
    BY <2>1 DEF Places
  <2>3. Amount(Q, <<op>>) = IF op \in Q THEN 1 ELSE 0
    BY <2>2, FS_EmptySet, FS_Singleton DEF Amount
  <2>4. Amount(Q, <<op>> \o q) = Amount(Q, <<op>>) + Amount(Q, q)
    BY <2>1, PlacesJoin
  <2> QED
    BY <2>3, <2>4 DEF Do
<1> QED
  BY <1>1, <1>2

\* Operations on any page.
LEMMA OpsOf ==
  ASSUME NEW do \in Dos, NEW vs \in Spaces \cup {Null}, NEW b \in Bos
  PROVE  \A k \in Int : Op(do, vs, b, k) \in Ops /\ Op(do, vs, b, k).do = do
BY OpsAre

\* The operations of a stage.
LEMMA OpsHere ==
  ASSUME NEW s \in Stages
  PROVE  /\ \A do \in Dos :
              /\ Op(do, s.vs, s.bo, s.at) \in Ops /\ Op(do, s.vs, s.bo, s.at).do = do
              /\ Op(do, s.vs, Null, s.at) \in Ops /\ Op(do, s.vs, Null, s.at).do = do
              /\ Op(do, Bar, s.bo, s.bat) \in Ops /\ Op(do, Bar, s.bo, s.bat).do = do
              /\ Op(do, s.vs, Null, Null) \in Ops /\ Op(do, s.vs, Null, Null).do = do
              /\ Op(do, s.vs, s.bo, Null) \in Ops /\ Op(do, s.vs, s.bo, Null).do = do
              /\ On(do, s.bo) \in Ops /\ On(do, s.bo).do = do
         /\ Lock(s.vs) \in Ops /\ Lock(s.vs).do = "lock"
         /\ Unlock(s.vs) \in Ops /\ Unlock(s.vs).do = "unlock"
         /\ Lock(Bar) \in Ops /\ Lock(Bar).do = "lock"
         /\ Unlock(Bar) \in Ops /\ Unlock(Bar).do = "unlock"
<1>1. /\ s.vs \in Spaces \cup {Null} /\ s.bo \in Bos \cup {Null}
      /\ s.at \in Int \cup {Null} /\ s.bat \in Int \cup {Null}
  BY FieldsAre
<1>2. Null \in Bos \cup {Null} /\ Null \in Int \cup {Null} /\ Bar \in Spaces \cup {Null}
  BY Spaced
<1>3. ASSUME NEW do \in Dos
      PROVE  /\ Op(do, s.vs, s.bo, s.at) \in Ops /\ Op(do, s.vs, s.bo, s.at).do = do
             /\ Op(do, s.vs, Null, s.at) \in Ops /\ Op(do, s.vs, Null, s.at).do = do
             /\ Op(do, Bar, s.bo, s.bat) \in Ops /\ Op(do, Bar, s.bo, s.bat).do = do
             /\ Op(do, s.vs, Null, Null) \in Ops /\ Op(do, s.vs, Null, Null).do = do
             /\ Op(do, s.vs, s.bo, Null) \in Ops /\ Op(do, s.vs, s.bo, Null).do = do
             /\ On(do, s.bo) \in Ops /\ On(do, s.bo).do = do
  <2>1. Op(do, s.vs, s.bo, s.at) \in Ops /\ Op(do, s.vs, s.bo, s.at).do = do
    BY <1>1 DEF Op, Ops
  <2>2. Op(do, s.vs, Null, s.at) \in Ops /\ Op(do, s.vs, Null, s.at).do = do
    BY <1>1, <1>2 DEF Op, Ops
  <2>3. Op(do, Bar, s.bo, s.bat) \in Ops /\ Op(do, Bar, s.bo, s.bat).do = do
    BY <1>1, <1>2 DEF Op, Ops
  <2>4. Op(do, s.vs, Null, Null) \in Ops /\ Op(do, s.vs, Null, Null).do = do
    BY <1>1, <1>2 DEF Op, Ops
  <2>5. Op(do, s.vs, s.bo, Null) \in Ops /\ Op(do, s.vs, s.bo, Null).do = do
    BY <1>1, <1>2 DEF Op, Ops
  <2>6. On(do, s.bo) \in Ops /\ On(do, s.bo).do = do
    BY <1>1, OnsAre
  <2> QED
    BY <2>1, <2>2, <2>3, <2>4, <2>5, <2>6
<1> QED
  BY <1>1, <1>2, <1>3, LocksAre

\* The entries of pages are of no amount, if none of them counts.
LEMMA AmountEntries ==
  ASSUME NEW Q, NEW do \in Dos, \A op \in Q : op.do # do, NEW vs \in Spaces \cup {Null}, NEW b \in Bos,
         NEW at \in Int, NEW q \in Seq(Ops), NEW i \in Nat, i <= Size[b]
  PROVE  Amount(Q, Entries(do, vs, b, at, i, q)) = Amount(Q, q)
<1> DEFINE n == Size[b] - i
           f == [j \in 1 .. n |-> Op(do, vs, b, at + i + j - 1)]
<1>1. n \in Nat
  BY Some
<1>2. \A k \in Int : Op(do, vs, b, k) \in Ops /\ Op(do, vs, b, k).do = do
  BY OpsOf
<1>3. f \in [1 .. n -> Ops] /\ \A j \in 1 .. n : f[j].do = do
  BY <1>1, <1>2
<1>4. Entries(do, vs, b, at, i, q) = f \o q
  BY DEF Entries
<1> HIDE DEF f, n
<1>5. f \in Seq(Ops) /\ DOMAIN f = 1 .. n
  BY <1>1, <1>3
<1>6. Places(Q, f) = {}
  BY <1>3, <1>5 DEF Places
<1>7. Amount(Q, f) = 0
  BY <1>6, FS_EmptySet DEF Amount
<1>8. Amount(Q, f \o q) = Amount(Q, f) + Amount(Q, q) /\ Amount(Q, q) \in Nat
  BY <1>5, PlacesJoin
<1> QED
  BY <1>4, <1>7, <1>8

\* What a program counts for: nothing but its last operations do.
LEMMA AmountProgram ==
  ASSUME NEW Q, \A op \in Q : op.do \in {"mmfree", "unref", "place", "mapped"},
         NEW s, WellFormed(s), NEW mf, NEW bf, NEW un, NEW pl, NEW mp,
         mf = (IF Op("mmfree", s.vs, s.bo, s.at) \in Q THEN 1 ELSE 0),
         bf = (IF Op("mmfree", Bar, s.bo, s.bat) \in Q THEN 1 ELSE 0),
         un = (IF On("unref", s.bo) \in Q THEN 1 ELSE 0),
         pl = (IF Op("place", s.vs, s.bo, Null) \in Q THEN 1 ELSE 0),
         mp = (IF On("mapped", s.bo) \in Q THEN 1 ELSE 0)
  PROVE  /\ s.k = "none" => Amount(Q, Program(s)) =
              CASE s.pc = "idle" -> 0 [] s.pc = "drop" -> un
                [] s.pc \in {"flock", "fclear", "fflush", "fmmfree"} -> bf [] OTHER -> 0
         /\ s.k = "mmap" => Amount(Q, Program(s)) =
              (IF s.pc \in {"lockplace", "place"} THEN pl ELSE 0) + mp
         /\ s.k = "bad" => Amount(Q, Program(s)) =
              (IF s.pc \in {"undo", "undoflush", "clear", "flush", "mmfree"} THEN mf ELSE 0) + un
         /\ s.k = "map" => Amount(Q, Program(s)) =
              CASE s.pc \in {"lockplace", "place"} -> pl
                [] s.pc \in {"undo", "undoflush", "clear", "flush", "put"} -> un + mf
                [] s.pc \in {"flock", "fclear", "fflush", "fmmfree"} -> bf + mf
                [] s.pc \in {"funlock", "release", "mmfree"} -> mf
                [] OTHER -> 0
         /\ s.k = "down" => Amount(Q, Program(s)) =
              CASE s.pc = "put" -> un + mf
                [] s.pc \in {"flock", "fclear", "fflush", "fmmfree"} -> bf + mf
                [] s.pc \in {"funlock", "release", "mmfree"} -> mf
                [] OTHER -> 0
<1> DEFINE A(q) == Amount(Q, q)
<1>1. /\ s \in Stages /\ Suits(s.pc, s.k) /\ s.k \in Kinds
      /\ s.vs \in Spaces \cup {Null} /\ s.bo \in Bos \cup {Null}
      /\ s.at \in Int \cup {Null} /\ s.bat \in Int \cup {Null}
  BY FieldsAre DEF WellFormed, Stages
<1>2. /\ \A q \in Seq(Ops) : A(q) \in Int
      /\ A(<<>>) = 0
      /\ \A op \in Ops : \A q \in Seq(Ops) : A(Do(op, q)) = (IF op \in Q THEN 1 ELSE 0) + A(q)
  <2>1. <<>> \in Seq(Ops)
    OBVIOUS
  <2>2. ASSUME NEW q \in Seq(Ops)
        PROVE  A(q) \in Nat
    BY <2>1, PlacesJoin
  <2>3. /\ A(<<>>) = 0
        /\ \A op \in Ops : \A q \in Seq(Ops) : A(Do(op, q)) = (IF op \in Q THEN 1 ELSE 0) + A(q)
    BY AmountIs
  <2> HIDE DEF A
  <2>4. \A q \in Seq(Ops) : A(q) \in Int
    BY <2>2
  <2> QED
    BY <2>3, <2>4
<1>4. \A op \in Ops : \A q \in Seq(Ops) : op \notin Q => A(Do(op, q)) = A(q)
  <2> HIDE DEF A
  <2> QED
    BY <1>2
<1> HIDE DEF A
<1>5. /\ Op("mmfree", s.vs, s.bo, s.at) \in Ops /\ Op("mmfree", Bar, s.bo, s.bat) \in Ops
      /\ On("unref", s.bo) \in Ops /\ Op("place", s.vs, s.bo, Null) \in Ops /\ On("mapped", s.bo) \in Ops
  <2>1. {"mmfree", "unref", "place", "mapped"} \subseteq Dos
    BY DEF Dos
  <2> QED
    BY <1>1, <2>1, OpsHere
<1>6. /\ Lock(s.vs) \in Ops \ Q /\ Unlock(s.vs) \in Ops \ Q
      /\ Lock(Bar) \in Ops \ Q /\ Unlock(Bar) \in Ops \ Q
      /\ On("check", s.bo) \in Ops \ Q /\ On("release", s.bo) \in Ops \ Q
      /\ Op("assign", s.vs, s.bo, s.at) \in Ops \ Q /\ Op("flush", s.vs, s.bo, s.at) \in Ops \ Q
      /\ Op("find", s.vs, Null, s.at) \in Ops \ Q /\ Op("flush", Bar, s.bo, s.bat) \in Ops \ Q
      /\ Op("takedown", s.vs, Null, Null) \in Ops \ Q
  <2>1. \A op \in Q : op.do \notin {"lock", "unlock", "check", "release", "assign", "flush", "find", "takedown"}
    OBVIOUS
  <2>2. \A op \in Ops : op.do \in {"lock", "unlock", "check", "release", "assign", "flush", "find", "takedown"}
                         => op \in Ops \ Q
    BY <2>1
  <2>3. {"check", "release", "assign", "flush", "find", "takedown"} \subseteq Dos
    BY DEF Dos
  <2>4. /\ Lock(s.vs) \in Ops /\ Lock(s.vs).do = "lock"
        /\ Unlock(s.vs) \in Ops /\ Unlock(s.vs).do = "unlock"
        /\ Lock(Bar) \in Ops /\ Lock(Bar).do = "lock"
        /\ Unlock(Bar) \in Ops /\ Unlock(Bar).do = "unlock"
        /\ On("check", s.bo) \in Ops /\ On("check", s.bo).do = "check"
        /\ On("release", s.bo) \in Ops /\ On("release", s.bo).do = "release"
        /\ Op("assign", s.vs, s.bo, s.at) \in Ops /\ Op("assign", s.vs, s.bo, s.at).do = "assign"
        /\ Op("flush", s.vs, s.bo, s.at) \in Ops /\ Op("flush", s.vs, s.bo, s.at).do = "flush"
        /\ Op("find", s.vs, Null, s.at) \in Ops /\ Op("find", s.vs, Null, s.at).do = "find"
        /\ Op("flush", Bar, s.bo, s.bat) \in Ops /\ Op("flush", Bar, s.bo, s.bat).do = "flush"
        /\ Op("takedown", s.vs, Null, Null) \in Ops /\ Op("takedown", s.vs, Null, Null).do = "takedown"
    BY <1>1, <2>3, OpsHere
  <2> QED
    BY <2>2, <2>4
<1>7. /\ End(s) \in Seq(Ops) /\ AssignEnd(s) \in Seq(Ops) /\ WriteEnd(s) \in Seq(Ops)
      /\ PlaceEnd(s) \in Seq(Ops) /\ FindEnd(s) \in Seq(Ops) /\ MmFreeEnd(s) \in Seq(Ops)
      /\ PutEnd(s) \in Seq(Ops) /\ FlushEnd(s) \in Seq(Ops)
      /\ ReleaseEnd(s) \in Seq(Ops) /\ FUnlockEnd(s) \in Seq(Ops)
      /\ FMmFreeEnd(s) \in Seq(Ops) /\ FFlushEnd(s) \in Seq(Ops)
      /\ Do(On("mapped", s.bo), <<>>) \in Seq(Ops) /\ Do(On("unref", s.bo), <<>>) \in Seq(Ops)
      /\ <<>> \in Seq(Ops)
  BY <1>1, EndsTyped
<1> DEFINE e == IF s.k = "mmap" THEN mp ELSE IF s.k = "bad" THEN un ELSE 0
<1>9. mf \in Int /\ bf \in Int /\ un \in Int /\ pl \in Int /\ mp \in Int /\ e \in Int
  OBVIOUS
<1>8. \A q \in Seq(Ops) :
         /\ A(Do(Op("mmfree", s.vs, s.bo, s.at), q)) = mf + A(q)
         /\ A(Do(Op("mmfree", Bar, s.bo, s.bat), q)) = bf + A(q)
         /\ A(Do(On("unref", s.bo), q)) = un + A(q)
         /\ A(Do(Op("place", s.vs, s.bo, Null), q)) = pl + A(q)
         /\ A(Do(On("mapped", s.bo), q)) = mp + A(q)
  BY <1>2, <1>5
<1>10. /\ A(Do(On("mapped", s.bo), <<>>)) = mp /\ A(Do(On("unref", s.bo), <<>>)) = un
  <2>1. /\ A(Do(On("mapped", s.bo), <<>>)) = mp + A(<<>>)
        /\ A(Do(On("unref", s.bo), <<>>)) = un + A(<<>>)
    BY <1>7, <1>8
  <2>2. A(<<>>) = 0
    BY <1>2
  <2> QED
    BY <1>9, <2>1, <2>2
<1>11. A(End(s)) = e
  <2>1. /\ A(Do(Unlock(s.vs), <<>>)) = 0
        /\ A(Do(Unlock(s.vs), Do(On("mapped", s.bo), <<>>))) = mp
        /\ A(Do(Unlock(s.vs), Do(On("unref", s.bo), <<>>))) = un
        /\ A(Do(Op("takedown", s.vs, Null, Null), <<>>)) = 0
    BY <1>2, <1>4, <1>6, <1>7, <1>10
  <2> QED
    BY <1>1, <1>2, <2>1, EndIs DEF Kinds
<1> HIDE DEF e
<1>12. /\ A(AssignEnd(s)) = e /\ A(WriteEnd(s)) = e /\ A(PlaceEnd(s)) = pl + e /\ A(FindEnd(s)) = e
  <2>1. A(AssignEnd(s)) = e
    BY <1>4, <1>6, <1>7, <1>11 DEF AssignEnd
  <2>2. A(FindEnd(s)) = e
    BY <1>4, <1>6, <1>7, <1>11 DEF FindEnd
  <2>3. A(PlaceEnd(s)) = pl + e
    BY <1>7, <1>8, <1>11 DEF PlaceEnd
  <2> QED
    BY <1>11, <2>1, <2>2, <2>3 DEF WriteEnd
<1>13. A(MmFreeEnd(s)) = mf + e
  BY <1>7, <1>8, <1>11, <1>12 DEF MmFreeEnd
<1>14. A(PutEnd(s)) = IF s.k = "bad" THEN mf + e ELSE un + mf + e
  <2>1. A(Do(On("unref", s.bo), MmFreeEnd(s))) = un + (mf + e)
    BY <1>7, <1>8, <1>13
  <2> QED
    BY <1>9, <1>13, <2>1 DEF PutEnd
<1>15. A(FlushEnd(s)) = A(PutEnd(s))
  BY <1>4, <1>6, <1>7 DEF FlushEnd
<1>16. A(ReleaseEnd(s)) = IF s.k = "none" THEN 0 ELSE mf + e
  BY <1>2, <1>4, <1>6, <1>7, <1>13 DEF ReleaseEnd
<1>17. A(FUnlockEnd(s)) = A(ReleaseEnd(s))
  BY <1>4, <1>6, <1>7 DEF FUnlockEnd
<1>18. A(FMmFreeEnd(s)) = bf + A(ReleaseEnd(s)) /\ A(FFlushEnd(s)) = A(FMmFreeEnd(s))
  <2>1. A(FMmFreeEnd(s)) = bf + A(ReleaseEnd(s))
    BY <1>7, <1>8, <1>17 DEF FMmFreeEnd
  <2>2. A(FFlushEnd(s)) = A(FMmFreeEnd(s))
    BY <1>4, <1>6, <1>7 DEF FFlushEnd
  <2> QED
    BY <2>1, <2>2
<1>19. \A do \in {"write", "clear"}, i \in Nat, q \in Seq(Ops) :
         s.bo \in Bos /\ s.at \in Int /\ i <= Size[s.bo] =>
           /\ A(Entries(do, s.vs, s.bo, s.at, i, q)) = A(q)
           /\ Entries(do, s.vs, s.bo, s.at, i, q) \in Seq(Ops)
  <2> SUFFICES ASSUME NEW do \in {"write", "clear"}, NEW i \in Nat, NEW q \in Seq(Ops),
                      s.bo \in Bos, s.at \in Int, i <= Size[s.bo]
               PROVE  /\ A(Entries(do, s.vs, s.bo, s.at, i, q)) = A(q)
                      /\ Entries(do, s.vs, s.bo, s.at, i, q) \in Seq(Ops)
    OBVIOUS
  <2>1. do \in Dos /\ \A op \in Q : op.do # do
    BY DEF Dos
  <2>2. Amount(Q, Entries(do, s.vs, s.bo, s.at, i, q)) = Amount(Q, q)
    BY <1>1, <2>1, AmountEntries
  <2>3. Entries(do, s.vs, s.bo, s.at, i, q) \in Seq(Ops)
    BY <1>1, <2>1, EntriesAre
  <2> QED
    BY <2>2, <2>3 DEF A
<1>20. \A i \in Nat, q \in Seq(Ops) :
         s.bo \in Bos /\ s.bat \in Int /\ i <= Size[s.bo] =>
           /\ A(Entries("clear", Bar, s.bo, s.bat, i, q)) = A(q)
           /\ Entries("clear", Bar, s.bo, s.bat, i, q) \in Seq(Ops)
  <2> SUFFICES ASSUME NEW i \in Nat, NEW q \in Seq(Ops), s.bo \in Bos, s.bat \in Int, i <= Size[s.bo]
               PROVE  /\ A(Entries("clear", Bar, s.bo, s.bat, i, q)) = A(q)
                      /\ Entries("clear", Bar, s.bo, s.bat, i, q) \in Seq(Ops)
    OBVIOUS
  <2>1. "clear" \in Dos /\ Bar \in Spaces \cup {Null} /\ \A op \in Q : op.do # "clear"
    BY Spaced DEF Dos
  <2>2. Amount(Q, Entries("clear", Bar, s.bo, s.bat, i, q)) = Amount(Q, q)
    BY <2>1, AmountEntries
  <2>3. Entries("clear", Bar, s.bo, s.bat, i, q) \in Seq(Ops)
    BY <2>1, EntriesAre
  <2> QED
    BY <2>2, <2>3 DEF A
<1>22. s.bo \in Bos => Size[s.bo] \in Nat \ {0} /\ 0 <= Size[s.bo]
  BY Some
<1>23. s.pc \in {"idle", "drop", "check", "mapped", "lockplace", "place", "assign", "unlock", "lockfind",
                 "find", "down"} =>
         A(Program(s)) = CASE s.pc = "idle" -> 0 [] s.pc = "drop" -> un
                           [] s.pc = "check" -> mp [] s.pc = "mapped" -> mp
                           [] s.pc \in {"lockplace", "place"} -> pl + e
                           [] OTHER -> e
  <2>1. A(Do(On("check", s.bo), Do(On("mapped", s.bo), <<>>))) = mp
    BY <1>4, <1>6, <1>7, <1>10
  <2>2. A(Do(Lock(s.vs), PlaceEnd(s))) = pl + e /\ A(Do(Lock(s.vs), FindEnd(s))) = e
    BY <1>4, <1>6, <1>7, <1>12
  <2> QED
    BY <1>2, <1>10, <1>11, <1>12, <2>1, <2>2, ProgramIs
<1>24. s.pc \in WithNode =>
         A(Program(s)) = CASE s.pc = "write" -> e [] s.pc = "mmfree" -> mf + e
                           [] OTHER -> A(PutEnd(s))
  <2> SUFFICES ASSUME s.pc \in WithNode
               PROVE  A(Program(s)) = CASE s.pc = "write" -> e [] s.pc = "mmfree" -> mf + e
                           [] OTHER -> A(PutEnd(s))
    OBVIOUS
  <2>1. s.bo \in Bos /\ s.at \in Int /\ s.i \in Nat
    BY <1>1, FieldsAre DEF WellFormed, WithNode, Has
  <2>2. s.pc \in {"write", "undo", "clear"} => s.i <= Size[s.bo]
    BY <1>22, <2>1 DEF WellFormed
  <2>3. ClearEnd(s, 0) \in Seq(Ops) /\ A(ClearEnd(s, 0)) = A(PutEnd(s))
    BY <1>7, <1>15, <1>19, <1>22, <2>1 DEF ClearEnd
  <2>4. UndoFlushEnd(s) \in Seq(Ops) /\ A(UndoFlushEnd(s)) = A(PutEnd(s))
    BY <1>4, <1>6, <2>3, DoIs DEF UndoFlushEnd
  <2>5. s.pc = "write" => A(Program(s)) = e
    <3> SUFFICES ASSUME s.pc = "write"
                 PROVE  A(Program(s)) = e
      OBVIOUS
    <3>1. WriteEnd(s) \in Seq(Ops) /\ A(WriteEnd(s)) = e
      BY <1>7, <1>12
    <3>2. Program(s) = Entries("write", s.vs, s.bo, s.at, s.i, WriteEnd(s))
      BY ProgramIs
    <3> QED
      BY <1>19, <2>1, <2>2, <3>1, <3>2
  <2>6. s.pc = "undo" => A(Program(s)) = A(PutEnd(s))
    BY <1>19, <2>1, <2>2, <2>4, ProgramIs
  <2>7. s.pc = "clear" => A(Program(s)) = A(PutEnd(s))
    <3> SUFFICES ASSUME s.pc = "clear"
                 PROVE  A(Program(s)) = A(PutEnd(s))
      OBVIOUS
    <3>1. FlushEnd(s) \in Seq(Ops) /\ A(FlushEnd(s)) = A(PutEnd(s))
      BY <1>7, <1>15
    <3>2. Program(s) = Entries("clear", s.vs, s.bo, s.at, s.i, FlushEnd(s))
      BY ProgramIs DEF ClearEnd
    <3> QED
      BY <1>19, <2>1, <2>2, <3>1, <3>2
  <2> QED
    BY <1>13, <1>15, <2>4, <2>5, <2>6, <2>7, ProgramIs DEF WithNode
<1>25. s.pc \in Freeing =>
         A(Program(s)) = IF s.pc \in {"funlock", "release"} THEN A(ReleaseEnd(s)) ELSE bf + A(ReleaseEnd(s))
  <2> SUFFICES ASSUME s.pc \in Freeing
               PROVE  A(Program(s)) = IF s.pc \in {"funlock", "release"} THEN A(ReleaseEnd(s))
                                      ELSE bf + A(ReleaseEnd(s))
    OBVIOUS
  <2>1. s.bo \in Bos /\ s.i \in Nat /\ (s.pc \notin {"funlock", "release"} => s.bat \in Int)
    BY <1>1, FieldsAre DEF WellFormed, Freeing
  <2>2. s.pc = "fclear" => s.i <= Size[s.bo]
    BY <1>22, <2>1 DEF WellFormed
  <2>3. s.bat \in Int => FClearEnd(s, 0) \in Seq(Ops) /\ A(FClearEnd(s, 0)) = A(FFlushEnd(s))
    BY <1>7, <1>20, <1>22, <2>1 DEF FClearEnd
  <2>4. s.pc = "flock" => A(Program(s)) = A(FFlushEnd(s))
    BY <1>4, <1>6, <2>1, <2>3, ProgramIs
  <2>5. s.pc = "fclear" => A(Program(s)) = A(FFlushEnd(s))
    BY <1>7, <1>20, <2>1, <2>2, ProgramIs DEF FClearEnd
  <2> QED
    BY <1>17, <1>18, <2>4, <2>5, ProgramIs DEF Freeing
<1> DEFINE w == A(Program(s))
<1>26. w = Amount(Q, Program(s))
  BY DEF A
<1>27. CASE s.k = "none"
  <2>1. s.pc \in {"idle", "drop"} \cup Freeing
    BY <1>1, <1>27 DEF Suits
  <2>2. e = 0
    BY <1>27 DEF e
  <2> QED
    BY <1>9, <1>16, <1>23, <1>25, <1>26, <1>27, <2>1, <2>2 DEF Freeing
<1>28. CASE s.k = "mmap"
  <2>1. s.pc \in {"check", "lockplace", "place", "write", "assign", "unlock", "mapped"}
    BY <1>1, <1>28 DEF Suits
  <2>2. e = mp
    BY <1>28 DEF e
  <2>3. s.pc = "write" => w = e
    BY <1>24 DEF WithNode
  <2> QED
    BY <1>9, <1>23, <1>26, <1>28, <2>1, <2>2, <2>3
<1>29. CASE s.k = "bad"
  <2>1. s.pc \in {"undo", "undoflush", "clear", "flush", "mmfree", "assign", "unlock"}
    BY <1>1, <1>29 DEF Suits
  <2>2. e = un
    BY <1>29 DEF e
  <2>3. s.pc \in {"undo", "undoflush", "clear", "flush", "mmfree"} => w = mf + un
    BY <1>14, <1>24, <1>29, <2>2 DEF WithNode
  <2> QED
    BY <1>9, <1>23, <1>26, <1>29, <2>1, <2>2, <2>3
<1>30. CASE s.k = "map"
  <2>1. s.pc \in {"lockplace", "place", "lockfind", "find", "unlock"} \cup WithNode \cup Freeing
    BY <1>1, <1>30 DEF Suits
  <2>2. e = 0
    BY <1>30 DEF e
  <2>3. s.pc \in WithNode => w = IF s.pc = "write" THEN 0 ELSE IF s.pc = "mmfree" THEN mf ELSE un + mf
    BY <1>9, <1>14, <1>24, <1>30, <2>2
  <2>4. s.pc \in Freeing => w = IF s.pc \in {"funlock", "release"} THEN mf ELSE bf + mf
    BY <1>9, <1>16, <1>25, <1>30, <2>2
  <2> QED
    BY <1>9, <1>23, <1>26, <1>30, <2>1, <2>2, <2>3, <2>4 DEF WithNode, Freeing
<1>31. CASE s.k = "down"
  <2>1. s.pc \in {"put", "mmfree", "down"} \cup Freeing
    BY <1>1, <1>31 DEF Suits
  <2>2. e = 0
    BY <1>31 DEF e
  <2>3. s.pc \in {"put", "mmfree"} => w = IF s.pc = "mmfree" THEN mf ELSE un + mf
    BY <1>9, <1>14, <1>24, <1>31, <2>2 DEF WithNode
  <2>4. s.pc \in Freeing => w = IF s.pc \in {"funlock", "release"} THEN mf ELSE bf + mf
    BY <1>9, <1>16, <1>25, <1>31, <2>2
  <2> QED
    BY <1>9, <1>23, <1>26, <1>31, <2>1, <2>2, <2>3, <2>4 DEF Freeing
<1> QED
  BY <1>1, <1>27, <1>28, <1>29, <1>30, <1>31 DEF Kinds

\* Finitely many operations are pending, each at its place in a program.
LEMMA QueueFinite ==
  ASSUME NEW sh, Programs(sh)
  PROVE  /\ IsFiniteSet(Queue)
         /\ \A t \in Threads : todo[t] = Program(sh[t]) /\ todo[t] \in Seq(Ops)
<1>1. \A t \in Threads : todo[t] = Program(sh[t])
  BY DEF Programs
<1>2. ASSUME NEW t \in Threads
      PROVE  todo[t] \in Seq(Ops)
  <2>1. WellFormed(sh[t])
    BY DEF Programs
  <2>2. CASE sh[t].pc = "idle"
    <3>1. Program(sh[t]) = <<>> /\ <<>> \in Seq(Ops)
      BY <2>2, ProgramIs
    <3> QED
      BY <1>1, <3>1
  <2>3. CASE sh[t].pc # "idle"
    <3> DEFINE op == NowOf(sh[t])
               q == Program(After(sh[t]))
    <3>1. Program(sh[t]) = Do(op, q) /\ op \in Ops /\ q \in Seq(Ops)
      BY <2>1, <2>3, ProgramStep
    <3> HIDE DEF op, q
    <3> QED
      BY <1>1, <3>1, DoIs, ZenonT(30)
  <2> QED
    BY <2>2, <2>3
<1> DEFINE S == {{t} \X DOMAIN todo[t] : t \in Threads}
           F == [t \in Threads |-> {t} \X DOMAIN todo[t]]
<1>3. F \in Surjection(Threads, S)
  BY DEF Surjection
<1>4. \A t \in Threads : IsFiniteSet({t} \X DOMAIN todo[t])
  <2> TAKE t \in Threads
  <2>1. DOMAIN todo[t] = 1 .. Len(todo[t]) /\ Len(todo[t]) \in Nat
    BY <1>2
  <2>2. IsFiniteSet(DOMAIN todo[t])
    BY <2>1, FS_Interval
  <2>3. IsFiniteSet({t})
    BY FS_Singleton
  <2> QED
    BY <2>2, <2>3, FS_Product
<1>5. \A T \in S : IsFiniteSet(T)
  BY <1>4
<1> HIDE DEF F, S
<1>6. IsFiniteSet(S)
  BY <1>3, FS_Surjection, MapsAssumption
<1>7. IsFiniteSet(UNION S)
  BY <1>5, <1>6, FS_UNION
<1> QED
  BY <1>1, <1>2, <1>7 DEF S, Queue

\* If each thread of a set has one operation of Q still to run and the others none.
LEMMA CountIs ==
  ASSUME NEW sh, Programs(sh), NEW Q, NEW T \in SUBSET Threads,
         \A t \in Threads : Amount(Q, Program(sh[t])) = IF t \in T THEN 1 ELSE 0
  PROVE  Cardinality({tk \in Queue : todo[tk[1]][tk[2]] \in Q}) = Cardinality(T)
<1>1. \A t \in Threads : todo[t] = Program(sh[t]) /\ todo[t] \in Seq(Ops)
  BY QueueFinite
<1> DEFINE C == {tk \in Queue : todo[tk[1]][tk[2]] \in Q}
           K(t) == CHOOSE k : Places(Q, todo[t]) = {k}
           F == [t \in T |-> <<t, K(t)>>]
<1>2. \A q \in Seq(Ops) : IsFiniteSet(Places(Q, q))
  <2>1. <<>> \in Seq(Ops)
    OBVIOUS
  <2> QED
    BY <2>1, PlacesJoin
<1>3. \A t \in Threads : IF t \in T THEN Places(Q, todo[t]) = {K(t)} ELSE Places(Q, todo[t]) = {}
  <2> TAKE t \in Threads
  <2>1. IsFiniteSet(Places(Q, todo[t])) /\ Cardinality(Places(Q, todo[t])) = IF t \in T THEN 1 ELSE 0
    BY <1>1, <1>2 DEF Amount
  <2>2. CASE t \in T
    <3>1. \E k : Places(Q, todo[t]) = {k}
      BY <2>1, <2>2, FS_Singleton
    <3> QED
      BY <2>2, <3>1
  <2>3. CASE t \notin T
    BY <2>1, <2>3, FS_EmptySet
  <2> QED
    BY <2>2, <2>3
<1> HIDE DEF K
<1>4. /\ \A t \in T : K(t) \in DOMAIN todo[t] /\ todo[t][K(t)] \in Q
      /\ \A t \in Threads : \A k \in DOMAIN todo[t] : todo[t][k] \in Q => t \in T /\ k = K(t)
  BY <1>3 DEF Places
<1>5. \A t \in T : <<t, K(t)>> \in C
  BY <1>4 DEF Queue
<1>6. \A c \in C : \E t \in T : c = <<t, K(t)>>
  <2> SUFFICES ASSUME NEW t \in Threads, NEW k \in DOMAIN todo[t], <<t, k>> \in C
               PROVE  \E u \in T : <<t, k>> = <<u, K(u)>>
    BY DEF Queue
  <2>1. todo[t][k] \in Q
    OBVIOUS
  <2> QED
    BY <1>4, <2>1
<1> HIDE DEF C
<1>7. F \in Bijection(T, C)
  <2>1. F \in [T -> C]
    BY <1>5
  <2>2. \A t, u \in T : F[t] = F[u] => t = u
    OBVIOUS
  <2>3. \A c \in C : \E t \in T : F[t] = c
    BY <1>6
  <2> HIDE DEF F
  <2> QED
    BY <2>1, <2>2, <2>3 DEF Bijection, Injection, Surjection, IsInjective
<1>8. IsFiniteSet(T)
  BY FS_Subset, MapsAssumption
<1> HIDE DEF F
<1>9. Cardinality(C) = Cardinality(T)
  BY <1>7, <1>8, FS_Bijection DEF ExistsBijection
<1> QED
  BY <1>9 DEF C

\* Operations of the queue are operations.
LEMMA QueueOps ==
  ASSUME NEW sh, Programs(sh)
  PROVE  \A tk \in Queue : todo[tk[1]][tk[2]] \in Ops
<1>1. \A t \in Threads : \A k \in DOMAIN todo[t] : todo[t][k] \in Ops
  <2> TAKE t \in Threads
  <2>1. todo[t] \in Seq(Ops)
    BY QueueFinite
  <2> QED
    BY <2>1
<1> QED
  BY <1>1 DEF Queue

\* The windows about to be made, counted by operations and by stages.
LEMMA PendingMade ==
  ASSUME NEW sh, Programs(sh)
  PROVE  Pending(LAMBDA op : op.do = "mapped") = Cardinality(Making(sh))
<1> DEFINE Q == {op \in Ops : op.do = "mapped"}
<1>1. ASSUME NEW t \in Threads
      PROVE  Amount(Q, Program(sh[t])) = IF t \in Making(sh) THEN 1 ELSE 0
  <2> DEFINE s == sh[t]
  <2>1. WellFormed(s) /\ s \in Stages /\ s.k \in Kinds
    BY DEF Programs, WellFormed, Stages
  <2>2. /\ Op("mmfree", s.vs, s.bo, s.at) \notin Q /\ Op("mmfree", Bar, s.bo, s.bat) \notin Q
        /\ On("unref", s.bo) \notin Q /\ Op("place", s.vs, s.bo, Null) \notin Q /\ On("mapped", s.bo) \in Q
    <3>1. {"mmfree", "unref", "place", "mapped"} \subseteq Dos
      BY DEF Dos
    <3> QED
      BY <2>1, <3>1, OpsHere
  <2>3. \A op \in Q : op.do \in {"mmfree", "unref", "place", "mapped"}
    OBVIOUS
  <2> HIDE DEF Q, s
  <2>4. /\ s.k = "none" => Amount(Q, Program(s)) = 0
        /\ s.k = "mmap" => Amount(Q, Program(s)) = 1
        /\ s.k = "bad" => Amount(Q, Program(s)) = 0
        /\ s.k = "map" => Amount(Q, Program(s)) = 0
        /\ s.k = "down" => Amount(Q, Program(s)) = 0
    <3> DEFINE mf == IF Op("mmfree", s.vs, s.bo, s.at) \in Q THEN 1 ELSE 0
               bf == IF Op("mmfree", Bar, s.bo, s.bat) \in Q THEN 1 ELSE 0
               un == IF On("unref", s.bo) \in Q THEN 1 ELSE 0
               pl == IF Op("place", s.vs, s.bo, Null) \in Q THEN 1 ELSE 0
               mp == IF On("mapped", s.bo) \in Q THEN 1 ELSE 0
    <3>1. mf = 0 /\ bf = 0 /\ un = 0 /\ pl = 0 /\ mp = 1
      BY <2>2
    <3> QED
      BY <2>1, <2>3, <3>1, AmountProgram
  <2> QED
    BY <2>1, <2>4 DEF Making, Kinds, s
<1>2. \A tk \in Queue : todo[tk[1]][tk[2]] \in Q <=> todo[tk[1]][tk[2]].do = "mapped"
  BY QueueOps
<1> HIDE DEF Q
<1>3. Making(sh) \in SUBSET Threads
  BY DEF Making
<1>4. Cardinality({tk \in Queue : todo[tk[1]][tk[2]] \in Q}) = Cardinality(Making(sh))
  BY <1>1, <1>3, CountIs
<1>5. {tk \in Queue : todo[tk[1]][tk[2]] \in Q} = {tk \in Queue : todo[tk[1]][tk[2]].do = "mapped"}
  BY <1>2
<1> QED
  BY <1>4, <1>5, PendingIs

\* The references that are lent, counted by operations and by stages.
LEMMA PendingLent ==
  ASSUME NEW sh, Programs(sh), NEW b \in Bos
  PROVE  Pending(LAMBDA op : op.do = "mmfree" /\ op.bo = b /\ op.vs # Bar) = Cardinality(Lending(sh, b))
<1> DEFINE Q == {op \in Ops : op.do = "mmfree" /\ op.bo = b /\ op.vs # Bar}
<1>1. ASSUME NEW t \in Threads
      PROVE  Amount(Q, Program(sh[t])) = IF t \in Lending(sh, b) THEN 1 ELSE 0
  <2> DEFINE s == sh[t]
  <2>1. /\ WellFormed(s) /\ s \in Stages /\ s.k \in Kinds /\ Suits(s.pc, s.k)
        /\ (s.k \in {"map", "down"} => s.vs # Bar) /\ (s.k = "bad" => s.vs = Bar)
    BY Spaced DEF Programs, WellFormed, Stages
  <2>2. /\ Op("mmfree", s.vs, s.bo, s.at) \in Q <=> s.bo = b /\ s.vs # Bar
        /\ Op("mmfree", Bar, s.bo, s.bat) \notin Q
        /\ On("unref", s.bo) \notin Q /\ Op("place", s.vs, s.bo, Null) \notin Q /\ On("mapped", s.bo) \notin Q
    <3>1. {"mmfree", "unref", "place", "mapped"} \subseteq Dos
      BY DEF Dos
    <3>2. /\ Op("mmfree", s.vs, s.bo, s.at) \in Ops /\ Op("mmfree", s.vs, s.bo, s.at).do = "mmfree"
          /\ Op("mmfree", s.vs, s.bo, s.at).vs = s.vs /\ Op("mmfree", s.vs, s.bo, s.at).bo = s.bo
          /\ Op("mmfree", Bar, s.bo, s.bat).vs = Bar
          /\ On("unref", s.bo).do = "unref" /\ Op("place", s.vs, s.bo, Null).do = "place"
          /\ On("mapped", s.bo).do = "mapped"
      BY <2>1, <3>1, OpsHere, ZenonT(30) DEF Op
    <3> QED
      BY <3>2
  <2>3. \A op \in Q : op.do \in {"mmfree", "unref", "place", "mapped"}
    OBVIOUS
  <2> HIDE DEF Q, s
  <2> DEFINE mf == IF s.bo = b /\ s.vs # Bar THEN 1 ELSE 0
             bf == IF Op("mmfree", Bar, s.bo, s.bat) \in Q THEN 1 ELSE 0
             un == IF On("unref", s.bo) \in Q THEN 1 ELSE 0
             pl == IF Op("place", s.vs, s.bo, Null) \in Q THEN 1 ELSE 0
             mp == IF On("mapped", s.bo) \in Q THEN 1 ELSE 0
  <2>4. /\ mf = (IF Op("mmfree", s.vs, s.bo, s.at) \in Q THEN 1 ELSE 0)
        /\ bf = 0 /\ un = 0 /\ pl = 0 /\ mp = 0
    BY <2>2
  <2> HIDE DEF mf
  <2>5. /\ s.k = "none" => Amount(Q, Program(s)) = 0
        /\ s.k = "mmap" => Amount(Q, Program(s)) = 0
        /\ s.k = "bad" => Amount(Q, Program(s)) =
             IF s.pc \in {"undo", "undoflush", "clear", "flush", "mmfree"} THEN mf ELSE 0
        /\ s.k = "map" => Amount(Q, Program(s)) =
             IF s.pc \in {"undo", "undoflush", "clear", "flush", "put", "mmfree"} \cup Freeing THEN mf ELSE 0
        /\ s.k = "down" => Amount(Q, Program(s)) =
             IF s.pc \in {"put", "mmfree"} \cup Freeing THEN mf ELSE 0
    BY <2>1, <2>3, <2>4, AmountProgram DEF Freeing, WithNode, Suits
  <2>6. s.k \in {"map", "down"} =>
          (Has(s) /\ s.pc # "write" <=>
             s.pc \in {"undo", "undoflush", "clear", "flush", "put", "mmfree"} \cup Freeing)
    BY DEF Has, Freeing, WithNode
  <2>7. Amount(Q, Program(s)) = IF Lent(s, b) THEN 1 ELSE 0
    BY <2>1, <2>5, <2>6 DEF Lent, Kinds, mf, Suits
  <2> QED
    BY <2>7 DEF Lending, s
<1>2. \A tk \in Queue : todo[tk[1]][tk[2]] \in Q <=>
        /\ todo[tk[1]][tk[2]].do = "mmfree"
        /\ todo[tk[1]][tk[2]].bo = b /\ todo[tk[1]][tk[2]].vs # Bar
  BY QueueOps
<1> HIDE DEF Q
<1>3. Lending(sh, b) \in SUBSET Threads
  BY DEF Lending
<1>4. Cardinality({tk \in Queue : todo[tk[1]][tk[2]] \in Q}) = Cardinality(Lending(sh, b))
  BY <1>1, <1>3, CountIs
<1>5. {tk \in Queue : todo[tk[1]][tk[2]] \in Q} =
        {tk \in Queue : /\ todo[tk[1]][tk[2]].do = "mmfree"
                        /\ todo[tk[1]][tk[2]].bo = b /\ todo[tk[1]][tk[2]].vs # Bar}
  BY <1>2
<1> QED
  BY <1>4, <1>5 DEF Pending, Queue

\* The references that are owed, counted by operations and by stages.
LEMMA PendingOwed ==
  ASSUME NEW sh, Programs(sh), NEW b \in Bos
  PROVE  Pending(LAMBDA op : /\ op.do \in {"unref", "place", "mapped"}
                             /\ op.bo = b /\ op.vs # Bar) = Cardinality(Owing(sh, b))
<1> DEFINE Q == {op \in Ops : op.do \in {"unref", "place", "mapped"} /\ op.bo = b /\ op.vs # Bar}
<1>1. ASSUME NEW t \in Threads
      PROVE  Amount(Q, Program(sh[t])) = IF t \in Owing(sh, b) THEN 1 ELSE 0
  <2> DEFINE s == sh[t]
  <2>1. /\ WellFormed(s) /\ s \in Stages /\ s.k \in Kinds /\ Suits(s.pc, s.k)
        /\ (s.k \in {"map", "down"} => s.vs # Bar) /\ (s.k \in {"bad", "mmap"} => s.vs = Bar)
    BY Spaced DEF Programs, WellFormed, Stages
  <2>2. /\ Op("mmfree", s.vs, s.bo, s.at) \notin Q
        /\ Op("mmfree", Bar, s.bo, s.bat) \notin Q
        /\ On("unref", s.bo) \in Q <=> s.bo = b
        /\ Op("place", s.vs, s.bo, Null) \in Q <=> s.bo = b /\ s.vs # Bar
        /\ On("mapped", s.bo) \in Q <=> s.bo = b
    <3>1. {"mmfree", "unref", "place", "mapped"} \subseteq Dos
      BY DEF Dos
    <3>2. /\ Op("mmfree", s.vs, s.bo, s.at).do = "mmfree" /\ Op("mmfree", Bar, s.bo, s.bat).do = "mmfree"
          /\ On("unref", s.bo) \in Ops /\ On("mapped", s.bo) \in Ops /\ Op("place", s.vs, s.bo, Null) \in Ops
          /\ On("unref", s.bo).do = "unref" /\ Op("place", s.vs, s.bo, Null).do = "place"
          /\ On("mapped", s.bo).do = "mapped"
      BY <2>1, <3>1, OpsHere
    <3>3. /\ On("unref", s.bo).bo = s.bo /\ On("mapped", s.bo).bo = s.bo
          /\ On("unref", s.bo).vs = Null /\ On("mapped", s.bo).vs = Null
          /\ Op("place", s.vs, s.bo, Null).bo = s.bo /\ Op("place", s.vs, s.bo, Null).vs = s.vs
      BY DEF On, Op
    <3>4. Null # Bar
      BY Spaced, MapsAssumption
    <3> QED
      BY <3>2, <3>3, <3>4
  <2>3. \A op \in Q : op.do \in {"mmfree", "unref", "place", "mapped"}
    OBVIOUS
  <2> HIDE DEF Q, s
  <2> DEFINE mf == IF Op("mmfree", s.vs, s.bo, s.at) \in Q THEN 1 ELSE 0
             bf == IF Op("mmfree", Bar, s.bo, s.bat) \in Q THEN 1 ELSE 0
             un == IF s.bo = b THEN 1 ELSE 0
             pl == IF s.bo = b /\ s.vs # Bar THEN 1 ELSE 0
  <2>4. /\ un = (IF On("unref", s.bo) \in Q THEN 1 ELSE 0)
        /\ un = (IF On("mapped", s.bo) \in Q THEN 1 ELSE 0)
        /\ pl = (IF Op("place", s.vs, s.bo, Null) \in Q THEN 1 ELSE 0)
        /\ mf = 0 /\ bf = 0
    BY <2>2
  <2>5. (s.k = "map" => pl = un) /\ (s.k = "mmap" => pl = 0) /\ un \in Int
    BY <2>1
  <2> HIDE DEF un, pl
  <2>6. /\ s.k = "none" => Amount(Q, Program(s)) = IF s.pc = "drop" THEN un ELSE 0
        /\ s.k = "mmap" => Amount(Q, Program(s)) = un
        /\ s.k = "bad" => Amount(Q, Program(s)) = un
        /\ s.k = "map" => Amount(Q, Program(s)) =
             IF s.pc \in {"lockplace", "place", "undo", "undoflush", "clear", "flush", "put"} THEN un ELSE 0
        /\ s.k = "down" => Amount(Q, Program(s)) = IF s.pc = "put" THEN un ELSE 0
    BY <2>1, <2>3, <2>4, <2>5, AmountProgram
  <2>7. Amount(Q, Program(s)) = IF Owes(s, b) THEN 1 ELSE 0
    <3>1. s.k = "none" => s.pc # "put"
      BY <2>1 DEF Suits, Freeing
    <3>2. s.k \in {"map", "down"} => s.pc # "drop"
      BY <2>1 DEF Suits, Freeing, WithNode
    <3> QED
      BY <2>1, <2>6, <3>1, <3>2 DEF Owes, Kinds, un
  <2> QED
    BY <2>7 DEF Owing, s
<1>2. \A tk \in Queue : todo[tk[1]][tk[2]] \in Q <=>
        /\ todo[tk[1]][tk[2]].do \in {"unref", "place", "mapped"}
        /\ todo[tk[1]][tk[2]].bo = b /\ todo[tk[1]][tk[2]].vs # Bar
  BY QueueOps
<1> HIDE DEF Q
<1>3. Owing(sh, b) \in SUBSET Threads
  BY DEF Owing
<1>4. Cardinality({tk \in Queue : todo[tk[1]][tk[2]] \in Q}) = Cardinality(Owing(sh, b))
  BY <1>1, <1>3, CountIs
<1>5. {tk \in Queue : todo[tk[1]][tk[2]] \in Q} =
        {tk \in Queue : /\ todo[tk[1]][tk[2]].do \in {"unref", "place", "mapped"}
                        /\ todo[tk[1]][tk[2]].bo = b /\ todo[tk[1]][tk[2]].vs # Bar}
  BY <1>2
<1> QED
  BY <1>4, <1>5 DEF Pending, Queue

\* No thread is at work in an address space that no pending operation names.
LEMMA NoneThere ==
  ASSUME NEW sh, Programs(sh), NEW vs \in Vs, Pending(LAMBDA op : op.vs = vs) = 0,
         NEW t \in Threads, sh[t].k = "map"
  PROVE  sh[t].vs # vs
<1> DEFINE s == sh[t]
           q == Program(s)
<1>1. {tk \in Queue : todo[tk[1]][tk[2]].vs = vs} = {}
  <2> DEFINE C == {tk \in Queue : todo[tk[1]][tk[2]].vs = vs}
  <2>1. IsFiniteSet(Queue) /\ C \subseteq Queue
    BY QueueFinite
  <2>2. Cardinality(C) = 0
    BY PendingIs
  <2> HIDE DEF C
  <2>3. IsFiniteSet(C)
    BY <2>1, FS_Subset
  <2>4. C = {}
    BY <2>2, <2>3, FS_EmptySet
  <2> QED
    BY <2>4 DEF C
<1>2. \A k \in DOMAIN q : q[k].vs # vs
  <2> TAKE k \in DOMAIN q
  <2>1. todo[t] = q
    BY QueueFinite
  <2>2. <<t, k>> \in Queue
    BY <2>1 DEF Queue
  <2> QED
    BY <1>1, <2>1, <2>2
<1>3. WellFormed(s) /\ s \in Stages /\ s.k = "map" /\ Suits(s.pc, s.k)
  BY DEF Programs, WellFormed
<1> HIDE DEF s
<1>4. ASSUME s.vs = vs
      PROVE  FALSE
  <2>1. CASE s.pc \in {"put"} \cup Freeing
    <3> DEFINE Q == {Op("mmfree", s.vs, s.bo, s.at)}
    <3>1. Places(Q, q) = {}
      <4>1. Op("mmfree", s.vs, s.bo, s.at).vs = vs
        BY <1>4 DEF Op
      <4> HIDE DEF q
      <4> QED
        BY <1>2, <4>1 DEF Places
    <3>2. Amount(Q, q) = 0
      BY <3>1, FS_EmptySet DEF Amount
    <3>3. \A op \in Q : op.do \in {"mmfree", "unref", "place", "mapped"}
      BY DEF Op
    <3> DEFINE mf == IF Op("mmfree", s.vs, s.bo, s.at) \in Q THEN 1 ELSE 0
               bf == IF Op("mmfree", Bar, s.bo, s.bat) \in Q THEN 1 ELSE 0
               un == IF On("unref", s.bo) \in Q THEN 1 ELSE 0
               pl == IF Op("place", s.vs, s.bo, Null) \in Q THEN 1 ELSE 0
               mp == IF On("mapped", s.bo) \in Q THEN 1 ELSE 0
    <3>4. mf = 1
      OBVIOUS
    <3>5. bf >= 0 /\ un >= 0 /\ bf \in Int /\ un \in Int
      OBVIOUS
    <3>6. Amount(Q, Program(s)) = IF s.pc = "put" THEN un + mf
                                  ELSE IF s.pc \in {"funlock", "release"} THEN mf ELSE bf + mf
      <4> HIDE DEF Q
      <4> QED
        BY <1>3, <2>1, <3>3, AmountProgram DEF Freeing
    <3> HIDE DEF Q, mf, bf, un
    <3> QED
      BY <3>2, <3>4, <3>5, <3>6
  <2>2. CASE s.pc \notin {"put"} \cup Freeing
    <3>1. NowOf(s).vs = vs
      <4>1. /\ s.pc \in {"lockplace", "place", "lockfind", "find", "unlock", "write", "undo", "undoflush",
                         "clear", "flush", "mmfree"}
        BY <1>3, <2>2 DEF Suits, WithNode
      <4> QED
        BY <1>4, <4>1, NowOfIs DEF Op, Lock, Unlock
    <3> DEFINE op == NowOf(s)
               r == Program(After(s))
    <3>2. q = Do(op, r) /\ op \in Ops /\ r \in Seq(Ops)
      <4>1. s.pc # "idle"
        BY <1>3 DEF Suits, WithNode, Freeing
      <4> QED
        BY <1>3, <4>1, ProgramStep
    <3> HIDE DEF op, r, q
    <3>3. q \in Seq(Ops) /\ q # <<>> /\ Head(q) = op
      BY <3>2, DoIs
    <3>4. 1 \in DOMAIN q /\ q[1] = op
      BY <3>3
    <3> QED
      BY <1>2, <3>1, <3>4 DEF op
  <2> QED
    BY <2>1, <2>2
<1> QED
  BY <1>4 DEF s

-----------------------------------------------------------------------------
(* What threads have                                                       *)

\* The features of a stage that is well formed.
LEMMA FormIs ==
  ASSUME NEW s, WellFormed(s)
  PROVE  /\ s \in Stages /\ s.pc \in Pcs /\ s.k \in Kinds /\ Suits(s.pc, s.k)
         /\ (s.k \in {"map", "down"} => s.vs \in Vs /\ s.vs \in Spaces /\ s.vs # Bar)
         /\ (s.k \in {"mmap", "bad"} => s.vs = Bar)
         /\ (Has(s) => s.k # "none" /\ s.bo \in Bos /\ s.at \in Int /\ s.vs \in Spaces)
         /\ (s.pc \in Freeing => s.k \in {"none", "map", "down"} /\ s.bo \in Bos)
<1>1. s \in Stages /\ s.pc \in Pcs /\ s.k \in Kinds /\ Suits(s.pc, s.k)
  BY DEF WellFormed, Stages
<1>2. (s.k \in {"map", "down"} => s.vs \in Vs /\ s.vs \in Spaces /\ s.vs # Bar)
      /\ (s.k \in {"mmap", "bad"} => s.vs = Bar)
  BY Spaced DEF WellFormed
<1>3. s.pc \in Freeing => s.k \in {"none", "map", "down"} /\ s.bo \in Bos
  BY <1>1 DEF WellFormed, Suits, Freeing, Kinds
<1>4. Has(s) => s.k # "none"
  BY <1>1 DEF Suits, Has, WithNode, Freeing
<1>5. Has(s) => s.bo \in Bos /\ s.at \in Int
  BY <1>1, <1>3 DEF WellFormed, Has, WithNode, Freeing
<1>6. Has(s) => s.vs \in Spaces
  BY <1>1, <1>2, <1>4, Spaced DEF Kinds
<1> QED
  BY <1>1, <1>2, <1>3, <1>4, <1>5, <1>6

\* Who is busy with a node is alone in its address space.
LEMMA OwnsOnce ==
  ASSUME NEW sh, Programs(sh), Locks(sh), Downs(sh), NEW vs \in Spaces,
         NEW t \in Threads, NEW u \in Threads, NEW m, NEW n, Owns(sh[t], vs, m), Owns(sh[u], vs, n)
  PROVE  t = u /\ m = n
<1>1. ASSUME NEW x \in Threads, NEW l, Owns(sh[x], vs, l)
      PROVE  /\ \/ lock[vs] = x
                \/ sh[x].k = "down" /\ sh[x].vs = vs /\ vs \in Vs /\ ~alive[vs]
             /\ vs # Bar => Has(sh[x]) /\ vs = sh[x].vs /\ l = NodeOf(sh[x])
             /\ vs = Bar => IF sh[x].k \in {"mmap", "bad"} THEN l = NodeOf(sh[x]) ELSE l = BarNode(sh[x])
  <2> DEFINE s == sh[x]
  <2>1. WellFormed(s)
    BY DEF Programs
  <2>2. Holding(s, vs) => lock[vs] = x
    BY DEF Locks
  <2>3. s.k = "down" => ~alive[s.vs]
    BY DEF Downs
  <2> HIDE DEF s
  <2>4. CASE Has(s) /\ vs = s.vs /\ l = NodeOf(s)
    <3>1. s.k # "down" => Holding(s, vs)
      BY <2>1, <2>4, FormIs DEF Holding, Has, WithNode, Locked, Freeing, Kinds, Suits
    <3> QED
      BY <2>1, <2>2, <2>3, <2>4, <3>1, FormIs DEF Kinds, s
  <2>5. CASE s.pc \in {"fclear", "fflush", "fmmfree"} /\ vs = Bar /\ l = BarNode(s)
    <3>1. Holding(s, vs)
      BY <2>5 DEF Holding, BarLocked
    <3>2. s.k \notin {"mmap", "bad"}
      BY <2>1, <2>5, FormIs DEF Freeing
    <3> QED
      BY <2>2, <2>5, <3>1, <3>2 DEF s
  <2> QED
    BY <1>1, <2>4, <2>5 DEF Owns, s
<1>2. ASSUME NEW x \in Threads, lock[vs] = x, NEW y \in Threads,
             sh[y].k = "down" /\ sh[y].vs = vs /\ vs \in Vs /\ ~alive[vs]
      PROVE  FALSE
  <2>1. Holding(sh[x], vs) /\ WellFormed(sh[x])
    BY <1>2 DEF Locks, Programs
  <2>2. vs # Bar
    BY <1>2, Spaced
  <2>3. sh[x].k = "map" /\ sh[x].vs = vs
    <3> DEFINE s == sh[x]
    <3>1. WellFormed(s) /\ Holding(s, vs)
      BY <2>1
    <3> HIDE DEF s
    <3>2. s.vs = vs /\ s.k # "down"
      BY <2>2, <3>1 DEF Holding
    <3>3. s.k \in Kinds /\ (s.k \in {"mmap", "bad"} => s.vs = Bar) /\ Suits(s.pc, s.k)
      BY <3>1, FormIs
    <3>4. s.k # "none"
      BY <2>2, <3>1, <3>3 DEF Holding, Suits, Locked, Freeing
    <3> QED
      BY <2>2, <3>2, <3>3, <3>4 DEF Kinds, s
  <2> QED
    BY <1>2, <2>3 DEF Downs
<1>3. t = u
  <2>1. \/ lock[vs] = t
        \/ sh[t].k = "down" /\ sh[t].vs = vs /\ vs \in Vs /\ ~alive[vs]
    BY <1>1
  <2>2. \/ lock[vs] = u
        \/ sh[u].k = "down" /\ sh[u].vs = vs /\ vs \in Vs /\ ~alive[vs]
    BY <1>1
  <2> QED
    BY <1>2, <2>1, <2>2 DEF Downs
<1>4. m = n
  BY <1>1, <1>3
<1> QED
  BY <1>3, <1>4

\* Whoever is busy with a node of an address space in use has its mutex.
LEMMA OwnerHolds ==
  ASSUME NEW sh, Programs(sh), Downs(sh), NEW t \in Threads, NEW vs \in Spaces, alive[vs],
         NEW n, Owns(sh[t], vs, n)
  PROVE  Holding(sh[t], vs)
<1> DEFINE s == sh[t]
<1>1. WellFormed(s) /\ (s.k = "down" => s.vs # vs)
  BY DEF Programs, Downs
<1>2. s.pc \in Freeing => s.k \in {"none", "map", "down"}
  BY <1>1, FormIs
<1>3. CASE Has(s) /\ vs = s.vs
  BY <1>1, <1>2, <1>3 DEF Holding, Has, WithNode, Locked
<1>4. CASE s.pc \in {"fclear", "fflush", "fmmfree"} /\ vs = Bar
  BY <1>4 DEF Holding, BarLocked
<1> QED
  BY <1>3, <1>4 DEF Owns

\* Threads are finitely many, so what they have can be counted.
LEMMA CountsFinite ==
  ASSUME NEW sh, NEW b
  PROVE  /\ IsFiniteSet(Lending(sh, b)) /\ Cardinality(Lending(sh, b)) \in Nat
         /\ IsFiniteSet(Owing(sh, b)) /\ Cardinality(Owing(sh, b)) \in Nat
         /\ IsFiniteSet(Making(sh)) /\ Cardinality(Making(sh)) \in Nat
<1>1. Lending(sh, b) \in SUBSET Threads /\ Owing(sh, b) \in SUBSET Threads /\ Making(sh) \in SUBSET Threads
  BY DEF Lending, Owing, Making
<1>2. IsFiniteSet(Threads)
  BY MapsAssumption
<1>3. IsFiniteSet(Lending(sh, b)) /\ IsFiniteSet(Owing(sh, b)) /\ IsFiniteSet(Making(sh))
  BY <1>1, <1>2, FS_Subset
<1> QED
  BY <1>3, FS_CardinalityType

\* The references of an object cover what is not lent.
Held(sh, b) == (IF handle[b] THEN 1 ELSE 0) + mmaps[b] + leaked[b] + Cardinality(Owing(sh, b))

\* No more is lent of an object than is mapped of it; if all is, each mapping is lent by its
\* thread.
LEMMA Covering ==
  ASSUME NEW sh, Programs(sh), Types, Locks(sh), Nodes(sh), Downs(sh), Balance(sh), NEW b \in Bos
  PROVE  /\ gref[b] >= Held(sh, b) /\ Held(sh, b) \in Nat
         /\ gref[b] = Held(sh, b) =>
              \A vs \in Vs : \A n \in nodes[vs] : n.bo = b =>
                \E t \in Threads : Lent(sh[t], b) /\ sh[t].vs = vs /\ NodeOf(sh[t]) = n
<1> DEFINE L == Lending(sh, b)
           M == MappedBy(b)
           F == [t \in L |-> <<sh[t].vs, NodeOf(sh[t])>>]
<1>1. ASSUME NEW t \in L
      PROVE  <<sh[t].vs, NodeOf(sh[t])>> \in M /\ Owns(sh[t], sh[t].vs, NodeOf(sh[t])) /\ sh[t].vs \in Spaces
  <2>1. t \in Threads /\ Lent(sh[t], b) /\ WellFormed(sh[t])
    BY DEF Lending, Programs
  <2>2. Has(sh[t]) /\ sh[t].bo = b /\ sh[t].k \in {"map", "down"}
    BY <2>1 DEF Lent
  <2>3. NodeOf(sh[t]) \in nodes[sh[t].vs] /\ sh[t].vs \in Vs /\ sh[t].vs \in Spaces
    BY <2>1, <2>2, FormIs DEF Nodes
  <2>4. NodeOf(sh[t]).bo = b
    BY <2>2 DEF NodeOf, Node
  <2> QED
    BY <2>2, <2>3, <2>4 DEF MappedBy, Owns
<1>2. \A t, u \in L : F[t] = F[u] => t = u
  <2> SUFFICES ASSUME NEW t \in L, NEW u \in L, F[t] = F[u]
               PROVE  t = u
    OBVIOUS
  <2>1. sh[t].vs = sh[u].vs
    OBVIOUS
  <2>2. t \in Threads /\ u \in Threads
    BY DEF Lending
  <2> QED
    BY <1>1, <2>1, <2>2, OwnsOnce
<1>3. F \in [L -> M]
  BY <1>1
<1>4. /\ IsFiniteSet(M)
      /\ gref[b] + Cardinality(L) = (IF handle[b] THEN 1 ELSE 0) + mmaps[b] + leaked[b]
             + Cardinality(M) + Cardinality(Owing(sh, b))
  BY DEF Balance
<1>5. \A t \in L : F[t] = <<sh[t].vs, NodeOf(sh[t])>> /\ t \in Threads /\ Lent(sh[t], b)
  BY DEF Lending
<1>6. \A vs \in Vs : \A n \in nodes[vs] : n.bo = b => <<vs, n>> \in M
  BY DEF MappedBy
<1> HIDE DEF F, L, M
<1>7. F \in Injection(L, M)
  BY <1>2, <1>3 DEF Injection, IsInjective
<1>8. /\ Cardinality(L) <= Cardinality(M) /\ (Cardinality(L) = Cardinality(M) => F \in Surjection(L, M))
  BY <1>4, <1>7, FS_Injection
<1>9. /\ Cardinality(L) \in Nat /\ Cardinality(Owing(sh, b)) \in Nat /\ Cardinality(M) \in Nat
      /\ gref[b] \in Nat /\ mmaps[b] \in Nat /\ leaked[b] \in Nat
  BY <1>4, CountsFinite, FS_CardinalityType DEF Types, L
<1>10. gref[b] >= Held(sh, b) /\ Held(sh, b) \in Nat
       /\ (gref[b] = Held(sh, b) => Cardinality(L) = Cardinality(M))
  BY <1>4, <1>8, <1>9 DEF Held
<1>11. ASSUME gref[b] = Held(sh, b), NEW vs \in Vs, NEW n \in nodes[vs], n.bo = b
       PROVE  \E t \in Threads : Lent(sh[t], b) /\ sh[t].vs = vs /\ NodeOf(sh[t]) = n
  <2>1. F \in Surjection(L, M)
    BY <1>8, <1>10, <1>11
  <2>2. <<vs, n>> \in M
    BY <1>6, <1>11
  <2>3. PICK t \in L : F[t] = <<vs, n>>
    BY <2>1, <2>2 DEF Surjection
  <2> QED
    BY <1>5, <2>3
<1> QED
  BY <1>10, <1>11

\* Whoever has a reference keeps the object.
LEMMA Keeping ==
  ASSUME NEW sh, Programs(sh), Types, Locks(sh), Nodes(sh), Downs(sh), Balance(sh), NEW b \in Bos
  PROVE  /\ handle[b] \/ mmaps[b] > 0 => gref[b] > 0
         /\ \A t \in Threads : Owes(sh[t], b) => gref[b] > 0
         /\ \A t, u \in Threads : Owes(sh[t], b) /\ Owes(sh[u], b) /\ gref[b] = 1 => t = u
         /\ \A t \in Threads : Owes(sh[t], b) /\ gref[b] = 1 => ~handle[b] /\ mmaps[b] = 0
         /\ gref[b] = 0 =>
              \A vs \in Vs : \A n \in nodes[vs] : n.bo = b =>
                \E t \in Threads : Lent(sh[t], b) /\ sh[t].vs = vs /\ NodeOf(sh[t]) = n
<1> DEFINE O == Owing(sh, b)
<1>1. gref[b] >= Held(sh, b) /\ Held(sh, b) \in Nat
  BY Covering
<1>2. gref[b] \in Nat /\ mmaps[b] \in Nat /\ leaked[b] \in Nat /\ handle[b] \in BOOLEAN
  BY DEF Types
<1>3. IsFiniteSet(O) /\ Cardinality(O) \in Nat
  BY CountsFinite
<1>4. Held(sh, b) = (IF handle[b] THEN 1 ELSE 0) + mmaps[b] + leaked[b] + Cardinality(O)
  BY DEF Held
<1>5. \A t \in Threads : Owes(sh[t], b) => t \in O
  BY DEF Owing
<1> HIDE DEF O
<1>6. \A t \in O : Cardinality(O) > 0
  BY <1>3, FS_EmptySet
<1>7. ASSUME NEW t \in O, NEW u \in O, t # u
      PROVE  Cardinality(O) > 1
  <2>1. Cardinality(O) # 1
    BY <1>3, <1>7, FS_Singleton
  <2> QED
    BY <1>3, <1>6, <2>1
<1>8. gref[b] = 0 => gref[b] = Held(sh, b)
  BY <1>1, <1>2
<1>9. gref[b] = 0 =>
        \A vs \in Vs : \A n \in nodes[vs] : n.bo = b =>
          \E t \in Threads : Lent(sh[t], b) /\ sh[t].vs = vs /\ NodeOf(sh[t]) = n
  BY <1>8, Covering
<1>10. handle[b] \/ mmaps[b] > 0 => gref[b] > 0
  BY <1>1, <1>2, <1>3, <1>4
<1>11. \A t \in Threads : Owes(sh[t], b) => gref[b] > 0
  BY <1>1, <1>2, <1>3, <1>4, <1>5, <1>6
<1>12. \A t, u \in Threads : Owes(sh[t], b) /\ Owes(sh[u], b) /\ gref[b] = 1 => t = u
  BY <1>1, <1>2, <1>3, <1>4, <1>5, <1>7
<1>13. \A t \in Threads : Owes(sh[t], b) /\ gref[b] = 1 => ~handle[b] /\ mmaps[b] = 0
  BY <1>1, <1>2, <1>3, <1>4, <1>5, <1>6
<1> QED
  BY <1>9, <1>10, <1>11, <1>12, <1>13

-----------------------------------------------------------------------------
(* What a step has to keep.  One thread moves, from sh[t] to sh2[t]; each  *)
(* lemma says what the step must not do, and what is true of its thread.   *)

One(p) == IF p THEN 1 ELSE 0

\* A set of threads that differs from another in one thread at most.
LEMMA CountMoves ==
  ASSUME NEW A \in SUBSET Threads, NEW B \in SUBSET Threads, NEW t \in Threads,
         \A u \in Threads : u # t => (u \in A <=> u \in B)
  PROVE  /\ Cardinality(A) \in Nat /\ Cardinality(B) \in Nat
         /\ Cardinality(B) = Cardinality(A) + One(t \in B) - One(t \in A)
<1>1. IsFiniteSet(A) /\ IsFiniteSet(B)
  BY FS_Subset, MapsAssumption
<1>2. Cardinality(A) \in Nat /\ Cardinality(B) \in Nat
  BY <1>1, FS_CardinalityType
<1>3. A \ {t} = B \ {t}
  OBVIOUS
<1>4. /\ Cardinality(A \ {t}) = Cardinality(A) - One(t \in A)
      /\ Cardinality(B \ {t}) = Cardinality(B) - One(t \in B)
  <2>1. Cardinality(A \ {t}) = IF t \in A THEN Cardinality(A) - 1 ELSE Cardinality(A)
    BY <1>1, FS_RemoveElement
  <2>2. Cardinality(B \ {t}) = IF t \in B THEN Cardinality(B) - 1 ELSE Cardinality(B)
    BY <1>1, FS_RemoveElement
  <2> QED
    BY <1>2, <2>1, <2>2 DEF One
<1> DEFINE a == Cardinality(A)
           b == Cardinality(B)
           c == Cardinality(A \ {t})
           x == One(t \in A)
           y == One(t \in B)
<1>5. a \in Int /\ b \in Int /\ c = a - x /\ c = b - y /\ x \in Int /\ y \in Int
  BY <1>2, <1>3, <1>4 DEF One
<1>6. b = a + y - x
  <2> HIDE DEF a, b, c, x, y
  <2> QED
    BY <1>5
<1> QED
  BY <1>2, <1>6

\* What the thread that moves adds to the counts.
LEMMA Counts ==
  ASSUME NEW sh, NEW sh2, NEW t \in Threads, Moves(sh, sh2, t), NEW b
  PROVE  /\ Cardinality(Lending(sh2, b)) =
              Cardinality(Lending(sh, b)) + One(Lent(sh2[t], b)) - One(Lent(sh[t], b))
         /\ Cardinality(Owing(sh2, b)) =
              Cardinality(Owing(sh, b)) + One(Owes(sh2[t], b)) - One(Owes(sh[t], b))
         /\ Cardinality(Making(sh2)) =
              Cardinality(Making(sh)) + One(sh2[t].k = "mmap") - One(sh[t].k = "mmap")
<1>1. \A u \in Threads : u # t => sh2[u] = sh[u]
  BY DEF Moves
<1>2. /\ Lending(sh, b) \in SUBSET Threads /\ Lending(sh2, b) \in SUBSET Threads
      /\ \A u \in Threads : u # t => (u \in Lending(sh, b) <=> u \in Lending(sh2, b))
      /\ (t \in Lending(sh, b) <=> Lent(sh[t], b)) /\ (t \in Lending(sh2, b) <=> Lent(sh2[t], b))
  BY <1>1 DEF Lending
<1>3. /\ Owing(sh, b) \in SUBSET Threads /\ Owing(sh2, b) \in SUBSET Threads
      /\ \A u \in Threads : u # t => (u \in Owing(sh, b) <=> u \in Owing(sh2, b))
      /\ (t \in Owing(sh, b) <=> Owes(sh[t], b)) /\ (t \in Owing(sh2, b) <=> Owes(sh2[t], b))
  BY <1>1 DEF Owing
<1>4. /\ Making(sh) \in SUBSET Threads /\ Making(sh2) \in SUBSET Threads
      /\ \A u \in Threads : u # t => (u \in Making(sh) <=> u \in Making(sh2))
      /\ (t \in Making(sh) <=> sh[t].k = "mmap") /\ (t \in Making(sh2) <=> sh2[t].k = "mmap")
  BY <1>1 DEF Making
<1>5. Cardinality(Lending(sh2, b)) =
        Cardinality(Lending(sh, b)) + One(t \in Lending(sh2, b)) - One(t \in Lending(sh, b))
  BY <1>2, CountMoves
<1>6. Cardinality(Owing(sh2, b)) =
        Cardinality(Owing(sh, b)) + One(t \in Owing(sh2, b)) - One(t \in Owing(sh, b))
  BY <1>3, CountMoves
<1>7. Cardinality(Making(sh2)) =
        Cardinality(Making(sh)) + One(t \in Making(sh2)) - One(t \in Making(sh))
  BY <1>4, CountMoves
<1> QED
  BY <1>2, <1>3, <1>4, <1>5, <1>6, <1>7 DEF One

\* The mutexes, if the step takes and drops none.
LEMMA KeepLocks ==
  ASSUME NEW sh, Locks(sh), NEW sh2, NEW t \in Threads, Moves(sh, sh2, t),
         UNCHANGED lock, \A vs \in Spaces : Holding(sh2[t], vs) <=> Holding(sh[t], vs)
  PROVE  Locks(sh2)'
BY DEF Locks, Moves

\* The mutexes, if the step takes one that is free.
LEMMA TakeLock ==
  ASSUME NEW sh, Locks(sh), Types, NEW sh2, NEW t \in Threads, Moves(sh, sh2, t), NEW v \in Spaces,
         lock[v] = Null, lock' = [lock EXCEPT ![v] = t],
         \A vs \in Spaces : Holding(sh2[t], vs) <=> Holding(sh[t], vs) \/ vs = v
  PROVE  Locks(sh2)'
<1>1. \A vs \in Spaces : lock'[vs] = IF vs = v THEN t ELSE lock[vs]
  BY DEF Types
<1>2. \A u \in Threads : u # t => sh2[u] = sh[u]
  BY DEF Moves
<1>3. Null \notin Threads
  BY MapsAssumption
<1> QED
  BY <1>1, <1>2, <1>3 DEF Locks

\* The mutexes, if the step drops one.
LEMMA DropLock ==
  ASSUME NEW sh, Locks(sh), Types, NEW sh2, NEW t \in Threads, Moves(sh, sh2, t), NEW v \in Spaces,
         lock[v] = t, lock' = [lock EXCEPT ![v] = Null], ~Holding(sh2[t], v),
         \A vs \in Spaces : vs # v => (Holding(sh2[t], vs) <=> Holding(sh[t], vs))
  PROVE  Locks(sh2)'
<1>1. \A vs \in Spaces : lock'[vs] = IF vs = v THEN Null ELSE lock[vs]
  BY DEF Types
<1>2. \A u \in Threads : u # t => sh2[u] = sh[u]
  BY DEF Moves
<1>3. Null \notin Threads
  BY MapsAssumption
<1> QED
  BY <1>1, <1>2, <1>3 DEF Locks

\* The nodes, if they are left alone.
LEMMA KeepNodes ==
  ASSUME NEW sh, Nodes(sh), NEW sh2, NEW t \in Threads, Moves(sh, sh2, t),
         UNCHANGED nodes, Has(sh2[t]) => NodeOf(sh2[t]) \in nodes[sh2[t].vs]
  PROVE  Nodes(sh2)'
<1>1. \A u \in Threads : u # t => sh2[u] = sh[u]
  BY DEF Moves
<1>2. \A u \in Threads : Has(sh2[u]) => NodeOf(sh2[u]) \in nodes[sh2[u].vs]
  BY <1>1 DEF Nodes
<1> QED
  BY <1>2 DEF Nodes

\* The address spaces that are taken down, if none starts to be.
LEMMA KeepDowns ==
  ASSUME NEW sh, Downs(sh), NEW sh2, NEW t \in Threads, Moves(sh, sh2, t),
         UNCHANGED alive,
         sh2[t].k = "down" => sh[t].k = "down" /\ sh2[t].vs = sh[t].vs,
         sh[t].k = "down" => (sh2[t].k = "down" /\ sh2[t].vs = sh[t].vs) \/ nodes'[sh[t].vs] = {},
         sh2[t].k = "map" => alive[sh2[t].vs],
         \A vs \in Vs : ~alive[vs] /\ nodes'[vs] # {} => nodes[vs] # {}
  PROVE  Downs(sh2)'
<1>1. \A u \in Threads : u # t => sh2[u] = sh[u]
  BY DEF Moves
<1>2. \A u \in Threads, vs \in Vs :
        sh[u].k = "down" /\ sh[u].vs = vs => (sh2[u].k = "down" /\ sh2[u].vs = vs) \/ nodes'[vs] = {}
  <2> TAKE u \in Threads, vs \in Vs
  <2>1. CASE u = t
    BY <2>1
  <2>2. CASE u # t
    BY <1>1, <2>2
  <2> QED
    BY <2>1, <2>2
<1>3. \A u \in Threads : sh2[u].k = "down" => sh[u].k = "down" /\ sh[u].vs = sh2[u].vs
  BY <1>1
<1>4. \A u \in Threads : sh2[u].k = "map" => alive[sh2[u].vs]
  BY <1>1 DEF Downs
<1>5. \A vs \in Vs : ~alive[vs] /\ nodes'[vs] # {} => \E u \in Threads : sh2[u].k = "down" /\ sh2[u].vs = vs
  <2> SUFFICES ASSUME NEW vs \in Vs, ~alive[vs], nodes'[vs] # {}
               PROVE  \E u \in Threads : sh2[u].k = "down" /\ sh2[u].vs = vs
    OBVIOUS
  <2>1. PICK u \in Threads : sh[u].k = "down" /\ sh[u].vs = vs
    BY DEF Downs
  <2> QED
    BY <1>2, <2>1
<1> QED
  BY <1>3, <1>4, <1>5 DEF Downs

\* The balance, from what the step adds to either side.
LEMMA KeepBalance ==
  ASSUME NEW sh, Balance(sh), Types, Types', NEW sh2, NEW t \in Threads, Moves(sh, sh2, t),
         \A b \in Bos :
           /\ IsFiniteSet(MappedBy(b)') /\ Cardinality(MappedBy(b)) \in Nat /\ Cardinality(MappedBy(b)') \in Nat
           /\ gref'[b] - gref[b] + One(Lent(sh2[t], b)) - One(Lent(sh[t], b))
                = One(handle'[b]) - One(handle[b]) + (mmaps'[b] - mmaps[b]) + (leaked'[b] - leaked[b])
                  + (Cardinality(MappedBy(b)') - Cardinality(MappedBy(b)))
                  + One(Owes(sh2[t], b)) - One(Owes(sh[t], b))
  PROVE  Balance(sh2)'
<1> SUFFICES ASSUME NEW b \in Bos
             PROVE  gref'[b] + Cardinality(Lending(sh2, b))
                      = One(handle'[b]) + mmaps'[b] + leaked'[b]
                          + Cardinality(MappedBy(b)') + Cardinality(Owing(sh2, b))
  BY DEF Balance, One
<1> DEFINE l2 == Cardinality(Lending(sh2, b))
           l1 == Cardinality(Lending(sh, b))
           o2 == Cardinality(Owing(sh2, b))
           o1 == Cardinality(Owing(sh, b))
           m1 == Cardinality(MappedBy(b))
           m2 == Cardinality(MappedBy(b)')
           a1 == One(Lent(sh[t], b))
           a2 == One(Lent(sh2[t], b))
           c1 == One(Owes(sh[t], b))
           c2 == One(Owes(sh2[t], b))
           h1 == One(handle[b])
           h2 == One(handle'[b])
           g1 == gref[b]
           g2 == gref'[b]
           w1 == mmaps[b]
           w2 == mmaps'[b]
           k1 == leaked[b]
           k2 == leaked'[b]
<1>1. l2 = l1 + a2 - a1 /\ o2 = o1 + c2 - c1
  BY Counts
<1>2. g1 + l1 = h1 + w1 + k1 + m1 + o1
  BY DEF Balance, One
<1>3. g2 - g1 + a2 - a1
        = h2 - h1 + (w2 - w1) + (k2 - k1) + (m2 - m1) + c2 - c1
  OBVIOUS
<1>4. /\ l1 \in Int /\ o1 \in Int /\ m1 \in Int /\ m2 \in Int /\ a1 \in Int /\ a2 \in Int
      /\ c1 \in Int /\ c2 \in Int /\ h1 \in Int /\ h2 \in Int
  <2>1. l1 \in Int /\ o1 \in Int
    BY CountsFinite
  <2>2. m1 \in Int /\ m2 \in Int
    OBVIOUS
  <2>3. \A p : One(p) \in Int
    BY DEF One
  <2> QED
    BY <2>1, <2>2, <2>3
<1>5. g1 \in Int /\ g2 \in Int /\ w1 \in Int /\ w2 \in Int /\ k1 \in Int /\ k2 \in Int
  BY DEF Types
<1> HIDE DEF l2, l1, o2, o1, m1, m2, a1, a2, c1, c2, h1, h2, g1, g2, w1, w2, k1, k2
<1>6. l2 \in Int /\ o2 \in Int
  BY <1>1, <1>4
<1>7. g2 - g1 = h2 - h1 + (w2 - w1) + (k2 - k1) + (m2 - m1) + (o2 - o1) - (l2 - l1)
  BY <1>1, <1>3, <1>4, <1>5
<1>8. g2 + l2 = h2 + w2 + k2 + m2 + o2
  BY <1>2, <1>4, <1>5, <1>6, <1>7
<1> QED
  BY <1>8 DEF l2, o2, m2, h2, g2, w2, k2

\* The references that a step moves, when it leaves the address spaces alone.
LEMMA KeepRefs ==
  ASSUME NEW sh, Balance(sh), Types, Types', NEW sh2, NEW t \in Threads, Moves(sh, sh2, t),
         UNCHANGED nodes,
         \A b \in Bos :
           gref'[b] - gref[b] + One(Lent(sh2[t], b)) - One(Lent(sh[t], b))
             = One(handle'[b]) - One(handle[b]) + (mmaps'[b] - mmaps[b]) + (leaked'[b] - leaked[b])
                 + One(Owes(sh2[t], b)) - One(Owes(sh[t], b))
  PROVE  Balance(sh2)'
<1>1. ASSUME NEW b \in Bos
      PROVE  /\ MappedBy(b)' = MappedBy(b)
             /\ IsFiniteSet(MappedBy(b)) /\ Cardinality(MappedBy(b)) \in Nat
  <2>1. IsFiniteSet(MappedBy(b))
    BY DEF Balance
  <2> QED
    BY <2>1, FS_CardinalityType DEF MappedBy
<1>2. ASSUME NEW b \in Bos
      PROVE  /\ IsFiniteSet(MappedBy(b)') /\ Cardinality(MappedBy(b)) \in Nat /\ Cardinality(MappedBy(b)') \in Nat
             /\ gref'[b] - gref[b] + One(Lent(sh2[t], b)) - One(Lent(sh[t], b))
                = One(handle'[b]) - One(handle[b]) + (mmaps'[b] - mmaps[b]) + (leaked'[b] - leaked[b])
                  + (Cardinality(MappedBy(b)') - Cardinality(MappedBy(b)))
                  + One(Owes(sh2[t], b)) - One(Owes(sh[t], b))
  <2> DEFINE m == Cardinality(MappedBy(b))
             x == One(handle'[b]) - One(handle[b]) + (mmaps'[b] - mmaps[b]) + (leaked'[b] - leaked[b])
             y == One(Owes(sh2[t], b))
             z == One(Owes(sh[t], b))
  <2>1. m \in Int /\ x \in Int /\ y \in Int /\ z \in Int
    BY <1>1 DEF Types, One
  <2>2. x + (m - m) + y - z = x + y - z
    <3> HIDE DEF m, x, y, z
    <3> QED
      BY <2>1
  <2>3. MappedBy(b)' = MappedBy(b)
    BY <1>1
  <2>4. gref'[b] - gref[b] + One(Lent(sh2[t], b)) - One(Lent(sh[t], b)) = x + y - z
    OBVIOUS
  <2> QED
    BY <1>1, <2>2, <2>3, <2>4
<1> QED
  BY <1>2, KeepBalance

\* The objects, if none comes, goes or loses its last reference.
LEMMA KeepObjects ==
  ASSUME NEW sh, Objects(sh), NEW sh2, NEW t \in Threads, Moves(sh, sh2, t),
         UNCHANGED st,
         \A b \in Bos : gref'[b] > 0 <=> gref[b] > 0,
         \A b \in Bos : gref'[b] = 0 <=> gref[b] = 0,
         \A b \in Bos : st[b] = "none" => map1'[b] = Null,
         sh2[t].pc \in Freeing \/ sh[t].pc \in Freeing =>
           sh2[t].pc \in Freeing /\ sh[t].pc \in Freeing /\ sh2[t].bo = sh[t].bo,
         \A u \in Threads : sh[u].pc \in Freeing => sh[u].bo \in Bos
  PROVE  Objects(sh2)'
<1>1. \A u \in Threads : u # t => sh2[u] = sh[u]
  BY DEF Moves
<1>2. \A u \in Threads : /\ sh2[u].pc \in Freeing <=> sh[u].pc \in Freeing
                         /\ sh2[u].pc \in Freeing => sh2[u].bo = sh[u].bo /\ sh2[u].bo \in Bos
  BY <1>1
<1>3. \A b \in Bos : gref'[b] > 0 => st'[b] = "live"
  BY DEF Objects
<1>4. \A b \in Bos : st'[b] = "none" => map1'[b] = Null
  OBVIOUS
<1>5. \A u \in Threads : sh2[u].pc \in Freeing => gref'[sh2[u].bo] = 0 /\ st'[sh2[u].bo] = "live"
  BY <1>2 DEF Objects
<1>6. ASSUME NEW x \in Threads, NEW y \in Threads,
             {sh2[x].pc, sh2[y].pc} \subseteq Freeing, sh2[x].bo = sh2[y].bo
      PROVE  x = y
  <2>1. sh[x].pc \in Freeing /\ sh[y].pc \in Freeing /\ sh[x].bo = sh[y].bo
    BY <1>2, <1>6
  <2> QED
    BY <2>1 DEF Objects
<1>7. \A b \in Bos : st'[b] = "live" /\ gref'[b] = 0 => \E u \in Threads : sh2[u].pc \in Freeing /\ sh2[u].bo = b
  <2> SUFFICES ASSUME NEW b \in Bos, st'[b] = "live", gref'[b] = 0
               PROVE  \E u \in Threads : sh2[u].pc \in Freeing /\ sh2[u].bo = b
    OBVIOUS
  <2>1. PICK u \in Threads : sh[u].pc \in Freeing /\ sh[u].bo = b
    BY DEF Objects
  <2> QED
    BY <1>2, <2>1
<1> QED
  BY <1>3, <1>4, <1>5, <1>6, <1>7 DEF Objects

\* The number of windows, if none is made.
LEMMA KeepMmaps ==
  ASSUME NEW sh, Mmaps(sh), NEW sh2, NEW t \in Threads, Moves(sh, sh2, t),
         UNCHANGED mmaps, Cardinality(Windows) \in Nat,
         sh2[t].k = "mmap" => sh[t].k = "mmap"
  PROVE  Mmaps(sh2)'
<1>1. \A u \in Threads : u # t => sh2[u] = sh[u]
  BY DEF Moves
<1>2. \A u \in Threads : sh2[u].k = "mmap" => sh[u].k = "mmap"
  BY <1>1
<1>3. Cardinality(Making(sh2)) <= Cardinality(Making(sh))
  <2>1. Making(sh2) \in SUBSET Making(sh)
    BY <1>2 DEF Making
  <2> QED
    BY <2>1, CountsFinite, FS_Subset
<1>4. Windows' = Windows
  BY DEF Windows
<1>5. Cardinality(Windows') + Cardinality(Making(sh2)) <= MaxMmaps
  <2>1. Cardinality(Windows) + Cardinality(Making(sh)) <= MaxMmaps
    BY DEF Mmaps
  <2>2. Cardinality(Making(sh)) \in Nat /\ Cardinality(Making(sh2)) \in Nat /\ MaxMmaps \in Nat
    BY CountsFinite, MapsAssumption
  <2> QED
    BY <1>3, <1>4, <2>1, <2>2
<1>6. \A b \in Bos : mmaps'[b] <= MaxMmaps
  BY DEF Mmaps
<1> QED
  BY <1>5, <1>6 DEF Mmaps

\* A thread that has a node of the BAR to put an object there.
Adding(s) == s.k = "mmap" /\ s.pc \in {"write", "assign"}

\* A thread of a map into the BAR that has the node n there.
Puts(s, n) == s.k \in {"mmap", "bad"} /\ Owns(s, Bar, n)

\* What is in the BAR, if nothing is put there and map1 stays.
LEMMA KeepInBar ==
  ASSUME NEW sh, InBar(sh), NEW sh2, NEW t \in Threads, Moves(sh, sh2, t),
         \A n \in nodes'[Bar] : n \in nodes[Bar] /\ (n.bo \notin twice => st'[n.bo] = "live"),
         UNCHANGED <<map1, twice>>,
         \A n \in nodes'[Bar] : Puts(sh[t], n) => Puts(sh2[t], n),
         sh2[t].pc \in Freeing =>
           IF sh2[t].pc \in {"funlock", "release"}
             THEN sh2[t].bo \in twice \/ \A n \in nodes'[Bar] : n.bo # sh2[t].bo
             ELSE map1[sh2[t].bo] = sh2[t].bat
  PROVE  InBar(sh2)'
<1>1. \A u \in Threads : u # t => sh2[u] = sh[u]
  BY DEF Moves
<1>2. \A u \in Threads : \A n \in nodes'[Bar] : Puts(sh[u], n) => Puts(sh2[u], n)
  BY <1>1
<1>3. ASSUME NEW n \in nodes'[Bar], n.bo \notin twice
      PROVE  /\ st'[n.bo] = "live"
             /\ map1'[n.bo] = n.at \/ \E u \in Threads : Puts(sh2[u], n)
  <2>1. map1[n.bo] = n.at \/ \E u \in Threads : Puts(sh[u], n)
    BY <1>3 DEF InBar, Puts
  <2> QED
    BY <1>2, <1>3, <2>1
<1>4. ASSUME NEW u \in Threads, sh2[u].pc \in Freeing
      PROVE  IF sh2[u].pc \in {"funlock", "release"}
               THEN sh2[u].bo \in twice \/ \A n \in nodes'[Bar] : n.bo # sh2[u].bo
               ELSE map1'[sh2[u].bo] = sh2[u].bat
  <2>1. CASE u = t
    BY <1>4, <2>1
  <2>2. CASE u # t
    <3>1. sh2[u] = sh[u]
      BY <1>1, <2>2
    <3> QED
      BY <1>4, <3>1 DEF InBar
  <2> QED
    BY <2>1, <2>2
<1> QED
  BY <1>3, <1>4 DEF InBar, Puts

\* Page tables and TLBs, if they are left alone and the thread claims no more of them.
LEMMA KeepTables ==
  ASSUME NEW sh, Tables(sh), NEW sh2, NEW t \in Threads, Moves(sh, sh2, t),
         UNCHANGED nodes,
         \A vs \in Spaces : alive'[vs] =>
           alive[vs] /\ pt'[vs] = pt[vs] /\ tlb'[vs] = tlb[vs] /\ late'[vs] = late[vs],
         \A vs \in Spaces : alive'[vs] => \A n \in nodes[vs] : \A p \in PagesOf(n.bo, n.at) :
           /\ Cleared(sh2[t], vs, n, p) => Cleared(sh[t], vs, n, p)
           /\ Forgotten(sh2[t], vs, n) => Forgotten(sh[t], vs, n)
  PROVE  Tables(sh2)'
<1>1. \A u \in Threads : u # t => sh2[u] = sh[u]
  BY DEF Moves
<1> SUFFICES ASSUME NEW vs \in Spaces, alive'[vs]
             PROVE  /\ \A p \in Page(vs) : p \notin Covered(vs)' =>
                         pt'[vs][p] = Null /\ (p \notin late'[vs] => tlb'[vs][p] = Null)
                    /\ \A n \in nodes'[vs] : \A p \in PagesOf(n.bo, n.at) :
                         /\ pt'[vs][p] \in {Null, n.bo} /\ (p \notin late'[vs] => tlb'[vs][p] \in {Null, n.bo})
                         /\ \A u \in Threads : Cleared(sh2[u], vs, n, p) => pt'[vs][p] = Null
                         /\ \A u \in Threads :
                              Forgotten(sh2[u], vs, n) => p \in late'[vs] \/ tlb'[vs][p] = Null
  BY DEF Tables
<1>2. /\ pt'[vs] = pt[vs] /\ tlb'[vs] = tlb[vs] /\ late'[vs] = late[vs]
      /\ nodes'[vs] = nodes[vs] /\ alive[vs]
  OBVIOUS
<1>3. Covered(vs)' = Covered(vs)
  BY DEF Covered
<1>4. ASSUME NEW n \in nodes[vs], NEW p \in PagesOf(n.bo, n.at), NEW u \in Threads
      PROVE  /\ Cleared(sh2[u], vs, n, p) => Cleared(sh[u], vs, n, p)
             /\ Forgotten(sh2[u], vs, n) => Forgotten(sh[u], vs, n)
  BY <1>1, <1>4
<1>5. /\ \A p \in Page(vs) : p \notin Covered(vs) =>
           pt[vs][p] = Null /\ (p \notin late[vs] => tlb[vs][p] = Null)
      /\ \A n \in nodes[vs] : \A p \in PagesOf(n.bo, n.at) :
           /\ pt[vs][p] \in {Null, n.bo} /\ (p \notin late[vs] => tlb[vs][p] \in {Null, n.bo})
           /\ \A u \in Threads : Cleared(sh[u], vs, n, p) => pt[vs][p] = Null
           /\ \A u \in Threads : Forgotten(sh[u], vs, n) => p \in late[vs] \/ tlb[vs][p] = Null
  BY <1>2 DEF Tables
<1> QED
  BY <1>2, <1>3, <1>4, <1>5

\* Where the entries of a mapping are known to be there.
Kept(vs) == vs = Bar => ~BarMapFails

\* The entries of mappings, if they are left alone.
LEMMA KeepFilled ==
  ASSUME NEW sh, Filled(sh), NEW sh2, NEW t \in Threads, Moves(sh, sh2, t),
         \A vs \in Spaces : alive'[vs] /\ Kept(vs) =>
           /\ alive[vs] /\ pt'[vs] = pt[vs]
           /\ \A n \in nodes'[vs] : n \in nodes[vs],
         \A vs \in Spaces : alive'[vs] /\ Kept(vs) =>
           \A n \in nodes'[vs] : \A p \in PagesOf(n.bo, n.at) :
             /\ Owns(sh[t], vs, n) /\ ~Owns(sh2[t], vs, n) => pt[vs][p] = n.bo
             /\ Owns(sh2[t], vs, n) /\ sh2[t].pc = "write" /\ p < sh2[t].at + sh2[t].i => pt[vs][p] = n.bo
             /\ Owns(sh2[t], vs, n) /\ sh2[t].pc = "assign" => pt[vs][p] = n.bo
  PROVE  Filled(sh2)'
<1>1. \A u \in Threads : u # t => sh2[u] = sh[u]
  BY DEF Moves
<1> SUFFICES ASSUME NEW vs \in Spaces, alive'[vs], Kept(vs), NEW n \in nodes'[vs], NEW p \in PagesOf(n.bo, n.at)
             PROVE  /\ (\A u \in Threads : ~Owns(sh2[u], vs, n)) => pt'[vs][p] = n.bo
                    /\ \A u \in Threads : Owns(sh2[u], vs, n) =>
                         /\ sh2[u].pc = "write" /\ p < sh2[u].at + sh2[u].i => pt'[vs][p] = n.bo
                         /\ sh2[u].pc = "assign" => pt'[vs][p] = n.bo
  BY DEF Filled, Kept
<1>2. pt'[vs] = pt[vs] /\ n \in nodes[vs] /\ alive[vs]
  OBVIOUS
<1>3. /\ (\A u \in Threads : ~Owns(sh[u], vs, n)) => pt[vs][p] = n.bo
      /\ \A u \in Threads : Owns(sh[u], vs, n) =>
           /\ sh[u].pc = "write" /\ p < sh[u].at + sh[u].i => pt[vs][p] = n.bo
           /\ sh[u].pc = "assign" => pt[vs][p] = n.bo
  BY <1>2 DEF Filled, Kept
<1>4. /\ Owns(sh[t], vs, n) /\ ~Owns(sh2[t], vs, n) => pt[vs][p] = n.bo
      /\ Owns(sh2[t], vs, n) /\ sh2[t].pc = "write" /\ p < sh2[t].at + sh2[t].i => pt[vs][p] = n.bo
      /\ Owns(sh2[t], vs, n) /\ sh2[t].pc = "assign" => pt[vs][p] = n.bo
  OBVIOUS
<1>5. (\A u \in Threads : ~Owns(sh2[u], vs, n)) => pt[vs][p] = n.bo
  <2> SUFFICES ASSUME \A u \in Threads : ~Owns(sh2[u], vs, n)
               PROVE  pt[vs][p] = n.bo
    OBVIOUS
  <2>1. \A u \in Threads : u # t => ~Owns(sh[u], vs, n)
    BY <1>1
  <2> QED
    BY <1>3, <1>4, <2>1
<1>6. \A u \in Threads : Owns(sh2[u], vs, n) =>
           /\ sh2[u].pc = "write" /\ p < sh2[u].at + sh2[u].i => pt[vs][p] = n.bo
           /\ sh2[u].pc = "assign" => pt[vs][p] = n.bo
  <2> TAKE u \in Threads
  <2>1. CASE u = t
    BY <1>4, <2>1
  <2>2. CASE u # t
    BY <1>1, <1>3, <2>2
  <2> QED
    BY <2>1, <2>2
<1> QED
  BY <1>2, <1>5, <1>6

\* What map1 says, if it stays and nothing leaves the BAR.
LEMMA KeepBarExact ==
  ASSUME NEW sh, BarExact(sh), NEW sh2, NEW t \in Threads, Moves(sh, sh2, t),
         UNCHANGED map1, \A n \in nodes[Bar] : n \in nodes'[Bar],
         ~BarMapFails => \A b \in Bos : gref'[b] > 0 => gref[b] > 0 \/ map1[b] = Null,
         ~BarMapFails => (sh2[t].pc \in Freeing \ {"funlock", "release"} => BarNode(sh2[t]) \in nodes'[Bar]),
         ~BarMapFails => (sh2[t].k = "bad" => sh2[t].pc = "unlock"),
         ~BarMapFails => (Adding(sh2[t]) => map1[sh2[t].bo] # sh2[t].at)
  PROVE  BarExact(sh2)'
<1>1. \A u \in Threads : u # t => sh2[u] = sh[u]
  BY DEF Moves
<1> SUFFICES ASSUME ~BarMapFails
             PROVE  /\ \A b \in Bos : gref'[b] > 0 /\ map1'[b] # Null => Node(b, map1'[b]) \in nodes'[Bar]
                    /\ \A u \in Threads : sh2[u].pc \in Freeing \ {"funlock", "release"} =>
                         BarNode(sh2[u]) \in nodes'[Bar]
                    /\ \A u \in Threads : sh2[u].k = "bad" => sh2[u].pc = "unlock"
                    /\ \A u \in Threads : Adding(sh2[u]) => map1'[sh2[u].bo] # sh2[u].at
  BY DEF BarExact, Adding
<1>2. \A b \in Bos : gref'[b] > 0 /\ map1'[b] # Null => Node(b, map1'[b]) \in nodes'[Bar]
  BY DEF BarExact
<1>3. \A u \in Threads : sh2[u].pc \in Freeing \ {"funlock", "release"} => BarNode(sh2[u]) \in nodes'[Bar]
  <2> TAKE u \in Threads
  <2>1. CASE u = t
    BY <2>1
  <2>2. CASE u # t
    <3>1. sh2[u] = sh[u]
      BY <1>1, <2>2
    <3> QED
      BY <3>1 DEF BarExact
  <2> QED
    BY <2>1, <2>2
<1>4. \A u \in Threads : sh2[u].k = "bad" => sh2[u].pc = "unlock"
  BY <1>1 DEF BarExact
<1>5. \A u \in Threads : Adding(sh2[u]) => map1'[sh2[u].bo] # sh2[u].at
  <2> TAKE u \in Threads
  <2>1. CASE u = t
    BY <2>1
  <2>2. CASE u # t
    <3>1. sh2[u] = sh[u]
      BY <1>1, <2>2
    <3> QED
      BY <3>1 DEF BarExact, Adding
  <2> QED
    BY <2>1, <2>2
<1> QED
  BY <1>2, <1>3, <1>4, <1>5

\* The windows, if map1 stays.
LEMMA KeepWindowed ==
  ASSUME NEW sh, Windowed(sh), NEW sh2, NEW t \in Threads, Moves(sh, sh2, t),
         UNCHANGED map1, \A b \in Bos : mmaps'[b] > 0 => mmaps[b] > 0 \/ map1[b] # Null,
         sh2[t].k = "mmap" /\ sh2[t].pc \in {"mapped", "unlock"} => map1[sh2[t].bo] # Null
  PROVE  Windowed(sh2)'
<1>1. \A u \in Threads : u # t => sh2[u] = sh[u]
  BY DEF Moves
<1>2. \A u \in Threads : sh2[u].k = "mmap" /\ sh2[u].pc \in {"mapped", "unlock"} => map1'[sh2[u].bo] # Null
  <2> TAKE u \in Threads
  <2>1. CASE u = t
    BY <2>1
  <2>2. CASE u # t
    <3>1. sh2[u] = sh[u]
      BY <1>1, <2>2
    <3> QED
      BY <3>1 DEF Windowed
  <2> QED
    BY <2>1, <2>2
<1>3. \A b \in Bos : mmaps'[b] > 0 => map1'[b] # Null
  BY DEF Windowed
<1> QED
  BY <1>2, <1>3 DEF Windowed

-----------------------------------------------------------------------------
(* The calls                                                               *)

\* A thread that is busy with no node and has no mutex.
Light == {"idle", "drop", "check", "mapped", "lockplace", "lockfind", "down"}

\* A thread at such a stage has nothing that the others see.
LEMMA LightIs ==
  ASSUME NEW s, WellFormed(s), s.pc \in Light
  PROVE  /\ \A vs \in Spaces : ~Holding(s, vs)
         /\ ~Has(s) /\ s.pc \notin Freeing
         /\ \A vs, n : ~Owns(s, vs, n)
         /\ \A n : ~Puts(s, n)
         /\ \A b : ~Lent(s, b)
         /\ \A vs, n, p : ~Cleared(s, vs, n, p)
         /\ \A vs, n : ~Forgotten(s, vs, n)
         /\ s.pc = "idle" => s.k = "none" /\ ~Adding(s) /\ \A b : ~Owes(s, b)
<1>1. /\ s.pc \notin Locked /\ s.pc \notin Freeing /\ s.pc \notin BarLocked /\ s.pc \notin WithNode
      /\ s.pc # "assign"
  BY DEF Light, Locked, Freeing, BarLocked, WithNode
<1>2. ~Has(s) /\ s.pc \notin {"fclear", "fflush", "fmmfree"}
  BY <1>1 DEF Has, Freeing
<1>3. s.pc = "idle" => s.k = "none"
  BY FormIs DEF Suits, Kinds, WithNode, Freeing
<1>4. \A vs \in Spaces : ~Holding(s, vs)
  BY <1>1 DEF Holding
<1>5. \A vs, n : ~Owns(s, vs, n)
  BY <1>2 DEF Owns
<1>6. \A vs, n, p : ~Cleared(s, vs, n, p)
  BY <1>1, <1>2 DEF Cleared, WithNode
<1>7. \A vs, n : ~Forgotten(s, vs, n)
  BY <1>1, <1>2 DEF Forgotten, WithNode
<1>8. s.pc = "idle" => ~Adding(s) /\ \A b : ~Owes(s, b)
  BY <1>3 DEF Adding, Owes
<1> QED
  BY <1>1, <1>2, <1>3, <1>4, <1>5, <1>6, <1>7, <1>8 DEF Puts, Lent

\* A thread goes to a stage that is given.
LEMMA Arrives ==
  ASSUME NEW sh \in [Threads -> Stages], Programs(sh), NEW t \in Threads, NEW s, Goes(t, s)
  PROVE  \E sh2 \in [Threads -> Stages] :
           Moves(sh, sh2, t) /\ sh2[t] = s /\ WellFormed(s) /\ Programs(sh2)'
<1> DEFINE sh2 == [sh EXCEPT ![t] = s]
<1>1. Moves(sh, sh2, t) /\ sh2[t] = s /\ Programs(sh2)'
  BY MovesIs
<1> HIDE DEF sh2
<1>2. sh2 \in [Threads -> Stages]
  BY <1>1 DEF Moves
<1>3. WellFormed(s)
  BY DEF Goes
<1> QED
  BY <1>1, <1>2, <1>3

\* Who frees an object has one.
LEMMA Freers ==
  ASSUME NEW sh, Programs(sh)
  PROVE  \A u \in Threads : sh[u].pc \in Freeing => sh[u].bo \in Bos
BY FormIs DEF Programs

\* How a window more or less is counted.
LEMMA WindowsAre ==
  ASSUME NEW sh, Types, Mmaps(sh), NEW b \in Bos
  PROVE  /\ IsFiniteSet(Windows) /\ Cardinality(Windows) \in Nat
         /\ mmaps[b] <= Cardinality(Windows)
         /\ mmaps[b] < MaxMmaps /\ mmaps' = [mmaps EXCEPT ![b] = @ + 1] =>
              Cardinality(Windows') = Cardinality(Windows) + 1
         /\ mmaps[b] > 0 /\ mmaps' = [mmaps EXCEPT ![b] = @ - 1] =>
              Cardinality(Windows') = Cardinality(Windows) - 1
<1>1. mmaps[b] \in Nat /\ mmaps[b] <= MaxMmaps /\ MaxMmaps \in Nat
  BY MapsAssumption DEF Types, Mmaps
<1>2. IsFiniteSet(Bos \X (1 .. MaxMmaps))
  <2>1. IsFiniteSet(1 .. MaxMmaps) /\ IsFiniteSet(Bos)
    BY <1>1, FS_Interval, MapsAssumption
  <2> QED
    BY <2>1, FS_Product
<1>3. Windows \in SUBSET (Bos \X (1 .. MaxMmaps))
  BY DEF Windows
<1>4. IsFiniteSet(Windows) /\ Cardinality(Windows) \in Nat
  BY <1>2, <1>3, FS_Subset, FS_CardinalityType
<1>5. mmaps[b] <= Cardinality(Windows)
  <2> DEFINE I == 1 .. mmaps[b]
             F == [k \in I |-> <<b, k>>]
             W == Windows
  <2>1. \A k \in I : <<b, k>> \in Windows
    BY <1>1 DEF Windows
  <2>2. IsFiniteSet(I) /\ Cardinality(I) = mmaps[b]
    <3> DEFINE m == mmaps[b]
               c == Cardinality(1 .. m)
    <3>1. m \in Nat /\ m \in Int /\ 1 \in Int
      BY <1>1
    <3> HIDE DEF m
    <3>2. IsFiniteSet(1 .. m) /\ c = IF 1 > m THEN 0 ELSE m - 1 + 1
      BY <3>1, FS_Interval
    <3> HIDE DEF c
    <3>3. c = m
      BY <3>1, <3>2
    <3> QED
      BY <3>2, <3>3 DEF c, m
  <2>3. F \in [I -> W] /\ \A i, j \in I : F[i] = F[j] => i = j
    BY <2>1
  <2> HIDE DEF F, I, W
  <2>4. F \in Injection(I, W)
    BY <2>3 DEF Injection, IsInjective
  <2>5. Cardinality(I) <= Cardinality(W)
    BY <1>4, <2>4, FS_Injection DEF W
  <2> QED
    BY <2>2, <2>5 DEF W
<1>6. ASSUME mmaps[b] < MaxMmaps, mmaps' = [mmaps EXCEPT ![b] = @ + 1]
      PROVE  Cardinality(Windows') = Cardinality(Windows) + 1
  <2> DEFINE w == <<b, mmaps[b] + 1>>
  <2>1. \A c \in Bos : mmaps'[c] = (IF c = b THEN mmaps[c] + 1 ELSE mmaps[c]) /\ mmaps[c] \in Nat
    BY <1>6 DEF Types
  <2>2. Windows' = Windows \cup {w}
    BY <1>1, <1>6, <2>1 DEF Windows
  <2>3. w \notin Windows
    BY <1>1 DEF Windows
  <2> HIDE DEF w
  <2> QED
    BY <1>4, <2>2, <2>3, FS_AddElement
<1>7. ASSUME mmaps[b] > 0, mmaps' = [mmaps EXCEPT ![b] = @ - 1]
      PROVE  Cardinality(Windows') = Cardinality(Windows) - 1
  <2> DEFINE w == <<b, mmaps[b]>>
  <2>1. \A c \in Bos : mmaps'[c] = (IF c = b THEN mmaps[c] - 1 ELSE mmaps[c]) /\ mmaps[c] \in Nat
    BY <1>7 DEF Types
  <2>2. Windows' = Windows \ {w}
    BY <1>1, <1>7, <2>1 DEF Windows
  <2>3. w \in Windows
    BY <1>1, <1>7 DEF Windows
  <2> HIDE DEF w
  <2> QED
    BY <1>4, <2>2, <2>3, FS_RemoveElement
<1> QED
  BY <1>4, <1>5, <1>6, <1>7

\* A call that gives a thread something to do, and moves references at most.
LEMMA Called ==
  ASSUME NEW sh, Inv(sh), Types', NEW sh2, NEW t \in Threads, Moves(sh, sh2, t), Programs(sh2)',
         sh[t].pc = "idle", sh2[t].pc \in Light,
         UNCHANGED <<st, map1, twice, alive, nodes, pt, tlb, late, lock>>,
         \A b \in Bos : gref'[b] > 0 <=> gref[b] > 0,
         \A b \in Bos : mmaps'[b] > 0 => mmaps[b] > 0,
         \A b \in Bos :
           gref'[b] - gref[b] = One(handle'[b]) - One(handle[b]) + (mmaps'[b] - mmaps[b])
                                  + (leaked'[b] - leaked[b]) + One(Owes(sh2[t], b)),
         Mmaps(sh2)', sh2[t].k # "down", sh2[t].k = "map" => alive[sh2[t].vs],
         ~Adding(sh2[t]), ~(sh2[t].k = "mmap" /\ sh2[t].pc = "mapped"), sh2[t].k # "bad"
  PROVE  Inv(sh2)'
<1> DEFINE s == sh[t]
           r == sh2[t]
<1>1. /\ Programs(sh) /\ Types /\ Locks(sh) /\ Nodes(sh) /\ Downs(sh) /\ Balance(sh)
      /\ Objects(sh) /\ Mmaps(sh) /\ InBar(sh) /\ Tables(sh) /\ Filled(sh)
      /\ BarExact(sh) /\ Windowed(sh)
  BY DEF Inv
<1>2. WellFormed(s) /\ WellFormed(r)
  BY <1>1 DEF Programs
<1>3. s.pc \in Light
  BY DEF Light
<1>4. /\ \A vs \in Spaces : ~Holding(s, vs)
      /\ ~Has(s) /\ s.pc \notin Freeing
      /\ \A vs, n : ~Owns(s, vs, n)
      /\ \A n : ~Puts(s, n)
      /\ \A b : ~Lent(s, b)
      /\ s.k = "none" /\ ~Adding(s) /\ \A b : ~Owes(s, b)
  BY <1>2, <1>3, LightIs
<1>5. /\ \A vs \in Spaces : ~Holding(r, vs)
      /\ ~Has(r) /\ r.pc \notin Freeing
      /\ \A vs, n : ~Owns(r, vs, n)
      /\ \A b : ~Lent(r, b)
      /\ \A vs, n, p : ~Cleared(r, vs, n, p)
      /\ \A vs, n : ~Forgotten(r, vs, n)
  BY <1>2, LightIs
<1>6. Locks(sh2)'
  BY <1>1, <1>4, <1>5, KeepLocks
<1>7. Nodes(sh2)'
  BY <1>1, <1>5, KeepNodes
<1>8. Downs(sh2)'
  BY <1>1, <1>4, KeepDowns
<1>9. Balance(sh2)'
  <2>1. \A b \in Bos :
           gref'[b] - gref[b] + One(Lent(r, b)) - One(Lent(s, b))
             = One(handle'[b]) - One(handle[b]) + (mmaps'[b] - mmaps[b]) + (leaked'[b] - leaked[b])
                 + One(Owes(r, b)) - One(Owes(s, b))
    <3> TAKE b \in Bos
    <3> DEFINE g == gref'[b] - gref[b]
               x == One(handle'[b]) - One(handle[b]) + (mmaps'[b] - mmaps[b]) + (leaked'[b] - leaked[b])
               y == One(Owes(r, b))
    <3>1. One(Lent(r, b)) = 0 /\ One(Lent(s, b)) = 0 /\ One(Owes(s, b)) = 0 /\ One(Owes(r, b)) \in Int
      BY <1>4, <1>5 DEF One
    <3>2. g \in Int /\ x \in Int /\ y \in Int
      BY <1>1 DEF Types, One
    <3>3. g = x + y
      OBVIOUS
    <3> HIDE DEF g, x, y
    <3>4. g + 0 - 0 = x + y - 0
      BY <3>2, <3>3
    <3> QED
      BY <3>1, <3>4 DEF g, x, y
  <2> QED
    BY <1>1, <2>1, KeepRefs
<1>10. Objects(sh2)'
  <2>1. \A b \in Bos : gref'[b] = 0 <=> gref[b] = 0
    BY <1>1 DEF Types
  <2> QED
    BY <1>1, <1>4, <1>5, <2>1, Freers, KeepObjects DEF Objects
<1>11. InBar(sh2)'
  <2>1. \A n \in nodes'[Bar] : n \in nodes[Bar] /\ (n.bo \notin twice => st'[n.bo] = "live")
    BY <1>1 DEF InBar
  <2> QED
    BY <1>1, <1>4, <1>5, <2>1, KeepInBar
<1>12. Tables(sh2)'
  BY <1>1, <1>5, KeepTables
<1>13. Filled(sh2)'
  BY <1>1, <1>4, <1>5, KeepFilled
<1>14. BarExact(sh2)'
  BY <1>1, <1>5, KeepBarExact
<1>15. Windowed(sh2)'
  <2>1. ~(r.k = "mmap" /\ r.pc \in {"mapped", "unlock"})
    BY DEF Light
  <2> QED
    BY <1>1, <2>1, KeepWindowed
<1> QED
  BY <1>6, <1>7, <1>8, <1>9, <1>10, <1>11, <1>12, <1>13, <1>14, <1>15 DEF Inv

\* The parts of the invariant, and what follows from it for every object.
LEMMA InvIs ==
  ASSUME NEW sh, Inv(sh)
  PROVE  /\ Programs(sh) /\ Types /\ Locks(sh) /\ Nodes(sh) /\ Downs(sh) /\ Balance(sh)
         /\ Objects(sh) /\ Mmaps(sh) /\ InBar(sh) /\ Tables(sh) /\ Filled(sh)
         /\ BarExact(sh) /\ Windowed(sh)
         /\ \A t \in Threads : WellFormed(sh[t])
         /\ \A b \in Bos : handle[b] \/ mmaps[b] > 0 => gref[b] > 0
         /\ \A b \in Bos : gref[b] \in Nat /\ mmaps[b] \in Nat /\ leaked[b] \in Nat /\ handle[b] \in BOOLEAN
BY Keeping DEF Inv, Programs, Types

\* A drop of a reference that another place has given up.
LEMMA Dropped ==
  ASSUME NEW sh \in [Threads -> Stages], Inv(sh), Types', NEW t \in Threads, NEW b \in Bos,
         Idle(t), Start(t, <<On("unref", b)>>),
         UNCHANGED <<st, map1, twice, leaked, alive, nodes, pt, tlb, late, lock>>,
         \A c \in Bos : gref'[c] > 0 <=> gref[c] > 0,
         \A c \in Bos : mmaps'[c] <= mmaps[c],
         Cardinality(Windows') <= Cardinality(Windows) /\ Cardinality(Windows') \in Nat
           /\ Cardinality(Windows) \in Nat,
         \A c \in Bos :
           gref'[c] - gref[c] = One(handle'[c]) - One(handle[c]) + (mmaps'[c] - mmaps[c]) + One(c = b)
  PROVE  IInv'
<1> DEFINE r == Stage("drop", "none", Null, b, Null, Null, 0)
<1>1. /\ Programs(sh) /\ Types /\ Mmaps(sh)
      /\ \A c \in Bos : gref[c] \in Nat /\ mmaps[c] \in Nat /\ leaked[c] \in Nat /\ handle[c] \in BOOLEAN
  BY InvIs
<1>2. sh[t].pc = "idle" /\ sh[t].k = "none"
  <2>1. sh[t].pc = "idle" /\ WellFormed(sh[t])
    BY <1>1, HereIs
  <2> QED
    BY <2>1, LightIs DEF Light
<1>3. Goes(t, r)
  BY UnrefCall
<1>4. r.pc = "drop" /\ r.k = "none" /\ r.bo = b
  BY StageIs
<1> HIDE DEF r
<1>5. PICK sh2 \in [Threads -> Stages] :
        Moves(sh, sh2, t) /\ sh2[t] = r /\ WellFormed(r) /\ Programs(sh2)'
  BY <1>1, <1>3, Arrives
<1>6. \A c : Owes(r, c) <=> c = b
  BY <1>4 DEF Owes
<1>7. \A c \in Bos : mmaps'[c] \in Nat
  BY DEF Types
<1>8. Mmaps(sh2)'
  <2>1. \A u \in Threads : sh2[u].k = "mmap" => sh[u] = sh2[u]
    BY <1>4, <1>5 DEF Moves
  <2>2. Cardinality(Making(sh2)) <= Cardinality(Making(sh))
    <3>1. Making(sh2) \in SUBSET Making(sh)
      BY <2>1 DEF Making
    <3> QED
      BY <3>1, CountsFinite, FS_Subset
  <2>3. Cardinality(Making(sh)) \in Nat /\ Cardinality(Making(sh2)) \in Nat /\ MaxMmaps \in Nat
    BY CountsFinite, MapsAssumption
  <2>4. Cardinality(Windows') + Cardinality(Making(sh2)) <= MaxMmaps
    BY <1>1, <2>2, <2>3 DEF Mmaps
  <2>5. \A c \in Bos : mmaps'[c] <= MaxMmaps
    BY <1>1, <1>7, <2>3 DEF Mmaps
  <2> QED
    BY <1>1, <2>1, <2>4, <2>5 DEF Mmaps
<1>9. \A c \in Bos : mmaps'[c] > 0 => mmaps[c] > 0
  BY <1>1, <1>7
<1>10. \A c \in Bos :
           gref'[c] - gref[c] = One(handle'[c]) - One(handle[c]) + (mmaps'[c] - mmaps[c])
                                  + (leaked'[c] - leaked[c]) + One(Owes(sh2[t], c))
  <2> TAKE c \in Bos
  <2>1. leaked'[c] - leaked[c] = 0 /\ One(Owes(sh2[t], c)) = One(c = b)
    BY <1>1, <1>5, <1>6 DEF One
  <2> DEFINE x == One(handle'[c]) - One(handle[c]) + (mmaps'[c] - mmaps[c])
             y == One(c = b)
             l == leaked'[c] - leaked[c]
  <2>2. x \in Int /\ y \in Int /\ gref'[c] - gref[c] = x + y
    BY <1>1, <1>7 DEF One
  <2> HIDE DEF x, y, l
  <2>3. gref'[c] - gref[c] = x + 0 + y
    BY <2>2
  <2> QED
    BY <2>1, <2>3 DEF x, y
<1>11. sh2[t].pc \in Light /\ sh2[t].k = "none"
  BY <1>4, <1>5 DEF Light
<1>12. Inv(sh2)'
  BY <1>2, <1>5, <1>8, <1>9, <1>10, <1>11, Called DEF Adding
<1> QED
  BY <1>5, <1>12 DEF IInv

\* The windows, if their counts stay.
LEMMA SameWindows ==
  ASSUME UNCHANGED mmaps
  PROVE  /\ Cardinality(Windows') <= Cardinality(Windows) /\ Cardinality(Windows') \in Nat
         /\ Cardinality(Windows) \in Nat
<1>1. IsFiniteSet(1 .. MaxMmaps) /\ IsFiniteSet(Bos)
  <2>1. MaxMmaps \in Int /\ 1 \in Int
    BY MapsAssumption
  <2> QED
    BY <2>1, FS_Interval, MapsAssumption
<1>2. IsFiniteSet(Bos \X (1 .. MaxMmaps))
  BY <1>1, FS_Product
<1>3. Cardinality(Windows) \in Nat
  <2>1. Windows \in SUBSET (Bos \X (1 .. MaxMmaps))
    BY DEF Windows
  <2> QED
    BY <1>2, <2>1, FS_Subset, FS_CardinalityType
<1>4. Windows' = Windows
  BY DEF Windows
<1> QED
  BY <1>3, <1>4

\* The reference of the handle becomes the one that the call has to give back.
LEMMA GemCloseKeeps ==
  ASSUME NEW sh \in [Threads -> Stages], Inv(sh), NEW t \in Threads, NEW b \in Bos, GemClose(t, b)
  PROVE  IInv'
<1>1. Types /\ \A c \in Bos : gref[c] \in Nat /\ mmaps[c] \in Nat /\ leaked[c] \in Nat /\ handle[c] \in BOOLEAN
  BY InvIs
<1>2. /\ Idle(t) /\ handle[b] /\ Start(t, <<On("unref", b)>>)
      /\ handle' = [handle EXCEPT ![b] = FALSE]
      /\ UNCHANGED <<st, gref, mmaps, map1, twice, leaked, alive, nodes, pt, tlb, late, lock>>
  BY DEF GemClose, spacevars
<1>3. Types'
  BY <1>1, <1>2 DEF Types
<1>4. ASSUME NEW c \in Bos
      PROVE  gref'[c] - gref[c] = One(handle'[c]) - One(handle[c]) + (mmaps'[c] - mmaps[c]) + One(c = b)
  <2>1. One(handle'[c]) - One(handle[c]) = 0 - One(c = b)
    <3>1. CASE c = b
      <4>1. ~handle'[c] /\ handle[c]
        BY <1>1, <1>2, <3>1 DEF Types
      <4> QED
        BY <3>1, <4>1 DEF One
    <3>2. CASE c # b
      <4>1. handle'[c] = handle[c]
        BY <1>1, <1>2, <3>2 DEF Types
      <4>2. One(handle[c]) \in Int /\ One(c = b) = 0
        BY <3>2 DEF One
      <4> QED
        BY <4>1, <4>2
    <3> QED
      BY <3>1, <3>2
  <2>2. One(c = b) \in Int
    BY DEF One
  <2>3. gref'[c] - gref[c] = 0 /\ mmaps'[c] - mmaps[c] = 0
    BY <1>1, <1>2
  <2> DEFINE x == One(handle'[c]) - One(handle[c])
             y == One(c = b)
  <2>4. x = 0 - y /\ y \in Int
    BY <2>1, <2>2
  <2> HIDE DEF x, y
  <2>5. 0 = x + 0 + y
    BY <2>4
  <2> QED
    BY <2>3, <2>5 DEF x, y
<1>5. \A c \in Bos : (gref'[c] > 0 <=> gref[c] > 0) /\ mmaps'[c] <= mmaps[c]
  BY <1>1, <1>2
<1> QED
  BY <1>2, <1>3, <1>4, <1>5, SameWindows, Dropped

\* The call takes a reference and has to give it back.
LEMMA GemInfoKeeps ==
  ASSUME NEW sh \in [Threads -> Stages], Inv(sh), NEW t \in Threads, NEW b \in Bos, GemInfo(t, b)
  PROVE  IInv'
<1>1. /\ Types /\ \A c \in Bos : gref[c] \in Nat /\ mmaps[c] \in Nat /\ leaked[c] \in Nat /\ handle[c] \in BOOLEAN
      /\ \A c \in Bos : handle[c] \/ mmaps[c] > 0 => gref[c] > 0
  BY InvIs
<1>2. /\ Idle(t) /\ handle[b] /\ Start(t, <<On("unref", b)>>)
      /\ gref' = [gref EXCEPT ![b] = @ + 1]
      /\ UNCHANGED <<st, handle, mmaps, map1, twice, leaked, alive, nodes, pt, tlb, late, lock>>
  BY DEF GemInfo, Found, spacevars
<1>3. Types'
  BY <1>1, <1>2 DEF Types
<1>4. \A c \in Bos : gref'[c] = IF c = b THEN gref[c] + 1 ELSE gref[c]
  BY <1>1, <1>2 DEF Types
<1>5. ASSUME NEW c \in Bos
      PROVE  gref'[c] - gref[c] = One(handle'[c]) - One(handle[c]) + (mmaps'[c] - mmaps[c]) + One(c = b)
  BY <1>1, <1>2, <1>4 DEF One
<1>6. \A c \in Bos : (gref'[c] > 0 <=> gref[c] > 0) /\ mmaps'[c] <= mmaps[c]
  BY <1>1, <1>2, <1>4
<1> QED
  BY <1>2, <1>3, <1>5, <1>6, SameWindows, Dropped

\* The reference of the window becomes the one that the call has to give back.
LEMMA MunmapKeeps ==
  ASSUME NEW sh \in [Threads -> Stages], Inv(sh), NEW t \in Threads, NEW b \in Bos, Munmap(t, b)
  PROVE  IInv'
<1>1. /\ Types /\ Mmaps(sh)
      /\ \A c \in Bos : gref[c] \in Nat /\ mmaps[c] \in Nat /\ leaked[c] \in Nat /\ handle[c] \in BOOLEAN
  BY InvIs
<1>2. /\ Idle(t) /\ mmaps[b] > 0 /\ Start(t, <<On("unref", b)>>)
      /\ mmaps' = [mmaps EXCEPT ![b] = @ - 1]
      /\ UNCHANGED <<st, gref, handle, map1, twice, leaked, alive, nodes, pt, tlb, late, lock>>
  BY DEF Munmap, spacevars
<1>3. \A c \in Bos : mmaps'[c] = IF c = b THEN mmaps[c] - 1 ELSE mmaps[c]
  BY <1>1, <1>2 DEF Types
<1>4. mmaps' \in [Bos -> Nat]
  <2>1. mmaps[b] - 1 \in Nat
    BY <1>1, <1>2
  <2> QED
    BY <1>1, <1>2, <2>1 DEF Types
<1>5. Types'
  BY <1>1, <1>2, <1>4 DEF Types
<1>6. ASSUME NEW c \in Bos
      PROVE  gref'[c] - gref[c] = One(handle'[c]) - One(handle[c]) + (mmaps'[c] - mmaps[c]) + One(c = b)
  BY <1>1, <1>2, <1>3 DEF One
<1>7. \A c \in Bos : (gref'[c] > 0 <=> gref[c] > 0) /\ mmaps'[c] <= mmaps[c]
  BY <1>1, <1>2, <1>3
<1>8. /\ Cardinality(Windows') <= Cardinality(Windows) /\ Cardinality(Windows') \in Nat
      /\ Cardinality(Windows) \in Nat
  <2>1. /\ Cardinality(Windows') = Cardinality(Windows) - 1 /\ Cardinality(Windows) \in Nat
        /\ mmaps[b] <= Cardinality(Windows)
    BY <1>1, <1>2, WindowsAre
  <2> QED
    BY <1>1, <1>2, <2>1
<1> QED
  BY <1>2, <1>5, <1>6, <1>7, <1>8, Dropped

\* A call that takes a reference of an object, which its thread then owes.
LEMMA Taken ==
  ASSUME NEW sh \in [Threads -> Stages], Inv(sh), NEW t \in Threads, NEW b \in Bos, NEW r,
         Idle(t), handle[b], gref' = [gref EXCEPT ![b] = @ + 1],
         UNCHANGED <<st, handle, mmaps, map1, twice, leaked, alive, nodes, pt, tlb, late, lock>>,
         Goes(t, r), r.bo = b, <<r.pc, r.k>> \in {<<"lockplace", "map">>, <<"check", "mmap">>},
         r.k = "map" => alive[r.vs],
         \A sh2 \in [Threads -> Stages] : Moves(sh, sh2, t) /\ sh2[t] = r => Mmaps(sh2)'
  PROVE  IInv'
<1>1. /\ Programs(sh) /\ Types
      /\ \A c \in Bos : gref[c] \in Nat /\ mmaps[c] \in Nat /\ leaked[c] \in Nat /\ handle[c] \in BOOLEAN
      /\ \A c \in Bos : handle[c] \/ mmaps[c] > 0 => gref[c] > 0
  BY InvIs
<1>2. sh[t].pc = "idle"
  BY <1>1, HereIs
<1>3. PICK sh2 \in [Threads -> Stages] :
        Moves(sh, sh2, t) /\ sh2[t] = r /\ WellFormed(r) /\ Programs(sh2)'
  BY <1>1, Arrives
<1>4. Types'
  BY <1>1 DEF Types
<1>5. \A c \in Bos : gref'[c] = IF c = b THEN gref[c] + 1 ELSE gref[c]
  BY <1>1 DEF Types
<1>6. \A c : Owes(sh2[t], c) <=> c = b
  BY <1>3 DEF Owes
<1>7. ASSUME NEW c \in Bos
      PROVE  gref'[c] - gref[c] = One(handle'[c]) - One(handle[c]) + (mmaps'[c] - mmaps[c])
                                  + (leaked'[c] - leaked[c]) + One(Owes(sh2[t], c))
  <2> DEFINE x == One(handle[c])
             y == One(c = b)
  <2>1. x \in Int /\ y \in Int
    BY DEF One
  <2>2. gref'[c] - gref[c] = y
    BY <1>1, <1>5 DEF One
  <2>3. mmaps'[c] - mmaps[c] = 0 /\ leaked'[c] - leaked[c] = 0 /\ One(handle'[c]) = x
    BY <1>1
  <2>4. One(Owes(sh2[t], c)) = y
    BY <1>6 DEF One
  <2> HIDE DEF x, y
  <2>5. y = x - x + 0 + 0 + y
    BY <2>1
  <2> QED
    BY <2>2, <2>3, <2>4, <2>5 DEF x
<1>8. \A c \in Bos : (gref'[c] > 0 <=> gref[c] > 0) /\ (mmaps'[c] > 0 => mmaps[c] > 0)
  BY <1>1, <1>5
<1>9. /\ sh2[t].pc \in Light /\ sh2[t].k # "down" /\ sh2[t].k # "bad" /\ ~Adding(sh2[t])
      /\ ~(sh2[t].k = "mmap" /\ sh2[t].pc = "mapped")
      /\ (sh2[t].k = "map" => alive[sh2[t].vs])
  BY <1>3 DEF Light, Adding
<1>10. Mmaps(sh2)'
  BY <1>3
<1>11. Inv(sh2)'
  BY <1>2, <1>3, <1>4, <1>7, <1>8, <1>9, <1>10, Called
<1> QED
  BY <1>11 DEF IInv

\* A map owes the reference of its lookup.
LEMMA VspaceMapCallKeeps ==
  ASSUME NEW sh \in [Threads -> Stages], Inv(sh), NEW t \in Threads, NEW vs \in Vs, NEW b \in Bos,
         VspaceMapCall(t, vs, b)
  PROVE  IInv'
<1> DEFINE r == Stage("lockplace", "map", vs, b, Null, Null, 0)
<1>1. /\ Idle(t) /\ alive[vs] /\ handle[b] /\ gref' = [gref EXCEPT ![b] = @ + 1]
      /\ Start(t, VspaceMap(vs, b))
      /\ UNCHANGED <<st, handle, mmaps, map1, twice, leaked, alive, nodes, pt, tlb, late, lock>>
  BY DEF VspaceMapCall, Found, spacevars
<1>2. Goes(t, r) /\ r.pc = "lockplace" /\ r.k = "map" /\ r.vs = vs /\ r.bo = b
  BY <1>1, MapCall, StageIs
<1> HIDE DEF r
<1>3. ASSUME NEW sh2 \in [Threads -> Stages], Moves(sh, sh2, t), sh2[t] = r
      PROVE  Mmaps(sh2)'
  <2>1. sh2[t].k # "mmap"
    BY <1>2, <1>3
  <2>2. Mmaps(sh)
    BY InvIs
  <2>3. Cardinality(Windows) \in Nat
    BY <1>1, SameWindows
  <2> QED
    BY <1>1, <1>3, <2>1, <2>2, <2>3, KeepMmaps
<1> QED
  BY <1>1, <1>2, <1>3, Taken

\* An mmap owes the reference of its lookup.
LEMMA MmapKeeps ==
  ASSUME NEW sh \in [Threads -> Stages], Inv(sh), NEW t \in Threads, NEW b \in Bos, Mmap(t, b)
  PROVE  IInv'
<1> DEFINE r == Stage("check", "mmap", Bar, b, Null, Null, 0)
<1>1. /\ Idle(t) /\ CanMap /\ handle[b] /\ gref' = [gref EXCEPT ![b] = @ + 1]
      /\ Start(t, <<On("check", b), On("mapped", b)>>)
      /\ UNCHANGED <<st, handle, mmaps, map1, twice, leaked, alive, nodes, pt, tlb, late, lock>>
  BY DEF Mmap, Found, spacevars
<1>2. Goes(t, r) /\ r.pc = "check" /\ r.k = "mmap" /\ r.bo = b
  BY <1>1, MmapCall, StageIs
<1> HIDE DEF r
<1>3. Programs(sh) /\ Mmaps(sh)
  BY InvIs
<1>4. Cardinality(Windows) + Cardinality(Making(sh)) < MaxMmaps
  BY <1>1, <1>3, PendingMade DEF CanMap, Windows
<1>5. ASSUME NEW sh2 \in [Threads -> Stages], Moves(sh, sh2, t), sh2[t] = r
      PROVE  Mmaps(sh2)'
  <2>1. Windows' = Windows /\ mmaps' = mmaps
    BY <1>1 DEF Windows
  <2>2. Cardinality(Making(sh2)) = Cardinality(Making(sh)) + One(sh2[t].k = "mmap") - One(sh[t].k = "mmap")
    BY <1>5, Counts
  <2>3. Cardinality(Making(sh)) \in Nat /\ Cardinality(Making(sh2)) \in Nat /\ MaxMmaps \in Nat
    BY CountsFinite, MapsAssumption
  <2>4. Cardinality(Windows) \in Nat
    BY <1>1, SameWindows
  <2>5. One(sh2[t].k = "mmap") \in {0, 1} /\ One(sh[t].k = "mmap") \in {0, 1}
    BY DEF One
  <2>6. Cardinality(Windows') + Cardinality(Making(sh2)) <= MaxMmaps
    BY <1>4, <2>1, <2>2, <2>3, <2>4, <2>5
  <2>7. \A c \in Bos : mmaps'[c] <= MaxMmaps
    BY <1>3, <2>1 DEF Mmaps
  <2> QED
    BY <2>6, <2>7 DEF Mmaps
<1> QED
  BY <1>1, <1>2, <1>5, Taken

\* An unmap has nothing until it has found its node.
LEMMA VspaceUnmapCallKeeps ==
  ASSUME NEW sh \in [Threads -> Stages], Inv(sh), NEW t \in Threads, NEW vs \in Vs, NEW n \in nodes[vs],
         VspaceUnmapCall(t, vs, n)
  PROVE  IInv'
<1>1. /\ Programs(sh) /\ Types /\ Nodes(sh) /\ Mmaps(sh)
      /\ \A c \in Bos : gref[c] \in Nat /\ mmaps[c] \in Nat /\ leaked[c] \in Nat /\ handle[c] \in BOOLEAN
  BY InvIs
<1>2. PICK p \in PagesOf(n.bo, n.at) : Start(t, <<Lock(vs), Op("find", vs, Null, p), Unlock(vs)>>)
  BY DEF VspaceUnmapCall
<1>3. Idle(t) /\ alive[vs]
      /\ UNCHANGED <<st, gref, handle, mmaps, map1, twice, leaked, alive, nodes, pt, tlb, late, lock>>
  BY DEF VspaceUnmapCall, objvars, spacevars
<1>4. p \in Int
  BY DEF PagesOf
<1> DEFINE r == Stage("lockfind", "map", vs, Null, p, Null, 0)
<1>5. Goes(t, r) /\ r.pc = "lockfind" /\ r.k = "map" /\ r.vs = vs /\ r.bo = Null
  BY <1>2, <1>4, UnmapCall, StageIs
<1> HIDE DEF r
<1>6. PICK sh2 \in [Threads -> Stages] :
        Moves(sh, sh2, t) /\ sh2[t] = r /\ WellFormed(r) /\ Programs(sh2)'
  BY <1>1, <1>5, Arrives
<1>7. sh[t].pc = "idle"
  BY <1>1, <1>3, HereIs
<1>8. Types'
  BY <1>1, <1>3 DEF Types
<1>9. \A c \in Bos : ~Owes(sh2[t], c)
  BY <1>5, <1>6, MapsAssumption DEF Owes
<1>10. ASSUME NEW c \in Bos
       PROVE  gref'[c] - gref[c] = One(handle'[c]) - One(handle[c]) + (mmaps'[c] - mmaps[c])
                                  + (leaked'[c] - leaked[c]) + One(Owes(sh2[t], c))
  <2>1. One(handle[c]) \in Int /\ One(Owes(sh2[t], c)) = 0
    BY <1>9 DEF One
  <2> QED
    BY <1>1, <1>3, <2>1
<1>11. Mmaps(sh2)'
  <2>1. Cardinality(Windows) \in Nat
    BY <1>3, SameWindows
  <2>2. sh2[t].k # "mmap"
    BY <1>5, <1>6
  <2> QED
    BY <1>1, <1>3, <1>6, <2>1, <2>2, KeepMmaps
<1>12. /\ sh2[t].pc \in Light /\ sh2[t].k # "down" /\ sh2[t].k # "bad" /\ ~Adding(sh2[t])
       /\ ~(sh2[t].k = "mmap" /\ sh2[t].pc = "mapped")
       /\ (sh2[t].k = "map" => alive[sh2[t].vs])
  BY <1>3, <1>5, <1>6 DEF Light, Adding
<1>13. Inv(sh2)'
  BY <1>3, <1>6, <1>7, <1>8, <1>10, <1>11, <1>12, Called
<1> QED
  BY <1>13 DEF IInv

\* A window that is inherited takes a reference.
LEMMA VmOpenKeeps ==
  ASSUME NEW sh \in [Threads -> Stages], Inv(sh), NEW t \in Threads, NEW b \in Bos, VmOpen(t, b)
  PROVE  IInv'
<1>1. /\ Programs(sh) /\ Types /\ Mmaps(sh)
      /\ \A c \in Bos : gref[c] \in Nat /\ mmaps[c] \in Nat /\ leaked[c] \in Nat /\ handle[c] \in BOOLEAN
      /\ \A c \in Bos : handle[c] \/ mmaps[c] > 0 => gref[c] > 0
      /\ WellFormed(sh[t])
  BY InvIs
<1>2. /\ Idle(t) /\ CanMap /\ mmaps[b] > 0
      /\ mmaps' = [mmaps EXCEPT ![b] = @ + 1] /\ gref' = [gref EXCEPT ![b] = @ + 1]
      /\ UNCHANGED <<st, handle, map1, twice, leaked, alive, nodes, pt, tlb, late, lock>> /\ UNCHANGED todo
  BY DEF VmOpen, spacevars
<1>3. sh[t].pc = "idle"
  BY <1>1, <1>2, HereIs
<1>4. Moves(sh, sh, t) /\ Programs(sh)'
  BY <1>1, <1>2, StaysIs
<1>5. Types'
  BY <1>1, <1>2 DEF Types
<1>6. \A c \in Bos : /\ gref'[c] = IF c = b THEN gref[c] + 1 ELSE gref[c]
                     /\ mmaps'[c] = IF c = b THEN mmaps[c] + 1 ELSE mmaps[c]
  BY <1>1, <1>2 DEF Types
<1>7. sh[t].pc \in Light /\ sh[t].k = "none" /\ \A c : ~Owes(sh[t], c)
  <2>1. sh[t].pc \in Light
    BY <1>3 DEF Light
  <2> QED
    BY <1>1, <1>3, <2>1, LightIs
<1>8. ASSUME NEW c \in Bos
      PROVE  gref'[c] - gref[c] = One(handle'[c]) - One(handle[c]) + (mmaps'[c] - mmaps[c])
                                  + (leaked'[c] - leaked[c]) + One(Owes(sh[t], c))
  <2>1. One(handle[c]) \in Int /\ One(Owes(sh[t], c)) = 0
    BY <1>7 DEF One
  <2> DEFINE h == One(handle[c])
  <2>2. h \in Int /\ One(handle'[c]) = h /\ leaked'[c] = leaked[c]
    BY <1>2, <2>1
  <2> HIDE DEF h
  <2>3. gref'[c] - gref[c] = mmaps'[c] - mmaps[c] /\ mmaps'[c] - mmaps[c] \in Int
    BY <1>1, <1>6
  <2>4. mmaps'[c] - mmaps[c] = h - h + (mmaps'[c] - mmaps[c]) + 0 + 0
    BY <2>2, <2>3
  <2>5. leaked'[c] - leaked[c] = 0
    BY <1>1, <2>2
  <2> QED
    BY <2>1, <2>2, <2>3, <2>4, <2>5 DEF h
<1>9. Cardinality(Windows) + Cardinality(Making(sh)) < MaxMmaps
  BY <1>1, <1>2, PendingMade DEF CanMap, Windows
<1>10. Cardinality(Making(sh)) \in Nat /\ MaxMmaps \in Nat /\ Cardinality(Windows) \in Nat
       /\ mmaps[b] <= Cardinality(Windows)
  BY <1>1, CountsFinite, MapsAssumption, WindowsAre
<1>11. mmaps[b] < MaxMmaps
  BY <1>1, <1>9, <1>10
<1>12. Cardinality(Windows') = Cardinality(Windows) + 1
  BY <1>1, <1>2, <1>11, WindowsAre
<1>13. Mmaps(sh)'
  <2>1. Cardinality(Windows') + Cardinality(Making(sh)) <= MaxMmaps
    BY <1>9, <1>10, <1>12
  <2>2. \A c \in Bos : mmaps'[c] <= MaxMmaps
    BY <1>1, <1>6, <1>10, <1>11 DEF Mmaps
  <2> QED
    BY <1>1, <2>1, <2>2 DEF Mmaps
<1>14. \A c \in Bos : (gref'[c] > 0 <=> gref[c] > 0) /\ (mmaps'[c] > 0 => mmaps[c] > 0)
  BY <1>1, <1>2, <1>6
<1>15. Inv(sh)'
  BY <1>2, <1>3, <1>4, <1>5, <1>7, <1>8, <1>13, <1>14, Called DEF Adding
<1> QED
  BY <1>15 DEF IInv

\* A new object has one reference and is nowhere in the BAR.
LEMMA GemNewKeeps ==
  ASSUME NEW sh \in [Threads -> Stages], Inv(sh), NEW t \in Threads, NEW b \in Bos, GemNew(t, b)
  PROVE  IInv'
<1>1. /\ Programs(sh) /\ Types /\ Locks(sh) /\ Nodes(sh) /\ Downs(sh) /\ Balance(sh)
      /\ Objects(sh) /\ Mmaps(sh) /\ InBar(sh) /\ Tables(sh) /\ Filled(sh)
      /\ BarExact(sh) /\ Windowed(sh) /\ WellFormed(sh[t])
      /\ \A c \in Bos : gref[c] \in Nat /\ mmaps[c] \in Nat /\ leaked[c] \in Nat /\ handle[c] \in BOOLEAN
      /\ \A c \in Bos : handle[c] \/ mmaps[c] > 0 => gref[c] > 0
  BY InvIs
<1>2. /\ Idle(t) /\ st[b] = "none" /\ st' = [st EXCEPT ![b] = "live"]
      /\ gref' = [gref EXCEPT ![b] = 1] /\ handle' = [handle EXCEPT ![b] = TRUE]
      /\ UNCHANGED <<mmaps, map1, twice, leaked, alive, nodes, pt, tlb, late, lock>> /\ UNCHANGED todo
  BY DEF GemNew, spacevars
<1>3. sh[t].pc = "idle"
  BY <1>1, <1>2, HereIs
<1>4. Moves(sh, sh, t) /\ Programs(sh)'
  BY <1>1, <1>2, StaysIs
<1>5. Types'
  BY <1>1, <1>2 DEF Types
<1>6. \A c \in Bos : /\ gref'[c] = IF c = b THEN 1 ELSE gref[c]
                     /\ st'[c] = IF c = b THEN "live" ELSE st[c]
  BY <1>1, <1>2 DEF Types
<1>6a. handle'[b] /\ \A c \in Bos : c # b => handle'[c] = handle[c]
  BY <1>1, <1>2 DEF Types
<1>7. gref[b] = 0 /\ ~handle[b]
  BY <1>1, <1>2 DEF Objects
<1>8. /\ \A vs, n : ~Owns(sh[t], vs, n)
      /\ sh[t].k = "none" /\ ~Has(sh[t]) /\ sh[t].pc \notin Freeing /\ ~Adding(sh[t])
  <2>1. sh[t].pc \in Light
    BY <1>3 DEF Light
  <2> QED
    BY <1>1, <1>3, <2>1, LightIs
<1>9. Locks(sh)'
  BY <1>1, <1>2, <1>4, KeepLocks
<1>10. Nodes(sh)'
  BY <1>1, <1>2, <1>4, <1>8, KeepNodes
<1>11. Downs(sh)'
  BY <1>1, <1>2, <1>4, <1>8, KeepDowns
<1>12. Balance(sh)'
  <2>1. ASSUME NEW c \in Bos
        PROVE  gref'[c] - gref[c] + One(Lent(sh[t], c)) - One(Lent(sh[t], c))
             = One(handle'[c]) - One(handle[c]) + (mmaps'[c] - mmaps[c]) + (leaked'[c] - leaked[c])
                 + One(Owes(sh[t], c)) - One(Owes(sh[t], c))
    <3> DEFINE l == One(Lent(sh[t], c))
               o == One(Owes(sh[t], c))
               g == gref'[c] - gref[c]
               h == One(handle'[c]) - One(handle[c])
    <3>1. l \in Int /\ o \in Int
      BY DEF One
    <3>2. g = h /\ g \in Int
      <4> DEFINE x == One(handle'[c])
                 y == One(handle[c])
      <4>1. CASE c = b
        <5>1. x = 1 /\ y = 0
          BY <1>6a, <1>7, <4>1 DEF One
        <5>2. g = 1
          BY <1>6, <1>7, <4>1
        <5> HIDE DEF x, y, g
        <5>3. x - y = 1
          BY <5>1
        <5> QED
          BY <5>2, <5>3 DEF x, y
      <4>2. CASE c # b
        <5>1. x = y /\ y \in Int
          BY <1>6a, <4>2 DEF One
        <5>2. g = 0
          BY <1>1, <1>6, <4>2
        <5> HIDE DEF x, y, g
        <5>3. x - y = 0
          BY <5>1
        <5> QED
          BY <5>2, <5>3 DEF x, y
      <4> QED
        BY <4>1, <4>2
    <3>3. mmaps'[c] - mmaps[c] = 0 /\ leaked'[c] - leaked[c] = 0
      BY <1>1, <1>2
    <3> HIDE DEF l, o, g, h
    <3>4. g + l - l = h + 0 + 0 + o - o
      BY <3>1, <3>2
    <3> QED
      BY <3>3, <3>4 DEF l, o, g, h
  <2> QED
    BY <1>1, <1>2, <1>4, <1>5, <2>1, KeepRefs
<1>13. Objects(sh)'
  <2>1. \A u \in Threads : sh[u].pc \in Freeing => sh[u].bo \in Bos /\ sh[u].bo # b
    BY <1>1, <1>2, Freers DEF Objects
  <2>2. \A c \in Bos : gref'[c] > 0 => st'[c] = "live"
    BY <1>1, <1>6 DEF Objects
  <2>3. \A c \in Bos : st'[c] = "none" => map1'[c] = Null
    BY <1>1, <1>2, <1>6 DEF Objects
  <2>4. \A u \in Threads : sh[u].pc \in Freeing => gref'[sh[u].bo] = 0 /\ st'[sh[u].bo] = "live"
    BY <1>1, <1>6, <2>1 DEF Objects
  <2>5. \A x, y \in Threads : {sh[x].pc, sh[y].pc} \subseteq Freeing /\ sh[x].bo = sh[y].bo => x = y
    BY <1>1 DEF Objects
  <2>6. ASSUME NEW c \in Bos, st'[c] = "live", gref'[c] = 0
        PROVE  \E u \in Threads : sh[u].pc \in Freeing /\ sh[u].bo = c
    <3>1. st[c] = "live" /\ gref[c] = 0
      BY <1>6, <2>6
    <3> QED
      BY <1>1, <3>1 DEF Objects
  <2> QED
    BY <2>2, <2>3, <2>4, <2>5, <2>6 DEF Objects
<1>14. Mmaps(sh)'
  <2>1. Cardinality(Windows) \in Nat
    BY <1>2, SameWindows
  <2> QED
    BY <1>1, <1>2, <1>4, <1>8, <2>1, KeepMmaps
<1>15. InBar(sh)'
  <2>1. \A n \in nodes'[Bar] : n \in nodes[Bar] /\ (n.bo \notin twice => st'[n.bo] = "live")
    <3> SUFFICES ASSUME NEW n \in nodes[Bar], n.bo \notin twice PROVE st'[n.bo] = "live"
      BY <1>2
    <3>1. n.bo \in Bos
      BY <1>1, Spaced DEF Types
    <3>2. st[n.bo] = "live"
      BY <1>1 DEF InBar
    <3> QED
      BY <1>6, <3>1, <3>2
  <2> QED
    BY <1>1, <1>2, <1>4, <1>8, <2>1, KeepInBar
<1>16. Tables(sh)'
  BY <1>1, <1>2, <1>4, KeepTables
<1>17. Filled(sh)'
  BY <1>1, <1>2, <1>4, <1>8, KeepFilled
<1>18. BarExact(sh)'
  <2>1. \A c \in Bos : gref'[c] > 0 => gref[c] > 0 \/ map1[c] = Null
    BY <1>1, <1>2, <1>6 DEF Objects
  <2> QED
    BY <1>1, <1>2, <1>4, <1>8, <2>1, KeepBarExact
<1>19. Windowed(sh)'
  BY <1>1, <1>2, <1>4, <1>8, KeepWindowed
<1>20. Inv(sh)'
  BY <1>4, <1>5, <1>9, <1>10, <1>11, <1>12, <1>13, <1>14, <1>15, <1>16, <1>17, <1>18, <1>19 DEF Inv
<1> QED
  BY <1>20 DEF IInv

\* Nobody else is at work in an address space that goes, and nothing is remembered of it.
LEMMA VspaceFreeKeeps ==
  ASSUME NEW sh \in [Threads -> Stages], Inv(sh), NEW t \in Threads, NEW vs \in Vs, VspaceFree(t, vs)
  PROVE  IInv'
<1> DEFINE r == Stage("down", "down", vs, Null, Null, Null, 0)
<1>1. /\ Programs(sh) /\ Types /\ Locks(sh) /\ Nodes(sh) /\ Downs(sh) /\ Balance(sh)
      /\ Objects(sh) /\ Mmaps(sh) /\ InBar(sh) /\ Tables(sh) /\ Filled(sh)
      /\ BarExact(sh) /\ Windowed(sh) /\ WellFormed(sh[t])
      /\ \A c \in Bos : gref[c] \in Nat /\ mmaps[c] \in Nat /\ leaked[c] \in Nat /\ handle[c] \in BOOLEAN
  BY InvIs
<1>2. /\ Idle(t) /\ alive[vs] /\ Pending(LAMBDA op : op.vs = vs) = 0
      /\ alive' = [alive EXCEPT ![vs] = FALSE] /\ tlb' = [tlb EXCEPT ![vs] = Empty(vs)]
      /\ late' = [late EXCEPT ![vs] = {}]
      /\ Start(t, <<Op("takedown", vs, Null, Null)>>)
      /\ UNCHANGED <<st, gref, handle, mmaps, map1, twice, leaked, nodes, pt, lock>>
  BY DEF VspaceFree, objvars
<1>3. vs \in Spaces /\ vs # Bar
  BY Spaced
<1>4. Goes(t, r) /\ r.pc = "down" /\ r.k = "down" /\ r.vs = vs /\ r.bo = Null
  BY <1>2, FreeCall, StageIs
<1> HIDE DEF r
<1>5. PICK sh2 \in [Threads -> Stages] :
        Moves(sh, sh2, t) /\ sh2[t] = r /\ WellFormed(r) /\ Programs(sh2)'
  BY <1>1, <1>4, Arrives
<1>6. sh[t].pc = "idle"
  BY <1>1, <1>2, HereIs
<1>7. Types'
  <2>1. Empty(vs) \in [Page(vs) -> Bos \cup {Null}]
    BY DEF Empty
  <2>2. \A v \in Spaces : tlb'[v] = IF v = vs THEN Empty(vs) ELSE tlb[v]
    BY <1>1, <1>2 DEF Types
  <2>3. DOMAIN tlb' = Spaces /\ \A v \in Spaces : tlb'[v] \in [Page(v) -> Bos \cup {Null}]
    BY <1>1, <1>2, <2>1, <2>2 DEF Types
  <2>4. DOMAIN late' = Spaces /\ \A v \in Spaces : late'[v] = IF v = vs THEN {} ELSE late[v]
    BY <1>1, <1>2 DEF Types
  <2>5. \A v \in Spaces : late'[v] \subseteq Page(v)
    BY <1>1, <2>4 DEF Types
  <2> QED
    BY <1>1, <1>2, <2>3, <2>4, <2>5 DEF Types
<1>8. /\ \A v \in Spaces : ~Holding(sh[t], v)
      /\ \A v, n : ~Owns(sh[t], v, n)
      /\ \A b : ~Lent(sh[t], b)
      /\ \A n : ~Puts(sh[t], n)
      /\ sh[t].k = "none" /\ sh[t].pc \notin Freeing /\ ~Adding(sh[t]) /\ \A b : ~Owes(sh[t], b)
  <2>1. sh[t].pc \in Light
    BY <1>6 DEF Light
  <2> QED
    BY <1>1, <1>6, <2>1, LightIs
<1>9. /\ \A v \in Spaces : ~Holding(sh2[t], v)
      /\ ~Has(sh2[t]) /\ sh2[t].pc \notin Freeing
      /\ \A v, n : ~Owns(sh2[t], v, n)
      /\ \A b : ~Lent(sh2[t], b)
      /\ \A v, n, p : ~Cleared(sh2[t], v, n, p)
      /\ \A v, n : ~Forgotten(sh2[t], v, n)
      /\ ~Adding(sh2[t]) /\ sh2[t].k = "down" /\ sh2[t].vs = vs
  <2>1. sh2[t].pc \in Light /\ WellFormed(sh2[t])
    BY <1>4, <1>5 DEF Light
  <2> QED
    BY <1>4, <1>5, <2>1, LightIs DEF Adding
<1>10. \A b \in Bos : ~Owes(sh2[t], b)
  BY <1>4, <1>5, MapsAssumption DEF Owes
<1>11. \A u \in Threads : u # t => sh2[u] = sh[u]
  BY <1>5 DEF Moves
<1>12. \A v \in Spaces : alive'[v] <=> alive[v] /\ v # vs
  BY <1>1, <1>2 DEF Types
<1>13. \A v \in Spaces : alive'[v] => alive[v] /\ v # vs /\ tlb'[v] = tlb[v] /\ late'[v] = late[v]
  BY <1>1, <1>2, <1>12 DEF Types
<1>14. Locks(sh2)'
  BY <1>1, <1>2, <1>5, <1>8, <1>9, KeepLocks
<1>15. Nodes(sh2)'
  BY <1>1, <1>2, <1>5, <1>9, KeepNodes
<1>16. Downs(sh2)'
  <2>1. \A u \in Threads : sh[u].k = "map" => sh[u].vs # vs
    BY <1>1, <1>2, NoneThere
  <2>2. \A u \in Threads : sh[u].k = "down" => sh[u].vs # vs
    BY <1>1, <1>2 DEF Downs
  <2>3. \A u \in Threads : sh[u].k \in {"map", "down"} => sh[u].vs \in Spaces
    BY <1>1, FormIs DEF Programs
  <2>4. alive'[Bar]
    BY <1>1, <1>3, <1>12, Spaced DEF Downs
  <2>5. \A u \in Threads : sh2[u].k = "down" => ~alive'[sh2[u].vs]
    BY <1>1, <1>3, <1>9, <1>11, <1>12, <2>3 DEF Downs
  <2>6. \A u \in Threads : sh2[u].k = "map" => alive'[sh2[u].vs]
    BY <1>1, <1>9, <1>11, <1>12, <2>1, <2>3 DEF Downs
  <2>7. ASSUME NEW x \in Threads, NEW y \in Threads, sh2[x].k = "down", sh2[y].k = "down", sh2[x].vs = sh2[y].vs
        PROVE  x = y
    <3>1. CASE x = t \/ y = t
      BY <1>9, <1>11, <2>2, <2>7, <3>1
    <3>2. CASE x # t /\ y # t
      BY <1>1, <1>11, <2>7, <3>2 DEF Downs
    <3> QED
      BY <3>1, <3>2
  <2>8. ASSUME NEW v \in Vs, ~alive'[v], nodes'[v] # {}
        PROVE  \E u \in Threads : sh2[u].k = "down" /\ sh2[u].vs = v
    <3>1. CASE v = vs
      BY <1>9, <3>1
    <3>2. CASE v # vs
      <4>1. PICK u \in Threads : sh[u].k = "down" /\ sh[u].vs = v
        BY <1>1, <1>2, <1>12, <2>8, <3>2, Spaced DEF Downs
      <4> QED
        BY <1>8, <1>11, <4>1
    <3> QED
      BY <3>1, <3>2
  <2> QED
    BY <2>4, <2>5, <2>6, <2>7, <2>8 DEF Downs
<1>17. Balance(sh2)'
  <2>1. ASSUME NEW c \in Bos
        PROVE  gref'[c] - gref[c] + One(Lent(sh2[t], c)) - One(Lent(sh[t], c))
             = One(handle'[c]) - One(handle[c]) + (mmaps'[c] - mmaps[c]) + (leaked'[c] - leaked[c])
                 + One(Owes(sh2[t], c)) - One(Owes(sh[t], c))
    <3>1. /\ One(Lent(sh2[t], c)) = 0 /\ One(Lent(sh[t], c)) = 0
          /\ One(Owes(sh2[t], c)) = 0 /\ One(Owes(sh[t], c)) = 0
      BY <1>8, <1>9, <1>10 DEF One
    <3>2. One(handle[c]) \in Int
      BY DEF One
    <3> QED
      BY <1>1, <1>2, <3>1, <3>2
  <2> QED
    BY <1>1, <1>2, <1>5, <1>7, <2>1, KeepRefs
<1>18. Objects(sh2)'
  <2>1. \A u \in Threads : sh[u].pc \in Freeing => sh[u].bo \in Bos
    BY <1>1, Freers
  <2>2. \A b \in Bos : st[b] = "none" => map1'[b] = Null
    BY <1>1, <1>2 DEF Objects
  <2>3. gref' = gref /\ st' = st
    BY <1>2
  <2> QED
    BY <1>1, <1>5, <1>8, <1>9, <2>1, <2>2, <2>3, KeepObjects
<1>19. Mmaps(sh2)'
  <2>1. Cardinality(Windows) \in Nat
    BY <1>2, SameWindows
  <2> QED
    BY <1>1, <1>2, <1>5, <1>9, <2>1, KeepMmaps
<1>20. InBar(sh2)'
  <2>1. \A n \in nodes'[Bar] : n \in nodes[Bar] /\ (n.bo \notin twice => st'[n.bo] = "live")
    BY <1>1, <1>2 DEF InBar
  <2> QED
    BY <1>1, <1>2, <1>5, <1>8, <1>9, <2>1, KeepInBar
<1>21. Tables(sh2)'
  BY <1>1, <1>2, <1>5, <1>9, <1>13, KeepTables
<1>22. Filled(sh2)'
  BY <1>1, <1>2, <1>5, <1>8, <1>9, <1>13, KeepFilled
<1>23. BarExact(sh2)'
  BY <1>1, <1>2, <1>5, <1>9, KeepBarExact
<1>24. Windowed(sh2)'
  BY <1>1, <1>2, <1>5, <1>9, KeepWindowed
<1>25. Inv(sh2)'
  BY <1>5, <1>7, <1>14, <1>15, <1>16, <1>17, <1>18, <1>19, <1>20, <1>21, <1>22, <1>23, <1>24 DEF Inv
<1> QED
  BY <1>25 DEF IInv

\* Every call keeps the invariant.
LEMMA CallKeeps ==
  ASSUME NEW sh \in [Threads -> Stages], Inv(sh), NEW t \in Threads, Call(t)
  PROVE  IInv'
<1>1. CASE \E b \in Bos : GemNew(t, b) \/ GemClose(t, b) \/ GemInfo(t, b)
  BY <1>1, GemNewKeeps, GemCloseKeeps, GemInfoKeeps
<1>2. CASE \E b \in Bos : Mmap(t, b) \/ VmOpen(t, b) \/ Munmap(t, b)
  BY <1>2, MmapKeeps, VmOpenKeeps, MunmapKeeps
<1>3. CASE \E vs \in Vs, b \in Bos : VspaceMapCall(t, vs, b)
  BY <1>3, VspaceMapCallKeeps
<1>4. CASE \E vs \in Vs : \E n \in nodes[vs] : VspaceUnmapCall(t, vs, n)
  BY <1>4, VspaceUnmapCallKeeps
<1>5. CASE \E vs \in Vs : VspaceFree(t, vs)
  BY <1>5, VspaceFreeKeeps
<1> QED
  BY <1>1, <1>2, <1>3, <1>4, <1>5 DEF Call

-----------------------------------------------------------------------------
(* The steps of a thread                                                   *)

\* The nodes of an address space are objects at pages of it.
LEMMA NodesAre ==
  ASSUME NEW sh, Types, Nodes(sh), NEW vs \in Spaces, NEW n \in nodes[vs]
  PROVE  /\ n.bo \in Bos /\ n.at \in Int /\ n = Node(n.bo, n.at)
         /\ n.at \in PagesOf(n.bo, n.at) /\ n.at \in Page(vs) /\ n.at \in Nat /\ n.at # Null
<1>1. n \in [bo : Bos, at : Int]
  BY DEF Types
<1>2. n.bo \in Bos /\ n.at \in Int /\ n = Node(n.bo, n.at)
  BY <1>1 DEF Node
<1>3. Size[n.bo] \in Nat \ {0}
  BY <1>2, Some
<1>4. n.at \in PagesOf(n.bo, n.at)
  BY <1>2, <1>3 DEF PagesOf
<1>5. n.at \in Page(vs)
  BY <1>4 DEF Nodes
<1>6. n.at \in Nat
  BY <1>2, <1>5 DEF Page
<1> QED
  BY <1>2, <1>4, <1>5, <1>6, MapsAssumption

\* A thread that does nothing but the operation that it is at.
Onward(s, r) ==
  /\ r.pc = NextPc(s)
  /\ r.k = IF NextPc(s) \in {"idle", "drop"} THEN "none" ELSE s.k
  /\ r.vs = s.vs /\ r.bo = s.bo /\ r.at = s.at /\ r.bat = s.bat
  /\ r.i = IF NextPc(s) = s.pc THEN s.i + 1 ELSE 0

\* A thread that does its operation and nothing else.
LEMMA GoesOn ==
  ASSUME NEW sh \in [Threads -> Stages], Programs(sh), NEW t \in Threads, NEW do,
         At(t, do), Then(t, <<>>)
  PROVE  \E sh2 \in [Threads -> Stages] :
           /\ Moves(sh, sh2, t) /\ Programs(sh2)' /\ WellFormed(sh2[t]) /\ WellFormed(sh[t])
           /\ Onward(sh[t], sh2[t])
<1>1. Goes(t, After(sh[t]))
  BY PlainMove
<1>2. PICK sh2 \in [Threads -> Stages] :
         Moves(sh, sh2, t) /\ sh2[t] = After(sh[t]) /\ WellFormed(After(sh[t])) /\ Programs(sh2)'
  BY <1>1, Arrives
<1>3. WellFormed(sh[t])
  BY DEF Programs
<1>4. sh[t] \in Stages
  OBVIOUS
<1> QED
  BY <1>2, <1>3, <1>4, AfterIs DEF Onward

\* A step that moves no object and no node.
LEMMA Quiet ==
  ASSUME NEW sh \in [Threads -> Stages], Inv(sh), Types', NEW sh2 \in [Threads -> Stages],
         NEW t \in Threads, Moves(sh, sh2, t), Programs(sh2)',
         UNCHANGED <<st, gref, handle, mmaps, map1, twice, leaked, alive, nodes>>,
         Locks(sh2)', Tables(sh2)', Filled(sh2)',
         Has(sh2[t]) => NodeOf(sh2[t]) \in nodes[sh2[t].vs],
         sh2[t].k = "down" => sh[t].k = "down" /\ sh2[t].vs = sh[t].vs,
         sh[t].k = "down" => (sh2[t].k = "down" /\ sh2[t].vs = sh[t].vs) \/ nodes[sh[t].vs] = {},
         sh2[t].k = "map" => alive[sh2[t].vs],
         \A b \in Bos : One(Lent(sh2[t], b)) - One(Lent(sh[t], b)) = One(Owes(sh2[t], b)) - One(Owes(sh[t], b)),
         sh2[t].pc \in Freeing \/ sh[t].pc \in Freeing =>
           sh2[t].pc \in Freeing /\ sh[t].pc \in Freeing /\ sh2[t].bo = sh[t].bo /\ sh2[t].bat = sh[t].bat
             /\ (sh2[t].pc \in {"funlock", "release"} <=> sh[t].pc \in {"funlock", "release"}),
         sh2[t].k = "mmap" => sh[t].k = "mmap" /\ sh2[t].bo = sh[t].bo,
         \A n \in nodes[Bar] : Puts(sh[t], n) => Puts(sh2[t], n),
         Adding(sh2[t]) => Adding(sh[t]) /\ sh2[t].bo = sh[t].bo /\ sh2[t].at = sh[t].at,
         ~BarMapFails => (sh2[t].k = "bad" => sh2[t].pc = "unlock"),
         sh2[t].k = "mmap" /\ sh2[t].pc \in {"mapped", "unlock"} =>
           \/ map1[sh2[t].bo] # Null
           \/ sh[t].k = "mmap" /\ sh[t].pc \in {"mapped", "unlock"} /\ sh[t].bo = sh2[t].bo
  PROVE  IInv'
<1>1. /\ Programs(sh) /\ Types /\ Locks(sh) /\ Nodes(sh) /\ Downs(sh) /\ Balance(sh)
      /\ Objects(sh) /\ Mmaps(sh) /\ InBar(sh) /\ Tables(sh) /\ Filled(sh)
      /\ BarExact(sh) /\ Windowed(sh)
      /\ \A c \in Bos : gref[c] \in Nat /\ mmaps[c] \in Nat /\ leaked[c] \in Nat /\ handle[c] \in BOOLEAN
  BY InvIs
<1>2. Nodes(sh2)'
  BY <1>1, KeepNodes
<1>3. Downs(sh2)'
  <2>1. nodes' = nodes
    OBVIOUS
  <2> QED
    BY <1>1, <2>1, KeepDowns
<1>4. Balance(sh2)'
  <2>1. ASSUME NEW b \in Bos
        PROVE  gref'[b] - gref[b] + One(Lent(sh2[t], b)) - One(Lent(sh[t], b))
             = One(handle'[b]) - One(handle[b]) + (mmaps'[b] - mmaps[b]) + (leaked'[b] - leaked[b])
                 + One(Owes(sh2[t], b)) - One(Owes(sh[t], b))
    <3> DEFINE h == One(handle[b])
               l2 == One(Lent(sh2[t], b))
               l1 == One(Lent(sh[t], b))
               o2 == One(Owes(sh2[t], b))
               o1 == One(Owes(sh[t], b))
    <3>1. h \in Int /\ l2 \in Int /\ l1 \in Int /\ o2 \in Int /\ o1 \in Int /\ l2 - l1 = o2 - o1
      BY DEF One
    <3>2. One(handle'[b]) = h
      OBVIOUS
    <3>3. gref'[b] - gref[b] = 0 /\ mmaps'[b] - mmaps[b] = 0 /\ leaked'[b] - leaked[b] = 0
      BY <1>1
    <3> HIDE DEF h, l2, l1, o2, o1
    <3>4. 0 + l2 - l1 = h - h + 0 + 0 + o2 - o1
      BY <3>1
    <3> QED
      BY <3>2, <3>3, <3>4 DEF h, l2, l1, o2, o1
  <2> QED
    BY <1>1, <2>1, KeepRefs
<1>5. Objects(sh2)'
  <2>1. \A u \in Threads : sh[u].pc \in Freeing => sh[u].bo \in Bos
    BY <1>1, Freers
  <2>2. \A b \in Bos : st[b] = "none" => map1'[b] = Null
    BY <1>1 DEF Objects
  <2>3. gref' = gref /\ st' = st
    OBVIOUS
  <2> QED
    BY <1>1, <2>1, <2>2, <2>3, KeepObjects
<1>6. Mmaps(sh2)'
  <2>1. Cardinality(Windows) \in Nat
    BY SameWindows
  <2> QED
    BY <1>1, <2>1, KeepMmaps
<1>7. InBar(sh2)'
  <2>1. \A n \in nodes[Bar] : n.bo \notin twice => st[n.bo] = "live"
    BY <1>1 DEF InBar
  <2>2. sh2[t].pc \in Freeing =>
           IF sh2[t].pc \in {"funlock", "release"}
             THEN sh2[t].bo \in twice \/ \A n \in nodes[Bar] : n.bo # sh2[t].bo
             ELSE map1[sh2[t].bo] = sh2[t].bat
    BY <1>1 DEF InBar
  <2>3. nodes'[Bar] = nodes[Bar] /\ st' = st /\ map1' = map1 /\ twice' = twice
    OBVIOUS
  <2> QED
    BY <1>1, <2>1, <2>2, <2>3, KeepInBar
<1>8. BarExact(sh2)'
  <2>1. ~BarMapFails => (sh2[t].pc \in Freeing \ {"funlock", "release"} => BarNode(sh2[t]) \in nodes'[Bar])
    BY <1>1 DEF BarExact, BarNode
  <2>2. ~BarMapFails => (Adding(sh2[t]) => map1[sh2[t].bo] # sh2[t].at)
    BY <1>1 DEF BarExact, Adding
  <2> QED
    BY <1>1, <2>1, <2>2, KeepBarExact
<1>9. Windowed(sh2)'
  <2>1. sh2[t].k = "mmap" /\ sh2[t].pc \in {"mapped", "unlock"} => map1[sh2[t].bo] # Null
    BY <1>1 DEF Windowed
  <2> QED
    BY <1>1, <2>1, KeepWindowed
<1>10. Inv(sh2)'
  BY <1>2, <1>3, <1>4, <1>5, <1>6, <1>7, <1>8, <1>9 DEF Inv
<1> QED
  BY <1>10 DEF IInv

\* Who takes a mutex finds the address space with no other thread at work.
LEMMA LockStepKeeps ==
  ASSUME NEW sh \in [Threads -> Stages], Inv(sh), NEW t \in Threads, LockStep(t)
  PROVE  IInv'
<1>1. /\ Programs(sh) /\ Types /\ Locks(sh) /\ Nodes(sh) /\ Downs(sh) /\ Tables(sh) /\ Filled(sh)
      /\ WellFormed(sh[t])
  BY InvIs
<1>2. /\ At(t, "lock") /\ lock[Now(t).vs] = Null /\ lock' = [lock EXCEPT ![Now(t).vs] = t] /\ Then(t, <<>>)
      /\ UNCHANGED <<st, gref, handle, mmaps, map1, twice, leaked, alive, nodes, pt, tlb, late>>
  BY DEF LockStep, objvars
<1>3. PICK sh2 \in [Threads -> Stages] :
           /\ Moves(sh, sh2, t) /\ Programs(sh2)' /\ WellFormed(sh2[t])
           /\ Onward(sh[t], sh2[t])
  BY <1>1, <1>2, GoesOn
<1> DEFINE s == sh[t]
           r == sh2[t]
<1>4. s.pc \in {"lockplace", "lockfind", "flock"} /\ Now(t) = NowOf(s)
  BY <1>1, <1>2, AtIs, HereIs
<1>5. /\ s.pc = "lockplace" => r.pc = "place" /\ Now(t) = Lock(s.vs)
      /\ s.pc = "lockfind" => r.pc = "find" /\ Now(t) = Lock(s.vs)
      /\ s.pc = "flock" => r.pc = "fclear" /\ Now(t) = Lock(Bar)
      /\ r.k = s.k /\ r.i = 0
  BY <1>3, <1>4, NextPcIs, NowOfIs DEF Onward
<1>6. /\ s.pc \in {"lockplace", "lockfind"} => s.k \in {"map", "mmap"} /\ s.vs \in Spaces
      /\ s.pc = "flock" => s.k \in {"none", "map", "down"} /\ s.bat \in Int
      /\ (s.k \in {"map", "down"} => s.vs # Bar)
  <2>1. s.pc \in {"lockplace", "lockfind"} => s.k \in {"map", "mmap"}
    BY <1>1, FormIs DEF Suits, Kinds, WithNode, Freeing
  <2>2. s.k \in {"map", "mmap"} => s.vs \in Spaces
    BY <1>1, FormIs, Spaced
  <2>3. s.pc = "flock" => s.k \in {"none", "map", "down"} /\ s.bat \in Int
    BY <1>1, FormIs DEF WellFormed, Freeing
  <2> QED
    BY <1>1, <2>1, <2>2, <2>3, FormIs
<1> DEFINE v == Now(t).vs
<1>7. v = (IF s.pc = "flock" THEN Bar ELSE s.vs) /\ v \in Spaces
  <2>1. s.pc = "flock" => v = Bar
    BY <1>5, LocksAre, Spaced
  <2>2. s.pc # "flock" => v = s.vs /\ v \in Spaces
    BY <1>4, <1>5, <1>6, LocksAre
  <2> QED
    BY <2>1, <2>2, Spaced
<1>8. Locks(sh2)'
  <2>1. ASSUME NEW vs \in Spaces
        PROVE  Holding(r, vs) <=> Holding(s, vs) \/ vs = v
    <3>1. CASE s.pc = "flock"
      <4>1. r.pc = "fclear" /\ v = Bar /\ r.k = s.k /\ r.vs = s.vs
        BY <1>3, <1>5, <1>7, <3>1 DEF Onward
      <4> HIDE DEF s, r, v
      <4> QED
        BY <3>1, <4>1 DEF Holding, Locked, BarLocked, Freeing
    <3>2. CASE s.pc # "flock"
      <4>1. r.pc \in {"place", "find"} /\ v = s.vs /\ r.k = s.k /\ r.vs = s.vs
            /\ s.pc \in {"lockplace", "lockfind"} /\ s.k \in {"map", "mmap"}
        BY <1>3, <1>4, <1>5, <1>6, <1>7, <3>2 DEF Onward
      <4> HIDE DEF s, r, v
      <4> QED
        BY <4>1 DEF Holding, Locked, BarLocked, Freeing
    <3> QED
      BY <3>1, <3>2
  <2> HIDE DEF s, r, v
  <2>2. lock[v] = Null /\ lock' = [lock EXCEPT ![v] = t] /\ v \in Spaces
    BY <1>2, <1>7 DEF v
  <2>3. \A vs \in Spaces : Holding(sh2[t], vs) <=> Holding(sh[t], vs) \/ vs = v
    BY <2>1 DEF s, r
  <2> QED
    BY <1>1, <1>3, <2>2, <2>3, TakeLock
<1>9. Types'
  BY <1>1, <1>2, <1>7 DEF Types
<1>10. /\ (Has(r) <=> Has(s)) /\ NodeOf(r) = NodeOf(s) /\ BarNode(r) = BarNode(s)
       /\ (r.pc \in Freeing <=> s.pc \in Freeing)
       /\ \A b : (Lent(r, b) <=> Lent(s, b)) /\ (Owes(r, b) <=> Owes(s, b))
       /\ ~Adding(r) /\ (r.k = "bad" => FALSE)
       /\ r.pc \notin {"mapped", "unlock", "funlock", "release", "write", "assign"}
       /\ s.pc \notin {"funlock", "release"}
       /\ (s.pc = "flock" <=> r.pc = "fclear")
  <2>1. r.vs = s.vs /\ r.bo = s.bo /\ r.at = s.at /\ r.bat = s.bat /\ r.k = s.k
    BY <1>3, <1>5 DEF Onward
  <2>2. \/ s.pc = "lockplace" /\ r.pc = "place" /\ s.k \in {"map", "mmap"}
        \/ s.pc = "lockfind" /\ r.pc = "find" /\ s.k \in {"map", "mmap"}
        \/ s.pc = "flock" /\ r.pc = "fclear" /\ s.k \in {"none", "map", "down"}
    BY <1>4, <1>5, <1>6
  <2>3. s.pc = "lockfind" => s.k = "map"
    BY <1>1, FormIs DEF Suits, Kinds, WithNode, Freeing
  <2> HIDE DEF s, r, v
  <2>4. (Has(r) <=> Has(s)) /\ (r.pc \in Freeing <=> s.pc \in Freeing)
    BY <2>1, <2>2 DEF Has, WithNode, Freeing
  <2>5. NodeOf(r) = NodeOf(s) /\ BarNode(r) = BarNode(s)
    BY <2>1 DEF NodeOf, BarNode
  <2>6. \A b : Lent(r, b) <=> Lent(s, b)
    BY <2>1, <2>2, <2>4 DEF Lent
  <2>7. \A b : Owes(r, b) <=> Owes(s, b)
    BY <2>1, <2>2, <2>3 DEF Owes
  <2>8. ~Adding(r)
    BY <2>2 DEF Adding
  <2>9. /\ (r.k = "bad" => FALSE)
        /\ r.pc \notin {"mapped", "unlock", "funlock", "release", "write", "assign"}
        /\ s.pc \notin {"funlock", "release"}
        /\ (s.pc = "flock" <=> r.pc = "fclear")
    BY <2>1, <2>2
  <2> QED
    BY <2>4, <2>5, <2>6, <2>7, <2>8, <2>9
<1>11. r.vs = s.vs /\ r.bo = s.bo /\ r.at = s.at /\ r.bat = s.bat /\ r.k = s.k /\ r.i = 0
  BY <1>3, <1>5 DEF Onward
<1>12. \A vs, n : Owns(s, vs, n) => Owns(r, vs, n)
  <2>1. s.pc \notin {"fclear", "fflush", "fmmfree"}
    BY <1>4
  <2> HIDE DEF s, r, v
  <2> QED
    BY <1>10, <1>11, <2>1 DEF Owns
<1>13. Tables(sh2)'
  <2>1. ASSUME NEW vs \in Spaces, NEW n \in nodes[vs], NEW p \in PagesOf(n.bo, n.at)
        PROVE  /\ Cleared(r, vs, n, p) => Cleared(s, vs, n, p)
               /\ Forgotten(r, vs, n) => Forgotten(s, vs, n)
    <3>1. r.pc \in {"place", "find", "fclear"}
      BY <1>4, <1>5
    <3>2. n.bo = r.bo /\ n.at = r.bat => ~(p < r.bat + r.i)
      <4>1. n.at \in Int /\ n.bo \in Bos
        BY <1>1, NodesAre
      <4>2. p \in Int /\ n.at <= p
        BY <2>1, <4>1, Some DEF PagesOf
      <4> QED
        BY <1>11, <4>1, <4>2
    <3> HIDE DEF s, r, v
    <3>3. n = BarNode(r) => n.bo = r.bo /\ n.at = r.bat
      BY DEF BarNode, Node
    <3>4. NodeOf(r) = NodeOf(s) /\ r.k = s.k /\ r.vs = s.vs /\ (r.pc \in Freeing <=> s.pc \in Freeing)
      BY <1>10, <1>11
    <3>5. Cleared(r, vs, n, p) => vs = r.vs /\ n = NodeOf(r) /\ r.pc \in Freeing /\ r.k # "none"
      BY <3>1, <3>2, <3>3 DEF Cleared
    <3>6. Forgotten(r, vs, n) => vs = r.vs /\ n = NodeOf(r) /\ r.pc \in Freeing /\ r.k # "none"
      BY <3>1 DEF Forgotten
    <3> QED
      BY <3>4, <3>5, <3>6 DEF Cleared, Forgotten
  <2> QED
    BY <1>1, <1>2, <1>3, <2>1, KeepTables
<1>14. Filled(sh2)'
  BY <1>1, <1>2, <1>3, <1>10, <1>12, KeepFilled
<1>15. /\ Has(r) => NodeOf(r) \in nodes[r.vs]
       /\ (r.k = "map" => alive[r.vs])
  BY <1>1, <1>10, <1>11 DEF Nodes, Downs
<1>16. \A b \in Bos : One(Lent(r, b)) - One(Lent(s, b)) = One(Owes(r, b)) - One(Owes(s, b))
  BY <1>10 DEF One
<1>17. \A n \in nodes[Bar] : Puts(s, n) => Puts(r, n)
  BY <1>11, <1>12 DEF Puts
<1>18. /\ r.k = "down" \/ s.k = "down" => r.k = s.k /\ r.vs = s.vs
       /\ r.pc \in Freeing \/ s.pc \in Freeing =>
           r.pc \in Freeing /\ s.pc \in Freeing /\ r.bo = s.bo /\ r.bat = s.bat
             /\ (r.pc \in {"funlock", "release"} <=> s.pc \in {"funlock", "release"})
       /\ r.k = "mmap" => s.k = "mmap" /\ r.bo = s.bo
       /\ r.k # "bad" /\ r.pc \notin {"mapped", "unlock"} /\ ~Adding(r)
  BY <1>10, <1>11
<1> QED
  BY <1>2, <1>3, <1>8, <1>9, <1>13, <1>14, <1>15, <1>16, <1>17, <1>18, Quiet

\* Who drops a mutex leaves no node half mapped.
LEMMA UnlockStepKeeps ==
  ASSUME NEW sh \in [Threads -> Stages], Inv(sh), NEW t \in Threads, UnlockStep(t)
  PROVE  IInv'
<1>1. /\ Programs(sh) /\ Types /\ Locks(sh) /\ Nodes(sh) /\ Downs(sh) /\ Tables(sh) /\ Filled(sh)
      /\ WellFormed(sh[t])
  BY InvIs
<1>2. /\ At(t, "unlock") /\ lock' = [lock EXCEPT ![Now(t).vs] = Null] /\ Then(t, <<>>)
      /\ UNCHANGED <<st, gref, handle, mmaps, map1, twice, leaked, alive, nodes, pt, tlb, late>>
  BY DEF UnlockStep, objvars
<1>3. PICK sh2 \in [Threads -> Stages] :
           Moves(sh, sh2, t) /\ Programs(sh2)' /\ WellFormed(sh2[t]) /\ Onward(sh[t], sh2[t])
  BY <1>1, <1>2, GoesOn
<1> DEFINE s == sh[t]
           r == sh2[t]
<1>4. s.pc \in {"unlock", "funlock"} /\ Now(t) = NowOf(s)
  BY <1>1, <1>2, AtIs, HereIs
<1>5. /\ s.pc = "unlock" => s.k \in {"map", "mmap", "bad"} /\ s.vs \in Spaces
      /\ s.pc = "funlock" => s.k \in {"none", "map", "down"}
      /\ (s.k \in {"map", "down"} => s.vs # Bar)
  <2>1. s.pc = "unlock" => s.k \in {"map", "mmap", "bad"}
    BY <1>1, FormIs DEF Suits, Kinds, WithNode, Freeing
  <2>2. s.k \in {"map", "mmap", "bad"} => s.vs \in Spaces
    BY <1>1, FormIs, Spaced
  <2>3. s.pc = "funlock" => s.k \in {"none", "map", "down"}
    BY <1>1, FormIs DEF WellFormed, Freeing
  <2> QED
    BY <1>1, <2>1, <2>2, <2>3, FormIs
<1>6. \/ s.pc = "unlock" /\ s.k = "map" /\ r.pc = "idle" /\ r.k = "none"
      \/ s.pc = "unlock" /\ s.k = "mmap" /\ r.pc = "mapped" /\ r.k = "mmap"
      \/ s.pc = "unlock" /\ s.k = "bad" /\ r.pc = "drop" /\ r.k = "none"
      \/ s.pc = "funlock" /\ s.k \in {"none", "map", "down"} /\ r.pc = "release" /\ r.k = s.k
  BY <1>3, <1>4, <1>5, NextPcIs DEF Onward
<1>7. r.vs = s.vs /\ r.bo = s.bo /\ r.at = s.at /\ r.bat = s.bat
  BY <1>3 DEF Onward
<1> DEFINE v == Now(t).vs
<1>8. v = (IF s.pc = "funlock" THEN Bar ELSE s.vs) /\ v \in Spaces
  <2>1. s.pc = "funlock" => v = Bar
    BY <1>4, NowOfIs, LocksAre, Spaced
  <2>2. s.pc # "funlock" => v = s.vs /\ v \in Spaces
    BY <1>4, <1>5, NowOfIs, LocksAre
  <2> QED
    BY <2>1, <2>2, Spaced
<1>9. Locks(sh2)'
  <2> HIDE DEF s, r, v
  <2>1. ASSUME NEW vs \in Spaces
        PROVE  Holding(r, vs) <=> Holding(s, vs) /\ vs # v
    <3>1. CASE s.pc = "funlock"
      BY <1>5, <1>6, <1>7, <1>8, <3>1 DEF Holding, Locked, BarLocked, Freeing
    <3>2. CASE s.pc # "funlock"
      BY <1>5, <1>6, <1>7, <1>8, <3>2 DEF Holding, Locked, BarLocked, Freeing
    <3> QED
      BY <3>1, <3>2
  <2>2. Holding(s, v)
    BY <1>5, <1>6, <1>8 DEF Holding, Locked, BarLocked
  <2>3. lock[v] = t
    BY <1>1, <1>8, <2>2 DEF Locks, s
  <2>4. lock' = [lock EXCEPT ![v] = Null] /\ v \in Spaces
    BY <1>2, <1>8 DEF v
  <2>5. /\ \A vs \in Spaces : vs # v => (Holding(sh2[t], vs) <=> Holding(sh[t], vs))
        /\ ~Holding(sh2[t], v)
    BY <2>1, <2>4 DEF s, r
  <2> QED
    BY <1>1, <1>3, <2>3, <2>4, <2>5, DropLock
<1>10. Types'
  BY <1>1, <1>2, <1>8 DEF Types
<1>11. /\ (Has(r) <=> Has(s)) /\ NodeOf(r) = NodeOf(s) /\ BarNode(r) = BarNode(s)
       /\ (r.pc \in Freeing <=> s.pc \in Freeing)
       /\ \A b : (Lent(r, b) <=> Lent(s, b)) /\ (Owes(r, b) <=> Owes(s, b))
       /\ ~Adding(r) /\ r.k # "bad"
       /\ \A vs, n : Owns(s, vs, n) => Owns(r, vs, n) /\ r.k = s.k
       /\ \A vs, n, p : Cleared(r, vs, n, p) => Cleared(s, vs, n, p)
       /\ \A vs, n : Forgotten(r, vs, n) => Forgotten(s, vs, n)
       /\ r.pc \notin {"write", "assign"}
  <2> HIDE DEF s, r, v
  <2>1. (Has(r) <=> Has(s)) /\ (r.pc \in Freeing <=> s.pc \in Freeing)
    BY <1>6 DEF Has, WithNode, Freeing
  <2>2. NodeOf(r) = NodeOf(s) /\ BarNode(r) = BarNode(s)
    BY <1>7 DEF NodeOf, BarNode
  <2>3. ~Adding(r) /\ r.k # "bad" /\ r.pc \notin {"write", "assign"}
    BY <1>6 DEF Adding
  <2>4. \A b : Lent(r, b) <=> Lent(s, b)
    BY <1>6, <1>7, <2>1 DEF Lent, Has, WithNode, Freeing
  <2>5. \A b : Owes(r, b) <=> Owes(s, b)
    BY <1>6, <1>7 DEF Owes
  <2>6. \A vs, n : Owns(s, vs, n) => Owns(r, vs, n) /\ r.k = s.k
    BY <1>6, <1>7, <2>2 DEF Owns, Has, WithNode, Freeing
  <2>7. \A vs, n, p : Cleared(r, vs, n, p) => Cleared(s, vs, n, p)
    BY <1>6, <1>7, <2>1, <2>2 DEF Cleared, Freeing
  <2>8. \A vs, n : Forgotten(r, vs, n) => Forgotten(s, vs, n)
    BY <1>6, <1>7, <2>1, <2>2 DEF Forgotten, Freeing
  <2> QED
    BY <2>1, <2>2, <2>3, <2>4, <2>5, <2>6, <2>7, <2>8
<1>12. Tables(sh2)'
  BY <1>1, <1>2, <1>3, <1>11, KeepTables
<1>13. Filled(sh2)'
  BY <1>1, <1>2, <1>3, <1>11, KeepFilled
<1>14. (Has(r) => NodeOf(r) \in nodes[r.vs]) /\ (r.k = "map" => alive[r.vs])
  <2>1. r.k = "map" => s.k = "map"
    BY <1>6
  <2> QED
    BY <1>1, <1>7, <1>11, <2>1 DEF Nodes, Downs
<1>15. \A b \in Bos : One(Lent(r, b)) - One(Lent(s, b)) = One(Owes(r, b)) - One(Owes(s, b))
  BY <1>11 DEF One
<1>16. \A n \in nodes[Bar] : Puts(s, n) => Puts(r, n)
  BY <1>11 DEF Puts
<1>17. /\ r.k = "down" \/ s.k = "down" => r.k = s.k /\ r.vs = s.vs
       /\ r.pc \in Freeing \/ s.pc \in Freeing =>
           r.pc \in Freeing /\ s.pc \in Freeing /\ r.bo = s.bo /\ r.bat = s.bat
             /\ (r.pc \in {"funlock", "release"} <=> s.pc \in {"funlock", "release"})
       /\ r.k = "mmap" => s.k = "mmap" /\ r.bo = s.bo
       /\ r.k = "mmap" => s.k = "mmap" /\ s.pc \in {"mapped", "unlock"} /\ s.bo = r.bo
  <2>1. s.k \in {"mmap", "bad"} => s.pc = "unlock"
    BY <1>6
  <2>2. r.pc \in Freeing \/ s.pc \in Freeing => r.pc = "release" /\ s.pc = "funlock"
    BY <1>6 DEF Freeing
  <2> QED
    BY <1>6, <1>7, <1>11, <2>1, <2>2
<1> QED
  BY <1>2, <1>3, <1>9, <1>10, <1>11, <1>12, <1>13, <1>14, <1>15, <1>16, <1>17, Quiet

\* An object is put into the BAR only if it is not there.
LEMMA CheckKeeps ==
  ASSUME NEW sh \in [Threads -> Stages], Inv(sh), NEW t \in Threads, Check(t)
  PROVE  IInv'
<1>1. /\ Programs(sh) /\ Types /\ Locks(sh) /\ Nodes(sh) /\ Downs(sh) /\ Tables(sh) /\ Filled(sh)
      /\ WellFormed(sh[t])
  BY InvIs
<1>2. /\ At(t, "check") /\ Then(t, IF map1[Now(t).bo] = Null THEN VspaceMap(Bar, Now(t).bo) ELSE <<>>)
      /\ UNCHANGED <<st, gref, handle, mmaps, map1, twice, leaked, alive, nodes, pt, tlb, late, lock>>
  BY DEF Check, objvars, spacevars
<1> DEFINE s == sh[t]
<1>3. s.pc = "check" /\ s.bo \in Bos /\ Now(t).bo = s.bo /\ s.k = "mmap" /\ s.vs = Bar
  <2>1. s.pc = "check" /\ Now(t) = NowOf(s)
    BY <1>1, <1>2, AtIs, HereIs
  <2>2. s.bo \in Bos
    BY <1>1, <2>1 DEF WellFormed
  <2>3. Now(t).bo = s.bo
    BY <2>1, <2>2, NowOfIs, OnsAre DEF Dos
  <2>4. s.k = "mmap"
    BY <1>1, <2>1, FormIs DEF Suits, Kinds, WithNode, Freeing
  <2> QED
    BY <1>1, <2>1, <2>2, <2>3, <2>4, FormIs
<1>4. \E sh2 \in [Threads -> Stages] :
        /\ Moves(sh, sh2, t) /\ Programs(sh2)' /\ WellFormed(sh2[t])
        /\ sh2[t].k = "mmap" /\ sh2[t].vs = Bar /\ sh2[t].bo = s.bo
        /\ \/ sh2[t].pc = "lockplace" /\ map1[s.bo] = Null
           \/ sh2[t].pc = "mapped" /\ map1[s.bo] # Null
  <2>1. CASE map1[s.bo] = Null
    <3> DEFINE r == Stage("lockplace", "mmap", Bar, s.bo, Null, Null, 0)
    <3>1. Goes(t, r)
      BY <1>1, <1>2, <1>3, <2>1, CheckMove
    <3>2. r.pc = "lockplace" /\ r.k = "mmap" /\ r.vs = Bar /\ r.bo = s.bo
      BY StageIs
    <3> HIDE DEF r
    <3>3. PICK sh2 \in [Threads -> Stages] : Moves(sh, sh2, t) /\ sh2[t] = r /\ WellFormed(r) /\ Programs(sh2)'
      BY <1>1, <3>1, Arrives
    <3> QED
      BY <2>1, <3>2, <3>3
  <2>2. CASE map1[s.bo] # Null
    <3>1. Then(t, <<>>)
      BY <1>2, <1>3, <2>2
    <3>2. PICK sh2 \in [Threads -> Stages] :
           Moves(sh, sh2, t) /\ Programs(sh2)' /\ WellFormed(sh2[t]) /\ Onward(sh[t], sh2[t])
      BY <1>1, <1>2, <3>1, GoesOn
    <3>3. sh2[t].pc = "mapped" /\ sh2[t].k = "mmap" /\ sh2[t].vs = Bar /\ sh2[t].bo = s.bo
      BY <1>3, <3>2, NextPcIs DEF Onward
    <3> QED
      BY <2>2, <3>2, <3>3
  <2> QED
    BY <2>1, <2>2
<1>5. PICK sh2 \in [Threads -> Stages] :
        /\ Moves(sh, sh2, t) /\ Programs(sh2)' /\ WellFormed(sh2[t])
        /\ sh2[t].k = "mmap" /\ sh2[t].vs = Bar /\ sh2[t].bo = s.bo
        /\ \/ sh2[t].pc = "lockplace" /\ map1[s.bo] = Null
           \/ sh2[t].pc = "mapped" /\ map1[s.bo] # Null
  BY <1>4
<1> DEFINE r == sh2[t]
<1>6. /\ \A vs \in Spaces : ~Holding(r, vs) /\ ~Holding(s, vs)
      /\ ~Has(r) /\ r.pc \notin Freeing /\ s.pc \notin Freeing
      /\ \A vs, n : ~Owns(r, vs, n) /\ ~Owns(s, vs, n)
      /\ \A n : ~Puts(s, n)
      /\ \A b : ~Lent(r, b) /\ ~Lent(s, b)
      /\ \A vs, n, p : ~Cleared(r, vs, n, p)
      /\ \A vs, n : ~Forgotten(r, vs, n)
  <2>1. s.pc \in Light /\ r.pc \in Light
    BY <1>3, <1>5 DEF Light
  <2> QED
    BY <1>1, <1>5, <2>1, LightIs
<1>7. \A b : Owes(r, b) <=> Owes(s, b)
  BY <1>3, <1>5 DEF Owes
<1>8. Locks(sh2)'
  BY <1>1, <1>2, <1>5, <1>6, KeepLocks
<1>9. Tables(sh2)'
  BY <1>1, <1>2, <1>5, <1>6, KeepTables
<1>10. Filled(sh2)'
  BY <1>1, <1>2, <1>5, <1>6, KeepFilled
<1>11. Types'
  BY <1>1, <1>2 DEF Types
<1>12. \A b \in Bos : One(Lent(r, b)) - One(Lent(s, b)) = One(Owes(r, b)) - One(Owes(s, b))
  BY <1>6, <1>7 DEF One
<1>13. /\ r.k # "down" /\ s.k # "down" /\ r.k # "map" /\ r.k # "bad"
       /\ r.k = "mmap" => s.k = "mmap" /\ r.bo = s.bo
       /\ ~Adding(r)
       /\ r.k = "mmap" /\ r.pc \in {"mapped", "unlock"} => map1[r.bo] # Null
  BY <1>3, <1>5 DEF Adding
<1> QED
  BY <1>2, <1>5, <1>6, <1>8, <1>9, <1>10, <1>11, <1>12, <1>13, Quiet

\* The reference of the node that is found is lent to the unmap.
LEMMA FindKeeps ==
  ASSUME NEW sh \in [Threads -> Stages], Inv(sh), NEW t \in Threads, Find(t)
  PROVE  IInv'
<1>1. /\ Programs(sh) /\ Types /\ Locks(sh) /\ Nodes(sh) /\ Downs(sh) /\ Tables(sh) /\ Filled(sh)
      /\ WellFormed(sh[t])
  BY InvIs
<1>2. /\ At(t, "find")
      /\ UNCHANGED <<st, gref, handle, mmaps, map1, twice, leaked, alive, nodes, pt, tlb, late, lock>>
  BY DEF Find, objvars, spacevars
<1> DEFINE s == sh[t]
<1>3. s.pc = "find" /\ Now(t) = NowOf(s)
  BY <1>1, <1>2, AtIs, HereIs
<1>4. s.k = "map" /\ s.vs \in Vs /\ s.vs \in Spaces /\ s.vs # Bar
  BY <1>1, <1>3, FormIs DEF Suits, Kinds, WithNode, Freeing
<1>5. Now(t).vs = s.vs
  <2>1. Now(t) = Op("find", s.vs, Null, s.at)
    BY <1>3, NowOfIs
  <2> QED
    BY <2>1 DEF Op
<1>6. PICK n \in nodes[s.vs] : Then(t, UnmapNode(Now(t).vs, n.bo, n.at))
  BY <1>5 DEF Find
<1>7. n.bo \in Bos /\ n.at \in Int /\ n = Node(n.bo, n.at) /\ PagesOf(n.bo, n.at) \subseteq Page(Now(t).vs)
  <2>1. n.bo \in Bos /\ n.at \in Int /\ n = Node(n.bo, n.at)
    BY <1>1, <1>4, NodesAre
  <2>2. PagesOf(n.bo, n.at) \subseteq Page(s.vs)
    BY <1>1, <1>4 DEF Nodes
  <2> QED
    BY <1>5, <2>1, <2>2
<1> DEFINE g == Stage("clear", "map", s.vs, n.bo, n.at, Null, 0)
<1>8. Goes(t, g)
  BY <1>1, <1>2, <1>6, <1>7, FindMove
<1>9. g.pc = "clear" /\ g.k = "map" /\ g.vs = s.vs /\ g.bo = n.bo /\ g.at = n.at /\ g.i = 0
  BY StageIs
<1> HIDE DEF g
<1>10. PICK sh2 \in [Threads -> Stages] : Moves(sh, sh2, t) /\ sh2[t] = g /\ WellFormed(g) /\ Programs(sh2)'
  BY <1>1, <1>8, Arrives
<1> DEFINE r == sh2[t]
<1>11. r.pc = "clear" /\ r.k = "map" /\ r.vs = s.vs /\ r.bo = n.bo /\ r.at = n.at /\ r.i = 0
  BY <1>9, <1>10
<1>12. Locks(sh2)'
  <2>1. \A vs \in Spaces : Holding(r, vs) <=> Holding(s, vs)
    BY <1>3, <1>4, <1>11 DEF Holding, Locked, BarLocked, Freeing
  <2> QED
    BY <1>1, <1>2, <1>10, <2>1, KeepLocks
<1>13. /\ Has(r) /\ ~Has(s) /\ NodeOf(r) = n
       /\ r.pc \notin Freeing /\ s.pc \notin Freeing
       /\ \A b : Lent(r, b) <=> b = n.bo
       /\ \A b : Owes(r, b) <=> b = n.bo
       /\ \A b : ~Lent(s, b) /\ ~Owes(s, b)
       /\ \A vs, m : ~Owns(s, vs, m)
       /\ ~Adding(r)
  <2> HIDE DEF s, r
  <2>1. Has(r) /\ ~Has(s) /\ r.pc \notin Freeing /\ s.pc \notin Freeing
    BY <1>3, <1>11 DEF Has, WithNode, Freeing
  <2>2. NodeOf(r) = n
    BY <1>7, <1>11 DEF NodeOf
  <2>3. \A b : Lent(r, b) <=> b = n.bo
    BY <1>11, <2>1 DEF Lent
  <2>4. \A b : Owes(r, b) <=> b = n.bo
    BY <1>11 DEF Owes
  <2>5. \A b : ~Lent(s, b) /\ ~Owes(s, b)
    BY <1>3, <1>4, <2>1 DEF Lent, Owes
  <2>6. \A vs, m : ~Owns(s, vs, m)
    BY <1>3, <2>1 DEF Owns
  <2> QED
    BY <1>11, <2>1, <2>2, <2>3, <2>4, <2>5, <2>6 DEF Adding
<1>14. Tables(sh2)'
  <2>1. ASSUME NEW vs \in Spaces, NEW m \in nodes[vs], NEW p \in PagesOf(m.bo, m.at)
        PROVE  ~Cleared(r, vs, m, p) /\ ~Forgotten(r, vs, m)
    <3>1. ~Forgotten(r, vs, m)
      BY <1>11, <1>13 DEF Forgotten
    <3>2. m.at \in Int /\ p \in Int /\ p >= m.at
      BY <1>1, <2>1, NodesAre, Some DEF PagesOf
    <3>3. m = NodeOf(r) => ~(p < r.at + r.i)
      BY <1>11, <1>13, <3>2
    <3>4. ~Cleared(r, vs, m, p)
      BY <1>11, <1>13, <3>3 DEF Cleared
    <3> QED
      BY <3>1, <3>4
  <2> QED
    BY <1>1, <1>2, <1>10, <2>1, KeepTables
<1>15. Filled(sh2)'
  BY <1>1, <1>2, <1>10, <1>11, <1>13, KeepFilled
<1>16. Types'
  BY <1>1, <1>2 DEF Types
<1>17. NodeOf(r) \in nodes[r.vs] /\ alive[r.vs]
  BY <1>1, <1>4, <1>11, <1>13 DEF Downs
<1>18. \A b \in Bos : One(Lent(r, b)) - One(Lent(s, b)) = One(Owes(r, b)) - One(Owes(s, b))
  BY <1>13 DEF One
<1>19. \A m : ~Puts(s, m)
  BY <1>13 DEF Puts
<1> QED
  BY <1>2, <1>4, <1>10, <1>11, <1>12, <1>13, <1>14, <1>15, <1>16, <1>17, <1>18, <1>19, Quiet

\* The lowest node is the next one, or the address space is empty.
LEMMA TakedownKeeps ==
  ASSUME NEW sh \in [Threads -> Stages], Inv(sh), NEW t \in Threads, Takedown(t)
  PROVE  IInv'
<1>1. /\ Programs(sh) /\ Types /\ Locks(sh) /\ Nodes(sh) /\ Downs(sh) /\ Tables(sh) /\ Filled(sh)
      /\ WellFormed(sh[t])
  BY InvIs
<1> DEFINE s == sh[t]
<1>2. /\ At(t, "takedown")
      /\ UNCHANGED <<st, gref, handle, mmaps, map1, twice, leaked, alive, nodes, tlb, late, lock>>
  BY DEF Takedown, objvars
<1>3. s.pc = "down" /\ Now(t) = NowOf(s)
  BY <1>1, <1>2, AtIs, HereIs
<1>4. s.k = "down" /\ s.vs \in Vs /\ s.vs \in Spaces /\ s.vs # Bar /\ ~alive[s.vs]
  <2>1. s.k = "down"
    BY <1>1, <1>3, FormIs DEF Suits, Kinds, WithNode, Freeing
  <2> QED
    BY <1>1, <2>1, FormIs DEF Downs
<1>5. Now(t).vs = s.vs
  <2>1. Now(t) = Op("takedown", s.vs, Null, Null)
    BY <1>3, NowOfIs
  <2> QED
    BY <2>1 DEF Op
<1>6. /\ \A vs \in Spaces : ~Holding(s, vs)
      /\ ~Has(s) /\ s.pc \notin Freeing
      /\ \A vs, n : ~Owns(s, vs, n)
      /\ \A n : ~Puts(s, n)
      /\ \A b : ~Lent(s, b) /\ ~Owes(s, b)
  <2>1. s.pc \in Light
    BY <1>3 DEF Light
  <2>2. \A b : ~Owes(s, b)
    BY <1>3, <1>4 DEF Owes
  <2> QED
    BY <1>1, <2>1, <2>2, LightIs
<1>7. CASE nodes[s.vs] = {} /\ pt' = [pt EXCEPT ![s.vs] = Empty(s.vs)] /\ Then(t, <<>>)
  <2>1. PICK sh2 \in [Threads -> Stages] :
           Moves(sh, sh2, t) /\ Programs(sh2)' /\ WellFormed(sh2[t]) /\ Onward(sh[t], sh2[t])
    BY <1>1, <1>2, <1>7, GoesOn
  <2> DEFINE r == sh2[t]
  <2>2. r.pc = "idle" /\ r.k = "none"
    BY <1>3, <2>1, NextPcIs DEF Onward
  <2>3. /\ \A vs \in Spaces : ~Holding(r, vs)
        /\ ~Has(r) /\ r.pc \notin Freeing /\ ~Adding(r)
        /\ \A vs, n : ~Owns(r, vs, n)
        /\ \A b : ~Lent(r, b) /\ ~Owes(r, b)
        /\ \A vs, n, p : ~Cleared(r, vs, n, p)
        /\ \A vs, n : ~Forgotten(r, vs, n)
    <3>1. r.pc \in Light
      BY <2>2 DEF Light
    <3> QED
      BY <2>1, <2>2, <3>1, LightIs
  <2>4. \A vs \in Spaces : vs # s.vs => pt'[vs] = pt[vs]
    BY <1>1, <1>7 DEF Types
  <2>5. \A vs \in Spaces : alive'[vs] => alive[vs] /\ pt'[vs] = pt[vs] /\ tlb'[vs] = tlb[vs] /\ late'[vs] = late[vs]
    BY <1>2, <1>4, <2>4
  <2>6. Types'
    <3>1. Empty(s.vs) \in [Page(s.vs) -> Bos \cup {Null}]
      BY DEF Empty
    <3>2. DOMAIN pt' = Spaces /\ \A vs \in Spaces : pt'[vs] \in [Page(vs) -> Bos \cup {Null}]
      BY <1>1, <1>4, <1>7, <2>4, <3>1 DEF Types
    <3> QED
      BY <1>1, <1>2, <3>2 DEF Types
  <2>7. Locks(sh2)'
    BY <1>1, <1>2, <1>6, <2>1, <2>3, KeepLocks
  <2>8. Tables(sh2)'
    BY <1>1, <1>2, <2>1, <2>3, <2>5, KeepTables
  <2>9. Filled(sh2)'
    BY <1>1, <1>2, <1>6, <2>1, <2>3, <2>5, KeepFilled
  <2>10. \A b \in Bos : One(Lent(r, b)) - One(Lent(s, b)) = One(Owes(r, b)) - One(Owes(s, b))
    BY <1>6, <2>3 DEF One
  <2> QED
    BY <1>2, <1>6, <1>7, <2>1, <2>2, <2>3, <2>6, <2>7, <2>8, <2>9, <2>10, Quiet
<1>8. CASE /\ UNCHANGED pt
           /\ \E n \in nodes[s.vs] : Then(t, <<On("unref", n.bo), Op("mmfree", s.vs, n.bo, n.at), Now(t)>>)
  <2>1. PICK n \in nodes[s.vs] : Then(t, <<On("unref", n.bo), Op("mmfree", s.vs, n.bo, n.at), Now(t)>>)
    BY <1>8
  <2>2. n.bo \in Bos /\ n.at \in Int /\ n = Node(n.bo, n.at) /\ PagesOf(n.bo, n.at) \subseteq Page(Now(t).vs)
    <3>1. n.bo \in Bos /\ n.at \in Int /\ n = Node(n.bo, n.at)
      BY <1>1, <1>4, NodesAre
    <3>2. PagesOf(n.bo, n.at) \subseteq Page(s.vs)
      BY <1>1, <1>4 DEF Nodes
    <3> QED
      BY <1>5, <3>1, <3>2
  <2> DEFINE g == Stage("put", "down", s.vs, n.bo, n.at, Null, 0)
  <2>3. Goes(t, g)
    BY <1>1, <1>2, <1>5, <2>1, <2>2, TakedownMove
  <2>4. g.pc = "put" /\ g.k = "down" /\ g.vs = s.vs /\ g.bo = n.bo /\ g.at = n.at /\ g.i = 0
    BY StageIs
  <2> HIDE DEF g
  <2>5. PICK sh2 \in [Threads -> Stages] : Moves(sh, sh2, t) /\ sh2[t] = g /\ WellFormed(g) /\ Programs(sh2)'
    BY <1>1, <2>3, Arrives
  <2> DEFINE r == sh2[t]
  <2>6. r.pc = "put" /\ r.k = "down" /\ r.vs = s.vs /\ r.bo = n.bo /\ r.at = n.at
    BY <2>4, <2>5
  <2>7. /\ \A vs \in Spaces : ~Holding(r, vs)
        /\ NodeOf(r) = n /\ r.pc \notin Freeing /\ ~Adding(r)
        /\ \A vs, m : Owns(r, vs, m) => vs = s.vs
        /\ \A b : Lent(r, b) <=> Owes(r, b)
        /\ \A vs, m, p : Cleared(r, vs, m, p) => vs = s.vs
        /\ \A vs, m : Forgotten(r, vs, m) => vs = s.vs
    <3> HIDE DEF s, r
    <3>1. Has(r) /\ r.pc \notin Freeing
      BY <2>6 DEF Has, WithNode, Freeing
    <3>2. \A vs \in Spaces : ~Holding(r, vs)
      BY <2>6, <3>1 DEF Holding, BarLocked
    <3>3. NodeOf(r) = n
      BY <2>2, <2>6 DEF NodeOf
    <3>4. \A b : Lent(r, b) <=> Owes(r, b)
      BY <2>6, <3>1 DEF Lent, Owes
    <3>5. \A vs, m : Owns(r, vs, m) => vs = s.vs
      BY <2>6 DEF Owns
    <3>6. \A vs, m, p : Cleared(r, vs, m, p) => vs = s.vs
      BY <2>6 DEF Cleared
    <3>7. \A vs, m : Forgotten(r, vs, m) => vs = s.vs
      BY <2>6 DEF Forgotten
    <3> QED
      BY <2>6, <3>1, <3>2, <3>3, <3>4, <3>5, <3>6, <3>7 DEF Adding
  <2>8. Types'
    BY <1>1, <1>2, <1>8 DEF Types
  <2>9. Locks(sh2)'
    BY <1>1, <1>2, <1>6, <2>5, <2>7, KeepLocks
  <2>10. Nodes(sh2)' /\ (Has(r) => NodeOf(r) \in nodes[r.vs])
    BY <1>1, <1>2, <2>5, <2>6, <2>7, KeepNodes
  <2>11. Tables(sh2)'
    <3>1. \A vs \in Spaces : alive'[vs] => alive[vs] /\ pt'[vs] = pt[vs] /\ tlb'[vs] = tlb[vs] /\ late'[vs] = late[vs] /\ vs # s.vs
      BY <1>2, <1>4, <1>8
    <3> QED
      BY <1>1, <1>2, <2>5, <2>7, <3>1, KeepTables
  <2>12. Filled(sh2)'
    <3>1. \A vs \in Spaces : alive'[vs] => alive[vs] /\ pt'[vs] = pt[vs] /\ vs # s.vs
      BY <1>2, <1>4, <1>8
    <3> QED
      BY <1>1, <1>2, <1>6, <2>5, <2>7, <3>1, KeepFilled
  <2>13. \A b \in Bos : One(Lent(r, b)) - One(Lent(s, b)) = One(Owes(r, b)) - One(Owes(s, b))
    BY <1>6, <2>7 DEF One
  <2> QED
    BY <1>2, <1>4, <1>6, <2>5, <2>6, <2>7, <2>8, <2>9, <2>10, <2>11, <2>12, <2>13, Quiet
<1>9. \/ nodes[s.vs] = {} /\ pt' = [pt EXCEPT ![s.vs] = Empty(s.vs)] /\ Then(t, <<>>)
      \/ /\ UNCHANGED pt
         /\ \E n \in nodes[s.vs] : Then(t, <<On("unref", n.bo), Op("mmfree", s.vs, n.bo, n.at), Now(t)>>)
  BY <1>5 DEF Takedown
<1> QED
  BY <1>7, <1>8, <1>9

\* Whoever has cleared entries of a node, or flushed them, is busy with it.
LEMMA Busy ==
  ASSUME NEW s, NEW vs, NEW n, NEW p
  PROVE  /\ Cleared(s, vs, n, p) => Owns(s, vs, n)
         /\ Forgotten(s, vs, n) => Owns(s, vs, n)
BY DEF Cleared, Forgotten, Owns, Has, WithNode

\* Two nodes of a space do not share a page.
LEMMA OneNode ==
  ASSUME NEW sh, Nodes(sh), NEW vs \in Spaces, NEW m \in nodes[vs], NEW n \in nodes[vs], NEW p,
         p \in PagesOf(m.bo, m.at), p \in PagesOf(n.bo, n.at)
  PROVE  m = n
BY DEF Nodes

\* A thread writes or clears the entry of a page of its node.
LEMMA KeepFilledEntry ==
  ASSUME NEW sh, Filled(sh), Types, Programs(sh), Locks(sh), Downs(sh), Nodes(sh),
         NEW sh2, NEW t \in Threads, Moves(sh, sh2, t), UNCHANGED <<alive, nodes>>,
         NEW v \in Spaces, NEW n0, NEW p0, NEW x, pt' = [pt EXCEPT ![v][p0] = x],
         Owns(sh[t], v, n0),
         alive[v] /\ Kept(v) => n0 \in nodes[v] /\ p0 \in PagesOf(n0.bo, n0.at),
         \A vs, n : Owns(sh2[t], vs, n) => Owns(sh[t], vs, n),
         \A vs, n : Owns(sh[t], vs, n) => Owns(sh2[t], vs, n) \/ vs = v,
         \A vs, n : Owns(sh2[t], vs, n) /\ vs # v => sh2[t].pc \notin {"write", "assign"},
         alive[v] /\ Kept(v) => \A p \in PagesOf(n0.bo, n0.at) :
           /\ ~Owns(sh2[t], v, n0) => pt'[v][p] = n0.bo
           /\ sh2[t].pc = "write" /\ p < sh2[t].at + sh2[t].i => pt'[v][p] = n0.bo
           /\ sh2[t].pc = "assign" => pt'[v][p] = n0.bo
  PROVE  Filled(sh2)'
<1>1. \A u \in Threads : u # t => sh2[u] = sh[u]
  BY DEF Moves
<1> SUFFICES ASSUME NEW vs \in Spaces, alive[vs], Kept(vs), NEW n \in nodes[vs], NEW p \in PagesOf(n.bo, n.at)
             PROVE  /\ (\A u \in Threads : ~Owns(sh2[u], vs, n)) => pt'[vs][p] = n.bo
                    /\ \A u \in Threads : Owns(sh2[u], vs, n) =>
                         /\ sh2[u].pc = "write" /\ p < sh2[u].at + sh2[u].i => pt'[vs][p] = n.bo
                         /\ sh2[u].pc = "assign" => pt'[vs][p] = n.bo
  BY DEF Filled, Kept
<1>2. /\ (\A u \in Threads : ~Owns(sh[u], vs, n)) => pt[vs][p] = n.bo
      /\ \A u \in Threads : Owns(sh[u], vs, n) =>
           /\ sh[u].pc = "write" /\ p < sh[u].at + sh[u].i => pt[vs][p] = n.bo
           /\ sh[u].pc = "assign" => pt[vs][p] = n.bo
  BY DEF Filled, Kept
<1>3. CASE vs = v /\ n = n0
  <2>1. \A u \in Threads : Owns(sh2[u], vs, n) => u = t
    <3> SUFFICES ASSUME NEW u \in Threads, Owns(sh2[u], vs, n), u # t
                 PROVE  FALSE
      OBVIOUS
    <3>1. Owns(sh[u], v, n0)
      BY <1>1, <1>3
    <3> QED
      BY <3>1, OwnsOnce
  <2>2. /\ ~Owns(sh2[t], vs, n) => pt'[vs][p] = n.bo
        /\ sh2[t].pc = "write" /\ p < sh2[t].at + sh2[t].i => pt'[vs][p] = n.bo
        /\ sh2[t].pc = "assign" => pt'[vs][p] = n.bo
    BY <1>3
  <2> QED
    BY <2>1, <2>2
<1>4. CASE ~(vs = v /\ n = n0)
  <2>1. pt'[vs][p] = pt[vs][p]
    <3>1. DOMAIN pt = Spaces /\ pt[v] \in [Page(v) -> Bos \cup {Null}]
      BY DEF Types
    <3>2. CASE vs # v
      BY <3>1, <3>2
    <3>3. CASE vs = v /\ n # n0
      <4>1. p # p0
        BY <3>3, OneNode
      <4> QED
        BY <3>1, <3>3, <4>1
    <3> QED
      BY <1>4, <3>2, <3>3
  <2>2. Owns(sh[t], vs, n) => vs # v
    <3> SUFFICES ASSUME Owns(sh[t], vs, n), vs = v
                 PROVE  n = n0
      BY <1>4
    <3> QED
      BY OwnsOnce
  <2>3. (Owns(sh[t], vs, n) <=> Owns(sh2[t], vs, n)) /\ (Owns(sh2[t], vs, n) => sh2[t].pc \notin {"write", "assign"})
    BY <2>2
  <2>4. \A u \in Threads : Owns(sh[u], vs, n) <=> Owns(sh2[u], vs, n)
    <3> TAKE u \in Threads
    <3>1. CASE u = t
      BY <2>3, <3>1
    <3>2. CASE u # t
      BY <1>1, <3>2
    <3> QED
      BY <3>1, <3>2
  <2>5. ASSUME NEW u \in Threads, Owns(sh2[u], vs, n)
        PROVE  /\ sh2[u].pc = "write" /\ p < sh2[u].at + sh2[u].i => pt'[vs][p] = n.bo
               /\ sh2[u].pc = "assign" => pt'[vs][p] = n.bo
    <3>1. CASE u = t
      BY <2>3, <2>5, <3>1
    <3>2. CASE u # t
      <4>1. sh2[u] = sh[u]
        BY <1>1, <3>2
      <4> QED
        BY <1>2, <2>1, <2>5, <4>1
    <3> QED
      BY <3>1, <3>2
  <2> QED
    BY <1>2, <2>1, <2>4, <2>5
<1> QED
  BY <1>3, <1>4

\* One more entry of the node is written; after the last one the mapping stands.
LEMMA WriteKeeps ==
  ASSUME NEW sh \in [Threads -> Stages], Inv(sh), NEW t \in Threads, Write(t)
  PROVE  IInv'
<1>1. /\ Programs(sh) /\ Types /\ Locks(sh) /\ Nodes(sh) /\ Downs(sh) /\ Tables(sh) /\ Filled(sh)
      /\ WellFormed(sh[t])
  BY InvIs
<1> DEFINE s == sh[t]
<1>2. /\ At(t, "write") /\ Then(t, <<>>) /\ pt' = [pt EXCEPT ![Now(t).vs][Now(t).at] = Now(t).bo]
      /\ UNCHANGED <<st, gref, handle, mmaps, map1, twice, leaked, alive, nodes, tlb, late, lock>>
  BY DEF Write, objvars
<1>3. s.pc = "write" /\ Now(t) = NowOf(s)
  BY <1>1, <1>2, AtIs, HereIs
<1>4. s.k \in {"map", "mmap"} /\ s.vs \in Spaces /\ s.bo \in Bos /\ s.at \in Int /\ s.i \in Nat /\ s.i < Size[s.bo]
  <2>1. s.k \in {"map", "mmap"} /\ Has(s)
    BY <1>1, <1>3, FormIs DEF Suits, Kinds, WithNode, Freeing, Has
  <2> QED
    BY <1>1, <1>3, <2>1, FormIs DEF WellFormed, Stages
<1> DEFINE v == s.vs
           n0 == NodeOf(s)
           p0 == s.at + s.i
<1>5. pt' = [pt EXCEPT ![v][p0] = n0.bo]
  <2>1. Now(t) = Op("write", s.vs, s.bo, s.at + s.i)
    BY <1>3, NowOfIs
  <2>2. Now(t).vs = s.vs /\ Now(t).at = s.at + s.i /\ Now(t).bo = s.bo
    BY <2>1 DEF Op
  <2>3. n0.bo = s.bo
    BY DEF NodeOf, Node
  <2> QED
    BY <1>2, <2>2, <2>3
<1>6. PICK sh2 \in [Threads -> Stages] :
           Moves(sh, sh2, t) /\ Programs(sh2)' /\ WellFormed(sh2[t]) /\ Onward(sh[t], sh2[t])
  BY <1>1, <1>2, GoesOn
<1> DEFINE r == sh2[t]
<1>7. /\ \/ r.pc = "write" /\ r.i = s.i + 1
         \/ r.pc = "assign" /\ r.k = "mmap" /\ ~(s.i + 1 < Size[s.bo])
         \/ r.pc = "unlock" /\ r.k = "map" /\ ~(s.i + 1 < Size[s.bo])
      /\ r.k = s.k /\ r.vs = s.vs /\ r.bo = s.bo /\ r.at = s.at
  BY <1>3, <1>4, <1>6, NextPcIs DEF Onward, Last
<1>8. /\ Has(s) /\ NodeOf(r) = n0 /\ (Has(r) <=> r.pc # "unlock")
      /\ r.pc \notin Freeing /\ s.pc \notin Freeing
      /\ \A vs \in Spaces : Holding(r, vs) <=> Holding(s, vs)
      /\ \A b : ~Lent(r, b) /\ ~Lent(s, b) /\ (Owes(r, b) <=> Owes(s, b))
      /\ \A vs, n : Owns(s, vs, n) <=> vs = v /\ n = n0
      /\ \A vs, n : Owns(r, vs, n) => vs = v /\ n = n0
      /\ r.pc # "unlock" => \A n : Puts(s, n) => Puts(r, n)
      /\ r.pc = "unlock" => \A n : ~Puts(s, n)
      /\ \A vs, n, p : ~Cleared(r, vs, n, p) /\ ~Forgotten(r, vs, n)
      /\ (Adding(r) => Adding(s) /\ r.bo = s.bo /\ r.at = s.at)
  <2> HIDE DEF s, r
  <2>1. Has(s) /\ (Has(r) <=> r.pc # "unlock") /\ r.pc \notin Freeing /\ s.pc \notin Freeing
    BY <1>3, <1>7 DEF Has, WithNode, Freeing
  <2>2. NodeOf(r) = n0
    BY <1>7 DEF NodeOf
  <2>3. \A vs \in Spaces : Holding(r, vs) <=> Holding(s, vs)
    BY <1>3, <1>4, <1>7 DEF Holding, Locked, BarLocked, Freeing
  <2>4. \A b : ~Lent(r, b) /\ ~Lent(s, b)
    BY <1>3, <1>4, <1>7, <2>1 DEF Lent
  <2>5. \A b : Owes(r, b) <=> Owes(s, b)
    BY <1>3, <1>4, <1>7 DEF Owes
  <2>6. \A vs, n : Owns(s, vs, n) <=> vs = v /\ n = n0
    BY <1>3, <2>1 DEF Owns
  <2>7. \A vs, n : Owns(r, vs, n) <=> vs = v /\ n = n0 /\ r.pc # "unlock"
    BY <1>7, <2>1, <2>2 DEF Owns
  <2>8. \A vs, n, p : ~Cleared(r, vs, n, p) /\ ~Forgotten(r, vs, n)
    BY <1>7, <2>1 DEF Cleared, Forgotten
  <2>9. r.pc # "unlock" => \A n : Puts(s, n) => Puts(r, n)
    BY <1>7, <2>6, <2>7 DEF Puts
  <2>10. r.pc = "unlock" => \A n : ~Puts(s, n)
    BY <1>7 DEF Puts
  <2>11. (Adding(r) => Adding(s) /\ r.bo = s.bo /\ r.at = s.at)
    BY <1>3, <1>4, <1>7 DEF Adding
  <2> QED
    BY <2>1, <2>2, <2>3, <2>4, <2>5, <2>6, <2>7, <2>8, <2>9, <2>10, <2>11
<1>9. n0 \in nodes[v] /\ n0.bo = s.bo /\ n0.at = s.at
  BY <1>1, <1>8 DEF Nodes, NodeOf, Node
<1>10. p0 \in PagesOf(n0.bo, n0.at) /\ p0 \in Int
  <2>1. Size[s.bo] \in Nat
    BY <1>4, Some
  <2> QED
    BY <1>4, <1>9, <2>1 DEF PagesOf
<1>11. /\ \A vs \in Spaces : vs # v => pt'[vs] = pt[vs]
       /\ p0 \in Page(v) /\ pt'[v] = [pt[v] EXCEPT ![p0] = n0.bo]
       /\ \A p \in Page(v) : pt'[v][p] = IF p = p0 THEN n0.bo ELSE pt[v][p]
  <2>1. DOMAIN pt = Spaces /\ pt[v] \in [Page(v) -> Bos \cup {Null}]
    BY <1>1, <1>4 DEF Types
  <2>2. p0 \in Page(v)
    BY <1>1, <1>4, <1>9, <1>10 DEF Nodes
  <2> QED
    BY <1>4, <1>5, <2>1, <2>2
<1>12. Types'
  <2>1. pt'[v] \in [Page(v) -> Bos \cup {Null}]
    BY <1>1, <1>4, <1>9, <1>11 DEF Types
  <2>2. DOMAIN pt' = Spaces /\ \A vs \in Spaces : pt'[vs] \in [Page(vs) -> Bos \cup {Null}]
    BY <1>1, <1>4, <1>5, <1>11, <2>1 DEF Types
  <2> QED
    BY <1>1, <1>2, <2>2 DEF Types
<1>13. Locks(sh2)'
  BY <1>1, <1>2, <1>6, <1>8, KeepLocks
<1>14. Tables(sh2)'
  <2> SUFFICES ASSUME NEW vs \in Spaces, alive[vs]
               PROVE  /\ \A p \in Page(vs) : p \notin Covered(vs)' => pt'[vs][p] = Null /\ (p \notin late'[vs] => tlb'[vs][p] = Null)
                      /\ \A n \in nodes[vs] : \A p \in PagesOf(n.bo, n.at) :
                           /\ pt'[vs][p] \in {Null, n.bo} /\ (p \notin late'[vs] => tlb'[vs][p] \in {Null, n.bo})
                           /\ \A u \in Threads : Cleared(sh2[u], vs, n, p) => pt'[vs][p] = Null
                           /\ \A u \in Threads : Forgotten(sh2[u], vs, n) => p \in late'[vs] \/ tlb'[vs][p] = Null
    BY <1>2 DEF Tables
  <2>1. \A u \in Threads : u # t => sh2[u] = sh[u]
    BY <1>6 DEF Moves
  <2>2. /\ \A p \in Page(vs) : p \notin Covered(vs) => pt[vs][p] = Null /\ (p \notin late[vs] => tlb[vs][p] = Null)
        /\ \A n \in nodes[vs] : \A p \in PagesOf(n.bo, n.at) :
             /\ pt[vs][p] \in {Null, n.bo} /\ (p \notin late[vs] => tlb[vs][p] \in {Null, n.bo})
             /\ \A u \in Threads : Cleared(sh[u], vs, n, p) => pt[vs][p] = Null
             /\ \A u \in Threads : Forgotten(sh[u], vs, n) => p \in late[vs] \/ tlb[vs][p] = Null
    BY <1>1 DEF Tables
  <2>3. Covered(vs)' = Covered(vs) /\ tlb' = tlb /\ late' = late
    BY <1>2 DEF Covered
  <2>4. ASSUME NEW p \in Page(vs), p \notin Covered(vs)
        PROVE  pt'[vs][p] = Null
    <3>1. vs = v => p # p0
      BY <1>9, <1>10, <2>4 DEF Covered
    <3>2. pt'[vs][p] = pt[vs][p]
      BY <1>11, <2>4, <3>1
    <3>3. pt[vs][p] = Null
      BY <2>2, <2>4
    <3> QED
      BY <3>2, <3>3
  <2>5. ASSUME NEW n \in nodes[vs], NEW p \in PagesOf(n.bo, n.at)
        PROVE  /\ pt'[vs][p] \in {Null, n.bo}
               /\ \A u \in Threads : Cleared(sh2[u], vs, n, p) => pt'[vs][p] = Null
               /\ \A u \in Threads : Forgotten(sh2[u], vs, n) => p \in late'[vs] \/ tlb'[vs][p] = Null
    <3>1. p \in Page(vs)
      BY <1>1, <2>5 DEF Nodes
    <3>2. ASSUME NEW u \in Threads, Forgotten(sh2[u], vs, n)
          PROVE  p \in late'[vs] \/ tlb'[vs][p] = Null
      <4>1. u # t
        BY <1>8, <3>2
      <4> QED
        BY <2>1, <2>2, <2>3, <2>5, <3>2, <4>1
    <3>3. CASE vs = v /\ p = p0
      <4>1. n = n0
        BY <1>1, <1>9, <1>10, <2>5, <3>3, OneNode
      <4>2. ASSUME NEW u \in Threads, Cleared(sh2[u], vs, n, p)
            PROVE  FALSE
        <5>1. u # t
          BY <1>8, <4>2
        <5>2. Cleared(sh[u], vs, n, p)
          BY <2>1, <4>2, <5>1
        <5>3. Owns(sh[u], vs, n) /\ Owns(sh[t], vs, n)
          BY <1>8, <3>3, <4>1, <5>2, Busy
        <5> QED
          BY <1>1, <5>1, <5>3, OwnsOnce
      <4> QED
        BY <1>11, <3>1, <3>2, <3>3, <4>1, <4>2
    <3>4. CASE ~(vs = v /\ p = p0)
      <4>1. pt'[vs][p] = pt[vs][p]
        BY <1>11, <3>1, <3>4
      <4>2. ASSUME NEW u \in Threads, Cleared(sh2[u], vs, n, p)
            PROVE  pt[vs][p] = Null
        <5>1. u # t
          BY <1>8, <4>2
        <5> QED
          BY <2>1, <2>2, <2>5, <4>2, <5>1
      <4> QED
        BY <2>2, <2>5, <3>2, <4>1, <4>2
    <3> QED
      BY <3>3, <3>4
  <2> QED
    BY <2>2, <2>3, <2>4, <2>5
<1>15. Filled(sh2)'
  <2>1. ASSUME alive[v], Kept(v), NEW p \in PagesOf(n0.bo, n0.at), NEW i \in Nat, i = s.i + 1,
               p < s.at + i
        PROVE  pt'[v][p] = n0.bo
    <3>1. p \in Page(v) /\ p \in Int
      BY <1>1, <1>4, <1>9, <2>1 DEF Nodes, PagesOf
    <3>2. CASE p = p0
      BY <1>11, <3>1, <3>2
    <3>3. CASE p # p0
      <4>1. p < s.at + s.i
        BY <1>4, <2>1, <3>1, <3>3
      <4>2. pt[v][p] = n0.bo
        BY <1>1, <1>3, <1>4, <1>8, <1>9, <2>1, <4>1 DEF Filled, Kept
      <4> QED
        BY <1>11, <3>1, <3>3, <4>2
    <3> QED
      BY <3>2, <3>3
  <2>2. ASSUME r.pc # "write", NEW p \in PagesOf(n0.bo, n0.at)
        PROVE  p < s.at + (s.i + 1)
    <3>1. ~(s.i + 1 < Size[s.bo]) /\ Size[s.bo] \in Nat
      BY <1>4, <1>7, <2>2, Some
    <3>2. p \in Int /\ p <= s.at + Size[s.bo] - 1
      BY <1>4, <1>9, <2>2, <3>1 DEF PagesOf
    <3> QED
      BY <1>4, <3>1, <3>2
  <2>3. s.i + 1 \in Nat
    BY <1>4
  <2>4. alive[v] /\ Kept(v) => \A p \in PagesOf(n0.bo, n0.at) :
           /\ ~Owns(sh2[t], v, n0) => pt'[v][p] = n0.bo
           /\ sh2[t].pc = "write" /\ p < sh2[t].at + sh2[t].i => pt'[v][p] = n0.bo
           /\ sh2[t].pc = "assign" => pt'[v][p] = n0.bo
    <3> SUFFICES ASSUME alive[v], Kept(v), NEW p \in PagesOf(n0.bo, n0.at)
                 PROVE  /\ ~Owns(r, v, n0) => pt'[v][p] = n0.bo
                        /\ r.pc = "write" /\ p < r.at + r.i => pt'[v][p] = n0.bo
                        /\ r.pc = "assign" => pt'[v][p] = n0.bo
      OBVIOUS
    <3>1. CASE r.pc # "write"
      BY <2>1, <2>2, <2>3, <3>1
    <3>2. CASE r.pc = "write"
      <4>1. Owns(r, v, n0)
        BY <1>7, <1>8, <3>2 DEF Owns
      <4>2. r.i = s.i + 1 /\ r.at = s.at
        BY <1>7, <3>2
      <4> QED
        BY <2>1, <2>3, <3>2, <4>1, <4>2
    <3> QED
      BY <3>1, <3>2
  <2>5. n0 \in nodes[v] /\ p0 \in PagesOf(n0.bo, n0.at) /\ v \in Spaces
    BY <1>4, <1>9, <1>10
  <2>6. Owns(sh[t], v, n0) /\ (\A vs, n : Owns(sh2[t], vs, n) => Owns(sh[t], vs, n) /\ vs = v)
        /\ (\A vs, n : Owns(sh[t], vs, n) => vs = v)
    BY <1>8
  <2> HIDE DEF v, n0, p0
  <2> QED
    BY <1>1, <1>2, <1>5, <1>6, <2>4, <2>5, <2>6, KeepFilledEntry
<1>16. Has(r) => NodeOf(r) \in nodes[r.vs]
  BY <1>7, <1>8, <1>9
<1>17. /\ r.k = "map" => alive[r.vs]
       /\ r.k # "down" /\ s.k # "down" /\ r.k # "bad"
       /\ (r.k = "mmap" => s.k = "mmap" /\ r.bo = s.bo)
       /\ ~(r.k = "mmap" /\ r.pc \in {"mapped", "unlock"})
       /\ \A n \in nodes[Bar] : Puts(s, n) => Puts(r, n)
  BY <1>1, <1>4, <1>7, <1>8 DEF Downs
<1>18. \A b \in Bos : One(Lent(r, b)) - One(Lent(s, b)) = One(Owes(r, b)) - One(Owes(s, b))
  BY <1>8 DEF One
<1> QED
  BY <1>2, <1>6, <1>8, <1>12, <1>13, <1>14, <1>15, <1>16, <1>17, <1>18, Quiet

\* Clearing goes on by one entry.
LEMMA ClearsMore ==
  ASSUME NEW s, NEW r, NEW vs, NEW n, NEW p \in Int, NEW z \in Nat, Cleared(r, vs, n, p),
         r.k = s.k, r.vs = s.vs, r.bo = s.bo, r.at = s.at, r.bat = s.bat, s.i \in Nat,
         n = NodeOf(s) \/ n = BarNode(s) => p <= n.at + z - 1,
         \/ s.pc = "fclear" /\ r.pc \in {"fclear", "fflush"} /\ s.bat \in Int
         \/ s.pc \in {"undo", "clear"} /\ r.pc \in {"undo", "clear", "undoflush", "flush"} /\ s.at \in Int,
         \/ r.pc = s.pc /\ r.i = s.i + 1
         \/ r.pc # s.pc /\ r.pc \in {"undoflush", "flush", "fflush"} /\ ~(s.i + 1 < z)
  PROVE  \/ Cleared(s, vs, n, p)
         \/ s.pc = "fclear" /\ vs = Bar /\ p = s.bat + s.i
         \/ s.pc # "fclear" /\ vs = s.vs /\ p = s.at + s.i
<1>1. NodeOf(r) = NodeOf(s) /\ BarNode(r) = BarNode(s)
  BY DEF NodeOf, BarNode
<1>2. (n = NodeOf(s) => n.at = s.at) /\ (n = BarNode(s) => n.at = s.bat)
  BY DEF NodeOf, BarNode, Node
<1>3. CASE vs = s.vs /\ n = NodeOf(s) /\ s.pc = "fclear" /\ s.k # "none"
  BY <1>3 DEF Cleared, Freeing
<1>4. CASE vs = s.vs /\ n = NodeOf(s) /\ s.pc \in {"undo", "clear"}
  <2>1. s.at \in Int /\ n.at = s.at /\ p <= n.at + z - 1
    BY <1>2, <1>4
  <2>2. CASE r.pc = s.pc /\ r.i = s.i + 1
    <3>1. p < s.at + (s.i + 1)
      BY <1>4, <2>2 DEF Cleared, Freeing
    <3>2. p < s.at + s.i \/ p = s.at + s.i
      BY <2>1, <3>1
    <3> QED
      BY <1>4, <3>2 DEF Cleared
  <2>3. CASE ~(s.i + 1 < z)
    <3> DEFINE a == s.at
               i == s.i
    <3>1. a \in Int /\ i \in Nat /\ p <= a + z - 1 /\ z <= i + 1
      BY <2>1, <2>3
    <3> HIDE DEF a, i
    <3>2. p < a + i \/ p = a + i
      BY <3>1
    <3>3. p < s.at + s.i \/ p = s.at + s.i
      BY <3>2 DEF a, i
    <3> QED
      BY <1>4, <3>3 DEF Cleared
  <2> QED
    BY <2>2, <2>3
<1>5. CASE vs = Bar /\ n = BarNode(s) /\ s.pc = "fclear" /\ ~(vs = s.vs /\ n = NodeOf(s) /\ s.k # "none")
  <2>1. s.bat \in Int /\ n.at = s.bat /\ p <= n.at + z - 1
    BY <1>2, <1>5
  <2>2. CASE r.pc = s.pc /\ r.i = s.i + 1
    <3>1. p < s.bat + (s.i + 1)
      BY <1>1, <1>5, <2>2 DEF Cleared
    <3>2. p < s.bat + s.i \/ p = s.bat + s.i
      BY <2>1, <3>1
    <3> QED
      BY <1>5, <3>2 DEF Cleared
  <2>3. CASE ~(s.i + 1 < z)
    <3> DEFINE a == s.bat
               i == s.i
    <3>1. a \in Int /\ i \in Nat /\ p <= a + z - 1 /\ z <= i + 1
      BY <2>1, <2>3
    <3> HIDE DEF a, i
    <3>2. p < a + i \/ p = a + i
      BY <3>1
    <3>3. p < s.bat + s.i \/ p = s.bat + s.i
      BY <3>2 DEF a, i
    <3> QED
      BY <1>5, <3>3 DEF Cleared
  <2> QED
    BY <2>2, <2>3
<1>6. \/ vs = s.vs /\ n = NodeOf(s) /\ s.pc = "fclear" /\ s.k # "none"
      \/ vs = s.vs /\ n = NodeOf(s) /\ s.pc \in {"undo", "clear"}
      \/ vs = Bar /\ n = BarNode(s) /\ s.pc = "fclear" /\ ~(vs = s.vs /\ n = NodeOf(s) /\ s.k # "none")
  BY <1>1 DEF Cleared, Freeing
<1> QED
  BY <1>3, <1>4, <1>5, <1>6

\* One more entry of the node is cleared.
LEMMA ClearKeeps ==
  ASSUME NEW sh \in [Threads -> Stages], Inv(sh), NEW t \in Threads, Clear(t)
  PROVE  IInv'
<1>1. /\ Programs(sh) /\ Types /\ Locks(sh) /\ Nodes(sh) /\ Downs(sh) /\ Tables(sh) /\ Filled(sh)
      /\ BarExact(sh) /\ InBar(sh) /\ WellFormed(sh[t])
  BY InvIs
<1> DEFINE s == sh[t]
<1>2. /\ At(t, "clear") /\ Then(t, <<>>) /\ pt' = [pt EXCEPT ![Now(t).vs][Now(t).at] = Null]
      /\ UNCHANGED <<st, gref, handle, mmaps, map1, twice, leaked, alive, nodes, tlb, late, lock>>
  BY DEF Clear, objvars
<1>3. s.pc \in {"undo", "clear", "fclear"} /\ Now(t) = NowOf(s)
  BY <1>1, <1>2, AtIs, HereIs
<1> DEFINE v == IF s.pc = "fclear" THEN Bar ELSE s.vs
           a0 == IF s.pc = "fclear" THEN s.bat ELSE s.at
           n0 == Node(s.bo, a0)
           p0 == a0 + s.i
<1>4. /\ s.k # "mmap" /\ v \in Spaces /\ s.bo \in Bos /\ a0 \in Int /\ s.i \in Nat /\ s.i < Size[s.bo]
      /\ (s.pc = "undo" => s.k \in {"map", "bad"})
      /\ (s.pc = "clear" => s.k \in {"map", "bad"})
      /\ (s.pc = "fclear" => s.k \in {"none", "map", "down"})
      /\ (s.k \in {"map", "down"} => s.vs # Bar)
  <2>1. /\ (s.pc \in {"undo", "clear"} => s.k \in {"map", "bad"})
        /\ (s.pc = "fclear" => s.k \in {"none", "map", "down"})
    BY <1>1, FormIs DEF Suits, Kinds, WithNode, Freeing
  <2>2. s.pc \in {"undo", "clear"} => s.vs \in Spaces
    BY <1>1, <2>1, FormIs, Spaced
  <2>3. s.pc \in {"undo", "clear"} => Has(s)
    BY DEF Has, WithNode
  <2>4. s.pc = "fclear" => s.bat \in Int
    BY <1>1 DEF WellFormed, Freeing
  <2>5. s.i < Size[s.bo] /\ s.i \in Nat /\ s.bo \in Bos
    BY <1>1, <1>3 DEF WellFormed, Stages
  <2>6. s.pc \in {"undo", "clear"} => s.at \in Int
    BY <1>1, <2>3, FormIs
  <2>7. s.k \in {"map", "down"} => s.vs # Bar
    BY <1>1, FormIs
  <2> QED
    BY <1>3, <2>1, <2>2, <2>4, <2>5, <2>6, <2>7, Spaced
<1>5. pt' = [pt EXCEPT ![v][p0] = Null]
  <2>1. Now(t) = Op("clear", v, s.bo, p0)
    BY <1>3, NowOfIs
  <2>2. Now(t).vs = v /\ Now(t).at = p0
    BY <2>1 DEF Op
  <2> QED
    BY <1>2, <2>2
<1>6. PICK sh2 \in [Threads -> Stages] :
           Moves(sh, sh2, t) /\ Programs(sh2)' /\ WellFormed(sh2[t]) /\ Onward(sh[t], sh2[t])
  BY <1>1, <1>2, GoesOn
<1> DEFINE r == sh2[t]
<1>7. /\ \/ r.pc = s.pc /\ r.i = s.i + 1
         \/ /\ ~(s.i + 1 < Size[s.bo])
            /\ <<s.pc, r.pc>> \in {<<"undo", "undoflush">>, <<"clear", "flush">>, <<"fclear", "fflush">>}
      /\ r.k = s.k /\ r.vs = s.vs /\ r.bo = s.bo /\ r.at = s.at /\ r.bat = s.bat
  BY <1>3, <1>4, <1>6, NextPcIs DEF Onward, Last
<1>8. /\ (Has(r) <=> Has(s)) /\ NodeOf(r) = NodeOf(s) /\ BarNode(r) = BarNode(s)
      /\ (r.pc \in Freeing <=> s.pc \in Freeing)
      /\ r.pc \notin {"funlock", "release", "write", "assign", "unlock"} /\ s.pc \notin {"funlock", "release", "unlock"}
      /\ \A vs \in Spaces : Holding(r, vs) <=> Holding(s, vs)
      /\ \A b : (Lent(r, b) <=> Lent(s, b)) /\ (Owes(r, b) <=> Owes(s, b))
      /\ \A vs, n : Owns(s, vs, n) <=> Owns(r, vs, n)
      /\ \A n : Puts(s, n) => Puts(r, n)
      /\ \A vs, n : Forgotten(r, vs, n) => Forgotten(s, vs, n)
      /\ ~Adding(r)
      /\ Owns(s, v, n0)
      /\ \/ s.pc = "fclear" /\ r.pc \in {"fclear", "fflush"}
         \/ s.pc \in {"undo", "clear"} /\ r.pc \in {"undo", "clear", "undoflush", "flush"}
  <2> HIDE DEF s, r
  <2>1. \/ s.pc = "fclear" /\ r.pc \in {"fclear", "fflush"}
        \/ s.pc \in {"undo", "clear"} /\ r.pc \in {"undo", "clear", "undoflush", "flush"}
    BY <1>3, <1>7
  <2>2. (Has(r) <=> Has(s)) /\ (r.pc \in Freeing <=> s.pc \in Freeing)
    BY <1>7, <2>1 DEF Has, WithNode, Freeing
  <2>3. NodeOf(r) = NodeOf(s) /\ BarNode(r) = BarNode(s)
    BY <1>7 DEF NodeOf, BarNode
  <2>4. \A vs \in Spaces : Holding(r, vs) <=> Holding(s, vs)
    BY <1>7, <2>1 DEF Holding, Locked, BarLocked, Freeing
  <2>5. \A b : Lent(r, b) <=> Lent(s, b)
    BY <1>7, <2>1, <2>2 DEF Lent
  <2>6. \A b : Owes(r, b) <=> Owes(s, b)
    BY <1>4, <1>7, <2>1 DEF Owes
  <2>7. \A vs, n : Owns(s, vs, n) <=> Owns(r, vs, n)
    BY <1>7, <2>1, <2>2, <2>3 DEF Owns
  <2>8. \A vs, n : Forgotten(r, vs, n) => Forgotten(s, vs, n)
    BY <1>7, <2>1, <2>2, <2>3 DEF Forgotten
  <2>9. \A n : Puts(s, n) => Puts(r, n)
    BY <1>7, <2>7 DEF Puts
  <2>10. ~Adding(r)
    BY <2>1 DEF Adding
  <2>11. Owns(s, v, n0)
    BY <1>3 DEF Owns, NodeOf, BarNode, Has, WithNode
  <2>12. r.pc \notin {"funlock", "release", "write", "assign", "unlock"} /\ s.pc \notin {"funlock", "release", "unlock"}
    BY <2>1
  <2> QED
    BY <2>1, <2>2, <2>3, <2>4, <2>5, <2>6, <2>7, <2>8, <2>9, <2>10, <2>11, <2>12
<1>9. /\ \A vs \in Spaces : vs # v => pt'[vs] = pt[vs]
      /\ \A p \in Page(v) : pt'[v][p] = IF p = p0 THEN Null ELSE pt[v][p]
  <2>1. DOMAIN pt = Spaces /\ pt[v] \in [Page(v) -> Bos \cup {Null}]
    BY <1>1, <1>4 DEF Types
  <2> HIDE DEF v, p0, s
  <2> QED
    BY <1>4, <1>5, <2>1
<1>10. Types'
  <2>1. pt'[v] \in [Page(v) -> Bos \cup {Null}]
    <3>1. DOMAIN pt = Spaces /\ pt[v] \in [Page(v) -> Bos \cup {Null}]
      BY <1>1, <1>4 DEF Types
    <3> HIDE DEF v, p0, s
    <3>2. pt'[v] = [pt[v] EXCEPT ![p0] = Null]
      BY <1>4, <1>5, <3>1
    <3> QED
      BY <3>1, <3>2
  <2>2. DOMAIN pt' = Spaces /\ \A vs \in Spaces : pt'[vs] \in [Page(vs) -> Bos \cup {Null}]
    <3> HIDE DEF v, p0, s
    <3> QED
      BY <1>1, <1>4, <1>5, <1>9, <2>1 DEF Types
  <2> QED
    BY <1>1, <1>2, <2>2 DEF Types
<1>11. Locks(sh2)'
  BY <1>1, <1>2, <1>6, <1>8, KeepLocks
<1>12. ASSUME NEW vs \in Spaces, NEW n \in nodes[vs], NEW p \in PagesOf(n.bo, n.at), Cleared(r, vs, n, p)
       PROVE  Cleared(s, vs, n, p) \/ (vs = v /\ p = p0)
  <2>1. n.at \in Int /\ n.bo \in Bos /\ Size[n.bo] \in Nat
    BY <1>1, <1>12, NodesAre, Some
  <2>2. p \in Int /\ p <= n.at + Size[n.bo] - 1
    BY <1>12, <2>1 DEF PagesOf
  <2>3. (n = NodeOf(s) => n.bo = s.bo) /\ (n = BarNode(s) => n.bo = s.bo)
    BY DEF NodeOf, BarNode, Node
  <2>4. /\ s.pc = "fclear" => v = Bar /\ p0 = s.bat + s.i /\ s.bat \in Int
        /\ s.pc # "fclear" => v = s.vs /\ p0 = s.at + s.i /\ s.at \in Int
    BY <1>4
  <2>5. \/ r.pc = s.pc /\ r.i = s.i + 1
        \/ r.pc # s.pc /\ r.pc \in {"undoflush", "flush", "fflush"} /\ ~(s.i + 1 < Size[s.bo])
    BY <1>7
  <2>6. Size[s.bo] \in Nat
    BY <1>4, Some
  <2>7. /\ n = NodeOf(s) \/ n = BarNode(s) => p <= n.at + Size[s.bo] - 1
        /\ \/ s.pc = "fclear" /\ r.pc \in {"fclear", "fflush"} /\ s.bat \in Int
           \/ s.pc \in {"undo", "clear"} /\ r.pc \in {"undo", "clear", "undoflush", "flush"} /\ s.at \in Int
        /\ s.i \in Nat
    BY <1>4, <1>8, <2>2, <2>3, <2>4
  <2> HIDE DEF s, r, v, p0
  <2>8. \/ Cleared(s, vs, n, p)
        \/ s.pc = "fclear" /\ vs = Bar /\ p = s.bat + s.i
        \/ s.pc # "fclear" /\ vs = s.vs /\ p = s.at + s.i
    BY <1>7, <1>12, <2>2, <2>5, <2>6, <2>7, ClearsMore
  <2> QED
    BY <2>4, <2>8
<1>13. Tables(sh2)'
  <2> SUFFICES ASSUME NEW vs \in Spaces, alive[vs]
               PROVE  /\ \A p \in Page(vs) : p \notin Covered(vs)' => pt'[vs][p] = Null /\ (p \notin late'[vs] => tlb'[vs][p] = Null)
                      /\ \A n \in nodes[vs] : \A p \in PagesOf(n.bo, n.at) :
                           /\ pt'[vs][p] \in {Null, n.bo} /\ (p \notin late'[vs] => tlb'[vs][p] \in {Null, n.bo})
                           /\ \A u \in Threads : Cleared(sh2[u], vs, n, p) => pt'[vs][p] = Null
                           /\ \A u \in Threads : Forgotten(sh2[u], vs, n) => p \in late'[vs] \/ tlb'[vs][p] = Null
    BY <1>2 DEF Tables
  <2>1. \A u \in Threads : u # t => sh2[u] = sh[u]
    BY <1>6 DEF Moves
  <2>2. /\ \A p \in Page(vs) : p \notin Covered(vs) => pt[vs][p] = Null /\ (p \notin late[vs] => tlb[vs][p] = Null)
        /\ \A n \in nodes[vs] : \A p \in PagesOf(n.bo, n.at) :
             /\ pt[vs][p] \in {Null, n.bo} /\ (p \notin late[vs] => tlb[vs][p] \in {Null, n.bo})
             /\ \A u \in Threads : Cleared(sh[u], vs, n, p) => pt[vs][p] = Null
             /\ \A u \in Threads : Forgotten(sh[u], vs, n) => p \in late[vs] \/ tlb[vs][p] = Null
    BY <1>1 DEF Tables
  <2>3. Covered(vs)' = Covered(vs) /\ tlb' = tlb /\ late' = late
    BY <1>2 DEF Covered
  <2>4. \A p \in Page(vs) : /\ pt'[vs][p] = Null \/ pt'[vs][p] = pt[vs][p]
                            /\ vs = v /\ p = p0 => pt'[vs][p] = Null
    <3>1. CASE vs = v
      <4> HIDE DEF v, p0
      <4>1. ASSUME NEW p \in Page(v)
            PROVE  /\ pt'[v][p] = Null \/ pt'[v][p] = pt[v][p]
                   /\ p = p0 => pt'[v][p] = Null
        BY <1>9
      <4> QED
        BY <3>1, <4>1
    <3>2. CASE vs # v
      <4> HIDE DEF v, p0
      <4> QED
        BY <1>9, <3>2
    <3> QED
      BY <3>1, <3>2
  <2>5. ASSUME NEW n \in nodes[vs], NEW p \in PagesOf(n.bo, n.at)
        PROVE  /\ pt'[vs][p] \in {Null, n.bo}
               /\ \A u \in Threads : Cleared(sh2[u], vs, n, p) => pt'[vs][p] = Null
               /\ \A u \in Threads : Forgotten(sh2[u], vs, n) => p \in late[vs] \/ tlb[vs][p] = Null
    <3>1. p \in Page(vs)
      BY <1>1, <2>5 DEF Nodes
    <3>2. ASSUME NEW u \in Threads
          PROVE  /\ Forgotten(sh2[u], vs, n) => Forgotten(sh[u], vs, n)
                 /\ Cleared(sh2[u], vs, n, p) => Cleared(sh[u], vs, n, p) \/ (vs = v /\ p = p0)
      <4>1. CASE u = t
        BY <1>8, <1>12, <2>5, <4>1
      <4>2. CASE u # t
        BY <2>1, <4>2
      <4> QED
        BY <4>1, <4>2
    <3> HIDE DEF v, p0
    <3> QED
      BY <2>2, <2>4, <2>5, <3>1, <3>2
  <2> QED
    BY <2>2, <2>3, <2>4, <2>5
<1>14. Filled(sh2)'
  <2>1. alive[v] /\ Kept(v) => n0 \in nodes[v]
    <3>1. CASE s.pc = "fclear"
      BY <1>1, <3>1 DEF Kept, BarExact, BarNode, Freeing
    <3>2. CASE s.pc # "fclear"
      <4>1. Has(s)
        BY <1>3, <3>2 DEF Has, WithNode
      <4> QED
        BY <1>1, <3>2, <4>1 DEF Nodes, NodeOf
    <3> QED
      BY <3>1, <3>2
  <2>2. p0 \in PagesOf(n0.bo, n0.at) /\ v \in Spaces
    <3>1. n0.bo = s.bo /\ n0.at = a0 /\ Size[s.bo] \in Nat
      BY <1>4, Some DEF Node
    <3> HIDE DEF v, n0, a0
    <3> QED
      BY <1>4, <3>1 DEF PagesOf
  <2>3. /\ Owns(sh[t], v, n0) /\ Owns(sh2[t], v, n0)
        /\ \A vs, n : Owns(sh2[t], vs, n) => Owns(sh[t], vs, n)
        /\ \A vs, n : Owns(sh[t], vs, n) => Owns(sh2[t], vs, n)
        /\ sh2[t].pc \notin {"write", "assign"}
    BY <1>8
  <2> HIDE DEF v, n0, p0, a0
  <2> QED
    BY <1>1, <1>2, <1>5, <1>6, <2>1, <2>2, <2>3, KeepFilledEntry
<1>15. Has(r) => NodeOf(r) \in nodes[r.vs]
  BY <1>1, <1>7, <1>8 DEF Nodes
<1>16. \A b \in Bos : One(Lent(r, b)) - One(Lent(s, b)) = One(Owes(r, b)) - One(Owes(s, b))
  BY <1>8 DEF One
<1>17. /\ r.k = "map" => alive[r.vs]
       /\ r.k = "down" => s.k = "down" /\ r.vs = s.vs
       /\ s.k = "down" => r.k = "down" /\ r.vs = s.vs
       /\ r.pc \in Freeing \/ s.pc \in Freeing =>
            r.pc \in Freeing /\ s.pc \in Freeing /\ r.bo = s.bo /\ r.bat = s.bat
              /\ (r.pc \in {"funlock", "release"} <=> s.pc \in {"funlock", "release"})
       /\ r.k # "mmap"
       /\ (~BarMapFails => r.k # "bad")
  BY <1>1, <1>4, <1>7, <1>8 DEF Downs, BarExact
<1> QED
  BY <1>2, <1>6, <1>8, <1>10, <1>11, <1>13, <1>14, <1>15, <1>16, <1>17, Quiet

\* The card forgets pages, those of the node, whose entries are all cleared, among them;
\* what is kept of them is known.
LEMMA TlbKeeps ==
  ASSUME NEW sh \in [Threads -> Stages], Inv(sh), NEW t \in Threads, At(t, "flush"), Then(t, <<>>),
         NEW kept \in SUBSET Page(Now(t).vs),
         tlb' = [tlb EXCEPT ![Now(t).vs] =
                   [p \in Page(Now(t).vs) |-> IF p \in kept THEN tlb[Now(t).vs][p] ELSE Null]],
         late' = [late EXCEPT ![Now(t).vs] = kept \cap (@ \cup PagesOf(Now(t).bo, Now(t).at))],
         UNCHANGED <<st, gref, handle, mmaps, map1, twice, leaked, alive, nodes, pt, lock>>
  PROVE  IInv'
<1>1. /\ Programs(sh) /\ Types /\ Locks(sh) /\ Nodes(sh) /\ Downs(sh) /\ Tables(sh) /\ Filled(sh)
      /\ BarExact(sh) /\ InBar(sh) /\ WellFormed(sh[t])
  BY InvIs
<1> DEFINE s == sh[t]
<1>2. /\ At(t, "flush") /\ Then(t, <<>>)
      /\ UNCHANGED <<st, gref, handle, mmaps, map1, twice, leaked, alive, nodes, pt, lock>>
  OBVIOUS
<1>3. s.pc \in {"undoflush", "flush", "fflush"} /\ Now(t) = NowOf(s)
  BY <1>1, <1>2, AtIs, HereIs
<1> DEFINE v == IF s.pc = "fflush" THEN Bar ELSE s.vs
           n0 == IF s.pc = "fflush" THEN BarNode(s) ELSE NodeOf(s)
<1>4. /\ s.k # "mmap" /\ v \in Spaces
      /\ (s.pc = "undoflush" => s.k \in {"map", "bad"})
      /\ (s.pc = "flush" => s.k \in {"map", "bad"})
      /\ (s.pc = "fflush" => s.k \in {"none", "map", "down"})
      /\ (s.k \in {"map", "down"} => s.vs # Bar)
  <2>1. /\ (s.pc \in {"undoflush", "flush"} => s.k \in {"map", "bad"})
        /\ (s.pc = "fflush" => s.k \in {"none", "map", "down"})
    BY <1>1, FormIs DEF Suits, Kinds, WithNode, Freeing
  <2>2. s.pc \in {"undoflush", "flush"} => s.vs \in Spaces
    BY <1>1, <2>1, FormIs, Spaced
  <2>3. s.k \in {"map", "down"} => s.vs # Bar
    BY <1>1, FormIs
  <2> QED
    BY <1>3, <2>1, <2>2, <2>3, Spaced
<1>5. /\ tlb' = [tlb EXCEPT ![v] = [p \in Page(v) |-> IF p \in kept THEN tlb[v][p] ELSE Null]]
      /\ late' = [late EXCEPT ![v] = kept \cap (@ \cup PagesOf(n0.bo, n0.at))]
      /\ kept \subseteq Page(v)
  <2>1. Now(t).vs = v
    BY <1>3, NowOfIs DEF Op
  <2>2. Now(t).bo = n0.bo /\ Now(t).at = n0.at
    BY <1>3, NowOfIs DEF Op, NodeOf, BarNode, Node
  <2> QED
    BY <2>1, <2>2
<1>6. PICK sh2 \in [Threads -> Stages] :
           Moves(sh, sh2, t) /\ Programs(sh2)' /\ WellFormed(sh2[t]) /\ Onward(sh[t], sh2[t])
  BY <1>1, <1>2, GoesOn
<1> DEFINE r == sh2[t]
<1>7. /\ \/ s.pc = "undoflush" /\ r.pc = "clear" /\ r.i = 0
         \/ s.pc = "flush" /\ s.k = "map" /\ r.pc = "put"
         \/ s.pc = "flush" /\ s.k = "bad" /\ r.pc = "mmfree"
         \/ s.pc = "fflush" /\ r.pc = "fmmfree"
      /\ r.k = s.k /\ r.vs = s.vs /\ r.bo = s.bo /\ r.at = s.at /\ r.bat = s.bat
  BY <1>3, <1>4, <1>6, NextPcIs DEF Onward
<1>8. /\ (Has(r) <=> Has(s)) /\ NodeOf(r) = NodeOf(s) /\ BarNode(r) = BarNode(s)
      /\ (r.pc \in Freeing <=> s.pc \in Freeing)
      /\ r.pc \notin {"funlock", "release", "write", "assign", "unlock"} /\ s.pc \notin {"funlock", "release", "unlock"}
      /\ \A vs \in Spaces : Holding(r, vs) <=> Holding(s, vs)
      /\ \A b : (Lent(r, b) <=> Lent(s, b)) /\ (Owes(r, b) <=> Owes(s, b))
      /\ \A vs, n : Owns(s, vs, n) <=> Owns(r, vs, n)
      /\ \A n : Puts(s, n) => Puts(r, n)
      /\ \A vs, n : Forgotten(r, vs, n) => Forgotten(s, vs, n) \/ (vs = v /\ n = n0)
      /\ ~Adding(r)
  <2> HIDE DEF s, r
  <2>1. \/ s.pc = "fflush" /\ r.pc = "fmmfree"
        \/ s.pc \in {"undoflush", "flush"} /\ r.pc \in {"clear", "put", "mmfree"}
    BY <1>3, <1>7
  <2>2. (Has(r) <=> Has(s)) /\ (r.pc \in Freeing <=> s.pc \in Freeing)
    BY <1>7, <2>1 DEF Has, WithNode, Freeing
  <2>3. NodeOf(r) = NodeOf(s) /\ BarNode(r) = BarNode(s)
    BY <1>7 DEF NodeOf, BarNode
  <2>4. \A vs \in Spaces : Holding(r, vs) <=> Holding(s, vs)
    BY <1>7, <2>1 DEF Holding, Locked, BarLocked, Freeing
  <2>5. \A b : Lent(r, b) <=> Lent(s, b)
    BY <1>7, <2>1, <2>2 DEF Lent
  <2>6. \A b : Owes(r, b) <=> Owes(s, b)
    BY <1>4, <1>7 DEF Owes
  <2>7. \A vs, n : Owns(s, vs, n) <=> Owns(r, vs, n)
    BY <1>7, <2>1, <2>2, <2>3 DEF Owns
  <2>8. \A vs, n : Forgotten(r, vs, n) => Forgotten(s, vs, n) \/ (vs = v /\ n = n0)
    BY <1>7, <2>1, <2>2, <2>3 DEF Forgotten, Freeing
  <2>9. \A n : Puts(s, n) => Puts(r, n)
    BY <1>7, <2>7 DEF Puts
  <2>10. ~Adding(r)
    BY <2>1 DEF Adding
  <2>11. r.pc \notin {"funlock", "release", "write", "assign", "unlock"} /\ s.pc \notin {"funlock", "release", "unlock"}
    BY <2>1
  <2> QED
    BY <2>1, <2>2, <2>3, <2>4, <2>5, <2>6, <2>7, <2>8, <2>9, <2>10, <2>11
<1>9. /\ \A vs \in Spaces : vs # v => tlb'[vs] = tlb[vs] /\ late'[vs] = late[vs]
      /\ DOMAIN tlb' = Spaces /\ tlb'[v] \in [Page(v) -> Bos \cup {Null}]
      /\ \A p \in Page(v) : tlb'[v][p] = IF p \in kept THEN tlb[v][p] ELSE Null
      /\ DOMAIN late' = Spaces /\ late'[v] = kept \cap (late[v] \cup PagesOf(n0.bo, n0.at))
  <2>1. DOMAIN tlb = Spaces /\ DOMAIN late = Spaces /\ tlb[v] \in [Page(v) -> Bos \cup {Null}]
    BY <1>1, <1>4 DEF Types
  <2> HIDE DEF v, s, n0
  <2> QED
    BY <1>4, <1>5, <2>1
<1>10. Types'
  <2>1. \A vs \in Spaces : tlb'[vs] \in [Page(vs) -> Bos \cup {Null}] /\ late'[vs] \subseteq Page(vs)
    <3> HIDE DEF v, s, n0
    <3> QED
      BY <1>1, <1>5, <1>9 DEF Types
  <2> QED
    BY <1>1, <1>2, <1>9, <2>1 DEF Types
<1>11. Locks(sh2)'
  BY <1>1, <1>2, <1>6, <1>8, KeepLocks
<1>12. ASSUME NEW vs \in Spaces, NEW n \in nodes[vs], NEW p \in PagesOf(n.bo, n.at), Cleared(r, vs, n, p)
       PROVE  Cleared(s, vs, n, p)
  <2>1. n.at \in Int /\ Size[n.bo] \in Nat
    BY <1>1, <1>12, NodesAre, Some
  <2>2. p \in Int /\ n.at <= p
    BY <1>12, <2>1 DEF PagesOf
  <2>3. n = NodeOf(r) => n.at = r.at
    BY DEF NodeOf, Node
  <2>4. n = NodeOf(r) /\ r.i = 0 => ~(p < r.at + r.i)
    BY <2>1, <2>2, <2>3
  <2> HIDE DEF s, r
  <2>5. CASE s.pc = "undoflush"
    BY <1>7, <1>12, <2>4, <2>5 DEF Cleared, Freeing
  <2>6. CASE s.pc = "flush"
    BY <1>7, <1>8, <1>12, <2>6 DEF Cleared, Freeing
  <2>7. CASE s.pc = "fflush"
    BY <1>7, <1>8, <1>12, <2>7 DEF Cleared, Freeing
  <2> QED
    BY <1>3, <2>5, <2>6, <2>7
<1>13. Tables(sh2)'
  <2> SUFFICES ASSUME NEW vs \in Spaces, alive[vs]
               PROVE  /\ \A p \in Page(vs) : p \notin Covered(vs)' => pt'[vs][p] = Null /\ (p \notin late'[vs] => tlb'[vs][p] = Null)
                      /\ \A n \in nodes[vs] : \A p \in PagesOf(n.bo, n.at) :
                           /\ pt'[vs][p] \in {Null, n.bo} /\ (p \notin late'[vs] => tlb'[vs][p] \in {Null, n.bo})
                           /\ \A u \in Threads : Cleared(sh2[u], vs, n, p) => pt'[vs][p] = Null
                           /\ \A u \in Threads : Forgotten(sh2[u], vs, n) => p \in late'[vs] \/ tlb'[vs][p] = Null
    BY <1>2 DEF Tables
  <2>1. \A u \in Threads : u # t => sh2[u] = sh[u]
    BY <1>6 DEF Moves
  <2>2. /\ \A p \in Page(vs) : p \notin Covered(vs) => pt[vs][p] = Null /\ (p \notin late[vs] => tlb[vs][p] = Null)
        /\ \A n \in nodes[vs] : \A p \in PagesOf(n.bo, n.at) :
             /\ pt[vs][p] \in {Null, n.bo} /\ (p \notin late[vs] => tlb[vs][p] \in {Null, n.bo})
             /\ \A u \in Threads : Cleared(sh[u], vs, n, p) => pt[vs][p] = Null
             /\ \A u \in Threads : Forgotten(sh[u], vs, n) => p \in late[vs] \/ tlb[vs][p] = Null
    BY <1>1 DEF Tables
  <2>3. Covered(vs)' = Covered(vs) /\ pt' = pt
    BY <1>2 DEF Covered
  <2>4. \A p \in Page(vs) : \/ vs = v /\ tlb'[vs][p] = Null
                            \/ /\ tlb'[vs][p] = tlb[vs][p]
                               /\ p \in late'[vs] <=> p \in late[vs] \/ (vs = v /\ p \in PagesOf(n0.bo, n0.at))
    <3> TAKE p \in Page(vs)
    <3> HIDE DEF v, n0
    <3>1. CASE vs = v
      BY <1>9, <3>1
    <3>2. CASE vs # v
      BY <1>9, <3>2
    <3> QED
      BY <3>1, <3>2
  <2>5. ASSUME NEW n \in nodes[vs], NEW p \in PagesOf(n.bo, n.at)
        PROVE  /\ p \notin late'[vs] => tlb'[vs][p] \in {Null, n.bo}
               /\ \A u \in Threads : Cleared(sh2[u], vs, n, p) => pt[vs][p] = Null
               /\ \A u \in Threads : Forgotten(sh2[u], vs, n) => p \in late'[vs] \/ tlb'[vs][p] = Null
    <3>1. p \in Page(vs)
      BY <1>1, <2>5 DEF Nodes
    <3>2. ASSUME NEW u \in Threads
          PROVE  /\ Forgotten(sh2[u], vs, n) => Forgotten(sh[u], vs, n) \/ (vs = v /\ n = n0)
                 /\ Cleared(sh2[u], vs, n, p) => Cleared(sh[u], vs, n, p)
      <4>1. CASE u = t
        BY <1>8, <1>12, <2>5, <4>1
      <4>2. CASE u # t
        <5>1. sh2[u] = sh[u]
          BY <2>1, <4>2
        <5> QED
          BY <5>1
      <4> QED
        BY <4>1, <4>2
    <3> HIDE DEF v, n0
    <3> QED
      BY <2>2, <2>4, <2>5, <3>1, <3>2
  <2>6. \A p \in Page(vs) : p \notin Covered(vs) /\ p \notin late'[vs] => tlb'[vs][p] = Null
    BY <2>2, <2>4
  <2> QED
    BY <2>2, <2>3, <2>5, <2>6
<1>14. Filled(sh2)'
  <2>1. /\ \A vs, n : Owns(sh[t], vs, n) => Owns(sh2[t], vs, n)
        /\ sh2[t].pc \notin {"write", "assign"}
    BY <1>8
  <2> QED
    BY <1>1, <1>2, <1>6, <2>1, KeepFilled
<1>15. Has(r) => NodeOf(r) \in nodes[r.vs]
  BY <1>1, <1>7, <1>8 DEF Nodes
<1>16. \A b \in Bos : One(Lent(r, b)) - One(Lent(s, b)) = One(Owes(r, b)) - One(Owes(s, b))
  BY <1>8 DEF One
<1>17. /\ r.k = "map" => alive[r.vs]
       /\ r.k = "down" => s.k = "down" /\ r.vs = s.vs
       /\ s.k = "down" => r.k = "down" /\ r.vs = s.vs
       /\ r.pc \in Freeing \/ s.pc \in Freeing =>
            r.pc \in Freeing /\ s.pc \in Freeing /\ r.bo = s.bo /\ r.bat = s.bat
              /\ (r.pc \in {"funlock", "release"} <=> s.pc \in {"funlock", "release"})
       /\ r.k # "mmap"
       /\ (~BarMapFails => r.k # "bad")
  BY <1>1, <1>4, <1>7, <1>8 DEF Downs, BarExact
<1> QED
  BY <1>2, <1>6, <1>8, <1>10, <1>11, <1>13, <1>14, <1>15, <1>16, <1>17, Quiet

\* A flush of all pages.
LEMMA FlushKeeps ==
  ASSUME NEW sh \in [Threads -> Stages], Inv(sh), NEW t \in Threads, Flush(t)
  PROVE  IInv'
<1> DEFINE v == Now(t).vs
           kept == {}
<1>1. /\ At(t, "flush") /\ Then(t, <<>>)
      /\ tlb' = [tlb EXCEPT ![v] = Empty(v)] /\ late' = [late EXCEPT ![v] = {}]
      /\ UNCHANGED <<st, gref, handle, mmaps, map1, twice, leaked, alive, nodes, pt, lock>>
  BY DEF Flush, objvars
<1>2. Empty(v) = [p \in Page(v) |-> IF p \in kept THEN tlb[v][p] ELSE Null]
  BY DEF Empty
<1>3. late' = [late EXCEPT ![v] = kept \cap (@ \cup PagesOf(Now(t).bo, Now(t).at))]
  BY <1>1
<1> QED
  BY <1>1, <1>2, <1>3, TlbKeeps

\* A flush that leaves pages behind.
LEMMA FlushLostKeeps ==
  ASSUME NEW sh \in [Threads -> Stages], Inv(sh), NEW t \in Threads, FlushLost(t)
  PROVE  IInv'
<1> DEFINE v == Now(t).vs
<1>1. /\ At(t, "flush") /\ Then(t, <<>>)
      /\ UNCHANGED <<st, gref, handle, mmaps, map1, twice, leaked, alive, nodes, pt, lock>>
  BY DEF FlushLost, objvars
<1>2. PICK kept \in SUBSET Page(v) :
        /\ tlb' = [tlb EXCEPT ![v] = [p \in Page(v) |-> IF p \in kept THEN tlb[v][p] ELSE Null]]
        /\ late' = [late EXCEPT ![v] = kept \cap (@ \cup PagesOf(Now(t).bo, Now(t).at))]
  BY DEF FlushLost
<1> QED
  BY <1>1, <1>2, TlbKeeps

\* The node stays the thread's own, which has to clear it from its first page on.
LEMMA WriteFailsKeeps ==
  ASSUME NEW sh \in [Threads -> Stages], Inv(sh), NEW t \in Threads, WriteFails(t)
  PROVE  IInv'
<1>1. /\ Programs(sh) /\ Types /\ Locks(sh) /\ Nodes(sh) /\ Downs(sh) /\ Tables(sh) /\ Filled(sh)
      /\ InBar(sh) /\ WellFormed(sh[t])
  BY InvIs
<1> DEFINE s == sh[t]
<1>2. /\ At(t, "write") /\ (Now(t).vs # Bar \/ BarMapFails)
      /\ UNCHANGED <<st, gref, handle, mmaps, map1, twice, leaked, alive, nodes, pt, tlb, late, lock>>
  BY DEF WriteFails, objvars, spacevars
<1>3. s.pc = "write" /\ Now(t) = NowOf(s)
  BY <1>1, <1>2, AtIs, HereIs
<1>4. s.k \in {"map", "mmap"} /\ s.vs \in Spaces /\ s.bo \in Bos /\ s.at \in Int /\ s.i \in Nat /\ s.i < Size[s.bo]
      /\ Has(s) /\ (s.k = "mmap" => s.vs = Bar) /\ (s.k = "map" => s.vs # Bar)
  <2>1. s.k \in {"map", "mmap"} /\ Has(s)
    BY <1>1, <1>3, FormIs DEF Suits, Kinds, WithNode, Freeing, Has
  <2> QED
    BY <1>1, <1>3, <2>1, FormIs DEF WellFormed, Stages
<1> DEFINE n0 == NodeOf(s)
           p0 == s.at + s.i
<1>5. Now(t).vs = s.vs /\ Now(t).at = p0 /\ Now(t).bo = s.bo
  <2>1. Now(t) = Op("write", s.vs, s.bo, s.at + s.i)
    BY <1>3, NowOfIs
  <2> QED
    BY <2>1 DEF Op
<1>6. n0 \in nodes[s.vs] /\ n0.bo = s.bo /\ n0.at = s.at
  BY <1>1, <1>4 DEF Nodes, NodeOf, Node
<1>7. p0 \in PagesOf(n0.bo, n0.at)
  <2>1. Size[s.bo] \in Nat
    BY <1>4, Some
  <2> QED
    BY <1>4, <1>6, <2>1 DEF PagesOf
<1> DEFINE r == Stage("undo", IF s.k = "mmap" THEN "bad" ELSE "map", s.vs, s.bo, s.at, Null, 0)
<1>8. Goes(t, r)
  <2>1. PICK n \in nodes[Now(t).vs] :
           /\ Now(t).at \in PagesOf(n.bo, n.at)
           /\ Start(t, DoUnmap(Now(t).vs, Now(t).bo, n.at) \o UnmapNode(Now(t).vs, Now(t).bo, n.at)
                     \o IF Now(t).vs = Bar
                        THEN <<Op("assign", Now(t).vs, Now(t).bo, n.at), Unlock(Now(t).vs),
                               On("unref", Now(t).bo)>>
                        ELSE <<Unlock(Now(t).vs)>>)
    BY DEF WriteFails
  <2>2. n = n0
    <3>1. n \in nodes[s.vs] /\ p0 \in PagesOf(n.bo, n.at)
      BY <1>5, <2>1
    <3> HIDE DEF n0, p0
    <3> QED
      BY <1>1, <1>4, <1>6, <1>7, <3>1, OneNode
  <2>3. n.at = s.at /\ PagesOf(s.bo, s.at) \subseteq Page(s.vs)
    BY <1>1, <1>4, <1>6, <2>2 DEF Nodes
  <2>4. s.at \in Int
    BY <1>4
  <2>5. Start(t, DoUnmap(Now(t).vs, Now(t).bo, s.at) \o UnmapNode(Now(t).vs, Now(t).bo, s.at)
                     \o IF Now(t).vs = Bar
                        THEN <<Op("assign", Now(t).vs, Now(t).bo, s.at), Unlock(Now(t).vs),
                               On("unref", Now(t).bo)>>
                        ELSE <<Unlock(Now(t).vs)>>)
    BY <2>1, <2>3
  <2> QED
    BY <1>1, <1>2, <2>3, <2>4, <2>5, WriteFailsMove
<1>9. PICK sh2 \in [Threads -> Stages] : Moves(sh, sh2, t) /\ sh2[t] = r /\ Programs(sh2)'
  BY <1>1, <1>8, Arrives
<1>10. /\ r.pc = "undo" /\ r.i = 0 /\ r.vs = s.vs /\ r.bo = s.bo /\ r.at = s.at
       /\ r.k = IF s.k = "mmap" THEN "bad" ELSE "map"
  BY StageIs
<1>11. /\ Has(r) /\ NodeOf(r) = NodeOf(s) /\ r.pc \notin Freeing /\ s.pc \notin Freeing
       /\ \A vs \in Spaces : Holding(r, vs) <=> Holding(s, vs)
       /\ \A vs, n : Owns(s, vs, n) <=> Owns(r, vs, n)
       /\ \A vs, n : ~Forgotten(r, vs, n)
       /\ \A vs, n, p : Cleared(r, vs, n, p) => n = NodeOf(r) /\ p < r.at + r.i
       /\ \A b : (Lent(r, b) <=> Owes(r, b) /\ s.k = "map") /\ (Lent(r, b) => ~Lent(s, b) /\ ~Owes(s, b))
       /\ \A b : ~Lent(s, b) /\ (s.k = "mmap" => (Owes(r, b) <=> Owes(s, b)))
       /\ \A b : s.k = "map" => ~Owes(s, b)
       /\ \A n : Puts(s, n) => Puts(r, n)
       /\ ~Adding(r)
       /\ Owns(s, s.vs, NodeOf(s))
  <2> HIDE DEF s, r
  <2>1. Has(r) /\ r.pc \notin Freeing /\ s.pc \notin Freeing
    BY <1>3, <1>10 DEF Has, WithNode, Freeing
  <2>2. NodeOf(r) = NodeOf(s)
    BY <1>10 DEF NodeOf
  <2>3. \A vs \in Spaces : Holding(r, vs) <=> Holding(s, vs)
    BY <1>3, <1>4, <1>10 DEF Holding, Locked, BarLocked, Freeing
  <2>4. \A vs, n : Owns(s, vs, n) <=> Owns(r, vs, n)
    BY <1>3, <1>4, <1>10, <2>1, <2>2 DEF Owns
  <2>5. \A vs, n, p : ~Forgotten(r, vs, n) /\ (Cleared(r, vs, n, p) => n = NodeOf(r) /\ p < r.at + r.i)
    BY <1>10, <2>1 DEF Forgotten, Cleared
  <2>6. \A b : (Lent(r, b) <=> r.bo = b /\ s.k = "map") /\ ~Lent(s, b)
    BY <1>3, <1>4, <1>10, <2>1 DEF Lent
  <2>7. \A b : Owes(r, b) <=> r.bo = b
    BY <1>4, <1>10 DEF Owes
  <2>8. \A b : Owes(s, b) <=> r.bo = b /\ s.k = "mmap"
    BY <1>3, <1>4, <1>10 DEF Owes
  <2>9. \A n : Puts(s, n) => Puts(r, n)
    BY <1>4, <1>10, <2>4 DEF Puts
  <2>10. ~Adding(r)
    BY <1>10 DEF Adding
  <2>11. Owns(s, s.vs, NodeOf(s))
    BY <1>4 DEF Owns
  <2> QED
    BY <1>4, <2>1, <2>2, <2>3, <2>4, <2>5, <2>6, <2>7, <2>8, <2>9, <2>10, <2>11
<1> HIDE DEF r
<1>12. Types'
  BY <1>1, <1>2 DEF Types
<1>13. Locks(sh2)'
  BY <1>1, <1>2, <1>9, <1>11, KeepLocks
<1>14. Tables(sh2)'
  <2>1. ASSUME NEW vs \in Spaces, NEW n \in nodes[vs], NEW p \in PagesOf(n.bo, n.at)
        PROVE  ~Cleared(r, vs, n, p)
    <3>1. n.at \in Int /\ Size[n.bo] \in Nat
      BY <1>1, <2>1, NodesAre, Some
    <3>2. p \in Int /\ n.at <= p
      BY <2>1, <3>1 DEF PagesOf
    <3>3. n = NodeOf(r) => n.at = r.at
      BY DEF NodeOf, Node
    <3>4. n = NodeOf(r) => ~(p < r.at + r.i)
      BY <1>10, <3>1, <3>2, <3>3
    <3> QED
      BY <1>11, <3>4
  <2> QED
    BY <1>1, <1>2, <1>9, <1>11, <2>1, KeepTables
<1>15. Filled(sh2)'
  <2>1. /\ \A vs, n : Owns(sh[t], vs, n) => Owns(sh2[t], vs, n)
        /\ sh2[t].pc \notin {"write", "assign"}
    BY <1>9, <1>10, <1>11
  <2> QED
    BY <1>1, <1>2, <1>9, <2>1, KeepFilled
<1>16. \A b \in Bos : One(Lent(r, b)) - One(Lent(s, b)) = One(Owes(r, b)) - One(Owes(s, b))
  <2> TAKE b \in Bos
  <2>1. CASE s.k = "map"
    BY <1>11, <2>1 DEF One
  <2>2. CASE s.k = "mmap"
    BY <1>11, <2>2 DEF One
  <2> QED
    BY <1>4, <2>1, <2>2
<1>17. /\ r.k = "map" => alive[r.vs]
       /\ r.k # "down" /\ s.k # "down" /\ r.k # "mmap"
       /\ (~BarMapFails => r.k # "bad")
       /\ NodeOf(r) \in nodes[r.vs]
  <2>1. s.k = "map" => alive[s.vs]
    BY <1>1 DEF Downs
  <2> QED
    BY <1>2, <1>4, <1>5, <1>6, <1>10, <1>11, <2>1
<1> QED
  BY <1>2, <1>9, <1>11, <1>12, <1>13, <1>14, <1>15, <1>16, <1>17, Quiet

\* Null is no address of a page.
LEMMA NotAPage ==
  ASSUME NEW vs \in Spaces, NEW p \in Page(vs)
  PROVE  p # Null
<1>1. Pages[vs] \in Nat
  BY MapsAssumption
<1>2. p \in Nat
  BY <1>1 DEF Page
<1> QED
  BY <1>2, MapsAssumption


\* A node more in an address space, a node less.
LEMMA MappedMore ==
  ASSUME NEW v \in Spaces, NEW n, n \notin nodes[v], DOMAIN nodes = Spaces,
         nodes' = [nodes EXCEPT ![v] = @ \cup {n}], NEW c, IsFiniteSet(MappedBy(c))
  PROVE  /\ IsFiniteSet(MappedBy(c)') /\ Cardinality(MappedBy(c)) \in Nat /\ Cardinality(MappedBy(c)') \in Nat
         /\ v \in Vs /\ n.bo = c => Cardinality(MappedBy(c)') = Cardinality(MappedBy(c)) + 1
         /\ ~(v \in Vs /\ n.bo = c) => Cardinality(MappedBy(c)') = Cardinality(MappedBy(c))
<1>1. \A vs \in Spaces : nodes'[vs] = IF vs = v THEN nodes[v] \cup {n} ELSE nodes[vs]
  OBVIOUS
<1>2. \A vs \in Vs : vs \in Spaces
  BY DEF Spaces
<1>3. Cardinality(MappedBy(c)) \in Nat
  BY FS_CardinalityType
<1>4. CASE v \in Vs /\ n.bo = c
  <2>1. MappedBy(c)' = MappedBy(c) \cup {<<v, n>>}
    <3>1. \A vn \in MappedBy(c)' : vn \in MappedBy(c) \/ vn = <<v, n>>
      BY <1>1, <1>2 DEF MappedBy
    <3>2. \A vn \in MappedBy(c) : vn \in MappedBy(c)'
      BY <1>1, <1>2 DEF MappedBy
    <3>3. <<v, n>> \in MappedBy(c)'
      BY <1>1, <1>2, <1>4 DEF MappedBy
    <3> QED
      BY <3>1, <3>2, <3>3
  <2>2. <<v, n>> \notin MappedBy(c)
    BY DEF MappedBy
  <2>3. /\ IsFiniteSet(MappedBy(c) \cup {<<v, n>>})
        /\ Cardinality(MappedBy(c) \cup {<<v, n>>}) = Cardinality(MappedBy(c)) + 1
    BY <2>2, FS_AddElement
  <2> QED
    BY <1>3, <1>4, <2>1, <2>3
<1>5. CASE ~(v \in Vs /\ n.bo = c)
  <2>1. MappedBy(c)' = MappedBy(c)
    BY <1>1, <1>2, <1>5 DEF MappedBy
  <2> QED
    BY <1>3, <1>5, <2>1
<1> QED
  BY <1>4, <1>5

\* An address space has one mapping less of an object.
LEMMA MappedLess ==
  ASSUME NEW v \in Spaces, NEW n \in nodes[v], DOMAIN nodes = Spaces,
         nodes' = [nodes EXCEPT ![v] = @ \ {n}], NEW c, IsFiniteSet(MappedBy(c))
  PROVE  /\ IsFiniteSet(MappedBy(c)') /\ Cardinality(MappedBy(c)) \in Nat /\ Cardinality(MappedBy(c)') \in Nat
         /\ v \in Vs /\ n.bo = c => Cardinality(MappedBy(c)') = Cardinality(MappedBy(c)) - 1
         /\ ~(v \in Vs /\ n.bo = c) => Cardinality(MappedBy(c)') = Cardinality(MappedBy(c))
<1>1. \A vs \in Spaces : nodes'[vs] = IF vs = v THEN nodes[v] \ {n} ELSE nodes[vs]
  OBVIOUS
<1>2. \A vs \in Vs : vs \in Spaces
  BY DEF Spaces
<1>3. Cardinality(MappedBy(c)) \in Nat
  BY FS_CardinalityType
<1>4. CASE v \in Vs /\ n.bo = c
  <2>1. MappedBy(c)' = MappedBy(c) \ {<<v, n>>}
    <3>1. \A vn \in MappedBy(c)' : vn \in MappedBy(c) /\ vn # <<v, n>>
      BY <1>1, <1>2 DEF MappedBy
    <3>2. \A vn \in MappedBy(c) : vn # <<v, n>> => vn \in MappedBy(c)'
      <4> SUFFICES ASSUME NEW vs \in Vs, NEW m \in nodes[vs], m.bo = c, <<vs, m>> # <<v, n>>
                   PROVE  <<vs, m>> \in MappedBy(c)'
        BY DEF MappedBy
      <4>1. m \in nodes'[vs]
        BY <1>1, <1>2
      <4> QED
        BY <4>1 DEF MappedBy
    <3> QED
      BY <3>1, <3>2
  <2>2. <<v, n>> \in MappedBy(c)
    BY <1>4 DEF MappedBy
  <2>3. /\ IsFiniteSet(MappedBy(c) \ {<<v, n>>})
        /\ Cardinality(MappedBy(c) \ {<<v, n>>}) = Cardinality(MappedBy(c)) - 1
    BY <2>2, FS_RemoveElement
  <2>4. Cardinality(MappedBy(c)') \in Nat
    BY <2>1, <2>3, FS_CardinalityType
  <2> QED
    BY <1>3, <1>4, <2>1, <2>3, <2>4
<1>5. CASE ~(v \in Vs /\ n.bo = c)
  <2>1. MappedBy(c)' = MappedBy(c)
    BY <1>1, <1>2, <1>5 DEF MappedBy
  <2> QED
    BY <1>3, <1>5, <2>1
<1> QED
  BY <1>4, <1>5

\* A new node has room of its own, and its pages are empty.
LEMMA PlaceKeeps ==
  ASSUME NEW sh \in [Threads -> Stages], Inv(sh), NEW t \in Threads, Place(t)
  PROVE  IInv'
<1>1. /\ Programs(sh) /\ Types /\ Locks(sh) /\ Nodes(sh) /\ Downs(sh) /\ Balance(sh) /\ Objects(sh)
      /\ Mmaps(sh) /\ InBar(sh) /\ Tables(sh) /\ Filled(sh) /\ BarExact(sh) /\ Windowed(sh)
      /\ WellFormed(sh[t])
  BY InvIs
<1> DEFINE s == sh[t]
<1>2. /\ At(t, "place")
      /\ UNCHANGED <<st, gref, handle, mmaps, map1, twice, leaked, alive, pt, tlb, late, lock>>
  BY DEF Place, objvars
<1>3. s.pc = "place" /\ Now(t) = NowOf(s)
  BY <1>1, <1>2, AtIs, HereIs
<1>4. s.k \in {"map", "mmap"} /\ s.vs \in Spaces /\ s.bo \in Bos
      /\ (s.k = "mmap" => s.vs = Bar) /\ (s.k = "map" => s.vs \in Vs /\ s.vs # Bar)
  <2>1. s.k \in {"map", "mmap"}
    BY <1>1, <1>3, FormIs DEF Suits, Kinds, WithNode, Freeing
  <2>2. s.bo \in Bos
    BY <1>1, <1>3 DEF WellFormed
  <2> QED
    BY <1>1, <2>1, <2>2, FormIs, Spaced
<1>5. Now(t).vs = s.vs /\ Now(t).bo = s.bo
  BY <1>3, NowOfIs DEF Op
<1>6. PICK at \in Room(s.vs, s.bo) :
        /\ nodes' = [nodes EXCEPT ![s.vs] = @ \cup {Node(s.bo, at)}]
        /\ Then(t, DoMap(Now(t).vs, Now(t).bo, at)
                     \o IF Now(t).vs = Bar THEN <<Op("assign", Now(t).vs, Now(t).bo, at)>> ELSE <<>>)
  BY <1>5 DEF Place
<1> DEFINE v == s.vs
           b == s.bo
           n0 == Node(b, at)
<1>7. /\ at \in Int /\ PagesOf(b, at) \subseteq Page(v) /\ PagesOf(b, at) \cap Covered(v) = {}
      /\ at \in PagesOf(b, at)
  <2>1. Size[b] \in Nat \ {0} /\ Pages[v] \in Nat
    BY <1>4, Some, MapsAssumption
  <2>2. at \in 1 .. Pages[v] - Size[b] + 1 /\ PagesOf(b, at) \cap Covered(v) = {}
    BY <1>6 DEF Room
  <2> HIDE DEF v, b
  <2> QED
    BY <2>1, <2>2 DEF PagesOf, Page
<1>8. n0.bo = b /\ n0.at = at /\ n0 \in [bo : Bos, at : Int]
  BY <1>4, <1>7 DEF Node
<1>9. n0 \notin nodes[v]
  BY <1>7, <1>8 DEF Covered
<1>10. \A vs \in Spaces : nodes'[vs] = IF vs = v THEN nodes[v] \cup {n0} ELSE nodes[vs]
  BY <1>1, <1>4, <1>6 DEF Types
<1> DEFINE r == Stage("write", s.k, s.vs, s.bo, at, Null, 0)
<1>11. Goes(t, r)
  BY <1>1, <1>2, <1>5, <1>6, <1>7, PlaceMove
<1>12. PICK sh2 \in [Threads -> Stages] : Moves(sh, sh2, t) /\ sh2[t] = r /\ Programs(sh2)'
  BY <1>1, <1>11, Arrives
<1>13. r.pc = "write" /\ r.i = 0 /\ r.vs = v /\ r.bo = b /\ r.at = at /\ r.k = s.k
  BY StageIs
<1>14. /\ Has(r) /\ NodeOf(r) = n0 /\ r.pc \notin Freeing /\ s.pc \notin Freeing
       /\ \A vs \in Spaces : Holding(r, vs) <=> Holding(s, vs)
       /\ \A vs, n : ~Owns(s, vs, n) /\ (Owns(r, vs, n) <=> vs = v /\ n = n0)
       /\ \A vs, n, p : ~Forgotten(r, vs, n) /\ ~Cleared(r, vs, n, p)
       /\ \A c : ~Lent(r, c) /\ ~Lent(s, c) /\ (Owes(s, c) <=> b = c)
       /\ \A c : Owes(r, c) <=> b = c /\ s.k = "mmap"
       /\ Holding(s, v) /\ \A n : ~Puts(s, n)
       /\ (s.k = "mmap" => Puts(r, n0))
  <2> HIDE DEF s, r
  <2>1. Has(r) /\ ~Has(s) /\ r.pc \notin Freeing /\ s.pc \notin Freeing
    BY <1>3, <1>13 DEF Has, WithNode, Freeing
  <2>2. NodeOf(r) = n0
    BY <1>13 DEF NodeOf
  <2>3. \A vs \in Spaces : Holding(r, vs) <=> Holding(s, vs)
    BY <1>3, <1>4, <1>13 DEF Holding, Locked, BarLocked, Freeing
  <2>4. \A vs, n : ~Owns(s, vs, n) /\ (Owns(r, vs, n) <=> vs = v /\ n = n0)
    BY <1>3, <1>13, <2>1, <2>2 DEF Owns
  <2>5. \A vs, n, p : ~Forgotten(r, vs, n) /\ ~Cleared(r, vs, n, p)
    BY <1>13, <2>1 DEF Forgotten, Cleared
  <2>6. \A c : ~Lent(r, c) /\ ~Lent(s, c)
    BY <1>3, <1>13, <2>1 DEF Lent
  <2>7. \A c : Owes(s, c) <=> b = c
    BY <1>3, <1>4 DEF Owes
  <2>8. \A c : Owes(r, c) <=> b = c /\ s.k = "mmap"
    BY <1>4, <1>13 DEF Owes
  <2>9. Holding(s, v)
    BY <1>3, <1>4 DEF Holding, Locked
  <2>10. \A n : ~Puts(s, n)
    BY <2>4 DEF Puts
  <2>11. s.k = "mmap" => Puts(r, n0)
    BY <1>4, <1>13, <2>4 DEF Puts
  <2> QED
    BY <2>1, <2>2, <2>3, <2>4, <2>5, <2>6, <2>7, <2>8, <2>9, <2>10, <2>11
<1> HIDE DEF r
<1>15. \A u \in Threads : u # t => sh2[u] = sh[u]
  BY <1>12 DEF Moves
<1>16. gref[b] > 0 /\ st[b] = "live"
  <2>1. gref[b] > 0
    BY <1>1, <1>4, <1>14, Keeping
  <2> QED
    BY <1>1, <1>4, <2>1 DEF Objects
<1>17. Types'
  <2>1. nodes' \in [Spaces -> SUBSET [bo : Bos, at : Int]]
    BY <1>1, <1>4, <1>6, <1>8 DEF Types
  <2> QED
    BY <1>1, <1>2, <2>1 DEF Types
<1>18. Locks(sh2)'
  BY <1>1, <1>2, <1>12, <1>14, KeepLocks
<1>19. Nodes(sh2)'
  <2>1. ASSUME NEW vs \in Spaces, NEW n \in nodes'[vs]
        PROVE  PagesOf(n.bo, n.at) \subseteq Page(vs)
    <3>1. CASE vs = v /\ n = n0
      BY <1>7, <1>8, <3>1
    <3>2. CASE n \in nodes[vs]
      BY <1>1, <3>2 DEF Nodes
    <3> QED
      BY <1>10, <2>1, <3>1, <3>2
  <2>2. ASSUME NEW vs \in Spaces, NEW m \in nodes'[vs], NEW n \in nodes'[vs], m # n
        PROVE  PagesOf(m.bo, m.at) \cap PagesOf(n.bo, n.at) = {}
    <3>1. CASE m \in nodes[vs] /\ n \in nodes[vs]
      BY <1>1, <2>2, <3>1 DEF Nodes
    <3>2. \A x \in nodes[v] : PagesOf(x.bo, x.at) \subseteq Covered(v)
      BY DEF Covered
    <3>3. CASE vs = v /\ m = n0 /\ n \in nodes[v]
      BY <1>7, <1>8, <3>2, <3>3
    <3>4. CASE vs = v /\ n = n0 /\ m \in nodes[v]
      BY <1>7, <1>8, <3>2, <3>4
    <3> QED
      BY <1>10, <2>2, <3>1, <3>3, <3>4
  <2>3. ASSUME NEW u \in Threads, Has(sh2[u])
        PROVE  NodeOf(sh2[u]) \in nodes'[sh2[u].vs]
    <3>1. CASE u = t
      BY <1>4, <1>10, <1>12, <1>13, <1>14, <3>1
    <3>2. CASE u # t
      <4>1. sh2[u] = sh[u] /\ NodeOf(sh[u]) \in nodes[sh[u].vs] /\ sh[u].vs \in Spaces
        BY <1>1, <1>15, <2>3, <3>2, FormIs DEF Nodes, Programs
      <4> QED
        BY <1>10, <4>1
    <3> QED
      BY <3>1, <3>2
  <2> QED
    BY <2>1, <2>2, <2>3 DEF Nodes
<1>20. Downs(sh2)'
  <2>1. sh2[t].k # "down" /\ sh[t].k # "down"
    BY <1>4, <1>12, <1>13
  <2>2. s.k = "map" => alive[v]
    BY <1>1 DEF Downs
  <2>3. sh2[t].k = "map" => alive[sh2[t].vs]
    BY <1>12, <1>13, <2>2
  <2>4. \A vs \in Vs : ~alive[vs] /\ nodes'[vs] # {} => nodes[vs] # {}
    BY <1>4, <1>10, <2>2, Spaced
  <2> QED
    BY <1>1, <1>2, <1>12, <2>1, <2>3, <2>4, KeepDowns
<1>21. Balance(sh2)'
  <2> SUFFICES ASSUME NEW c \in Bos
        PROVE  /\ IsFiniteSet(MappedBy(c)') /\ Cardinality(MappedBy(c)) \in Nat /\ Cardinality(MappedBy(c)') \in Nat
               /\ gref'[c] - gref[c] + One(Lent(r, c)) - One(Lent(s, c))
                    = One(handle'[c]) - One(handle[c]) + (mmaps'[c] - mmaps[c]) + (leaked'[c] - leaked[c])
                      + (Cardinality(MappedBy(c)') - Cardinality(MappedBy(c)))
                      + One(Owes(r, c)) - One(Owes(s, c))
    BY <1>1, <1>12, <1>17, KeepBalance
  <2>1. /\ IsFiniteSet(MappedBy(c)') /\ Cardinality(MappedBy(c)) \in Nat /\ Cardinality(MappedBy(c)') \in Nat
        /\ v \in Vs /\ n0.bo = c => Cardinality(MappedBy(c)') = Cardinality(MappedBy(c)) + 1
        /\ ~(v \in Vs /\ n0.bo = c) => Cardinality(MappedBy(c)') = Cardinality(MappedBy(c))
    <3>1. DOMAIN nodes = Spaces /\ IsFiniteSet(MappedBy(c))
      BY <1>1 DEF Types, Balance
    <3>2. nodes' = [nodes EXCEPT ![v] = @ \cup {n0}] /\ v \in Spaces
      BY <1>4, <1>6
    <3> HIDE DEF v, n0
    <3> QED
      BY <1>9, <3>1, <3>2, MappedMore
  <2> DEFINE x == Cardinality(MappedBy(c))
             y == Cardinality(MappedBy(c)')
             h == One(handle[c])
             o2 == One(Owes(r, c))
             o1 == One(Owes(s, c))
  <2>2. One(Lent(r, c)) = 0 /\ One(Lent(s, c)) = 0
    BY <1>14 DEF One
  <2>3. x \in Nat /\ y \in Nat /\ y - x + o2 - o1 = 0 /\ h \in Int /\ o1 \in Int /\ o2 \in Int
    <3>1. CASE b = c /\ s.k = "map"
      BY <1>4, <1>8, <1>14, <2>1, <3>1 DEF One
    <3>2. CASE b = c /\ s.k = "mmap"
      BY <1>4, <1>8, <1>14, <2>1, <3>2, Spaced DEF One
    <3>3. CASE b # c
      BY <1>4, <1>8, <1>14, <2>1, <3>3 DEF One
    <3> QED
      BY <1>4, <3>1, <3>2, <3>3
  <2>4. gref'[c] - gref[c] = 0 /\ mmaps'[c] - mmaps[c] = 0 /\ leaked'[c] - leaked[c] = 0
    BY <1>1, <1>2 DEF Types
  <2>5. One(handle'[c]) = h
    BY <1>2
  <2> HIDE DEF x, y, h, o1, o2
  <2>6. 0 + 0 - 0 = h - h + 0 + 0 + (y - x) + o2 - o1
    BY <2>3
  <2> QED
    BY <2>1, <2>2, <2>4, <2>5, <2>6 DEF x, y, h, o1, o2
<1>22. Objects(sh2)'
  <2>1. \A u \in Threads : sh[u].pc \in Freeing => sh[u].bo \in Bos
    BY <1>1, Freers
  <2>2. \A c \in Bos : st[c] = "none" => map1'[c] = Null
    BY <1>1, <1>2 DEF Objects
  <2>3. sh2[t].pc \notin Freeing /\ sh[t].pc \notin Freeing
    BY <1>12, <1>14
  <2> QED
    BY <1>1, <1>2, <1>12, <2>1, <2>2, <2>3, KeepObjects
<1>23. Mmaps(sh2)'
  <2>1. Cardinality(Windows) \in Nat
    BY <1>2, SameWindows
  <2> QED
    BY <1>1, <1>2, <1>12, <1>13, <2>1, KeepMmaps
<1>24. InBar(sh2)'
  <2>1. ASSUME NEW n \in nodes[Bar], NEW u \in Threads, sh[u].k \in {"mmap", "bad"}, Owns(sh[u], Bar, n)
        PROVE  sh2[u].k \in {"mmap", "bad"} /\ Owns(sh2[u], Bar, n)
    BY <1>14, <1>15, <2>1
  <2>2. ASSUME NEW n \in nodes'[Bar]
        PROVE  n \in nodes[Bar] \/ (n = n0 /\ s.k = "mmap" /\ v = Bar /\ Puts(sh2[t], n))
    BY <1>4, <1>10, <1>12, <1>14, <2>2, Spaced
  <2>3. ASSUME NEW n \in nodes'[Bar], n.bo \notin twice
        PROVE  /\ st[n.bo] = "live"
               /\ \/ map1[n.bo] = n.at
                  \/ \E u \in Threads : sh2[u].k \in {"mmap", "bad"} /\ Owns(sh2[u], Bar, n)
    <3>1. CASE n \in nodes[Bar]
      BY <1>1, <2>1, <2>3, <3>1 DEF InBar
    <3>2. CASE n = n0 /\ Puts(sh2[t], n)
      BY <1>8, <1>16, <3>2 DEF Puts
    <3> QED
      BY <2>2, <2>3, <3>1, <3>2
  <2>4. ASSUME NEW u \in Threads, sh2[u].pc \in Freeing
        PROVE  IF sh2[u].pc \in {"funlock", "release"}
                 THEN sh2[u].bo \in twice \/ \A n \in nodes'[Bar] : n.bo # sh2[u].bo
                 ELSE map1[sh2[u].bo] = sh2[u].bat
    <3>1. sh2[u] = sh[u]
      BY <1>12, <1>14, <1>15, <2>4
    <3>2. sh[u].bo # b
      <4>1. gref[sh[u].bo] = 0
        BY <1>1, <2>4, <3>1 DEF Objects
      <4> QED
        BY <1>16, <4>1
    <3>3. ASSUME NEW n \in nodes'[Bar], sh[u].pc \in {"funlock", "release"}, sh[u].bo \notin twice
          PROVE  n.bo # sh[u].bo
      <4>1. CASE n \in nodes[Bar]
        BY <1>1, <2>4, <3>1, <3>3, <4>1 DEF InBar
      <4>2. CASE n = n0
        BY <1>8, <3>2, <4>2
      <4> QED
        BY <2>2, <3>3, <4>1, <4>2
    <3>4. sh[u].pc \notin {"funlock", "release"} => map1[sh[u].bo] = sh[u].bat
      BY <1>1, <2>4, <3>1 DEF InBar
    <3> QED
      BY <3>1, <3>3, <3>4
  <2> QED
    BY <1>2, <2>3, <2>4 DEF InBar
<1>25. Tables(sh2)'
  <2> SUFFICES ASSUME NEW vs \in Spaces, alive[vs]
               PROVE  /\ \A p \in Page(vs) : p \notin Covered(vs)' => pt[vs][p] = Null /\ (p \notin late[vs] => tlb[vs][p] = Null)
                      /\ \A n \in nodes'[vs] : \A p \in PagesOf(n.bo, n.at) :
                           /\ pt[vs][p] \in {Null, n.bo} /\ (p \notin late[vs] => tlb[vs][p] \in {Null, n.bo})
                           /\ \A u \in Threads : Cleared(sh2[u], vs, n, p) => pt[vs][p] = Null
                           /\ \A u \in Threads : Forgotten(sh2[u], vs, n) => p \in late[vs] \/ tlb[vs][p] = Null
    BY <1>2 DEF Tables
  <2>1. /\ \A p \in Page(vs) : p \notin Covered(vs) => pt[vs][p] = Null /\ (p \notin late[vs] => tlb[vs][p] = Null)
        /\ \A n \in nodes[vs] : \A p \in PagesOf(n.bo, n.at) :
             /\ pt[vs][p] \in {Null, n.bo} /\ (p \notin late[vs] => tlb[vs][p] \in {Null, n.bo})
             /\ \A u \in Threads : Cleared(sh[u], vs, n, p) => pt[vs][p] = Null
             /\ \A u \in Threads : Forgotten(sh[u], vs, n) => p \in late[vs] \/ tlb[vs][p] = Null
    BY <1>1 DEF Tables
  <2>2. \A p : p \in Covered(vs) => p \in Covered(vs)'
    BY <1>10 DEF Covered
  <2>3. ASSUME NEW n \in nodes'[vs], NEW p \in PagesOf(n.bo, n.at)
        PROVE  /\ pt[vs][p] \in {Null, n.bo} /\ (p \notin late[vs] => tlb[vs][p] \in {Null, n.bo})
               /\ \A u \in Threads : Cleared(sh2[u], vs, n, p) => pt[vs][p] = Null
               /\ \A u \in Threads : Forgotten(sh2[u], vs, n) => p \in late[vs] \/ tlb[vs][p] = Null
    <3>1. CASE n \in nodes[vs]
      <4>1. ASSUME NEW u \in Threads
            PROVE  /\ Cleared(sh2[u], vs, n, p) => Cleared(sh[u], vs, n, p)
                   /\ Forgotten(sh2[u], vs, n) => Forgotten(sh[u], vs, n)
        <5>1. CASE u = t
          BY <1>12, <1>14, <5>1
        <5>2. CASE u # t
          <6>1. sh2[u] = sh[u]
            BY <1>15, <5>2
          <6> QED
            BY <6>1
        <5> QED
          BY <5>1, <5>2
      <4> QED
        BY <2>1, <2>3, <3>1, <4>1
    <3>2. CASE vs = v /\ n = n0
      <4>1. p \in Page(v) /\ p \notin Covered(v)
        BY <1>7, <1>8, <2>3, <3>2
      <4>2. pt[vs][p] = Null /\ (p \notin late[vs] => tlb[vs][p] = Null)
        BY <2>1, <3>2, <4>1
      <4>3. \A u \in Threads : Forgotten(sh2[u], vs, n) => p \in late[vs] \/ tlb[vs][p] = Null
        BY <4>2
      <4> QED
        BY <4>2, <4>3
    <3> QED
      BY <1>10, <2>3, <3>1, <3>2
  <2> QED
    BY <2>1, <2>2, <2>3
<1>26. Filled(sh2)'
  <2> SUFFICES ASSUME NEW vs \in Spaces, alive[vs], Kept(vs), NEW n \in nodes'[vs], NEW p \in PagesOf(n.bo, n.at)
               PROVE  /\ (\A u \in Threads : ~Owns(sh2[u], vs, n)) => pt[vs][p] = n.bo
                      /\ \A u \in Threads : Owns(sh2[u], vs, n) =>
                           /\ sh2[u].pc = "write" /\ p < sh2[u].at + sh2[u].i => pt[vs][p] = n.bo
                           /\ sh2[u].pc = "assign" => pt[vs][p] = n.bo
    BY <1>2 DEF Filled, Kept
  <2>1. CASE n \in nodes[vs]
    <3>1. /\ (\A u \in Threads : ~Owns(sh[u], vs, n)) => pt[vs][p] = n.bo
          /\ \A u \in Threads : Owns(sh[u], vs, n) =>
               /\ sh[u].pc = "write" /\ p < sh[u].at + sh[u].i => pt[vs][p] = n.bo
               /\ sh[u].pc = "assign" => pt[vs][p] = n.bo
      BY <1>1, <2>1 DEF Filled, Kept
    <3>2. ~Owns(sh[t], vs, n) /\ ~Owns(sh2[t], vs, n)
      BY <1>9, <1>12, <1>14, <2>1
    <3>3. \A u \in Threads : u # t => sh2[u] = sh[u]
      BY <1>15
    <3> QED
      BY <3>1, <3>2, <3>3
  <2>2. CASE vs = v /\ n = n0
    <3>1. Owns(sh2[t], vs, n)
      BY <1>12, <1>14, <2>2
    <3>2. ASSUME NEW u \in Threads, Owns(sh2[u], vs, n), sh2[u].pc \in {"write", "assign"}, u # t
          PROVE  FALSE
      <4>1. Owns(sh[u], v, n0) /\ sh[u].pc \in {"write", "assign"}
        BY <1>15, <2>2, <3>2
      <4>2. Has(sh[u]) /\ sh[u].vs = v /\ NodeOf(sh[u]) = n0
        BY <4>1 DEF Owns
      <4> QED
        BY <1>1, <1>9, <4>2 DEF Nodes
    <3>3. ~(p < sh2[t].at + sh2[t].i) /\ sh2[t].pc = "write"
      <4>1. Size[b] \in Nat
        BY <1>4, Some
      <4>2. p \in Int /\ at <= p
        BY <1>7, <1>8, <2>2, <4>1 DEF PagesOf
      <4> QED
        BY <1>7, <1>12, <1>13, <4>2
    <3> QED
      BY <3>1, <3>2, <3>3
  <2> QED
    BY <1>10, <2>1, <2>2
<1>27. BarExact(sh2)'
  <2>1. \A n \in nodes[Bar] : n \in nodes'[Bar]
    BY <1>10, Spaced
  <2>2. ~BarMapFails /\ v = Bar => map1[b] # at
    <3>1. map1[b] = at => map1[b] # Null
      BY <1>4, <1>7, NotAPage
    <3>2. ~BarMapFails /\ map1[b] # Null => Node(b, map1[b]) \in nodes[Bar]
      BY <1>1, <1>4, <1>16 DEF BarExact
    <3> QED
      BY <1>9, <3>1, <3>2
  <2>3. ~BarMapFails => (Adding(sh2[t]) => map1[sh2[t].bo] # sh2[t].at)
    BY <1>4, <1>12, <1>13, <2>2 DEF Adding
  <2>4. sh2[t].pc \notin Freeing /\ sh2[t].k # "bad"
    BY <1>4, <1>12, <1>13, <1>14
  <2> QED
    BY <1>1, <1>2, <1>12, <2>1, <2>3, <2>4, KeepBarExact
<1>28. Windowed(sh2)'
  <2>1. sh2[t].pc \notin {"mapped", "unlock"}
    BY <1>12, <1>13
  <2> QED
    BY <1>1, <1>2, <1>12, <2>1, KeepWindowed
<1>29. Inv(sh2)'
  BY <1>12, <1>17, <1>18, <1>19, <1>20, <1>21, <1>22, <1>23, <1>24, <1>25, <1>26, <1>27, <1>28 DEF Inv
<1> QED
  BY <1>29 DEF IInv

\* A map into the BAR that finds no room gives its reference back.
LEMMA PlaceFailsBarKeeps ==
  ASSUME NEW sh \in [Threads -> Stages], Inv(sh), NEW t \in Threads, PlaceFails(t), Now(t).vs = Bar
  PROVE  IInv'
<1>1. /\ Programs(sh) /\ Types /\ Locks(sh) /\ Nodes(sh) /\ Downs(sh) /\ Tables(sh) /\ Filled(sh)
      /\ WellFormed(sh[t])
  BY InvIs
<1> DEFINE s == sh[t]
           r == Stage("unlock", "bad", Bar, s.bo, Null, Null, 0)
<1>2. /\ At(t, "place") /\ Start(t, <<Unlock(Bar), On("unref", Now(t).bo)>>)
      /\ UNCHANGED <<st, gref, handle, mmaps, map1, twice, leaked, alive, nodes, pt, tlb, late, lock>>
  BY DEF PlaceFails, spacevars
<1>3. Goes(t, r) /\ s.k = "mmap" /\ s.bo \in Bos /\ s.pc = "place"
  BY <1>1, <1>2, PlaceFailsMove
<1>4. PICK sh2 \in [Threads -> Stages] : Moves(sh, sh2, t) /\ sh2[t] = r /\ Programs(sh2)'
  BY <1>1, <1>3, Arrives
<1>5. r.pc = "unlock" /\ r.i = 0 /\ r.vs = Bar /\ r.bo = s.bo /\ r.k = "bad" /\ s.vs = Bar
  BY <1>1, <1>3, StageIs, FormIs
<1>6. /\ ~Has(r) /\ r.pc \notin Freeing /\ s.pc \notin Freeing
      /\ \A vs \in Spaces : Holding(r, vs) <=> Holding(s, vs)
      /\ \A vs, n : ~Owns(s, vs, n) /\ ~Owns(r, vs, n)
      /\ \A vs, n, p : ~Forgotten(r, vs, n) /\ ~Cleared(r, vs, n, p)
      /\ \A b : ~Lent(s, b) /\ ~Lent(r, b) /\ (Owes(r, b) <=> Owes(s, b))
      /\ \A n : ~Puts(s, n)
      /\ ~Adding(r)
  <2> HIDE DEF s, r
  <2>1. ~Has(r) /\ ~Has(s) /\ r.pc \notin Freeing /\ s.pc \notin Freeing
    BY <1>3, <1>5 DEF Has, WithNode, Freeing
  <2>2. \A vs \in Spaces : Holding(r, vs) <=> Holding(s, vs)
    BY <1>3, <1>5 DEF Holding, Locked, BarLocked, Freeing
  <2>3. \A vs, n : ~Owns(s, vs, n) /\ ~Owns(r, vs, n)
    BY <1>3, <1>5, <2>1 DEF Owns
  <2>4. \A vs, n, p : ~Forgotten(r, vs, n) /\ ~Cleared(r, vs, n, p)
    BY <1>5, <2>1 DEF Forgotten, Cleared
  <2>5. \A b : ~Lent(s, b) /\ ~Lent(r, b) /\ (Owes(r, b) <=> Owes(s, b))
    BY <1>3, <1>5 DEF Lent, Owes
  <2>6. \A n : ~Puts(s, n)
    BY <2>3 DEF Puts
  <2>7. ~Adding(r)
    BY <1>5, <2>1 DEF Adding
  <2> QED
    BY <2>1, <2>2, <2>3, <2>4, <2>5, <2>6, <2>7
<1> HIDE DEF r
<1>7. Types'
  BY <1>1, <1>2 DEF Types
<1>8. Locks(sh2)'
  BY <1>1, <1>2, <1>4, <1>6, KeepLocks
<1>9. Tables(sh2)'
  BY <1>1, <1>2, <1>4, <1>6, KeepTables
<1>10. Filled(sh2)'
  BY <1>1, <1>2, <1>4, <1>6, KeepFilled
<1>11. \A b \in Bos : One(Lent(r, b)) - One(Lent(s, b)) = One(Owes(r, b)) - One(Owes(s, b))
  BY <1>6 DEF One
<1>12. s.k # "down"
  BY <1>3
<1> QED
  BY <1>2, <1>4, <1>5, <1>6, <1>7, <1>8, <1>9, <1>10, <1>11, <1>12, Quiet

\* A map of a client that finds no room loses its reference.
LEMMA PlaceFailsKeeps ==
  ASSUME NEW sh \in [Threads -> Stages], Inv(sh), NEW t \in Threads, PlaceFails(t)
  PROVE  IInv'
<1>1. /\ Programs(sh) /\ Types /\ Locks(sh) /\ Nodes(sh) /\ Downs(sh) /\ Balance(sh) /\ Objects(sh)
      /\ Mmaps(sh) /\ InBar(sh) /\ Tables(sh) /\ Filled(sh) /\ BarExact(sh) /\ Windowed(sh)
      /\ WellFormed(sh[t])
  BY InvIs
<1> SUFFICES ASSUME Now(t).vs # Bar
             PROVE  IInv'
  BY PlaceFailsBarKeeps
<1> DEFINE s == sh[t]
           b == s.bo
<1>2. /\ At(t, "place") /\ Then(t, <<>>) /\ leaked' = [leaked EXCEPT ![Now(t).bo] = @ + 1]
      /\ UNCHANGED <<st, gref, handle, mmaps, map1, twice, alive, nodes, pt, tlb, late, lock>>
  BY DEF PlaceFails, spacevars
<1>3. s.pc = "place" /\ Now(t) = NowOf(s)
  BY <1>1, <1>2, AtIs, HereIs
<1>4. Now(t).vs = s.vs /\ Now(t).bo = b
  BY <1>3, NowOfIs DEF Op
<1>5. s.k = "map" /\ b \in Bos /\ s.vs # Bar
  <2>1. s.k \in {"map", "mmap"}
    BY <1>1, <1>3, FormIs DEF Suits, Kinds, WithNode, Freeing
  <2>2. s.bo \in Bos
    BY <1>1, <1>3 DEF WellFormed
  <2> QED
    BY <1>1, <1>4, <2>1, <2>2, FormIs
<1>6. PICK sh2 \in [Threads -> Stages] :
           Moves(sh, sh2, t) /\ Programs(sh2)' /\ WellFormed(sh2[t]) /\ Onward(sh[t], sh2[t])
  BY <1>1, <1>2, GoesOn
<1> DEFINE r == sh2[t]
<1>7. r.pc = "unlock" /\ r.k = "map" /\ r.vs = s.vs /\ r.bo = b
  BY <1>3, <1>5, <1>6, NextPcIs DEF Onward
<1>8. /\ ~Has(r) /\ r.pc \notin Freeing /\ s.pc \notin Freeing
      /\ \A vs \in Spaces : Holding(r, vs) <=> Holding(s, vs)
      /\ \A vs, n : ~Owns(s, vs, n) /\ ~Owns(r, vs, n)
      /\ \A vs, n, p : ~Forgotten(r, vs, n) /\ ~Cleared(r, vs, n, p)
      /\ \A c : ~Lent(s, c) /\ ~Lent(r, c) /\ ~Owes(r, c) /\ (Owes(s, c) <=> b = c)
      /\ \A n : ~Puts(s, n)
      /\ ~Adding(r)
  <2> HIDE DEF s, r
  <2>1. ~Has(r) /\ ~Has(s) /\ r.pc \notin Freeing /\ s.pc \notin Freeing
    BY <1>3, <1>7 DEF Has, WithNode, Freeing
  <2>2. \A vs \in Spaces : Holding(r, vs) <=> Holding(s, vs)
    BY <1>3, <1>5, <1>7 DEF Holding, Locked, BarLocked, Freeing
  <2>3. \A vs, n : ~Owns(s, vs, n) /\ ~Owns(r, vs, n)
    BY <1>3, <1>7, <2>1 DEF Owns
  <2>4. \A vs, n, p : ~Forgotten(r, vs, n) /\ ~Cleared(r, vs, n, p)
    BY <1>7, <2>1 DEF Forgotten, Cleared
  <2>5. \A c : ~Lent(s, c) /\ ~Lent(r, c) /\ ~Owes(r, c) /\ (Owes(s, c) <=> b = c)
    BY <1>3, <1>5, <1>7, <2>1 DEF Lent, Owes
  <2>6. \A n : ~Puts(s, n)
    BY <2>3 DEF Puts
  <2>7. ~Adding(r)
    BY <1>7, <2>1 DEF Adding
  <2> QED
    BY <2>1, <2>2, <2>3, <2>4, <2>5, <2>6, <2>7
<1>9. leaked \in [Bos -> Nat] /\ leaked' = [leaked EXCEPT ![b] = @ + 1]
  BY <1>1, <1>2, <1>4 DEF Types
<1>10. Types'
  <2>1. leaked' \in [Bos -> Nat]
    BY <1>5, <1>9
  <2> QED
    BY <1>1, <1>2, <2>1 DEF Types
<1>11. Locks(sh2)'
  BY <1>1, <1>2, <1>6, <1>8, KeepLocks
<1>12. Tables(sh2)'
  BY <1>1, <1>2, <1>6, <1>8, KeepTables
<1>13. Filled(sh2)'
  BY <1>1, <1>2, <1>6, <1>8, KeepFilled
<1>14. Nodes(sh2)'
  BY <1>1, <1>2, <1>6, <1>8, KeepNodes
<1>15. Downs(sh2)'
  <2>1. s.k # "down" /\ r.k # "down" /\ alive[r.vs]
    BY <1>1, <1>5, <1>7 DEF Downs
  <2>2. \A vs \in Vs : ~alive[vs] /\ nodes'[vs] # {} => nodes[vs] # {}
    BY <1>2
  <2> QED
    BY <1>1, <1>2, <1>6, <2>1, <2>2, KeepDowns
<1>16. Balance(sh2)'
  <2>1. ASSUME NEW c \in Bos
        PROVE  gref'[c] - gref[c] + One(Lent(sh2[t], c)) - One(Lent(sh[t], c))
             = One(handle'[c]) - One(handle[c]) + (mmaps'[c] - mmaps[c]) + (leaked'[c] - leaked[c])
                 + One(Owes(sh2[t], c)) - One(Owes(sh[t], c))
    <3> DEFINE h == One(handle[c])
               l == leaked'[c] - leaked[c]
               o == One(Owes(sh[t], c))
    <3>1. One(Lent(sh2[t], c)) = 0 /\ One(Lent(sh[t], c)) = 0 /\ One(Owes(sh2[t], c)) = 0
      BY <1>8 DEF One
    <3>2. l = o /\ o \in Int
      <4>1. CASE c = b
        BY <1>8, <1>9, <4>1 DEF One
      <4>2. CASE c # b
        BY <1>8, <1>9, <4>2 DEF One
      <4> QED
        BY <4>1, <4>2
    <3>3. gref'[c] - gref[c] = 0 /\ mmaps'[c] - mmaps[c] = 0
      BY <1>1, <1>2 DEF Types
    <3>4. One(handle'[c]) = h /\ h \in Int
      BY <1>2 DEF One
    <3> HIDE DEF h, l, o
    <3>5. 0 + 0 - 0 = h - h + 0 + l + 0 - o
      BY <3>2, <3>4
    <3> QED
      BY <3>1, <3>3, <3>4, <3>5 DEF h, l, o
  <2> QED
    BY <1>1, <1>2, <1>6, <1>10, <2>1, KeepRefs
<1>17. Objects(sh2)'
  <2>1. \A u \in Threads : sh[u].pc \in Freeing => sh[u].bo \in Bos
    BY <1>1, Freers
  <2>2. \A c \in Bos : st[c] = "none" => map1'[c] = Null
    BY <1>1, <1>2 DEF Objects
  <2> QED
    BY <1>1, <1>2, <1>6, <1>8, <2>1, <2>2, KeepObjects
<1>18. Mmaps(sh2)'
  <2>1. Cardinality(Windows) \in Nat
    BY <1>2, SameWindows
  <2> QED
    BY <1>1, <1>2, <1>6, <1>7, <2>1, KeepMmaps
<1>19. InBar(sh2)'
  <2>1. \A n \in nodes'[Bar] : n \in nodes[Bar] /\ (n.bo \notin twice => st'[n.bo] = "live")
    BY <1>1, <1>2 DEF InBar
  <2> QED
    BY <1>1, <1>2, <1>6, <1>8, <2>1, KeepInBar
<1>20. BarExact(sh2)'
  <2>1. \A n \in nodes[Bar] : n \in nodes'[Bar]
    BY <1>2
  <2> QED
    BY <1>1, <1>2, <1>6, <1>7, <1>8, <2>1, KeepBarExact
<1>21. Windowed(sh2)'
  <2>1. sh2[t].k # "mmap"
    BY <1>7
  <2> QED
    BY <1>1, <1>2, <1>6, <2>1, KeepWindowed
<1>22. Inv(sh2)'
  BY <1>6, <1>10, <1>11, <1>12, <1>13, <1>14, <1>15, <1>16, <1>17, <1>18, <1>19, <1>20, <1>21 DEF Inv
<1> QED
  BY <1>22 DEF IInv

\* The object is in the BAR where map1 now says.
LEMMA AssignKeeps ==
  ASSUME NEW sh \in [Threads -> Stages], Inv(sh), NEW t \in Threads, Assign(t)
  PROVE  IInv'
<1>1. /\ Programs(sh) /\ Types /\ Locks(sh) /\ Nodes(sh) /\ Downs(sh) /\ Balance(sh) /\ Objects(sh)
      /\ Mmaps(sh) /\ InBar(sh) /\ Tables(sh) /\ Filled(sh) /\ BarExact(sh) /\ Windowed(sh)
      /\ WellFormed(sh[t])
  BY InvIs
<1> DEFINE s == sh[t]
           b == s.bo
<1>2. /\ At(t, "assign") /\ Then(t, <<>>) /\ map1' = [map1 EXCEPT ![Now(t).bo] = Now(t).at]
      /\ twice' = IF map1[Now(t).bo] = Null THEN twice ELSE twice \cup {Now(t).bo}
      /\ UNCHANGED <<st, gref, handle, mmaps, leaked, alive, nodes, pt, tlb, late, lock>>
  BY DEF Assign, spacevars
<1>3. s.pc = "assign" /\ Now(t) = NowOf(s)
  BY <1>1, <1>2, AtIs, HereIs
<1>4. /\ s.k \in {"mmap", "bad"} /\ b \in Bos /\ s.vs = Bar /\ s.at \in Page(Bar) /\ s.at # Null
  <2>1. s.k \in {"mmap", "bad"}
    BY <1>1, <1>3, FormIs DEF Suits, Kinds, WithNode, Freeing
  <2>2. b \in Bos /\ s.vs = Bar /\ s.at \in Int /\ PagesOf(b, s.at) \subseteq Page(Bar)
    BY <1>1, <1>3, <2>1, FormIs DEF WellFormed
  <2>3. Size[b] \in Nat \ {0}
    BY <2>2, Some
  <2>4. s.at \in PagesOf(b, s.at)
    BY <2>2, <2>3 DEF PagesOf
  <2>5. s.at \in Page(Bar) /\ s.at \in Nat
    BY <2>2, <2>4 DEF Page
  <2> QED
    BY <2>1, <2>2, <2>5, MapsAssumption
<1>5. Now(t).bo = b /\ Now(t).at = s.at
  BY <1>3, NowOfIs DEF Op
<1>6. /\ map1' = [map1 EXCEPT ![b] = s.at] /\ map1 \in [Bos -> Page(Bar) \cup {Null}]
      /\ \A c \in Bos : map1'[c] = IF c = b THEN s.at ELSE map1[c]
      /\ twice' = IF map1[b] = Null THEN twice ELSE twice \cup {b}
      /\ \A c \in Bos : c \in twice => c \in twice'
  BY <1>1, <1>2, <1>5 DEF Types
<1>7. PICK sh2 \in [Threads -> Stages] :
           Moves(sh, sh2, t) /\ Programs(sh2)' /\ WellFormed(sh2[t]) /\ Onward(sh[t], sh2[t])
  BY <1>1, <1>2, GoesOn
<1> DEFINE r == sh2[t]
<1>8. r.pc = "unlock" /\ r.k = s.k /\ r.vs = Bar /\ r.bo = b
  BY <1>3, <1>4, <1>7, NextPcIs DEF Onward
<1>9. /\ ~Has(r) /\ r.pc \notin Freeing /\ s.pc \notin Freeing
      /\ \A vs \in Spaces : Holding(r, vs) <=> Holding(s, vs)
      /\ \A vs, n : ~Owns(r, vs, n) /\ (Owns(s, vs, n) <=> vs = Bar /\ n = NodeOf(s) /\ s.k = "mmap")
      /\ (s.k = "mmap" <=> Has(s))
      /\ \A vs, n, p : ~Forgotten(r, vs, n) /\ ~Cleared(r, vs, n, p)
      /\ \A c : ~Lent(s, c) /\ ~Lent(r, c) /\ (Owes(r, c) <=> Owes(s, c)) /\ (Owes(s, c) <=> b = c)
      /\ ~Adding(r) /\ Holding(s, Bar)
  <2> HIDE DEF s, r
  <2>1. ~Has(r) /\ (s.k = "mmap" <=> Has(s)) /\ r.pc \notin Freeing /\ s.pc \notin Freeing
    BY <1>3, <1>8 DEF Has, WithNode, Freeing
  <2>2. \A vs \in Spaces : Holding(r, vs) <=> Holding(s, vs)
    BY <1>3, <1>4, <1>8 DEF Holding, Locked, BarLocked, Freeing
  <2>3. \A vs, n : ~Owns(r, vs, n) /\ (Owns(s, vs, n) <=> vs = Bar /\ n = NodeOf(s) /\ s.k = "mmap")
    BY <1>3, <1>4, <1>8, <2>1 DEF Owns
  <2>4. \A vs, n, p : ~Forgotten(r, vs, n) /\ ~Cleared(r, vs, n, p)
    BY <1>8, <2>1 DEF Forgotten, Cleared
  <2>5. \A c : ~Lent(s, c) /\ ~Lent(r, c)
    BY <1>4, <1>8, <2>1 DEF Lent
  <2>6. \A c : (Owes(r, c) <=> Owes(s, c)) /\ (Owes(s, c) <=> b = c)
    BY <1>4, <1>8 DEF Owes
  <2>7. ~Adding(r) /\ Holding(s, Bar)
    BY <1>3, <1>4, <1>8 DEF Adding, Holding, Locked
  <2> QED
    BY <2>1, <2>2, <2>3, <2>4, <2>5, <2>6, <2>7
<1>10. \A u \in Threads : u # t => sh2[u] = sh[u]
  BY <1>7 DEF Moves
<1>11. gref[b] > 0 /\ st[b] = "live"
  <2>1. gref[b] > 0
    BY <1>1, <1>4, <1>9, Keeping
  <2> QED
    BY <1>1, <1>4, <2>1 DEF Objects
<1>12. \A u \in Threads : sh[u].pc \in Freeing => sh[u].bo \in Bos /\ sh[u].bo # b
  <2>1. \A u \in Threads : sh[u].pc \in Freeing => sh[u].bo \in Bos
    BY <1>1, Freers
  <2>2. \A u \in Threads : sh[u].pc \in Freeing => gref[sh[u].bo] = 0
    BY <1>1 DEF Objects
  <2> QED
    BY <1>11, <2>1, <2>2
<1>13. NodeOf(s).bo = b /\ NodeOf(s).at = s.at /\ NodeOf(s) = Node(b, s.at)
  BY DEF NodeOf, Node
<1>14. \A u \in Threads : Holding(sh[u], Bar) => u = t
  BY <1>1, <1>9, Spaced DEF Locks
<1>15. ASSUME NEW n \in nodes[Bar], n.bo = b, b \notin twice'
       PROVE  n = NodeOf(s) /\ s.k = "mmap"
  <2>1. b \notin twice /\ map1[b] = Null
    BY <1>6, <1>15
  <2>2. n.at # Null
    BY <1>1, NodesAre, Spaced
  <2>3. PICK u \in Threads : Owns(sh[u], Bar, n)
    BY <1>1, <1>15, <2>1, <2>2 DEF InBar
  <2>4. Holding(sh[u], Bar)
    BY <1>1, <2>3, OwnerHolds, Spaced DEF Downs
  <2> QED
    BY <1>9, <1>14, <2>3, <2>4
<1>16. Types'
  <2>1. map1' \in [Bos -> Page(Bar) \cup {Null}]
    BY <1>4, <1>6
  <2>2. twice' \subseteq Bos
    BY <1>1, <1>4, <1>6 DEF Types
  <2> QED
    BY <1>1, <1>2, <2>1, <2>2 DEF Types
<1>17. Locks(sh2)'
  BY <1>1, <1>2, <1>7, <1>9, KeepLocks
<1>18. Nodes(sh2)'
  BY <1>1, <1>2, <1>7, <1>9, KeepNodes
<1>19. Downs(sh2)'
  <2>1. s.k # "down" /\ r.k # "down" /\ r.k # "map"
    BY <1>4, <1>8
  <2>2. \A vs \in Vs : ~alive[vs] /\ nodes'[vs] # {} => nodes[vs] # {}
    BY <1>2
  <2> QED
    BY <1>1, <1>2, <1>7, <2>1, <2>2, KeepDowns
<1>20. Balance(sh2)'
  <2>1. ASSUME NEW c \in Bos
        PROVE  gref'[c] - gref[c] + One(Lent(sh2[t], c)) - One(Lent(sh[t], c))
             = One(handle'[c]) - One(handle[c]) + (mmaps'[c] - mmaps[c]) + (leaked'[c] - leaked[c])
                 + One(Owes(sh2[t], c)) - One(Owes(sh[t], c))
    <3> DEFINE h == One(handle[c])
               o == One(Owes(sh[t], c))
    <3>1. One(Lent(sh2[t], c)) = 0 /\ One(Lent(sh[t], c)) = 0 /\ One(Owes(sh2[t], c)) = o /\ o \in Int
      BY <1>9 DEF One
    <3>2. gref'[c] - gref[c] = 0 /\ mmaps'[c] - mmaps[c] = 0 /\ leaked'[c] - leaked[c] = 0
      BY <1>1, <1>2 DEF Types
    <3>3. One(handle'[c]) = h /\ h \in Int
      BY <1>2 DEF One
    <3> HIDE DEF h, o
    <3>4. 0 + 0 - 0 = h - h + 0 + 0 + o - o
      BY <3>1, <3>3
    <3> QED
      BY <3>1, <3>2, <3>3, <3>4 DEF h, o
  <2> QED
    BY <1>1, <1>2, <1>7, <1>16, <2>1, KeepRefs
<1>21. Objects(sh2)'
  <2>1. \A c \in Bos : st[c] = "none" => map1'[c] = Null
    BY <1>1, <1>6, <1>11 DEF Objects
  <2> QED
    BY <1>1, <1>2, <1>7, <1>9, <1>12, <2>1, KeepObjects
<1>22. Mmaps(sh2)'
  <2>1. Cardinality(Windows) \in Nat
    BY <1>2, SameWindows
  <2> QED
    BY <1>1, <1>2, <1>7, <1>8, <2>1, KeepMmaps
<1>23. InBar(sh2)'
  <2>1. ASSUME NEW n \in nodes[Bar], n.bo \notin twice'
        PROVE  \/ map1'[n.bo] = n.at
               \/ \E u \in Threads : sh2[u].k \in {"mmap", "bad"} /\ Owns(sh2[u], Bar, n)
    <3>1. n.bo \in Bos /\ n.bo \notin twice
      BY <1>1, <1>6, <2>1, NodesAre, Spaced
    <3>2. CASE n.bo = b
      BY <1>6, <1>13, <1>15, <2>1, <3>1, <3>2
    <3>3. CASE n.bo # b
      <4>1. map1'[n.bo] = map1[n.bo] /\ ~Owns(sh[t], Bar, n)
        BY <1>6, <1>9, <1>13, <3>1, <3>3
      <4>2. CASE map1[n.bo] = n.at
        BY <4>1, <4>2
      <4>3. CASE \E u \in Threads : sh[u].k \in {"mmap", "bad"} /\ Owns(sh[u], Bar, n)
        BY <1>10, <4>1, <4>3
      <4> QED
        BY <1>1, <3>1, <4>2, <4>3 DEF InBar
    <3> QED
      BY <3>2, <3>3
  <2>2. ASSUME NEW u \in Threads, sh2[u].pc \in Freeing
        PROVE  IF sh2[u].pc \in {"funlock", "release"}
                 THEN sh2[u].bo \in twice' \/ \A n \in nodes[Bar] : n.bo # sh2[u].bo
                 ELSE map1'[sh2[u].bo] = sh2[u].bat
    <3>1. sh2[u] = sh[u]
      BY <1>9, <1>10, <2>2
    <3>2. sh[u].bo \in Bos /\ map1'[sh[u].bo] = map1[sh[u].bo]
      BY <1>6, <1>12, <2>2, <3>1
    <3>3. sh[u].bo \in twice => sh[u].bo \in twice'
      BY <1>6, <3>2
    <3> QED
      BY <1>1, <2>2, <3>1, <3>2, <3>3 DEF InBar
  <2>3. nodes' = nodes /\ \A n \in nodes[Bar] : n.bo \notin twice' => st'[n.bo] = "live"
    <3>1. ASSUME NEW n \in nodes[Bar], n.bo \notin twice'
          PROVE  st[n.bo] = "live"
      <4>1. n.bo \notin twice
        BY <1>1, <1>6, <3>1, NodesAre, Spaced
      <4> QED
        BY <1>1, <4>1 DEF InBar
    <3> QED
      BY <1>2, <3>1
  <2> QED
    BY <2>1, <2>2, <2>3 DEF InBar
<1>24. Tables(sh2)'
  <2>1. \A vs, n, p : ~Forgotten(sh2[t], vs, n) /\ ~Cleared(sh2[t], vs, n, p)
    BY <1>9
  <2>2. alive' = alive /\ pt' = pt /\ tlb' = tlb /\ late' = late /\ nodes' = nodes
    BY <1>2
  <2> QED
    BY <1>1, <1>7, <2>1, <2>2, KeepTables
<1>25. Filled(sh2)'
  <2>1. ASSUME NEW vs \in Spaces, alive[vs], Kept(vs), NEW n \in nodes[vs], NEW p \in PagesOf(n.bo, n.at),
               Owns(sh[t], vs, n)
        PROVE  pt[vs][p] = n.bo
    BY <1>1, <1>3, <2>1 DEF Filled, Kept
  <2>2. \A vs \in Spaces : alive'[vs] /\ Kept(vs) =>
           \A n \in nodes'[vs] : \A p \in PagesOf(n.bo, n.at) :
             /\ Owns(sh[t], vs, n) /\ ~Owns(sh2[t], vs, n) => pt[vs][p] = n.bo
             /\ ~Owns(sh2[t], vs, n)
    BY <1>2, <1>9, <2>1
  <2> QED
    BY <1>1, <1>2, <1>7, <2>2, KeepFilled
<1>26. BarExact(sh2)'
  <2> SUFFICES ASSUME ~BarMapFails
               PROVE  /\ \A c \in Bos : gref[c] > 0 /\ map1'[c] # Null => Node(c, map1'[c]) \in nodes[Bar]
                      /\ \A u \in Threads : sh2[u].pc \in Freeing \ {"funlock", "release"} =>
                           BarNode(sh2[u]) \in nodes[Bar]
                      /\ \A u \in Threads : sh2[u].k = "bad" => sh2[u].pc = "unlock"
                      /\ \A u \in Threads : Adding(sh2[u]) => map1'[sh2[u].bo] # sh2[u].at
    BY <1>2 DEF BarExact, Adding
  <2>1. s.k = "mmap"
    BY <1>1, <1>3, <1>4 DEF BarExact
  <2>2. NodeOf(s) \in nodes[Bar]
    BY <1>1, <1>4, <1>9, <2>1 DEF Nodes
  <2>3. \A c \in Bos : gref[c] > 0 /\ map1'[c] # Null => Node(c, map1'[c]) \in nodes[Bar]
    BY <1>1, <1>6, <1>13, <2>2 DEF BarExact
  <2>4. \A u \in Threads : sh2[u].pc \in Freeing \ {"funlock", "release"} => BarNode(sh2[u]) \in nodes[Bar]
    BY <1>1, <1>9, <1>10 DEF BarExact
  <2>5. \A u \in Threads : sh2[u].k = "bad" => sh2[u].pc = "unlock"
    BY <1>1, <1>8, <1>10 DEF BarExact
  <2>6. ASSUME NEW u \in Threads, Adding(sh2[u])
        PROVE  FALSE
    <3>1. u # t /\ sh2[u] = sh[u]
      BY <1>9, <1>10, <2>6
    <3>2. sh[u].k = "mmap" /\ sh[u].pc \in {"write", "assign"} /\ WellFormed(sh[u])
      BY <1>1, <2>6, <3>1 DEF Adding, Programs
    <3>3. Holding(sh[u], Bar)
      BY <3>2, FormIs DEF Holding, Locked
    <3> QED
      BY <1>14, <3>1, <3>3
  <2> QED
    BY <2>3, <2>4, <2>5, <2>6
<1>27. Windowed(sh2)'
  <2>1. \A c \in Bos : mmaps[c] > 0 => map1'[c] # Null
    BY <1>1, <1>4, <1>6 DEF Windowed
  <2>2. ASSUME NEW u \in Threads, sh2[u].k = "mmap", sh2[u].pc \in {"mapped", "unlock"}
        PROVE  map1'[sh2[u].bo] # Null
    <3>1. CASE u = t
      BY <1>4, <1>6, <1>8, <3>1
    <3>2. CASE u # t
      <4>1. sh2[u] = sh[u] /\ WellFormed(sh[u])
        BY <1>1, <1>10, <3>2 DEF Programs
      <4>2. sh[u].bo \in Bos
        BY <2>2, <4>1 DEF WellFormed
      <4>3. map1[sh[u].bo] # Null
        BY <1>1, <2>2, <4>1 DEF Windowed
      <4> QED
        BY <1>4, <1>6, <4>1, <4>2, <4>3
    <3> QED
      BY <3>1, <3>2
  <2> QED
    BY <1>2, <2>1, <2>2 DEF Windowed
<1>28. Inv(sh2)'
  BY <1>7, <1>16, <1>17, <1>18, <1>19, <1>20, <1>21, <1>22, <1>23, <1>24, <1>25, <1>26, <1>27 DEF Inv
<1> QED
  BY <1>28 DEF IInv

\* The reference that the mmap owed becomes the one of the window.
LEMMA MappedKeeps ==
  ASSUME NEW sh \in [Threads -> Stages], Inv(sh), NEW t \in Threads, Mapped(t)
  PROVE  IInv'
<1>1. /\ Programs(sh) /\ Types /\ Locks(sh) /\ Nodes(sh) /\ Downs(sh) /\ Balance(sh) /\ Objects(sh)
      /\ Mmaps(sh) /\ InBar(sh) /\ Tables(sh) /\ Filled(sh) /\ BarExact(sh) /\ Windowed(sh)
      /\ WellFormed(sh[t])
  BY InvIs
<1> DEFINE s == sh[t]
           b == s.bo
<1>2. /\ At(t, "mapped") /\ Then(t, <<>>) /\ mmaps' = [mmaps EXCEPT ![Now(t).bo] = @ + 1]
      /\ UNCHANGED <<st, gref, handle, map1, twice, leaked, alive, nodes, pt, tlb, late, lock>>
  BY DEF Mapped, spacevars
<1>3. s.pc = "mapped" /\ Now(t) = NowOf(s)
  BY <1>1, <1>2, AtIs, HereIs
<1>4. s.k = "mmap" /\ b \in Bos
  <2>1. s.k = "mmap"
    BY <1>1, <1>3, FormIs DEF Suits, Kinds, WithNode, Freeing
  <2> QED
    BY <1>1, <1>3, <2>1 DEF WellFormed
<1>5. Now(t).bo = b
  <2>1. Now(t) = On("mapped", b)
    BY <1>3, NowOfIs
  <2> QED
    BY <2>1 DEF On, Op
<1>6. /\ mmaps' = [mmaps EXCEPT ![b] = @ + 1] /\ mmaps \in [Bos -> Nat]
      /\ \A c \in Bos : mmaps'[c] = IF c = b THEN mmaps[c] + 1 ELSE mmaps[c]
  BY <1>1, <1>2, <1>5 DEF Types
<1>7. PICK sh2 \in [Threads -> Stages] :
           Moves(sh, sh2, t) /\ Programs(sh2)' /\ WellFormed(sh2[t]) /\ Onward(sh[t], sh2[t])
  BY <1>1, <1>2, GoesOn
<1> DEFINE r == sh2[t]
<1>8. r.pc = "idle" /\ r.k = "none"
  BY <1>3, <1>7, NextPcIs DEF Onward
<1>9. /\ \A vs \in Spaces : ~Holding(s, vs) /\ ~Holding(r, vs)
      /\ ~Has(r) /\ r.pc \notin Freeing /\ s.pc \notin Freeing
      /\ \A vs, n : ~Owns(s, vs, n) /\ ~Owns(r, vs, n)
      /\ \A n : ~Puts(s, n)
      /\ \A c : ~Lent(s, c) /\ ~Lent(r, c) /\ ~Owes(r, c) /\ (Owes(s, c) <=> b = c)
      /\ \A vs, n, p : ~Cleared(r, vs, n, p)
      /\ \A vs, n : ~Forgotten(r, vs, n)
      /\ ~Adding(r)
  <2>1. s.pc \in Light /\ r.pc \in Light
    BY <1>3, <1>8 DEF Light
  <2>2. \A c : Owes(s, c) <=> b = c
    BY <1>3, <1>4 DEF Owes
  <2> QED
    BY <1>1, <1>7, <1>8, <2>1, <2>2, LightIs DEF Adding
<1>10. \A u \in Threads : u # t => sh2[u] = sh[u]
  BY <1>7 DEF Moves
<1>11. Types'
  <2>1. mmaps' \in [Bos -> Nat]
    BY <1>4, <1>6
  <2> QED
    BY <1>1, <1>2, <2>1 DEF Types
<1>12. Locks(sh2)'
  BY <1>1, <1>2, <1>7, <1>9, KeepLocks
<1>13. Nodes(sh2)'
  BY <1>1, <1>2, <1>7, <1>9, KeepNodes
<1>14. Downs(sh2)'
  <2>1. s.k # "down" /\ r.k # "down" /\ r.k # "map"
    BY <1>4, <1>8
  <2>2. \A vs \in Vs : ~alive[vs] /\ nodes'[vs] # {} => nodes[vs] # {}
    BY <1>2
  <2> QED
    BY <1>1, <1>2, <1>7, <2>1, <2>2, KeepDowns
<1>15. Balance(sh2)'
  <2>1. ASSUME NEW c \in Bos
        PROVE  gref'[c] - gref[c] + One(Lent(sh2[t], c)) - One(Lent(sh[t], c))
             = One(handle'[c]) - One(handle[c]) + (mmaps'[c] - mmaps[c]) + (leaked'[c] - leaked[c])
                 + One(Owes(sh2[t], c)) - One(Owes(sh[t], c))
    <3> DEFINE h == One(handle[c])
               o == One(Owes(sh[t], c))
               m == mmaps'[c] - mmaps[c]
    <3>1. One(Lent(sh2[t], c)) = 0 /\ One(Lent(sh[t], c)) = 0 /\ One(Owes(sh2[t], c)) = 0
      BY <1>9 DEF One
    <3>2. m = o /\ o \in Int
      <4>1. CASE c = b
        BY <1>6, <1>9, <4>1 DEF One
      <4>2. CASE c # b
        BY <1>6, <1>9, <4>2 DEF One
      <4> QED
        BY <4>1, <4>2
    <3>3. gref'[c] - gref[c] = 0 /\ leaked'[c] - leaked[c] = 0
      BY <1>1, <1>2 DEF Types
    <3>4. One(handle'[c]) = h /\ h \in Int
      BY <1>2 DEF One
    <3> HIDE DEF h, m, o
    <3>5. 0 + 0 - 0 = h - h + m + 0 + 0 - o
      BY <3>2, <3>4
    <3> QED
      BY <3>1, <3>3, <3>4, <3>5 DEF h, m, o
  <2> QED
    BY <1>1, <1>2, <1>7, <1>11, <2>1, KeepRefs
<1>16. Objects(sh2)'
  <2>1. \A u \in Threads : sh[u].pc \in Freeing => sh[u].bo \in Bos
    BY <1>1, Freers
  <2>2. \A c \in Bos : st[c] = "none" => map1'[c] = Null
    BY <1>1, <1>2 DEF Objects
  <2> QED
    BY <1>1, <1>2, <1>7, <1>9, <2>1, <2>2, KeepObjects
<1>17. Mmaps(sh2)'
  <2>1. Cardinality(Making(sh2)) = Cardinality(Making(sh)) - 1
    <3>1. /\ Cardinality(Making(sh2)) =
              Cardinality(Making(sh)) + One(sh2[t].k = "mmap") - One(sh[t].k = "mmap")
          /\ Cardinality(Making(sh)) \in Nat
      BY <1>4, <1>7, Counts, CountsFinite
    <3>2. One(sh2[t].k = "mmap") = 0 /\ One(sh[t].k = "mmap") = 1
      BY <1>4, <1>8 DEF One
    <3> QED
      BY <3>1, <3>2
  <2>2. /\ Cardinality(Making(sh)) \in Nat /\ Cardinality(Making(sh2)) \in Nat
        /\ MaxMmaps \in Nat /\ Cardinality(Windows) \in Nat /\ mmaps[b] <= Cardinality(Windows)
    BY <1>1, <1>4, CountsFinite, MapsAssumption, WindowsAre
  <2>3. Cardinality(Windows) + Cardinality(Making(sh)) <= MaxMmaps
    BY <1>1 DEF Mmaps
  <2>4. mmaps[b] < MaxMmaps /\ mmaps[b] \in Nat
    BY <1>4, <1>6, <2>1, <2>2, <2>3
  <2>5. Cardinality(Windows') = Cardinality(Windows) + 1
    BY <1>1, <1>4, <1>6, <2>4, WindowsAre
  <2>6. Cardinality(Windows') + Cardinality(Making(sh2)) <= MaxMmaps
    BY <2>1, <2>2, <2>3, <2>5
  <2>7. \A c \in Bos : mmaps'[c] <= MaxMmaps
    BY <1>1, <1>6, <2>2, <2>4 DEF Mmaps
  <2> QED
    BY <2>6, <2>7 DEF Mmaps
<1>18. InBar(sh2)'
  <2>1. \A n \in nodes'[Bar] : n \in nodes[Bar] /\ (n.bo \notin twice => st'[n.bo] = "live")
    BY <1>1, <1>2 DEF InBar
  <2> QED
    BY <1>1, <1>2, <1>7, <1>9, <2>1, KeepInBar
<1>19. Tables(sh2)'
  <2>1. \A vs, n, p : ~Forgotten(sh2[t], vs, n) /\ ~Cleared(sh2[t], vs, n, p)
    BY <1>9
  <2>2. alive' = alive /\ pt' = pt /\ tlb' = tlb /\ late' = late /\ nodes' = nodes
    BY <1>2
  <2> QED
    BY <1>1, <1>7, <2>1, <2>2, KeepTables
<1>20. Filled(sh2)'
  BY <1>1, <1>2, <1>7, <1>9, KeepFilled
<1>21. BarExact(sh2)'
  <2>1. \A n \in nodes[Bar] : n \in nodes'[Bar]
    BY <1>2
  <2> QED
    BY <1>1, <1>2, <1>7, <1>8, <1>9, <2>1, KeepBarExact
<1>22. Windowed(sh2)'
  <2>1. \A c \in Bos : mmaps'[c] > 0 => mmaps[c] > 0 \/ map1[c] # Null
    BY <1>1, <1>3, <1>4, <1>6 DEF Windowed
  <2>2. sh2[t].k # "mmap"
    BY <1>8
  <2> QED
    BY <1>1, <1>2, <1>7, <2>1, <2>2, KeepWindowed
<1>23. Inv(sh2)'
  BY <1>7, <1>11, <1>12, <1>13, <1>14, <1>15, <1>16, <1>17, <1>18, <1>19, <1>20, <1>21, <1>22 DEF Inv
<1> QED
  BY <1>23 DEF IInv

\* A thread takes its node away once the entries are cleared and forgotten.
LEMMA FreedTables ==
  ASSUME NEW sh, Types, Tables(sh), NEW sh2, NEW t \in Threads, Moves(sh, sh2, t),
         NEW v \in Spaces, NEW n0, nodes' = [nodes EXCEPT ![v] = @ \ {n0}],
         UNCHANGED <<alive, pt, tlb, late>>,
         Forgotten(sh[t], v, n0), \A p : Cleared(sh[t], v, n0, p),
         \A vs, n, p : Cleared(sh2[t], vs, n, p) => Cleared(sh[t], vs, n, p),
         \A vs, n : Forgotten(sh2[t], vs, n) => Forgotten(sh[t], vs, n)
  PROVE  Tables(sh2)'
<1>1. \A vs \in Spaces : nodes'[vs] = IF vs = v THEN nodes[v] \ {n0} ELSE nodes[vs]
  BY DEF Types
<1> SUFFICES ASSUME NEW vs \in Spaces, alive[vs]
             PROVE  /\ \A p \in Page(vs) : p \notin Covered(vs)' => pt[vs][p] = Null /\ (p \notin late[vs] => tlb[vs][p] = Null)
                    /\ \A n \in nodes'[vs] : \A p \in PagesOf(n.bo, n.at) :
                         /\ pt[vs][p] \in {Null, n.bo} /\ (p \notin late[vs] => tlb[vs][p] \in {Null, n.bo})
                         /\ \A u \in Threads : Cleared(sh2[u], vs, n, p) => pt[vs][p] = Null
                         /\ \A u \in Threads : Forgotten(sh2[u], vs, n) => p \in late[vs] \/ tlb[vs][p] = Null
  BY DEF Tables
<1>2. /\ \A p \in Page(vs) : p \notin Covered(vs) => pt[vs][p] = Null /\ (p \notin late[vs] => tlb[vs][p] = Null)
      /\ \A n \in nodes[vs] : \A p \in PagesOf(n.bo, n.at) :
           /\ pt[vs][p] \in {Null, n.bo} /\ (p \notin late[vs] => tlb[vs][p] \in {Null, n.bo})
           /\ \A u \in Threads : Cleared(sh[u], vs, n, p) => pt[vs][p] = Null
           /\ \A u \in Threads : Forgotten(sh[u], vs, n) => p \in late[vs] \/ tlb[vs][p] = Null
  BY DEF Tables
<1>3. ASSUME NEW p \in Page(vs), p \notin Covered(vs)'
      PROVE  pt[vs][p] = Null /\ (p \notin late[vs] => tlb[vs][p] = Null)
  <2>1. CASE p \notin Covered(vs)
    BY <1>2, <2>1
  <2>2. CASE p \in Covered(vs)
    <3>1. PICK n \in nodes[vs] : p \in PagesOf(n.bo, n.at)
      BY <2>2 DEF Covered
    <3>2. n \notin nodes'[vs]
      BY <1>3, <3>1 DEF Covered
    <3>3. vs = v /\ n = n0
      BY <1>1, <3>1, <3>2
    <3> QED
      BY <1>2, <3>1, <3>3
  <2> QED
    BY <2>1, <2>2
<1>4. ASSUME NEW n \in nodes'[vs], NEW p \in PagesOf(n.bo, n.at)
      PROVE  /\ pt[vs][p] \in {Null, n.bo} /\ (p \notin late[vs] => tlb[vs][p] \in {Null, n.bo})
             /\ \A u \in Threads : Cleared(sh2[u], vs, n, p) => pt[vs][p] = Null
             /\ \A u \in Threads : Forgotten(sh2[u], vs, n) => p \in late[vs] \/ tlb[vs][p] = Null
  <2>1. n \in nodes[vs]
    BY <1>1, <1>4
  <2>2. ASSUME NEW u \in Threads
        PROVE  /\ Cleared(sh2[u], vs, n, p) => Cleared(sh[u], vs, n, p)
               /\ Forgotten(sh2[u], vs, n) => Forgotten(sh[u], vs, n)
    <3>1. CASE u = t
      BY <3>1
    <3>2. CASE u # t
      <4>1. sh2[u] = sh[u]
        BY <3>2 DEF Moves
      <4> QED
        BY <4>1
    <3> QED
      BY <3>1, <3>2
  <2> QED
    BY <1>2, <1>4, <2>1, <2>2
<1> QED
  BY <1>3, <1>4

\* A thread takes its node away, and nobody else has it.
LEMMA FreedNodes ==
  ASSUME NEW sh, Programs(sh), Types, Locks(sh), Downs(sh), Nodes(sh),
         NEW sh2, NEW t \in Threads, Moves(sh, sh2, t),
         NEW v \in Spaces, NEW n0, nodes' = [nodes EXCEPT ![v] = @ \ {n0}],
         Owns(sh[t], v, n0),
         Has(sh2[t]) => Has(sh[t]) /\ sh2[t].vs = sh[t].vs /\ NodeOf(sh2[t]) = NodeOf(sh[t]) /\ sh[t].vs # v
  PROVE  Nodes(sh2)'
<1>1. \A vs \in Spaces : nodes'[vs] = IF vs = v THEN nodes[v] \ {n0} ELSE nodes[vs]
  BY DEF Types
<1>2. \A vs \in Spaces : \A n \in nodes'[vs] : n \in nodes[vs]
  BY <1>1
<1>3. ASSUME NEW u \in Threads, Has(sh2[u])
      PROVE  NodeOf(sh2[u]) \in nodes'[sh2[u].vs]
  <2>1. ASSUME NEW w \in Threads, Has(sh[w])
        PROVE  sh[w].vs \in Spaces /\ NodeOf(sh[w]) \in nodes[sh[w].vs]
    BY <2>1, FormIs DEF Nodes, Programs
  <2>2. CASE u = t
    <3>1. Has(sh[t]) /\ sh2[t].vs = sh[t].vs /\ NodeOf(sh2[t]) = NodeOf(sh[t]) /\ sh[t].vs # v
      BY <1>3, <2>2
    <3> QED
      BY <1>1, <2>1, <2>2, <3>1
  <2>3. CASE u # t
    <3>1. sh2[u] = sh[u]
      BY <2>3 DEF Moves
    <3>2. sh[u].vs \in Spaces /\ NodeOf(sh[u]) \in nodes[sh[u].vs]
      BY <1>3, <2>1, <3>1
    <3>3. ~(sh[u].vs = v /\ NodeOf(sh[u]) = n0)
      <4> SUFFICES ASSUME sh[u].vs = v
                   PROVE  NodeOf(sh[u]) # n0
        OBVIOUS
      <4>1. Owns(sh[u], v, NodeOf(sh[u]))
        BY <1>3, <3>1 DEF Owns
      <4> QED
        BY <2>3, <4>1, OwnsOnce
    <3> QED
      BY <1>1, <3>1, <3>2, <3>3
  <2> QED
    BY <2>2, <2>3
<1>4. \A vs \in Spaces : \A n \in nodes'[vs] : PagesOf(n.bo, n.at) \subseteq Page(vs)
  BY <1>2 DEF Nodes
<1>5. \A vs \in Spaces : \A m, n \in nodes'[vs] : m # n => PagesOf(m.bo, m.at) \cap PagesOf(n.bo, n.at) = {}
  BY <1>2 DEF Nodes
<1> QED
  BY <1>3, <1>4, <1>5 DEF Nodes

\* The node of a client's mapping, or of a map into the BAR that has failed.
LEMMA MmFreeOwnKeeps ==
  ASSUME NEW sh \in [Threads -> Stages], Inv(sh), NEW t \in Threads, MmFree(t), sh[t].pc = "mmfree"
  PROVE  IInv'
<1>1. /\ Programs(sh) /\ Types /\ Locks(sh) /\ Nodes(sh) /\ Downs(sh) /\ Balance(sh) /\ Objects(sh)
      /\ Mmaps(sh) /\ InBar(sh) /\ Tables(sh) /\ Filled(sh) /\ BarExact(sh) /\ Windowed(sh)
      /\ WellFormed(sh[t])
  BY InvIs
<1> DEFINE s == sh[t]
           b == s.bo
           v == s.vs
           n0 == NodeOf(s)
<1>2. /\ At(t, "mmfree") /\ Then(t, <<>>)
      /\ nodes' = [nodes EXCEPT ![Now(t).vs] = @ \ {Node(Now(t).bo, Now(t).at)}]
      /\ UNCHANGED <<st, gref, handle, mmaps, map1, twice, leaked, alive, pt, tlb, late, lock>>
  BY DEF MmFree, objvars
<1>3. s.pc = "mmfree" /\ Now(t) = NowOf(s)
  BY <1>1, <1>2, HereIs
<1>4. /\ s.k \in {"map", "bad", "down"} /\ b \in Bos /\ v \in Spaces /\ Has(s)
      /\ (s.k = "bad" => v = Bar) /\ (s.k \in {"map", "down"} => v \in Vs /\ v # Bar)
  <2>1. s.k \in {"map", "bad", "down"}
    BY <1>1, <1>3, FormIs DEF Suits, Kinds, WithNode, Freeing
  <2>2. Has(s)
    BY <1>3 DEF Has, WithNode
  <2> QED
    BY <1>1, <2>1, <2>2, FormIs, Spaced
<1>5. nodes' = [nodes EXCEPT ![v] = @ \ {n0}]
  <2>1. Now(t) = Op("mmfree", s.vs, s.bo, s.at)
    BY <1>3, NowOfIs
  <2> QED
    BY <1>2, <2>1 DEF Op, NodeOf
<1>6. \A vs \in Spaces : nodes'[vs] = IF vs = v THEN nodes[v] \ {n0} ELSE nodes[vs]
  BY <1>1, <1>5 DEF Types
<1>7. n0 \in nodes[v] /\ n0.bo = b
  BY <1>1, <1>4 DEF Nodes, NodeOf, Node
<1>8. PICK sh2 \in [Threads -> Stages] :
           Moves(sh, sh2, t) /\ Programs(sh2)' /\ WellFormed(sh2[t]) /\ Onward(sh[t], sh2[t])
  BY <1>1, <1>2, GoesOn
<1> DEFINE r == sh2[t]
<1>9. /\ \/ s.k = "map" /\ r.pc = "unlock"
         \/ s.k = "bad" /\ r.pc = "assign"
         \/ s.k = "down" /\ r.pc = "down"
      /\ r.k = s.k /\ r.vs = v /\ r.bo = b
  BY <1>3, <1>4, <1>8, NextPcIs DEF Onward
<1>10. /\ ~Has(r) /\ r.pc \notin Freeing /\ s.pc \notin Freeing
       /\ \A vs \in Spaces : Holding(r, vs) <=> Holding(s, vs)
       /\ \A vs, n : ~Owns(r, vs, n) /\ (Owns(s, vs, n) <=> vs = v /\ n = n0)
       /\ \A vs, n, p : ~Forgotten(r, vs, n) /\ ~Cleared(r, vs, n, p)
       /\ Forgotten(s, v, n0) /\ \A p : Cleared(s, v, n0, p)
       /\ \A c : ~Lent(r, c) /\ (Owes(r, c) <=> Owes(s, c)) /\ (Lent(s, c) <=> b = c /\ s.k # "bad")
       /\ ~Adding(r)
       /\ \A n : Puts(s, n) => n = n0 /\ v = Bar
  <2> HIDE DEF s, r
  <2>1. ~Has(r) /\ r.pc \notin Freeing /\ s.pc \notin Freeing
    BY <1>3, <1>9 DEF Has, WithNode, Freeing
  <2>2. \A vs \in Spaces : Holding(r, vs) <=> Holding(s, vs)
    BY <1>3, <1>4, <1>9 DEF Holding, Locked, BarLocked, Freeing
  <2>3. \A vs, n : ~Owns(r, vs, n) /\ (Owns(s, vs, n) <=> vs = v /\ n = n0)
    BY <1>3, <1>4, <1>9, <2>1 DEF Owns
  <2>4. \A vs, n, p : ~Forgotten(r, vs, n) /\ ~Cleared(r, vs, n, p)
    BY <1>9, <2>1 DEF Forgotten, Cleared
  <2>5. Forgotten(s, v, n0) /\ \A p : Cleared(s, v, n0, p)
    BY <1>3 DEF Forgotten, Cleared
  <2>6. \A c : ~Lent(r, c) /\ (Lent(s, c) <=> b = c /\ s.k # "bad")
    BY <1>3, <1>4, <1>9, <2>1 DEF Lent
  <2>7. \A c : Owes(r, c) <=> Owes(s, c)
    BY <1>3, <1>4, <1>9 DEF Owes
  <2>8. ~Adding(r)
    BY <1>4, <1>9, <2>1 DEF Adding
  <2>9. \A n : Puts(s, n) => n = n0 /\ v = Bar
    BY <2>3 DEF Puts
  <2> QED
    BY <2>1, <2>2, <2>3, <2>4, <2>5, <2>6, <2>7, <2>8, <2>9
<1>11. \A u \in Threads : u # t => sh2[u] = sh[u]
  BY <1>8 DEF Moves
<1>12. \A vs \in Spaces : \A n \in nodes'[vs] : n \in nodes[vs] /\ ~(vs = v /\ n = n0)
  BY <1>6
<1>13. Types'
  <2>1. nodes' \in [Spaces -> SUBSET [bo : Bos, at : Int]]
    BY <1>1, <1>5 DEF Types
  <2> QED
    BY <1>1, <1>2, <2>1 DEF Types
<1>14. Locks(sh2)'
  BY <1>1, <1>2, <1>8, <1>10, KeepLocks
<1>15. Nodes(sh2)'
  <2>1. Owns(sh[t], v, n0) /\ ~Has(sh2[t])
    BY <1>10
  <2> HIDE DEF v, n0
  <2> QED
    BY <1>1, <1>4, <1>5, <1>8, <2>1, FreedNodes
<1>16. Downs(sh2)'
  <2>1. s.k = "map" => alive[v]
    BY <1>1 DEF Downs
  <2>2. \A vs \in Vs : ~alive[vs] /\ nodes'[vs] # {} => nodes[vs] # {}
    BY <1>12, Spaced DEF Spaces
  <2>3. sh2[t].k = sh[t].k /\ sh2[t].vs = sh[t].vs /\ (sh2[t].k = "map" => alive[sh2[t].vs])
    BY <1>9, <2>1
  <2> QED
    BY <1>1, <1>2, <1>8, <2>2, <2>3, KeepDowns
<1>17. Balance(sh2)'
  <2> SUFFICES ASSUME NEW c \in Bos
        PROVE  /\ IsFiniteSet(MappedBy(c)') /\ Cardinality(MappedBy(c)) \in Nat /\ Cardinality(MappedBy(c)') \in Nat
               /\ gref'[c] - gref[c] + One(Lent(r, c)) - One(Lent(s, c))
                    = One(handle'[c]) - One(handle[c]) + (mmaps'[c] - mmaps[c]) + (leaked'[c] - leaked[c])
                      + (Cardinality(MappedBy(c)') - Cardinality(MappedBy(c)))
                      + One(Owes(r, c)) - One(Owes(s, c))
    BY <1>1, <1>8, <1>13, KeepBalance
  <2>1. /\ IsFiniteSet(MappedBy(c)') /\ Cardinality(MappedBy(c)) \in Nat /\ Cardinality(MappedBy(c)') \in Nat
        /\ v \in Vs /\ n0.bo = c => Cardinality(MappedBy(c)') = Cardinality(MappedBy(c)) - 1
        /\ ~(v \in Vs /\ n0.bo = c) => Cardinality(MappedBy(c)') = Cardinality(MappedBy(c))
    <3>1. DOMAIN nodes = Spaces /\ IsFiniteSet(MappedBy(c))
      BY <1>1 DEF Types, Balance
    <3>2. nodes' = [nodes EXCEPT ![v] = @ \ {n0}] /\ v \in Spaces /\ n0 \in nodes[v]
      BY <1>4, <1>5, <1>7
    <3> HIDE DEF v, n0
    <3> QED
      BY <3>1, <3>2, MappedLess
  <2> DEFINE x == Cardinality(MappedBy(c))
             y == Cardinality(MappedBy(c)')
             h == One(handle[c])
             l == One(Lent(s, c))
             o == One(Owes(s, c))
  <2>2. One(Lent(r, c)) = 0 /\ One(Owes(r, c)) = o
    BY <1>10 DEF One
  <2>3. x \in Nat /\ y \in Nat /\ y - x = 0 - l /\ l \in Int
    <3>1. CASE b = c /\ s.k # "bad"
      BY <1>4, <1>7, <1>10, <2>1, <3>1 DEF One
    <3>2. CASE b = c /\ s.k = "bad"
      BY <1>4, <1>7, <1>10, <2>1, <3>2, Spaced DEF One
    <3>3. CASE b # c
      BY <1>4, <1>7, <1>10, <2>1, <3>3 DEF One
    <3> QED
      BY <1>4, <3>1, <3>2, <3>3
  <2>4. gref'[c] - gref[c] = 0 /\ mmaps'[c] - mmaps[c] = 0 /\ leaked'[c] - leaked[c] = 0
    BY <1>1, <1>2 DEF Types
  <2>5. One(handle'[c]) = h /\ h \in Int /\ o \in Int
    BY <1>2 DEF One
  <2> HIDE DEF x, y, h, l, o
  <2>6. 0 + 0 - l = h - h + 0 + 0 + (y - x) + o - o
    BY <2>3, <2>5
  <2> QED
    BY <2>1, <2>2, <2>4, <2>5, <2>6 DEF x, y, h, l, o
<1>18. Objects(sh2)'
  <2>1. \A u \in Threads : sh[u].pc \in Freeing => sh[u].bo \in Bos
    BY <1>1, Freers
  <2>2. \A c \in Bos : st[c] = "none" => map1'[c] = Null
    BY <1>1, <1>2 DEF Objects
  <2> QED
    BY <1>1, <1>2, <1>8, <1>10, <2>1, <2>2, KeepObjects
<1>19. Mmaps(sh2)'
  <2>1. Cardinality(Windows) \in Nat
    BY <1>2, SameWindows
  <2>2. sh2[t].k # "mmap"
    BY <1>4, <1>9
  <2> QED
    BY <1>1, <1>2, <1>8, <2>1, <2>2, KeepMmaps
<1>20. InBar(sh2)'
  <2>1. \A n \in nodes'[Bar] : n \in nodes[Bar] /\ (n.bo \notin twice => st'[n.bo] = "live")
    BY <1>1, <1>2, <1>12, Spaced DEF InBar
  <2>2. \A n \in nodes'[Bar] : ~Puts(sh[t], n)
    BY <1>10, <1>12, Spaced
  <2>3. sh2[t].pc \notin Freeing
    BY <1>10
  <2> QED
    BY <1>1, <1>2, <1>8, <2>1, <2>2, <2>3, KeepInBar
<1>21. Tables(sh2)'
  <2>1. /\ Forgotten(sh[t], v, n0) /\ \A p : Cleared(sh[t], v, n0, p)
        /\ \A vs, n, p : ~Forgotten(sh2[t], vs, n) /\ ~Cleared(sh2[t], vs, n, p)
    BY <1>10
  <2> HIDE DEF v, n0
  <2> QED
    BY <1>1, <1>2, <1>4, <1>5, <1>8, <2>1, FreedTables
<1>22. Filled(sh2)'
  <2>1. \A vs \in Spaces : alive'[vs] /\ Kept(vs) =>
           /\ alive[vs] /\ pt'[vs] = pt[vs]
           /\ \A n \in nodes'[vs] : n \in nodes[vs]
    BY <1>2, <1>12
  <2>2. \A vs \in Spaces : alive'[vs] /\ Kept(vs) =>
           \A n \in nodes'[vs] : \A p \in PagesOf(n.bo, n.at) : ~Owns(sh[t], vs, n) /\ ~Owns(sh2[t], vs, n)
    BY <1>10, <1>12
  <2> QED
    BY <1>1, <1>8, <2>1, <2>2, KeepFilled
<1>23. BarExact(sh2)'
  <2>1. CASE BarMapFails
    BY <2>1 DEF BarExact
  <2>2. CASE ~BarMapFails
    <3>1. s.k # "bad"
      BY <1>1, <1>3, <2>2 DEF BarExact
    <3>2. \A n \in nodes[Bar] : n \in nodes'[Bar]
      BY <1>4, <1>6, <3>1, Spaced
    <3>3. ~Adding(sh2[t]) /\ sh2[t].pc \notin Freeing /\ sh2[t].k # "bad"
      BY <1>9, <1>10, <3>1
    <3> QED
      BY <1>1, <1>2, <1>8, <3>2, <3>3, KeepBarExact
  <2> QED
    BY <2>1, <2>2
<1>24. Windowed(sh2)'
  <2>1. sh2[t].k # "mmap"
    BY <1>4, <1>9
  <2> QED
    BY <1>1, <1>2, <1>8, <2>1, KeepWindowed
<1>25. Inv(sh2)'
  BY <1>8, <1>13, <1>14, <1>15, <1>16, <1>17, <1>18, <1>19, <1>20, <1>21, <1>22, <1>23, <1>24 DEF Inv
<1> QED
  BY <1>25 DEF IInv

\* The node in the BAR of an object that goes.
LEMMA FMmFreeKeeps ==
  ASSUME NEW sh \in [Threads -> Stages], Inv(sh), NEW t \in Threads, MmFree(t), sh[t].pc = "fmmfree"
  PROVE  IInv'
<1>1. /\ Programs(sh) /\ Types /\ Locks(sh) /\ Nodes(sh) /\ Downs(sh) /\ Balance(sh) /\ Objects(sh)
      /\ Mmaps(sh) /\ InBar(sh) /\ Tables(sh) /\ Filled(sh) /\ BarExact(sh) /\ Windowed(sh)
      /\ WellFormed(sh[t])
  BY InvIs
<1> DEFINE s == sh[t]
           b == s.bo
           n0 == BarNode(s)
<1>2. /\ At(t, "mmfree") /\ Then(t, <<>>)
      /\ nodes' = [nodes EXCEPT ![Now(t).vs] = @ \ {Node(Now(t).bo, Now(t).at)}]
      /\ UNCHANGED <<st, gref, handle, mmaps, map1, twice, leaked, alive, pt, tlb, late, lock>>
  BY DEF MmFree, objvars
<1>3. s.pc = "fmmfree" /\ Now(t) = NowOf(s) /\ s.pc \in Freeing
  BY <1>1, <1>2, HereIs DEF Freeing
<1>4. s.k \in {"none", "map", "down"} /\ b \in Bos /\ (s.k \in {"map", "down"} => s.vs # Bar)
  BY <1>1, <1>3, FormIs
<1>5. nodes' = [nodes EXCEPT ![Bar] = @ \ {n0}]
  <2>1. Now(t) = Op("mmfree", Bar, s.bo, s.bat)
    BY <1>3, NowOfIs
  <2> QED
    BY <1>2, <2>1 DEF Op, BarNode
<1>6. \A vs \in Spaces : nodes'[vs] = IF vs = Bar THEN nodes[Bar] \ {n0} ELSE nodes[vs]
  BY <1>1, <1>5 DEF Types
<1>7. n0.bo = b /\ n0.at = s.bat
  BY DEF BarNode, Node
<1>8. PICK sh2 \in [Threads -> Stages] :
           Moves(sh, sh2, t) /\ Programs(sh2)' /\ WellFormed(sh2[t]) /\ Onward(sh[t], sh2[t])
  BY <1>1, <1>2, GoesOn
<1> DEFINE r == sh2[t]
<1>9. r.pc = "funlock" /\ r.k = s.k /\ r.vs = s.vs /\ r.bo = b /\ r.at = s.at /\ r.bat = s.bat
  BY <1>3, <1>4, <1>8, NextPcIs DEF Onward
<1>10. /\ r.pc \in Freeing /\ (Has(r) => Has(s) /\ s.vs # Bar) /\ NodeOf(r) = NodeOf(s)
       /\ \A vs \in Spaces : Holding(r, vs) <=> Holding(s, vs)
       /\ Owns(s, Bar, n0)
       /\ \A vs, n : Owns(r, vs, n) => Owns(s, vs, n)
       /\ \A vs, n : Owns(s, vs, n) => Owns(r, vs, n) \/ (vs = Bar /\ n = n0)
       /\ \A vs, n : Forgotten(r, vs, n) => Forgotten(s, vs, n)
       /\ \A vs, n, p : Cleared(r, vs, n, p) => Cleared(s, vs, n, p)
       /\ Forgotten(s, Bar, n0) /\ \A p : Cleared(s, Bar, n0, p)
       /\ \A c : (Lent(r, c) <=> Lent(s, c)) /\ (Owes(r, c) <=> Owes(s, c))
       /\ ~Adding(r)
       /\ \A n : ~Puts(s, n)
  <2> HIDE DEF s, r
  <2>1. r.pc \in Freeing /\ NodeOf(r) = NodeOf(s)
    BY <1>9 DEF NodeOf, Freeing
  <2>2. Has(r) <=> Has(s)
    BY <1>3, <1>9, <2>1 DEF Has, WithNode
  <2>3. Has(r) => Has(s) /\ s.vs # Bar
    BY <1>4, <1>9, <2>2 DEF Has, WithNode
  <2>4. \A vs \in Spaces : Holding(r, vs) <=> Holding(s, vs)
    BY <1>3, <1>9, <2>1 DEF Holding, Locked, BarLocked
  <2>5. Owns(s, Bar, n0)
    BY <1>3 DEF Owns
  <2>6. \A vs, n : Owns(r, vs, n) => Owns(s, vs, n)
    BY <1>9, <2>1, <2>2 DEF Owns
  <2>7. \A vs, n : Owns(s, vs, n) => Owns(r, vs, n) \/ (vs = Bar /\ n = n0)
    BY <1>9, <2>1, <2>2 DEF Owns
  <2>8. \A vs, n : Forgotten(r, vs, n) => Forgotten(s, vs, n)
    BY <1>3, <1>9, <2>1 DEF Forgotten
  <2>9. \A vs, n, p : Cleared(r, vs, n, p) => Cleared(s, vs, n, p)
    BY <1>3, <1>9, <2>1 DEF Cleared
  <2>10. Forgotten(s, Bar, n0) /\ \A p : Cleared(s, Bar, n0, p)
    BY <1>3 DEF Forgotten, Cleared
  <2>11. \A c : Lent(r, c) <=> Lent(s, c)
    BY <1>3, <1>9, <2>2 DEF Lent
  <2>12. \A c : Owes(r, c) <=> Owes(s, c)
    BY <1>3, <1>9 DEF Owes
  <2>13. ~Adding(r) /\ \A n : ~Puts(s, n)
    BY <1>4, <1>9 DEF Adding, Puts
  <2> QED
    BY <2>1, <2>3, <2>4, <2>5, <2>6, <2>7, <2>8, <2>9, <2>10, <2>11, <2>12, <2>13
<1>11. \A u \in Threads : u # t => sh2[u] = sh[u]
  BY <1>8 DEF Moves
<1>12. \A vs \in Spaces : \A n \in nodes'[vs] : n \in nodes[vs] /\ ~(vs = Bar /\ n = n0)
  BY <1>6
<1>13. Types'
  <2>1. nodes' \in [Spaces -> SUBSET [bo : Bos, at : Int]]
    BY <1>1, <1>5 DEF Types
  <2> QED
    BY <1>1, <1>2, <2>1 DEF Types
<1>14. Locks(sh2)'
  BY <1>1, <1>2, <1>8, <1>10, KeepLocks
<1>15. Nodes(sh2)'
  <2>1. /\ Owns(sh[t], Bar, n0)
        /\ Has(sh2[t]) => Has(sh[t]) /\ sh2[t].vs = sh[t].vs /\ NodeOf(sh2[t]) = NodeOf(sh[t]) /\ sh[t].vs # Bar
    BY <1>9, <1>10
  <2> HIDE DEF n0
  <2> QED
    BY <1>1, <1>5, <1>8, <2>1, Spaced, FreedNodes
<1>16. Downs(sh2)'
  <2>1. s.k = "map" => alive[s.vs]
    BY <1>1 DEF Downs
  <2>2. \A vs \in Vs : ~alive[vs] /\ nodes'[vs] # {} => nodes[vs] # {}
    BY <1>12, Spaced DEF Spaces
  <2>3. sh2[t].k = sh[t].k /\ sh2[t].vs = sh[t].vs /\ (sh2[t].k = "map" => alive[sh2[t].vs])
    BY <1>9, <2>1
  <2> QED
    BY <1>1, <1>2, <1>8, <2>2, <2>3, KeepDowns
<1>17. Balance(sh2)'
  <2> SUFFICES ASSUME NEW c \in Bos
        PROVE  /\ IsFiniteSet(MappedBy(c)') /\ Cardinality(MappedBy(c)) \in Nat /\ Cardinality(MappedBy(c)') \in Nat
               /\ gref'[c] - gref[c] + One(Lent(r, c)) - One(Lent(s, c))
                    = One(handle'[c]) - One(handle[c]) + (mmaps'[c] - mmaps[c]) + (leaked'[c] - leaked[c])
                      + (Cardinality(MappedBy(c)') - Cardinality(MappedBy(c)))
                      + One(Owes(r, c)) - One(Owes(s, c))
    BY <1>1, <1>8, <1>13, KeepBalance
  <2>1. \A vs \in Vs : nodes'[vs] = nodes[vs]
    BY <1>6, Spaced
  <2>2. MappedBy(c)' = MappedBy(c)
    BY <2>1 DEF MappedBy
  <2>3. IsFiniteSet(MappedBy(c)) /\ Cardinality(MappedBy(c)) \in Nat
    BY <1>1, FS_CardinalityType DEF Balance
  <2> DEFINE x == Cardinality(MappedBy(c))
             h == One(handle[c])
             l == One(Lent(s, c))
             o == One(Owes(s, c))
  <2>4. One(Lent(r, c)) = l /\ One(Owes(r, c)) = o
    BY <1>10 DEF One
  <2>5. gref'[c] - gref[c] = 0 /\ mmaps'[c] - mmaps[c] = 0 /\ leaked'[c] - leaked[c] = 0
    BY <1>1, <1>2 DEF Types
  <2>6. One(handle'[c]) = h /\ h \in Int /\ o \in Int /\ l \in Int
    BY <1>2 DEF One
  <2>7. x \in Int /\ Cardinality(MappedBy(c)') = x
    BY <2>2, <2>3
  <2> HIDE DEF x, h, l, o
  <2>8. 0 + l - l = h - h + 0 + 0 + (x - x) + o - o
    BY <2>6, <2>7
  <2> QED
    BY <2>2, <2>3, <2>4, <2>5, <2>6, <2>7, <2>8 DEF x, h, l, o
<1>18. Objects(sh2)'
  <2>1. \A u \in Threads : sh[u].pc \in Freeing => sh[u].bo \in Bos
    BY <1>1, Freers
  <2>2. \A c \in Bos : st[c] = "none" => map1'[c] = Null
    BY <1>1, <1>2 DEF Objects
  <2> QED
    BY <1>1, <1>2, <1>3, <1>8, <1>9, <1>10, <2>1, <2>2, KeepObjects
<1>19. Mmaps(sh2)'
  <2>1. Cardinality(Windows) \in Nat
    BY <1>2, SameWindows
  <2>2. sh2[t].k # "mmap"
    BY <1>4, <1>9
  <2> QED
    BY <1>1, <1>2, <1>8, <2>1, <2>2, KeepMmaps
<1>20. InBar(sh2)'
  <2>1. \A n \in nodes'[Bar] : n \in nodes[Bar] /\ (n.bo \notin twice => st'[n.bo] = "live")
    BY <1>1, <1>2, <1>12, Spaced DEF InBar
  <2>2. b \in twice \/ \A n \in nodes'[Bar] : n.bo # b
    <3> SUFFICES ASSUME NEW n \in nodes'[Bar], n.bo = b, b \notin twice
                 PROVE  FALSE
      OBVIOUS
    <3>1. n \in nodes[Bar] /\ n # n0
      BY <1>12, Spaced
    <3>2. CASE map1[b] = n.at
      <4>1. map1[b] = s.bat
        BY <1>1, <1>3 DEF InBar
      <4>2. n = Node(n.bo, n.at)
        BY <1>1, <3>1, Spaced, NodesAre
      <4>3. n = n0
        BY <3>2, <4>1, <4>2 DEF BarNode
      <4> QED
        BY <3>1, <4>3
    <3>3. CASE \E u \in Threads : sh[u].k \in {"mmap", "bad"} /\ Owns(sh[u], Bar, n)
      <4>1. PICK u \in Threads : Owns(sh[u], Bar, n)
        BY <3>3
      <4>2. Owns(sh[t], Bar, n0)
        BY <1>10
      <4> HIDE DEF n0
      <4>3. n = n0
        BY <1>1, <4>1, <4>2, Spaced, OwnsOnce
      <4> QED
        BY <3>1, <4>3
    <3> QED
      BY <1>1, <3>1, <3>2, <3>3 DEF InBar
  <2>3. \A n \in nodes'[Bar] : ~Puts(sh[t], n)
    BY <1>10
  <2>4. IF sh2[t].pc \in {"funlock", "release"}
          THEN sh2[t].bo \in twice \/ \A n \in nodes'[Bar] : n.bo # sh2[t].bo
          ELSE map1[sh2[t].bo] = sh2[t].bat
    BY <1>9, <2>2
  <2> QED
    BY <1>1, <1>2, <1>8, <2>1, <2>3, <2>4, KeepInBar
<1>21. Tables(sh2)'
  <2>1. /\ Forgotten(sh[t], Bar, n0) /\ \A p : Cleared(sh[t], Bar, n0, p)
        /\ \A vs, n, p : Cleared(sh2[t], vs, n, p) => Cleared(sh[t], vs, n, p)
        /\ \A vs, n : Forgotten(sh2[t], vs, n) => Forgotten(sh[t], vs, n)
    BY <1>10
  <2> HIDE DEF n0
  <2> QED
    BY <1>1, <1>2, <1>5, <1>8, <2>1, Spaced, FreedTables
<1>22. Filled(sh2)'
  <2>1. \A vs \in Spaces : alive'[vs] /\ Kept(vs) =>
           /\ alive[vs] /\ pt'[vs] = pt[vs]
           /\ \A n \in nodes'[vs] : n \in nodes[vs]
    BY <1>2, <1>12
  <2>2. \A vs \in Spaces : alive'[vs] /\ Kept(vs) =>
           \A n \in nodes'[vs] : \A p \in PagesOf(n.bo, n.at) :
             ~(Owns(sh[t], vs, n) /\ ~Owns(sh2[t], vs, n))
    BY <1>10, <1>12
  <2>3. sh2[t].pc \notin {"write", "assign"}
    BY <1>9
  <2> QED
    BY <1>1, <1>8, <2>1, <2>2, <2>3, KeepFilled
<1>23. BarExact(sh2)'
  <2> SUFFICES ASSUME ~BarMapFails
               PROVE  /\ \A c \in Bos : gref[c] > 0 /\ map1[c] # Null => Node(c, map1[c]) \in nodes'[Bar]
                      /\ \A u \in Threads : sh2[u].pc \in Freeing \ {"funlock", "release"} =>
                           BarNode(sh2[u]) \in nodes'[Bar]
                      /\ \A u \in Threads : sh2[u].k = "bad" => sh2[u].pc = "unlock"
                      /\ \A u \in Threads : Adding(sh2[u]) => map1[sh2[u].bo] # sh2[u].at
    BY <1>2 DEF BarExact, Adding
  <2>1. nodes'[Bar] = nodes[Bar] \ {n0}
    BY <1>6, Spaced
  <2>2. \A c \in Bos : gref[c] > 0 /\ map1[c] # Null => Node(c, map1[c]) \in nodes'[Bar]
    <3> SUFFICES ASSUME NEW c \in Bos, gref[c] > 0, map1[c] # Null
                 PROVE  Node(c, map1[c]) \in nodes'[Bar]
      OBVIOUS
    <3>1. gref[b] = 0
      BY <1>1, <1>3 DEF Objects
    <3>2. c # b
      BY <3>1
    <3>3. Node(c, map1[c]).bo = c
      BY DEF Node
    <3> QED
      BY <1>1, <1>7, <2>1, <3>2, <3>3 DEF BarExact
  <2>3. ASSUME NEW u \in Threads, sh2[u].pc \in Freeing \ {"funlock", "release"}
        PROVE  BarNode(sh2[u]) \in nodes'[Bar]
    <3>1. u # t /\ sh2[u] = sh[u]
      BY <1>9, <1>11, <2>3
    <3>2. BarNode(sh[u]) \in nodes[Bar]
      BY <1>1, <2>3, <3>1 DEF BarExact
    <3>3. sh[u].bo # b
      BY <1>1, <1>3, <2>3, <3>1 DEF Objects
    <3>4. BarNode(sh[u]).bo = sh[u].bo
      BY DEF BarNode, Node
    <3> QED
      BY <1>7, <2>1, <3>1, <3>2, <3>3, <3>4
  <2>4. ASSUME NEW u \in Threads
        PROVE  /\ sh2[u].k = "bad" => sh2[u].pc = "unlock"
               /\ Adding(sh2[u]) => map1[sh2[u].bo] # sh2[u].at
    <3>1. CASE u = t
      BY <1>4, <1>9, <1>10, <3>1
    <3>2. CASE u # t
      BY <1>1, <1>11, <3>2 DEF BarExact, Adding
    <3> QED
      BY <3>1, <3>2
  <2> QED
    BY <2>2, <2>3, <2>4
<1>24. Windowed(sh2)'
  <2>1. sh2[t].k # "mmap"
    BY <1>4, <1>9
  <2> QED
    BY <1>1, <1>2, <1>8, <2>1, KeepWindowed
<1>25. Inv(sh2)'
  BY <1>8, <1>13, <1>14, <1>15, <1>16, <1>17, <1>18, <1>19, <1>20, <1>21, <1>22, <1>23, <1>24 DEF Inv
<1> QED
  BY <1>25 DEF IInv

\* A node goes, and with it the reference that was lent, if any.
LEMMA MmFreeKeeps ==
  ASSUME NEW sh \in [Threads -> Stages], Inv(sh), NEW t \in Threads, MmFree(t)
  PROVE  IInv'
<1>1. sh[t].pc \in {"mmfree", "fmmfree"}
  BY InvIs, AtIs DEF MmFree
<1> QED
  BY <1>1, MmFreeOwnKeeps, FMmFreeKeeps

\* A thread gives a reference back, and goes on with what it was at.
LEMMA GivesBack ==
  ASSUME NEW sh \in [Threads -> Stages], Inv(sh), NEW t \in Threads, NEW sh2 \in [Threads -> Stages],
         Moves(sh, sh2, t), gref' = [gref EXCEPT ![sh[t].bo] = @ - 1],
         UNCHANGED <<st, handle, mmaps, map1, twice, leaked, alive, nodes, pt, tlb, late, lock>>,
         sh2[t].k = sh[t].k, sh2[t].vs = sh[t].vs, sh2[t].bo = sh[t].bo, sh2[t].at = sh[t].at,
         \/ sh[t].pc = "drop" /\ sh2[t].pc \in {"idle", "flock", "release"}
         \/ sh[t].pc = "put" /\ sh2[t].pc \in {"mmfree", "flock", "release"}
  PROVE  /\ Types' /\ Locks(sh2)' /\ Nodes(sh2)' /\ Downs(sh2)' /\ Balance(sh2)' /\ Mmaps(sh2)'
         /\ Tables(sh2)' /\ Filled(sh2)' /\ Windowed(sh2)'
         /\ sh[t].bo \in Bos /\ gref[sh[t].bo] > 0 /\ gref'[sh[t].bo] = gref[sh[t].bo] - 1
         /\ Owes(sh[t], sh[t].bo)
         /\ \A c \in Bos : c # sh[t].bo => gref'[c] = gref[c]
         /\ sh[t].k \in {"none", "map", "down"} /\ sh[t].pc \notin Freeing
         /\ ~Adding(sh2[t]) /\ \A n : ~Puts(sh[t], n)
<1>1. /\ Programs(sh) /\ Types /\ Locks(sh) /\ Nodes(sh) /\ Downs(sh) /\ Balance(sh)
      /\ Mmaps(sh) /\ Tables(sh) /\ Filled(sh) /\ Windowed(sh) /\ WellFormed(sh[t])
  BY InvIs
<1> DEFINE s == sh[t]
           r == sh2[t]
           b == s.bo
<1>2. /\ s.pc = "drop" => s.k = "none"
      /\ s.pc = "put" => s.k \in {"map", "down"}
      /\ s.pc \in {"drop", "put"} /\ b \in Bos /\ (s.k \in {"map", "down"} => s.vs \in Vs /\ s.vs # Bar)
  <2>1. s.pc = "drop" => s.k = "none"
    BY <1>1, FormIs DEF Suits, Kinds, WithNode, Freeing
  <2>2. s.pc = "put" => s.k \in {"map", "down"}
    BY <1>1, FormIs DEF Suits, Kinds, WithNode, Freeing
  <2>3. s.bo \in Bos
    BY <1>1 DEF WellFormed
  <2> QED
    BY <1>1, <2>1, <2>2, <2>3, FormIs
<1>3. /\ (Has(r) <=> Has(s)) /\ NodeOf(r) = NodeOf(s)
      /\ \A vs \in Spaces : Holding(r, vs) <=> Holding(s, vs)
      /\ \A vs, n : Owns(r, vs, n) <=> Owns(s, vs, n)
      /\ \A vs, n : Forgotten(r, vs, n) => Forgotten(s, vs, n)
      /\ \A vs, n, p : Cleared(r, vs, n, p) => Cleared(s, vs, n, p)
      /\ \A c : (Lent(r, c) <=> Lent(s, c)) /\ ~Owes(r, c) /\ (Owes(s, c) <=> c = b)
      /\ ~Adding(r) /\ s.pc \notin Freeing
      /\ \A n : ~Puts(s, n)
  <2>0. r.k = s.k /\ r.vs = s.vs /\ r.bo = s.bo /\ r.at = s.at 
        /\ \/ s.pc = "drop" /\ r.pc \in {"idle", "flock", "release"}
           \/ s.pc = "put" /\ r.pc \in {"mmfree", "flock", "release"}
    OBVIOUS
  <2> HIDE DEF s, r
  <2>1. NodeOf(r) = NodeOf(s)
    BY <2>0 DEF NodeOf
  <2>2. Has(r) <=> Has(s)
    BY <1>2, <2>0 DEF Has, WithNode, Freeing
  <2>3. \A vs \in Spaces : Holding(r, vs) <=> Holding(s, vs)
    BY <1>2, <2>0 DEF Holding, Locked, BarLocked, Freeing
  <2>4. \A vs, n : Owns(r, vs, n) <=> Owns(s, vs, n)
    BY <2>0, <2>1, <2>2 DEF Owns
  <2>5. \A vs, n : Forgotten(r, vs, n) => Forgotten(s, vs, n)
    BY <1>2, <2>0, <2>1 DEF Forgotten, Freeing
  <2>6. \A vs, n, p : Cleared(r, vs, n, p) => Cleared(s, vs, n, p)
    BY <1>2, <2>0, <2>1 DEF Cleared, Freeing
  <2>7. \A c : Lent(r, c) <=> Lent(s, c)
    BY <1>2, <2>0, <2>2 DEF Lent
  <2>8. \A c : ~Owes(r, c) /\ (Owes(s, c) <=> c = b)
    BY <1>2, <2>0 DEF Owes
  <2>9. ~Adding(r) /\ \A n : ~Puts(s, n)
    BY <1>2, <2>0 DEF Adding, Puts
  <2>10. s.pc \notin Freeing
    BY <1>2 DEF Freeing
  <2> QED
    BY <2>1, <2>2, <2>3, <2>4, <2>5, <2>6, <2>7, <2>8, <2>9, <2>10
<1>4. /\ gref[b] > 0 /\ gref'[b] = gref[b] - 1 /\ gref[b] \in Nat
      /\ \A c \in Bos : c # b => gref'[c] = gref[c]
  <2>1. Owes(s, b)
    BY <1>3
  <2>2. gref[b] > 0
    BY <1>1, <1>2, <2>1, Keeping
  <2> QED
    BY <1>1, <1>2, <2>2 DEF Types
<1>5. Types'
  <2>1. gref' \in [Bos -> Nat]
    BY <1>1, <1>2, <1>4 DEF Types
  <2> QED
    BY <1>1, <2>1 DEF Types
<1>6. Locks(sh2)'
  BY <1>1, <1>3, KeepLocks
<1>7. Nodes(sh2)'
  <2>1. Has(sh2[t]) => NodeOf(sh2[t]) \in nodes[sh2[t].vs]
    BY <1>1, <1>3 DEF Nodes
  <2> QED
    BY <1>1, <2>1, KeepNodes
<1>8. Downs(sh2)'
  <2>1. s.k = "map" => alive[s.vs]
    BY <1>1 DEF Downs
  <2> QED
    BY <1>1, <2>1, KeepDowns
<1>9. Balance(sh2)'
  <2> SUFFICES ASSUME NEW c \in Bos
        PROVE  gref'[c] - gref[c] + One(Lent(r, c)) - One(Lent(s, c))
                 = One(handle'[c]) - One(handle[c]) + (mmaps'[c] - mmaps[c]) + (leaked'[c] - leaked[c])
                     + One(Owes(r, c)) - One(Owes(s, c))
    BY <1>1, <1>5, KeepRefs
  <2> DEFINE h == One(handle[c])
             l == One(Lent(s, c))
             o == One(Owes(s, c))
  <2>1. One(Lent(r, c)) = l /\ One(Owes(r, c)) = 0
    BY <1>3 DEF One
  <2>2. gref'[c] - gref[c] = 0 - o /\ o \in Int
    <3>1. CASE c = b
      BY <1>3, <1>4, <3>1 DEF One
    <3>2. CASE c # b
      BY <1>1, <1>3, <1>4, <3>2 DEF One, Types
    <3> QED
      BY <3>1, <3>2
  <2>3. mmaps'[c] - mmaps[c] = 0 /\ leaked'[c] - leaked[c] = 0
    BY <1>1 DEF Types
  <2>4. One(handle'[c]) = h /\ h \in Int /\ l \in Int
    BY DEF One
  <2> HIDE DEF h, l, o
  <2>5. 0 - o + l - l = h - h + 0 + 0 + 0 - o
    BY <2>2, <2>4
  <2> QED
    BY <2>1, <2>2, <2>3, <2>4, <2>5 DEF h, l, o
<1>10. Mmaps(sh2)'
  <2>1. Cardinality(Windows) \in Nat
    BY SameWindows
  <2> QED
    BY <1>1, <2>1, KeepMmaps
<1>11. Tables(sh2)'
  <2>1. \A vs \in Spaces : alive'[vs] => alive[vs] /\ pt'[vs] = pt[vs] /\ tlb'[vs] = tlb[vs] /\ late'[vs] = late[vs]
    OBVIOUS
  <2>2. \A vs, n, p : /\ Cleared(sh2[t], vs, n, p) => Cleared(sh[t], vs, n, p)
                      /\ Forgotten(sh2[t], vs, n) => Forgotten(sh[t], vs, n)
    BY <1>3
  <2> QED
    BY <1>1, <2>1, <2>2, KeepTables
<1>12. Filled(sh2)'
  <2>1. \A vs \in Spaces : alive'[vs] /\ Kept(vs) =>
           /\ alive[vs] /\ pt'[vs] = pt[vs]
           /\ \A n \in nodes'[vs] : n \in nodes[vs]
    OBVIOUS
  <2>2. \A vs, n : ~(Owns(sh[t], vs, n) /\ ~Owns(sh2[t], vs, n))
    BY <1>3
  <2>3. sh2[t].pc \notin {"write", "assign"}
    OBVIOUS
  <2> QED
    BY <1>1, <2>1, <2>2, <2>3, KeepFilled
<1>13. Windowed(sh2)'
  BY <1>1, <1>2, KeepWindowed
<1> QED
  BY <1>2, <1>3, <1>4, <1>5, <1>6, <1>7, <1>8, <1>9, <1>10, <1>11, <1>12, <1>13

\* A reference that is not the last one.
LEMMA UnrefMoreKeeps ==
  ASSUME NEW sh \in [Threads -> Stages], Inv(sh), NEW t \in Threads, Unref(t), gref[Now(t).bo] # 1
  PROVE  IInv'
<1>1. /\ Programs(sh) /\ Types /\ Objects(sh) /\ InBar(sh) /\ BarExact(sh)
      /\ WellFormed(sh[t]) /\ Nodes(sh)
  BY InvIs
<1> DEFINE s == sh[t]
           b == s.bo
<1>2. /\ At(t, "unref") /\ Then(t, <<>>) /\ gref' = [gref EXCEPT ![Now(t).bo] = @ - 1]
      /\ UNCHANGED <<st, handle, mmaps, map1, twice, leaked, alive, nodes, pt, tlb, late, lock>>
  BY DEF Unref, spacevars
<1>3. s.pc \in {"drop", "put"} /\ Now(t) = NowOf(s)
  BY <1>1, <1>2, AtIs, HereIs
<1>4. Now(t).bo = b
  <2>1. Now(t) = On("unref", b)
    BY <1>3, NowOfIs
  <2> QED
    BY <2>1 DEF On, Op
<1>5. PICK sh2 \in [Threads -> Stages] :
           Moves(sh, sh2, t) /\ Programs(sh2)' /\ WellFormed(sh2[t]) /\ Onward(sh[t], sh2[t])
  BY <1>1, <1>2, GoesOn
<1> DEFINE r == sh2[t]
<1>6. /\ \/ s.pc = "drop" /\ r.pc = "idle"
         \/ s.pc = "put" /\ r.pc = "mmfree"
      /\ r.k = s.k /\ r.vs = s.vs /\ r.bo = b /\ r.at = s.at
  <2>1. s.pc = "drop" => s.k = "none"
    BY <1>1, FormIs DEF Suits, Kinds, WithNode, Freeing
  <2> QED
    BY <1>3, <1>5, <2>1, NextPcIs DEF Onward
<1>7. /\ Types' /\ Locks(sh2)' /\ Nodes(sh2)' /\ Downs(sh2)' /\ Balance(sh2)' /\ Mmaps(sh2)'
      /\ Tables(sh2)' /\ Filled(sh2)' /\ Windowed(sh2)'
      /\ b \in Bos /\ gref[b] > 0 /\ gref'[b] = gref[b] - 1
      /\ \A c \in Bos : c # b => gref'[c] = gref[c]
      /\ s.k \in {"none", "map", "down"} /\ s.pc \notin Freeing
      /\ ~Adding(r) /\ \A n : ~Puts(s, n)
  <2>1. gref' = [gref EXCEPT ![b] = @ - 1]
    BY <1>2, <1>4
  <2>2. \/ s.pc = "drop" /\ r.pc \in {"idle", "flock", "release"}
        \/ s.pc = "put" /\ r.pc \in {"mmfree", "flock", "release"}
    BY <1>6
  <2>3. sh2[t].k = sh[t].k /\ sh2[t].vs = sh[t].vs /\ sh2[t].bo = sh[t].bo /\ sh2[t].at = sh[t].at
    BY <1>6
  <2> QED
    BY <1>2, <1>5, <2>1, <2>2, <2>3, GivesBack
<1>8. \A c \in Bos : (gref'[c] > 0 <=> gref[c] > 0) /\ (gref'[c] = 0 <=> gref[c] = 0)
  <2>1. gref[b] \in Nat /\ gref[b] # 1
    BY <1>1, <1>4, <1>7 DEF Types
  <2> QED
    BY <1>7, <2>1
<1>9. r.pc \notin Freeing
  BY <1>6 DEF Freeing
<1>10. Objects(sh2)'
  <2>1. \A u \in Threads : sh[u].pc \in Freeing => sh[u].bo \in Bos
    BY <1>1, Freers
  <2>2. \A c \in Bos : st[c] = "none" => map1'[c] = Null
    BY <1>1, <1>2 DEF Objects
  <2> QED
    BY <1>1, <1>2, <1>5, <1>7, <1>8, <1>9, <2>1, <2>2, KeepObjects
<1>11. InBar(sh2)'
  <2>1. \A n \in nodes'[Bar] : n \in nodes[Bar] /\ (n.bo \notin twice => st'[n.bo] = "live")
    BY <1>1, <1>2 DEF InBar
  <2> QED
    BY <1>1, <1>2, <1>5, <1>7, <1>9, <2>1, KeepInBar
<1>12. BarExact(sh2)'
  <2>1. sh2[t].k # "bad"
    BY <1>6, <1>7
  <2> QED
    BY <1>1, <1>2, <1>5, <1>7, <1>8, <1>9, <2>1, KeepBarExact
<1>13. Inv(sh2)'
  BY <1>5, <1>7, <1>10, <1>11, <1>12 DEF Inv
<1> QED
  BY <1>13 DEF IInv

\* The last reference: nobody else owes one, so nobody is putting the object into the BAR.
LEMMA UnrefLastKeeps ==
  ASSUME NEW sh \in [Threads -> Stages], Inv(sh), NEW t \in Threads, Unref(t), gref[Now(t).bo] = 1
  PROVE  IInv'
<1>1. /\ Programs(sh) /\ Types /\ Locks(sh) /\ Nodes(sh) /\ Downs(sh) /\ Balance(sh)
      /\ Objects(sh) /\ InBar(sh) /\ BarExact(sh) /\ WellFormed(sh[t])
  BY InvIs
<1> DEFINE s == sh[t]
           b == s.bo
<1>2. /\ At(t, "unref") /\ Then(t, MemFree(Now(t).bo)) /\ gref' = [gref EXCEPT ![Now(t).bo] = @ - 1]
      /\ UNCHANGED <<st, handle, mmaps, map1, twice, leaked, alive, nodes, pt, tlb, late, lock>>
  BY DEF Unref, spacevars
<1> DEFINE r == Stage(IF map1[b] = Null THEN "release" ELSE "flock", s.k, s.vs, b, s.at, map1[b], 0)
<1>3. Goes(t, r) /\ s.pc \in {"drop", "put"} /\ b \in Bos /\ Now(t).bo = b
  <2>1. map1 \in [Bos -> Page(Bar) \cup {Null}]
    BY <1>1 DEF Types
  <2> QED
    BY <1>1, <1>2, <2>1, UnrefMove
<1>4. /\ r.pc = (IF map1[b] = Null THEN "release" ELSE "flock")
      /\ r.k = s.k /\ r.vs = s.vs /\ r.bo = b /\ r.at = s.at /\ r.bat = map1[b]
  BY StageIs
<1> HIDE DEF r
<1>5. PICK sh2 \in [Threads -> Stages] :
           Moves(sh, sh2, t) /\ sh2[t] = r /\ WellFormed(r) /\ Programs(sh2)'
  BY <1>1, <1>3, Arrives
<1>6. /\ Types' /\ Locks(sh2)' /\ Nodes(sh2)' /\ Downs(sh2)' /\ Balance(sh2)' /\ Mmaps(sh2)'
      /\ Tables(sh2)' /\ Filled(sh2)' /\ Windowed(sh2)'
      /\ b \in Bos /\ gref[b] > 0 /\ gref'[b] = gref[b] - 1 /\ Owes(s, b)
      /\ \A c \in Bos : c # b => gref'[c] = gref[c]
      /\ s.k \in {"none", "map", "down"} /\ s.pc \notin Freeing
      /\ ~Adding(r) /\ \A n : ~Puts(s, n)
  <2>1. gref' = [gref EXCEPT ![b] = @ - 1]
    BY <1>2, <1>3
  <2>2. \/ s.pc = "drop" /\ r.pc \in {"idle", "flock", "release"}
        \/ s.pc = "put" /\ r.pc \in {"mmfree", "flock", "release"}
    BY <1>3, <1>4
  <2>3. sh2[t].k = sh[t].k /\ sh2[t].vs = sh[t].vs /\ sh2[t].bo = sh[t].bo /\ sh2[t].at = sh[t].at
    BY <1>4, <1>5
  <2> QED
    BY <1>2, <1>5, <2>1, <2>2, <2>3, GivesBack
<1>7. gref[b] = 1 /\ gref'[b] = 0 /\ st[b] = "live" /\ r.pc \in Freeing
  <2>1. gref[b] = 1 /\ gref'[b] = 0
    BY <1>3, <1>6
  <2>2. r.pc \in Freeing
    BY <1>4 DEF Freeing
  <2> QED
    BY <1>1, <1>6, <2>1, <2>2 DEF Objects
<1>8. \A u \in Threads : u # t => sh2[u] = sh[u]
  BY <1>5 DEF Moves
<1>9. Objects(sh2)'
  <2>1. \A c \in Bos : gref'[c] > 0 => st'[c] = "live"
    BY <1>1, <1>2, <1>6, <1>7 DEF Objects
  <2>2. \A c \in Bos : st'[c] = "none" => map1'[c] = Null
    BY <1>1, <1>2 DEF Objects
  <2>3. ASSUME NEW u \in Threads, u # t, sh2[u].pc \in Freeing
        PROVE  sh2[u] = sh[u] /\ sh[u].bo # b /\ sh[u].bo \in Bos
    <3>1. gref[sh[u].bo] = 0
      BY <1>1, <1>8, <2>3 DEF Objects
    <3> QED
      BY <1>1, <1>7, <1>8, <2>3, <3>1, Freers
  <2>4. ASSUME NEW u \in Threads, sh2[u].pc \in Freeing
        PROVE  gref'[sh2[u].bo] = 0 /\ st'[sh2[u].bo] = "live"
    <3>1. CASE u = t
      BY <1>2, <1>4, <1>5, <1>7, <3>1
    <3>2. CASE u # t
      BY <1>1, <1>2, <1>6, <2>3, <2>4, <3>2 DEF Objects
    <3> QED
      BY <3>1, <3>2
  <2>5. ASSUME NEW u \in Threads, NEW w \in Threads, sh2[u].pc \in Freeing, sh2[w].pc \in Freeing,
               sh2[u].bo = sh2[w].bo
        PROVE  u = w
    <3>1. CASE u # t /\ w # t
      BY <1>1, <2>3, <2>5, <3>1 DEF Objects
    <3>2. CASE u = t \/ w = t
      BY <1>4, <1>5, <2>3, <2>5, <3>2
    <3> QED
      BY <3>1, <3>2
  <2>6. ASSUME NEW c \in Bos, st'[c] = "live", gref'[c] = 0
        PROVE  \E u \in Threads : sh2[u].pc \in Freeing /\ sh2[u].bo = c
    <3>1. CASE c = b
      BY <1>4, <1>5, <1>7, <3>1
    <3>2. CASE c # b
      <4>1. PICK u \in Threads : sh[u].pc \in Freeing /\ sh[u].bo = c
        BY <1>1, <1>2, <1>6, <2>6, <3>2 DEF Objects
      <4>2. u # t
        BY <1>6, <4>1
      <4> QED
        BY <1>8, <4>1, <4>2
    <3> QED
      BY <3>1, <3>2
  <2> QED
    BY <2>1, <2>2, <2>4, <2>5, <2>6 DEF Objects
<1>10. InBar(sh2)'
  <2>1. \A n \in nodes'[Bar] : n \in nodes[Bar] /\ (n.bo \notin twice => st'[n.bo] = "live")
    BY <1>1, <1>2 DEF InBar
  <2>2. ASSUME map1[b] = Null, b \notin twice, NEW n \in nodes[Bar], n.bo = b
        PROVE  FALSE
    <3>1. n.at # Null
      BY <1>1, Spaced, NodesAre
    <3>2. PICK u \in Threads : sh[u].k \in {"mmap", "bad"} /\ Owns(sh[u], Bar, n)
      BY <1>1, <2>2, <3>1 DEF InBar
    <3>3. sh[u].bo = b
      BY <2>2, <3>2 DEF Owns, NodeOf, BarNode, Node
    <3>4. Owes(sh[u], b)
      BY <3>2, <3>3 DEF Owes
    <3>5. u = t
      BY <1>1, <1>6, <1>7, <3>4, Keeping
    <3> QED
      BY <1>6, <3>2, <3>5
  <2>3. IF sh2[t].pc \in {"funlock", "release"}
          THEN sh2[t].bo \in twice \/ \A n \in nodes'[Bar] : n.bo # sh2[t].bo
          ELSE map1[sh2[t].bo] = sh2[t].bat
    BY <1>2, <1>4, <1>5, <2>2
  <2> QED
    BY <1>1, <1>2, <1>5, <1>6, <2>1, <2>3, KeepInBar
<1>11. BarExact(sh2)'
  <2>1. sh2[t].k # "bad" /\ ~Adding(sh2[t])
    BY <1>4, <1>5, <1>6
  <2>2. ~BarMapFails => (sh2[t].pc \in Freeing \ {"funlock", "release"} => BarNode(sh2[t]) \in nodes'[Bar])
    BY <1>1, <1>2, <1>4, <1>5, <1>6 DEF BarExact, BarNode
  <2>3. \A c \in Bos : gref'[c] > 0 => gref[c] > 0
    BY <1>6
  <2> QED
    BY <1>1, <1>2, <1>5, <2>1, <2>2, <2>3, KeepBarExact
<1>12. Inv(sh2)'
  BY <1>5, <1>6, <1>9, <1>10, <1>11 DEF Inv
<1> QED
  BY <1>12 DEF IInv

\* Every reference that is given back.
LEMMA UnrefKeeps ==
  ASSUME NEW sh \in [Threads -> Stages], Inv(sh), NEW t \in Threads, Unref(t)
  PROVE  IInv'
BY UnrefMoreKeeps, UnrefLastKeeps

\* The memory goes; the object is in the BAR no more, and what is lent of it is cleared and
\* forgotten.
LEMMA ReleaseKeeps ==
  ASSUME NEW sh \in [Threads -> Stages], Inv(sh), NEW t \in Threads, Release(t)
  PROVE  IInv'
<1>1. /\ Programs(sh) /\ Types /\ Locks(sh) /\ Nodes(sh) /\ Downs(sh) /\ Balance(sh) /\ Objects(sh)
      /\ Mmaps(sh) /\ InBar(sh) /\ Tables(sh) /\ Filled(sh) /\ BarExact(sh) /\ Windowed(sh)
      /\ WellFormed(sh[t])
  BY InvIs
<1> DEFINE s == sh[t]
           b == s.bo
<1>2. /\ At(t, "release") /\ Then(t, <<>>) /\ st' = [st EXCEPT ![Now(t).bo] = "freed"]
      /\ UNCHANGED <<gref, handle, mmaps, map1, twice, leaked, alive, nodes, pt, tlb, late, lock>>
  BY DEF Release, spacevars
<1>3. s.pc = "release" /\ Now(t) = NowOf(s) /\ s.pc \in Freeing
  BY <1>1, <1>2, AtIs, HereIs DEF Freeing
<1>4. s.k \in {"none", "map", "down"} /\ b \in Bos /\ (s.k \in {"map", "down"} => s.vs # Bar)
  BY <1>1, <1>3, FormIs
<1>5. \A c \in Bos : st'[c] = IF c = b THEN "freed" ELSE st[c]
  <2>1. Now(t) = On("release", b)
    BY <1>3, NowOfIs
  <2>2. Now(t).bo = b
    BY <2>1 DEF On, Op
  <2> QED
    BY <1>1, <1>2, <1>4, <2>2 DEF Types
<1>6. PICK sh2 \in [Threads -> Stages] :
           Moves(sh, sh2, t) /\ Programs(sh2)' /\ WellFormed(sh2[t]) /\ Onward(sh[t], sh2[t])
  BY <1>1, <1>2, GoesOn
<1> DEFINE r == sh2[t]
<1>7. /\ \/ s.k = "none" /\ r.pc = "idle"
         \/ s.k \in {"map", "down"} /\ r.pc = "mmfree"
      /\ r.k = s.k /\ r.vs = s.vs /\ r.bo = b /\ r.at = s.at
  BY <1>3, <1>4, <1>6, NextPcIs DEF Onward
<1>8. /\ (Has(r) <=> Has(s)) /\ NodeOf(r) = NodeOf(s)
      /\ \A vs \in Spaces : Holding(r, vs) <=> Holding(s, vs)
      /\ \A vs, n : Owns(r, vs, n) <=> Owns(s, vs, n)
      /\ \A vs, n : Forgotten(r, vs, n) => Forgotten(s, vs, n)
      /\ \A vs, n, p : Cleared(r, vs, n, p) => Cleared(s, vs, n, p)
      /\ \A c : (Lent(r, c) <=> Lent(s, c)) /\ ~Owes(r, c) /\ ~Owes(s, c)
      /\ ~Adding(r) /\ r.pc \notin Freeing
      /\ \A n : ~Puts(s, n)
  <2> HIDE DEF s, r
  <2>1. NodeOf(r) = NodeOf(s)
    BY <1>7 DEF NodeOf
  <2>2. (Has(r) <=> Has(s)) /\ r.pc \notin Freeing
    BY <1>3, <1>7 DEF Has, WithNode, Freeing
  <2>3. \A vs \in Spaces : Holding(r, vs) <=> Holding(s, vs)
    BY <1>3, <1>7 DEF Holding, Locked, BarLocked, Freeing
  <2>4. \A vs, n : Owns(r, vs, n) <=> Owns(s, vs, n)
    BY <1>3, <1>7, <2>1, <2>2 DEF Owns
  <2>5. \A vs, n : Forgotten(r, vs, n) => Forgotten(s, vs, n)
    BY <1>3, <1>7, <2>1 DEF Forgotten, Freeing
  <2>6. \A vs, n, p : Cleared(r, vs, n, p) => Cleared(s, vs, n, p)
    BY <1>3, <1>7, <2>1 DEF Cleared, Freeing
  <2>7. \A c : Lent(r, c) <=> Lent(s, c)
    BY <1>3, <1>7, <2>2 DEF Lent
  <2>8. \A c : ~Owes(r, c) /\ ~Owes(s, c)
    BY <1>3, <1>4, <1>7 DEF Owes
  <2>9. ~Adding(r) /\ \A n : ~Puts(s, n)
    BY <1>4, <1>7 DEF Adding, Puts
  <2> QED
    BY <2>1, <2>2, <2>3, <2>4, <2>5, <2>6, <2>7, <2>8, <2>9
<1>9. \A u \in Threads : u # t => sh2[u] = sh[u]
  BY <1>6 DEF Moves
<1>10. gref[b] = 0 /\ (b \in twice \/ \A n \in nodes[Bar] : n.bo # b)
       /\ \A u \in Threads : u # t /\ sh[u].pc \in Freeing => sh[u].bo # b
  BY <1>1, <1>3 DEF Objects, InBar
<1>11. Types'
  <2>1. st' \in [Bos -> {"none", "live", "freed"}]
    BY <1>1, <1>2 DEF Types
  <2> QED
    BY <1>1, <1>2, <2>1 DEF Types
<1>12. Locks(sh2)'
  BY <1>1, <1>2, <1>6, <1>8, KeepLocks
<1>13. Nodes(sh2)'
  <2>1. Has(sh2[t]) => NodeOf(sh2[t]) \in nodes[sh2[t].vs]
    BY <1>1, <1>7, <1>8 DEF Nodes
  <2> QED
    BY <1>1, <1>2, <1>6, <2>1, KeepNodes
<1>14. Downs(sh2)'
  <2>1. s.k = "map" => alive[s.vs]
    BY <1>1 DEF Downs
  <2> QED
    BY <1>1, <1>2, <1>6, <1>7, <2>1, KeepDowns
<1>15. Balance(sh2)'
  <2> SUFFICES ASSUME NEW c \in Bos
        PROVE  gref'[c] - gref[c] + One(Lent(r, c)) - One(Lent(s, c))
                 = One(handle'[c]) - One(handle[c]) + (mmaps'[c] - mmaps[c]) + (leaked'[c] - leaked[c])
                     + One(Owes(r, c)) - One(Owes(s, c))
    BY <1>1, <1>2, <1>6, <1>11, KeepRefs
  <2> DEFINE h == One(handle[c])
             l == One(Lent(s, c))
  <2>1. One(Lent(r, c)) = l /\ One(Owes(r, c)) = 0 /\ One(Owes(s, c)) = 0
    BY <1>8 DEF One
  <2>2. gref'[c] - gref[c] = 0 /\ mmaps'[c] - mmaps[c] = 0 /\ leaked'[c] - leaked[c] = 0
    BY <1>1, <1>2 DEF Types
  <2>3. One(handle'[c]) = h /\ h \in Int /\ l \in Int
    BY <1>2 DEF One
  <2> HIDE DEF h, l
  <2>4. 0 + l - l = h - h + 0 + 0 + 0 - 0
    BY <2>3
  <2> QED
    BY <2>1, <2>2, <2>3, <2>4 DEF h, l
<1>16. Objects(sh2)'
  <2>1. \A c \in Bos : gref'[c] > 0 => st'[c] = "live"
    BY <1>1, <1>2, <1>5, <1>10 DEF Objects
  <2>2. \A c \in Bos : st'[c] = "none" => map1'[c] = Null
    BY <1>1, <1>2, <1>5 DEF Objects
  <2>3. ASSUME NEW u \in Threads, sh2[u].pc \in Freeing
        PROVE  u # t /\ sh2[u] = sh[u] /\ sh[u].bo # b /\ sh[u].bo \in Bos
    BY <1>1, <1>8, <1>9, <1>10, <2>3, Freers
  <2>4. ASSUME NEW u \in Threads, sh2[u].pc \in Freeing
        PROVE  gref'[sh2[u].bo] = 0 /\ st'[sh2[u].bo] = "live"
    BY <1>1, <1>2, <1>5, <2>3, <2>4 DEF Objects
  <2>5. ASSUME NEW u \in Threads, NEW w \in Threads, sh2[u].pc \in Freeing, sh2[w].pc \in Freeing,
               sh2[u].bo = sh2[w].bo
        PROVE  u = w
    BY <1>1, <2>3, <2>5 DEF Objects
  <2>6. ASSUME NEW c \in Bos, st'[c] = "live", gref'[c] = 0
        PROVE  \E u \in Threads : sh2[u].pc \in Freeing /\ sh2[u].bo = c
    <3>1. c # b
      BY <1>5, <2>6
    <3>2. PICK u \in Threads : sh[u].pc \in Freeing /\ sh[u].bo = c
      BY <1>1, <1>2, <1>5, <2>6, <3>1 DEF Objects
    <3> QED
      BY <1>9, <3>1, <3>2
  <2> QED
    BY <2>1, <2>2, <2>4, <2>5, <2>6 DEF Objects
<1>17. Mmaps(sh2)'
  <2>1. Cardinality(Windows) \in Nat
    BY <1>2, SameWindows
  <2>2. sh2[t].k # "mmap"
    BY <1>4, <1>7
  <2> QED
    BY <1>1, <1>2, <1>6, <2>1, <2>2, KeepMmaps
<1>18. InBar(sh2)'
  <2>1. ASSUME NEW n \in nodes[Bar], n.bo \notin twice
        PROVE  st'[n.bo] = "live"
    <3>1. n.bo \in Bos
      BY <1>1, Spaced, NodesAre
    <3> QED
      BY <1>1, <1>5, <1>10, <2>1, <3>1 DEF InBar
  <2>2. \A n \in nodes'[Bar] : n \in nodes[Bar] /\ (n.bo \notin twice => st'[n.bo] = "live")
    BY <1>2, <2>1
  <2> QED
    BY <1>1, <1>2, <1>6, <1>8, <2>2, KeepInBar
<1>19. Tables(sh2)'
  <2>1. \A vs \in Spaces : alive'[vs] => alive[vs] /\ pt'[vs] = pt[vs] /\ tlb'[vs] = tlb[vs] /\ late'[vs] = late[vs]
    BY <1>2
  <2>2. \A vs, n, p : /\ Cleared(sh2[t], vs, n, p) => Cleared(sh[t], vs, n, p)
                      /\ Forgotten(sh2[t], vs, n) => Forgotten(sh[t], vs, n)
    BY <1>8
  <2> QED
    BY <1>1, <1>2, <1>6, <2>1, <2>2, KeepTables
<1>20. Filled(sh2)'
  <2>1. \A vs \in Spaces : alive'[vs] /\ Kept(vs) =>
           /\ alive[vs] /\ pt'[vs] = pt[vs]
           /\ \A n \in nodes'[vs] : n \in nodes[vs]
    BY <1>2
  <2>2. \A vs, n : ~(Owns(sh[t], vs, n) /\ ~Owns(sh2[t], vs, n))
    BY <1>8
  <2>3. sh2[t].pc \notin {"write", "assign"}
    BY <1>7
  <2> QED
    BY <1>1, <1>6, <2>1, <2>2, <2>3, KeepFilled
<1>21. BarExact(sh2)'
  <2>1. sh2[t].k # "bad"
    BY <1>4, <1>7
  <2> QED
    BY <1>1, <1>2, <1>6, <1>8, <2>1, KeepBarExact
<1>22. Windowed(sh2)'
  <2>1. sh2[t].k # "mmap"
    BY <1>4, <1>7
  <2> QED
    BY <1>1, <1>2, <1>6, <2>1, KeepWindowed
<1>23. Inv(sh2)'
  BY <1>6, <1>11, <1>12, <1>13, <1>14, <1>15, <1>16, <1>17, <1>18, <1>19, <1>20, <1>21, <1>22 DEF Inv
<1> QED
  BY <1>23 DEF IInv

-----------------------------------------------------------------------------
(* The steps of the card, and the invariant                                *)

\* What does not speak of the TLBs.
LEMMA OnlyTlb ==
  ASSUME NEW sh, Inv(sh), UNCHANGED <<objvars, alive, nodes, pt, lock, todo>>
  PROVE  /\ Programs(sh)' /\ Locks(sh)' /\ Nodes(sh)' /\ Downs(sh)' /\ Balance(sh)' /\ Objects(sh)'
         /\ Mmaps(sh)' /\ InBar(sh)' /\ Filled(sh)' /\ BarExact(sh)' /\ Windowed(sh)'
<1>1. UNCHANGED <<st, gref, handle, mmaps, map1, twice, leaked, alive, nodes, pt, lock, todo>>
  BY DEF objvars
<1>2. /\ Programs(sh) /\ Locks(sh) /\ Nodes(sh) /\ Downs(sh) /\ Balance(sh) /\ Objects(sh)
      /\ Mmaps(sh) /\ InBar(sh) /\ Filled(sh) /\ BarExact(sh) /\ Windowed(sh)
  BY InvIs
<1>3. Programs(sh)' /\ Locks(sh)' /\ Nodes(sh)' /\ Downs(sh)' /\ Objects(sh)'
  <2>1. Programs(sh)'
    BY <1>1, <1>2 DEF Programs
  <2>2. Locks(sh)'
    BY <1>1, <1>2 DEF Locks
  <2>3. Nodes(sh)'
    BY <1>1, <1>2 DEF Nodes
  <2>4. Downs(sh)'
    BY <1>1, <1>2 DEF Downs
  <2>5. Objects(sh)'
    BY <1>1, <1>2 DEF Objects
  <2> QED
    BY <2>1, <2>2, <2>3, <2>4, <2>5
<1>4. \A b : MappedBy(b)' = MappedBy(b)
  BY <1>1 DEF MappedBy
<1>5. Balance(sh)'
  BY <1>1, <1>2, <1>4 DEF Balance
<1>6. Windows' = Windows
  BY <1>1 DEF Windows
<1>7. Mmaps(sh)'
  BY <1>1, <1>2, <1>6 DEF Mmaps
<1>8. InBar(sh)' /\ Filled(sh)' /\ BarExact(sh)' /\ Windowed(sh)'
  BY <1>1, <1>2 DEF InBar, Filled, BarExact, Windowed
<1> QED
  BY <1>3, <1>5, <1>7, <1>8

\* Nothing happens.
LEMMA StutterKeeps ==
  ASSUME NEW sh \in [Threads -> Stages], Inv(sh), UNCHANGED vars
  PROVE  IInv'
<1>1. UNCHANGED <<objvars, alive, nodes, pt, tlb, late, lock, todo>>
  BY DEF vars, spacevars
<1>2. Types /\ Tables(sh)
  BY InvIs
<1>3. \A vs : Covered(vs)' = Covered(vs)
  BY <1>1 DEF Covered
<1>4. Types' /\ Tables(sh)'
  BY <1>1, <1>2, <1>3 DEF Types, Tables, objvars
<1>5. Inv(sh)'
  BY <1>1, <1>4, OnlyTlb DEF Inv
<1> QED
  BY <1>5 DEF IInv

\* The card finds what is in the page tables, so no page of a node that it was
\* told to forget: the entries of those are cleared.
LEMMA CardLoadKeeps ==
  ASSUME NEW sh \in [Threads -> Stages], Inv(sh), NEW v \in Spaces, NEW q \in Page(v), CardLoad(v, q)
  PROVE  IInv'
<1>1. Types /\ Tables(sh)
  BY InvIs
<1>2. /\ alive[v] /\ pt[v][q] # Null /\ tlb' = [tlb EXCEPT ![v][q] = pt[v][q]]
      /\ UNCHANGED <<objvars, alive, nodes, pt, late, lock, todo>>
  BY DEF CardLoad
<1>3. UNCHANGED <<st, gref, handle, mmaps, map1, twice, leaked, alive, nodes, pt, late, lock, todo>>
  BY <1>2 DEF objvars
<1>4. /\ DOMAIN tlb' = Spaces
      /\ \A vs \in Spaces : \A p \in Page(vs) :
           tlb'[vs][p] = IF vs = v /\ p = q THEN pt[v][q] ELSE tlb[vs][p]
      /\ \A vs \in Spaces : tlb'[vs] \in [Page(vs) -> Bos \cup {Null}]
  <2>1. DOMAIN tlb' = Spaces
    BY <1>1, <1>2 DEF Types
  <2>2. \A vs \in Spaces : tlb'[vs] = IF vs = v THEN [tlb[v] EXCEPT ![q] = pt[v][q]] ELSE tlb[vs]
    BY <1>1, <1>2 DEF Types
  <2>3. pt[v][q] \in Bos \cup {Null}
    BY <1>1 DEF Types
  <2>4. \A vs \in Spaces : tlb[vs] \in [Page(vs) -> Bos \cup {Null}]
    BY <1>1 DEF Types
  <2> QED
    BY <2>1, <2>2, <2>3, <2>4
<1>5. Types'
  BY <1>1, <1>3, <1>4 DEF Types
<1>6. Tables(sh)'
  <2> SUFFICES ASSUME NEW vs \in Spaces, alive[vs]
               PROVE  /\ \A p \in Page(vs) : p \notin Covered(vs) => pt[vs][p] = Null /\ (p \notin late'[vs] => tlb'[vs][p] = Null)
                      /\ \A n \in nodes[vs] : \A p \in PagesOf(n.bo, n.at) :
                           /\ pt[vs][p] \in {Null, n.bo} /\ (p \notin late'[vs] => tlb'[vs][p] \in {Null, n.bo})
                           /\ \A u \in Threads : Cleared(sh[u], vs, n, p) => pt[vs][p] = Null
                           /\ \A u \in Threads : Forgotten(sh[u], vs, n) => p \in late'[vs] \/ tlb'[vs][p] = Null
    <3>1. \A vs : Covered(vs)' = Covered(vs)
      BY <1>3 DEF Covered
    <3> QED
      BY <1>3, <3>1 DEF Tables
  <2>1. /\ \A p \in Page(vs) : p \notin Covered(vs) => pt[vs][p] = Null /\ (p \notin late[vs] => tlb[vs][p] = Null)
        /\ \A n \in nodes[vs] : \A p \in PagesOf(n.bo, n.at) :
             /\ pt[vs][p] \in {Null, n.bo} /\ (p \notin late[vs] => tlb[vs][p] \in {Null, n.bo})
             /\ \A u \in Threads : Cleared(sh[u], vs, n, p) => pt[vs][p] = Null
             /\ \A u \in Threads : Forgotten(sh[u], vs, n) => p \in late[vs] \/ tlb[vs][p] = Null
    BY <1>1 DEF Tables
  <2>2. \A p \in Page(vs) : p \notin Covered(vs) => (p \notin late[vs] => tlb'[vs][p] = Null)
    BY <1>2, <1>4, <2>1
  <2>3. ASSUME NEW n \in nodes[vs], NEW p \in PagesOf(n.bo, n.at)
        PROVE  /\ p \notin late[vs] => tlb'[vs][p] \in {Null, n.bo}
               /\ \A u \in Threads : Forgotten(sh[u], vs, n) => p \in late[vs] \/ tlb'[vs][p] = Null
    <3>1. p \in Page(vs)
      BY <2>3, InvIs DEF Nodes
    <3>2. \A u \in Threads : Forgotten(sh[u], vs, n) => Cleared(sh[u], vs, n, p)
      BY DEF Forgotten, Cleared
    <3> QED
      BY <1>2, <1>4, <2>1, <2>3, <3>1, <3>2
  <2> QED
    BY <1>3, <2>1, <2>2, <2>3
<1>7. Inv(sh)'
  BY <1>2, <1>5, <1>6, OnlyTlb DEF Inv
<1> QED
  BY <1>7 DEF IInv

\* Every step of a thread keeps the invariant.
LEMMA StepKeeps ==
  ASSUME NEW sh \in [Threads -> Stages], Inv(sh), NEW t \in Threads, Step(t)
  PROVE  IInv'
BY LockStepKeeps, UnlockStepKeeps, PlaceKeeps, PlaceFailsKeeps, WriteKeeps, WriteFailsKeeps,
   AssignKeeps, CheckKeeps, MappedKeeps, FindKeeps, ClearKeeps, FlushKeeps, FlushLostKeeps, MmFreeKeeps,
   UnrefKeeps, ReleaseKeeps, TakedownKeeps DEF Step

\* At first every thread rests and there is nothing.
LEMMA InitInv == Init => IInv
<1> SUFFICES ASSUME Init PROVE IInv
  OBVIOUS
<1> DEFINE sh == [t \in Threads |-> Rest]
<1>1. /\ Rest.pc = "idle" /\ Rest.k = "none" /\ Rest.vs = Null /\ Rest.bo = Null /\ Rest.at = Null
      /\ Rest.bat = Null /\ Rest.i = 0
  BY DEF Rest
<1>2. Rest \in Stages
  BY DEF Rest, Stages, Pcs, Kinds
<1>3. WellFormed(Rest)
  BY <1>1, <1>2 DEF WellFormed, Suits, Has, WithNode, Freeing
<1>4. sh \in [Threads -> Stages] /\ \A t \in Threads : sh[t] = Rest
  BY <1>2
<1> HIDE DEF sh
<1>5. /\ ~Has(Rest) /\ Rest.pc \notin Freeing
      /\ \A vs \in Spaces : ~Holding(Rest, vs)
      /\ \A vs, n : ~Owns(Rest, vs, n) /\ ~Forgotten(Rest, vs, n)
      /\ \A vs, n, p : ~Cleared(Rest, vs, n, p)
      /\ \A b : ~Lent(Rest, b) /\ ~Owes(Rest, b)
  <2>1. Rest.pc \in Light
    BY <1>1 DEF Light
  <2> QED
    BY <1>1, <1>3, <2>1, LightIs
<1>6. /\ \A b \in Bos : st[b] = "none" /\ gref[b] = 0 /\ handle[b] = FALSE /\ mmaps[b] = 0
                        /\ map1[b] = Null /\ leaked[b] = 0
      /\ \A vs \in Spaces : /\ alive[vs] = TRUE /\ nodes[vs] = {} /\ lock[vs] = Null
                            /\ pt[vs] = Empty(vs) /\ tlb[vs] = Empty(vs) /\ late[vs] = {}
      /\ todo = [t \in Threads |-> <<>>]
  BY DEF Init
<1>7. Programs(sh)
  <2>1. Program(Rest) = <<>>
    BY <1>1, ProgramIs
  <2> QED
    BY <1>3, <1>4, <1>6, <2>1 DEF Programs
<1>8. Types
  BY DEF Init, Types, Empty
<1>9. Locks(sh)
  BY <1>4, <1>5, <1>6, MapsAssumption DEF Locks
<1>10. Nodes(sh)
  <2>1. \A vs \in Spaces : nodes[vs] = {}
    BY <1>6
  <2>2. \A t \in Threads : ~Has(sh[t])
    BY <1>4, <1>5
  <2> QED
    BY <2>1, <2>2 DEF Nodes
<1>11. Downs(sh)
  BY <1>1, <1>4, <1>6, Spaced DEF Downs
<1>12. Balance(sh)
  <2> SUFFICES ASSUME NEW b \in Bos
               PROVE  /\ IsFiniteSet(MappedBy(b))
                      /\ gref[b] + Cardinality(Lending(sh, b))
                           = (IF handle[b] THEN 1 ELSE 0) + mmaps[b] + leaked[b]
                               + Cardinality(MappedBy(b)) + Cardinality(Owing(sh, b))
    BY DEF Balance
  <2>1. MappedBy(b) = {}
    BY <1>6, Spaced DEF MappedBy
  <2>2. Lending(sh, b) = {} /\ Owing(sh, b) = {}
    BY <1>4, <1>5 DEF Lending, Owing
  <2> QED
    BY <1>6, <2>1, <2>2, FS_EmptySet
<1>13. Objects(sh)
  BY <1>4, <1>5, <1>6 DEF Objects
<1>14. Mmaps(sh)
  <2>1. Windows = {}
    BY <1>6 DEF Windows
  <2>2. Making(sh) = {}
    BY <1>1, <1>4 DEF Making
  <2>3. \A b \in Bos : mmaps[b] <= MaxMmaps
    BY <1>6, MapsAssumption
  <2> QED
    BY <1>1, <1>4, <2>1, <2>2, <2>3, FS_EmptySet, MapsAssumption DEF Mmaps
<1>15. InBar(sh)
  BY <1>1, <1>4, <1>5, <1>6, Spaced DEF InBar
<1>16. Tables(sh)
  <2>1. \A vs \in Spaces : \A p \in Page(vs) : pt[vs][p] = Null /\ tlb[vs][p] = Null
    <3>1. \A vs \in Spaces : pt[vs] = Empty(vs) /\ tlb[vs] = Empty(vs)
      BY <1>6
    <3>2. \A vs : \A p \in Page(vs) : Empty(vs)[p] = Null
      BY DEF Empty
    <3> QED
      BY <3>1, <3>2
  <2>2. \A vs \in Spaces : nodes[vs] = {}
    BY <1>6
  <2> QED
    BY <2>1, <2>2 DEF Tables
<1>17. Filled(sh)
  BY <1>6 DEF Filled
<1>18. BarExact(sh)
  BY <1>1, <1>4, <1>5, <1>6 DEF BarExact
<1>19. Windowed(sh)
  BY <1>1, <1>4, <1>6 DEF Windowed
<1>20. Inv(sh)
  BY <1>7, <1>8, <1>9, <1>10, <1>11, <1>12, <1>13, <1>14, <1>15, <1>16, <1>17, <1>18, <1>19 DEF Inv
<1> QED
  BY <1>4, <1>20 DEF IInv

\* Every step of the system keeps the invariant.
LEMMA NextInv == IInv /\ [Next]_vars => IInv'
<1> SUFFICES ASSUME NEW sh \in [Threads -> Stages], Inv(sh), [Next]_vars
             PROVE  IInv'
  BY DEF IInv
<1>1. CASE UNCHANGED vars
  BY <1>1, StutterKeeps
<1>2. CASE \E t \in Threads : Call(t)
  BY <1>2, CallKeeps
<1>3. CASE \E t \in Threads : Step(t)
  BY <1>3, StepKeeps
<1>4. CASE \E vs \in Spaces : \E p \in Page(vs) : CardLoad(vs, p)
  BY <1>4, CardLoadKeeps
<1> QED
  BY <1>1, <1>2, <1>3, <1>4 DEF Next

\* The invariant of every state that is reached.
THEOREM SpecInv == Spec => []IInv
BY InitInv, NextInv, PTL DEF Spec

-----------------------------------------------------------------------------
(* The properties                                                          *)

\* The types.
LEMMA InvTypeOK ==
  ASSUME NEW sh \in [Threads -> Stages], Inv(sh)
  PROVE  TypeOK
<1>1. Types /\ Nodes(sh) /\ Mmaps(sh)
  BY InvIs
<1>2. mmaps \in [Bos -> 0 .. MaxMmaps]
  BY <1>1 DEF Types, Mmaps
<1>3. \A vs \in Spaces : /\ nodes[vs] \subseteq [bo : Bos, at : Page(vs)]
                         /\ {pt[vs], tlb[vs]} \subseteq [Page(vs) -> Bos \cup {Null}]
                         /\ late[vs] \subseteq Page(vs)
  <2>1. ASSUME NEW vs \in Spaces, NEW n \in nodes[vs]
        PROVE  n \in [bo : Bos, at : Page(vs)]
    <3>1. n.bo \in Bos /\ n.at \in Page(vs) /\ n = Node(n.bo, n.at)
      BY <1>1, NodesAre
    <3> QED
      BY <3>1 DEF Node
  <2> QED
    BY <1>1, <2>1 DEF Types
<1> QED
  BY <1>1, <1>2, <1>3 DEF Types, TypeOK

\* The count of an object is the number of its references.
LEMMA InvBalance ==
  ASSUME NEW sh \in [Threads -> Stages], Inv(sh)
  PROVE  GemBalance
<1>1. Programs(sh) /\ Balance(sh)
  BY InvIs
<1> SUFFICES ASSUME NEW b \in Bos
             PROVE  gref[b] + Pending(LAMBDA op : op.do = "mmfree" /\ op.bo = b /\ op.vs # Bar)
                      = (IF handle[b] THEN 1 ELSE 0) + mmaps[b] + leaked[b] + UserNodes(b)
                          + Pending(LAMBDA op : /\ op.do \in {"unref", "place", "mapped"}
                                                /\ op.bo = b /\ op.vs # Bar)
  BY DEF GemBalance
<1>2. UserNodes(b) = Cardinality(MappedBy(b))
  BY DEF UserNodes, MappedBy
<1>3. gref[b] + Cardinality(Lending(sh, b))
        = (IF handle[b] THEN 1 ELSE 0) + mmaps[b] + leaked[b]
            + Cardinality(MappedBy(b)) + Cardinality(Owing(sh, b))
  BY <1>1 DEF Balance
<1>4. Pending(LAMBDA op : op.do = "mmfree" /\ op.bo = b /\ op.vs # Bar) = Cardinality(Lending(sh, b))
  BY <1>1, PendingLent
<1>5. Pending(LAMBDA op : /\ op.do \in {"unref", "place", "mapped"}
                          /\ op.bo = b /\ op.vs # Bar) = Cardinality(Owing(sh, b))
  BY <1>1, PendingOwed
<1> QED
  BY <1>2, <1>3, <1>4, <1>5

\* An object that nothing leads to any more has no reference, and who gave the last one back
\* would not rest.
LEMMA InvDeath ==
  ASSUME NEW sh \in [Threads -> Stages], Inv(sh)
  PROVE  DeathFrees
<1>1. Programs(sh) /\ Types /\ Balance(sh) /\ Objects(sh) /\ Downs(sh) /\ \A t \in Threads : WellFormed(sh[t])
  BY InvIs
<1> SUFFICES ASSUME \A t \in Threads : Idle(t), \A vs \in Vs : ~alive[vs],
                    NEW b \in Bos, st[b] = "live", ~handle[b], ~(mmaps[b] > 0), ~(leaked[b] > 0)
             PROVE  FALSE
  BY DEF DeathFrees
<1>2. \A t \in Threads : sh[t].pc = "idle"
  BY <1>1, HereIs
<1>3. \A t \in Threads : /\ sh[t].k = "none" /\ sh[t].pc \notin Freeing
                         /\ ~Lent(sh[t], b) /\ ~Owes(sh[t], b)
  BY <1>1, <1>2, LightIs DEF Light
<1>4. \A vs \in Vs : nodes[vs] = {}
  <2>1. \A t \in Threads : sh[t].k # "down"
    BY <1>3
  <2> QED
    BY <1>1, <2>1 DEF Downs
<1>5. MappedBy(b) = {}
  BY <1>4 DEF MappedBy
<1>6. Lending(sh, b) = {} /\ Owing(sh, b) = {}
  BY <1>3 DEF Lending, Owing
<1>7. gref[b] = 0
  <2>1. gref[b] \in Nat /\ mmaps[b] = 0 /\ leaked[b] = 0
    BY <1>1 DEF Types
  <2>2. gref[b] + Cardinality(Lending(sh, b))
          = (IF handle[b] THEN 1 ELSE 0) + mmaps[b] + leaked[b]
              + Cardinality(MappedBy(b)) + Cardinality(Owing(sh, b))
    BY <1>1 DEF Balance
  <2> QED
    BY <1>5, <1>6, <2>1, <2>2, FS_EmptySet
<1> QED
  BY <1>1, <1>3, <1>7 DEF Objects

\* A mapping of an object without references is lent, to a thread that has cleared and
\* flushed it.
LEMMA InvNoStale ==
  ASSUME NEW sh \in [Threads -> Stages], Inv(sh)
  PROVE  NoStaleTranslation
<1>1. /\ Programs(sh) /\ Types /\ Locks(sh) /\ Nodes(sh) /\ Downs(sh) /\ Balance(sh) /\ Objects(sh)
      /\ InBar(sh) /\ Tables(sh) /\ \A t \in Threads : WellFormed(sh[t])
  BY InvIs
<1> SUFFICES ASSUME NEW vs \in Spaces, alive[vs], NEW p \in Page(vs),
                    NEW c \in Bos, ~Lost(vs, c),
                    pt[vs][p] = c \/ (tlb[vs][p] = c /\ p \notin late[vs])
             PROVE  st[c] = "live"
  BY DEF NoStaleTranslation
<1>2. /\ p \notin Covered(vs) => pt[vs][p] = Null /\ (p \notin late[vs] => tlb[vs][p] = Null)
      /\ \A n \in nodes[vs] : p \in PagesOf(n.bo, n.at) =>
           /\ pt[vs][p] \in {Null, n.bo} /\ (p \notin late[vs] => tlb[vs][p] \in {Null, n.bo})
           /\ \A t \in Threads : Cleared(sh[t], vs, n, p) => pt[vs][p] = Null
           /\ \A t \in Threads : Forgotten(sh[t], vs, n) => p \in late[vs] \/ tlb[vs][p] = Null
  BY <1>1 DEF Tables
<1>3. c # Null
  BY MapsAssumption
<1>4. PICK n \in nodes[vs] : p \in PagesOf(n.bo, n.at)
  BY <1>2, <1>3 DEF Covered
<1>5. c = n.bo
  BY <1>2, <1>3, <1>4
<1>6. CASE vs = Bar
  BY <1>1, <1>4, <1>5, <1>6 DEF InBar, Lost
<1>7. CASE vs \in Vs
  <2>1. CASE gref[c] = 0
    <3>1. PICK t \in Threads : Lent(sh[t], c) /\ sh[t].vs = vs /\ NodeOf(sh[t]) = n
      BY <1>1, <1>4, <1>5, <1>7, <2>1, Keeping
    <3>2. ~Owes(sh[t], c)
      BY <1>1, <2>1, Keeping
    <3>3. Has(sh[t]) /\ sh[t].k \in {"map", "down"} /\ sh[t].pc # "write" /\ sh[t].bo = c
      BY <3>1 DEF Lent
    <3>4. sh[t].pc = "mmfree" \/ sh[t].pc \in Freeing
      <4>1. Suits(sh[t].pc, sh[t].k)
        BY <1>1, FormIs
      <4> QED
        BY <3>2, <3>3, <4>1 DEF Has, Owes, Suits, WithNode, Freeing
    <3>5. Cleared(sh[t], vs, n, p) /\ Forgotten(sh[t], vs, n)
      BY <3>1, <3>3, <3>4 DEF Cleared, Forgotten
    <3> QED
      BY <1>2, <1>3, <1>4, <3>5
  <2>2. CASE gref[c] # 0
    BY <1>1, <2>2 DEF Objects, Types
  <2> QED
    BY <2>1, <2>2
<1> QED
  BY <1>6, <1>7 DEF Spaces

\* Without the mutex nobody is busy with a node, so all of them are filled.
LEMMA InvPt ==
  ASSUME NEW sh \in [Threads -> Stages], Inv(sh), ~BarMapFails
  PROVE  PtMatchesNodes
<1>1. Programs(sh) /\ Locks(sh) /\ Nodes(sh) /\ Downs(sh) /\ Tables(sh) /\ Filled(sh)
  BY InvIs
<1> SUFFICES ASSUME NEW vs \in Spaces, alive[vs], lock[vs] = Null, NEW p \in Page(vs)
             PROVE  /\ pt[vs][p] = IF p \in Covered(vs)
                                   THEN (CHOOSE n \in nodes[vs] : p \in PagesOf(n.bo, n.at)).bo
                                   ELSE Null
                    /\ p \notin late[vs] => tlb[vs][p] \in {Null, pt[vs][p]}
  BY DEF PtMatchesNodes
<1>2. \A t \in Threads : \A n : ~Owns(sh[t], vs, n)
  <2>1. \A t \in Threads : ~Holding(sh[t], vs)
    BY <1>1, MapsAssumption DEF Locks
  <2> QED
    BY <1>1, <2>1, OwnerHolds
<1>3. CASE p \notin Covered(vs)
  BY <1>1, <1>3 DEF Tables
<1>4. CASE p \in Covered(vs)
  <2> DEFINE n == CHOOSE n \in nodes[vs] : p \in PagesOf(n.bo, n.at)
  <2>1. \E m \in nodes[vs] : p \in PagesOf(m.bo, m.at)
    BY <1>4 DEF Covered
  <2>2. n \in nodes[vs] /\ p \in PagesOf(n.bo, n.at)
    BY <2>1
  <2> HIDE DEF n
  <2>3. pt[vs][p] = n.bo
    BY <1>1, <1>2, <2>2 DEF Filled
  <2>4. p \notin late[vs] => tlb[vs][p] \in {Null, n.bo}
    BY <1>1, <2>2 DEF Tables
  <2> QED
    BY <1>4, <2>3, <2>4 DEF n
<1> QED
  BY <1>3, <1>4

\* The same for the nodes of the BAR.
LEMMA InvOwn ==
  ASSUME NEW sh \in [Threads -> Stages], Inv(sh), ~BarMapFails
  PROVE  MapsOwn
<1>1. Programs(sh) /\ Locks(sh) /\ Downs(sh) /\ InBar(sh) /\ BarExact(sh)
  BY InvIs
<1> SUFFICES ASSUME lock[Bar] = Null
             PROVE  /\ \A b \in Bos : gref[b] > 0 /\ map1[b] # Null => Node(b, map1[b]) \in nodes[Bar]
                    /\ \A n \in nodes[Bar] : n.bo \in twice \/ (st[n.bo] = "live" /\ map1[n.bo] = n.at)
  BY DEF MapsOwn
<1>2. \A t \in Threads : \A n : ~Owns(sh[t], Bar, n)
  <2>1. \A t \in Threads : ~Holding(sh[t], Bar)
    BY <1>1, MapsAssumption, Spaced DEF Locks
  <2>2. alive[Bar]
    BY <1>1 DEF Downs
  <2> QED
    BY <1>1, <2>1, <2>2, Spaced, OwnerHolds
<1>3. \A n \in nodes[Bar] : n.bo \in twice \/ (st[n.bo] = "live" /\ map1[n.bo] = n.at)
  BY <1>1, <1>2 DEF InBar
<1> QED
  BY <1>1, <1>3 DEF BarExact

\* The node of a window is nobody's: who maps the object has a node elsewhere, who frees it
\* no reference.
LEMMA InvWindow ==
  ASSUME NEW sh \in [Threads -> Stages], Inv(sh), ~BarMapFails
  PROVE  ClientWindow
<1>1. /\ Programs(sh) /\ Objects(sh) /\ Downs(sh) /\ Filled(sh) /\ BarExact(sh) /\ Windowed(sh)
      /\ \A t \in Threads : WellFormed(sh[t])
      /\ \A b \in Bos : handle[b] \/ mmaps[b] > 0 => gref[b] > 0
  BY InvIs
<1> SUFFICES ASSUME NEW b \in Bos, mmaps[b] > 0
             PROVE  map1[b] # Null /\ \A p \in PagesOf(b, map1[b]) : pt[Bar][p] = b
  BY DEF ClientWindow
<1>2. map1[b] # Null /\ gref[b] > 0
  BY <1>1 DEF Windowed
<1> DEFINE n == Node(b, map1[b])
<1>3. n \in nodes[Bar] /\ n.bo = b /\ n.at = map1[b]
  BY <1>1, <1>2 DEF BarExact, Node
<1>4. ASSUME NEW t \in Threads, Owns(sh[t], Bar, n)
      PROVE  FALSE
  <2> DEFINE s == sh[t]
  <2>1. s.bo = b
    BY <1>3, <1>4 DEF Owns, NodeOf, BarNode, Node
  <2>2. s.pc \notin Freeing
    BY <1>1, <1>2, <2>1 DEF Objects
  <2>3. Has(s) /\ s.vs = Bar
    BY <1>4, <2>2 DEF Owns, Freeing
  <2>4. s.k \in {"mmap", "bad"}
    BY <1>1, <2>3, FormIs DEF Kinds
  <2>5. s.k # "bad"
    BY <1>1, <2>3 DEF BarExact, Has, WithNode, Freeing
  <2>6. s.pc \in {"write", "assign"}
    BY <1>1, <2>2, <2>3, <2>4, <2>5, FormIs DEF Suits, Has, WithNode
  <2>7. n = NodeOf(s)
    BY <1>4, <2>2 DEF Owns, Freeing
  <2>8. s.at = map1[b]
    BY <1>3, <2>7 DEF NodeOf, Node
  <2> QED
    BY <1>1, <2>1, <2>4, <2>5, <2>6, <2>8 DEF BarExact
<1> HIDE DEF n
<1>5. \A p \in PagesOf(n.bo, n.at) : pt[Bar][p] = n.bo
  BY <1>1, <1>3, <1>4, Spaced DEF Filled, Downs
<1> QED
  BY <1>2, <1>3, <1>5

\* The mutexes of a thread that waits or rests.
LEMMA InvOrder ==
  ASSUME NEW sh \in [Threads -> Stages], Inv(sh)
  PROVE  LocksOrdered
<1>1. Programs(sh) /\ Locks(sh) /\ \A t \in Threads : WellFormed(sh[t])
  BY InvIs
<1> SUFFICES ASSUME NEW t \in Threads, NEW vs \in Spaces, lock[vs] = t
             PROVE  ~Idle(t) /\ (At(t, "lock") => vs # Bar /\ Now(t).vs = Bar)
  BY DEF LocksOrdered
<1> DEFINE s == sh[t]
<1>2. Holding(s, vs)
  BY <1>1 DEF Locks
<1>3. ~Idle(t)
  <2>1. s.pc # "idle"
    BY <1>2 DEF Holding, Locked, BarLocked, Freeing
  <2> QED
    BY <1>1, <2>1, HereIs
<1>4. ASSUME At(t, "lock")
      PROVE  vs # Bar /\ Now(t).vs = Bar
  <2>1. s.pc \in {"lockplace", "lockfind", "flock"} /\ Now(t) = NowOf(s)
    BY <1>1, <1>4, AtIs, HereIs
  <2>2. s.pc = "flock" /\ s.k = "map" /\ s.vs = vs
    BY <1>2, <2>1 DEF Holding, Locked, BarLocked, Freeing
  <2>3. vs # Bar
    BY <1>1, <2>2, FormIs
  <2>4. Now(t) = Lock(Bar)
    BY <2>1, <2>2, NowOfIs
  <2> QED
    BY <2>3, <2>4 DEF Lock, Op
<1> QED
  BY <1>3, <1>4

\* A thread that returns from its call has no mutex of an address space, and one that waits
\* for a mutex while it has one has that of a client's address space and waits for the BAR's:
\* no cycle of waiting threads (mutex_lock(&vs->lock) in pscnv_vm.c and nv50_vm.c).
THEOREM SpecLocksOrdered == Spec => []LocksOrdered
<1>1. IInv => LocksOrdered
  BY InvOrder DEF IInv
<1> QED
  BY <1>1, SpecInv, PTL

\* The count of a gem object is at any time the number of references that exist, and an
\* object that no handle, window or failed map has a reference of is freed by the time that
\* the clients' address spaces are gone and the threads are done (the references taken and
\* dropped in pscnv_ioctl.c, pscnv_vm.c and pscnv_gem.c).
THEOREM SpecRefsExact == Spec => []RefsExact
<1>1. IInv => RefsExact
  BY InvTypeOK, InvBalance, InvDeath DEF IInv, RefsExact
<1> QED
  BY <1>1, SpecInv, PTL

\* The card reaches the memory of an object that was freed only in two ways: through what it
\* remembers of a page whose flush was lost, until a flush of the space succeeds, and through
\* the BAR, if two clients once put the object there at the same time.  Otherwise an unmap
\* clears the entries and flushes before it drops its reference, and the last reference takes
\* the object out of the BAR first (pscnv_vspace_unmap_node_unlocked, nv50_vspace_do_unmap,
\* nv50_vm_map_user, pscnv_mem_free).
THEOREM SpecNoStaleTranslation == Spec => []NoStaleTranslation
<1>1. IInv => NoStaleTranslation
  BY InvNoStale DEF IInv
<1> QED
  BY <1>1, SpecInv, PTL

\* While nobody has the mutex of an address space, its page tables say what its allocator
\* says, the TLBs what its page tables say but for pages whose flush was lost, and map1 where
\* an object is in the BAR but for the nodes that two mmaps of an object at once leave there;
\* and at any time a client's window shows its object.  All of it as long as page tables of
\* the BAR can be had (pscnv_vspace_map, pscnv_vspace_unmap, nv50_vm_map_user, pscnv_mmap).
THEOREM SpecMapsExact == ~BarMapFails => (Spec => []MapsExact)
<1> SUFFICES ASSUME ~BarMapFails
             PROVE  Spec => []MapsExact
  OBVIOUS
<1>1. IInv => MapsExact
  BY InvPt, InvOwn, InvWindow DEF IInv, MapsExact
<1> QED
  BY <1>1, SpecInv, PTL
=============================================================================
