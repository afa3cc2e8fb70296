-------------------------- MODULE PscnvMMProofs --------------------------
(***************************************************************************)
(* Theorems about the range allocator PscnvMM, for every range, every page *)
(* and block size and every set of requests.                               *)
(***************************************************************************)
EXTENDS PscnvMM, TLAPS

-----------------------------------------------------------------------------
(* Arithmetic of blocks and rounding                                       *)

\* Euclidean division, the only fact about \div the other lemmas use.
LEMMA DivBounds ==
  ASSUME NEW x \in Nat, NEW y \in Nat \ {0}
  PROVE  /\ x \div y \in Nat
         /\ (x \div y) * y <= x
         /\ x < (x \div y) * y + y
  OBVIOUS

\* Comparing with a multiple of y is comparing quotients.
LEMMA DivLess ==
  ASSUME NEW x \in Nat, NEW y \in Nat \ {0}, NEW k \in Nat
  PROVE  (x \div y < k) <=> (x < k * y)
  BY DivBounds

\* Division is monotone.
LEMMA DivMonotone ==
  ASSUME NEW a \in Nat, NEW b \in Nat, a <= b, NEW y \in Nat \ {0}
  PROVE  a \div y <= b \div y
  BY DivBounds, DivLess

\* Below the wrap, pscnv_roundup gives the next multiple.
LEMMA RoundUpBounds ==
  ASSUME NEW x \in Nat, NEW y \in Nat \ {0}, x + y <= Word
  PROVE  /\ RoundUp(x, y) \in Nat
         /\ x <= RoundUp(x, y)
         /\ RoundUp(x, y) < x + y
         /\ \E k \in Nat : RoundUp(x, y) = k * y
<1> DEFINE z == x + y - 1
           k == z \div y
<1>1. z \in Nat /\ z < Word /\ Word \in Nat
  BY RangeAssumption
<1>2. z % Word = z
  BY <1>1
<1>3. RoundUp(x, y) = k * y
  BY <1>2 DEF RoundUp
<1>4. k \in Nat /\ k * y <= z /\ z < k * y + y
  BY <1>1, DivBounds
<1>5. k * y \in Nat
  BY <1>4
<1>6. x <= k * y /\ k * y < x + y
  BY <1>1, <1>4, <1>5
<1> HIDE DEF k, z
<1> QED
  BY <1>3, <1>4, <1>5, <1>6

\* Also where it wraps, pscnv_roundup gives a multiple.
LEMMA RoundUpNat ==
  ASSUME NEW x \in Nat, NEW y \in Nat \ {0}
  PROVE  RoundUp(x, y) \in Nat
<1>1. (x + y - 1) % Word \in Nat
  BY RangeAssumption
<1>2. ((x + y - 1) % Word) \div y \in Nat
  BY <1>1, DivBounds
<1> QED
  BY <1>2 DEF RoundUp

LEMMA RoundDownBounds ==
  ASSUME NEW x \in Nat, NEW y \in Nat \ {0}
  PROVE  /\ RoundDown(x, y) \in Nat
         /\ RoundDown(x, y) <= x
         /\ x < RoundDown(x, y) + y
         /\ \E k \in Nat : RoundDown(x, y) = k * y
<1>1. x \div y \in Nat /\ (x \div y) * y <= x /\ x < (x \div y) * y + y
  BY DivBounds
<1>2. (x \div y) * y \in Nat
  BY <1>1
<1> QED
  BY <1>1, <1>2 DEF RoundDown

\* What rounding buys: storage that starts at or above the rounded-up end of
\* a neighbour shares no block with anything below that end.
LEMMA RoundUpSeparates ==
  ASSUME NEW x \in Nat, x + TS <= Word, NEW a \in Nat, NEW c \in Nat,
         a < x, RoundUp(x, TS) <= c
  PROVE  a \div TS < c \div TS
<1>1. TS \in Nat \ {0}
  BY RangeAssumption
<1>2. PICK k \in Nat : RoundUp(x, TS) = k * TS
  BY <1>1, RoundUpBounds
<1>3. a < k * TS /\ ~(c < k * TS)
  BY <1>1, <1>2, RoundUpBounds
<1>4. a \div TS < k /\ ~(c \div TS < k)
  BY <1>1, <1>3, DivLess
<1> QED
  BY <1>1, <1>4, DivBounds

\* Likewise below the rounded-down start of a neighbour.
LEMMA RoundDownSeparates ==
  ASSUME NEW x \in Nat, NEW a \in Nat, NEW c \in Nat,
         a < RoundDown(x, TS), x <= c
  PROVE  a \div TS < c \div TS
<1>1. TS \in Nat \ {0}
  BY RangeAssumption
<1>2. PICK k \in Nat : RoundDown(x, TS) = k * TS
  BY <1>1, RoundDownBounds
<1>3. a < k * TS /\ ~(c < k * TS)
  BY <1>1, <1>2, RoundDownBounds
<1>4. a \div TS < k /\ ~(c \div TS < k)
  BY <1>1, <1>3, DivLess
<1> QED
  BY <1>1, <1>4, DivBounds

-----------------------------------------------------------------------------
(* Neighbours in a tiling                                                  *)

\* In a tiling the predecessor of a node is the one that ends where it starts.
LEMMA PrevTouches ==
  ASSUME NEW N, N \subseteq Node, TilesOf(N), NEW n \in N, NEW p \in N
  PROVE  p \in Prev(N, n) <=> Touch(p, n)
<1>1. ASSUME Touch(p, n) PROVE p \in Prev(N, n)
  <2>1. p.start < n.start
    BY <1>1 DEF Touch, Fin, Node
  <2>2. ASSUME NEW q \in N, q.start < n.start PROVE q.start <= p.start
    <3>1. q = p \/ Fin(q) <= p.start \/ Fin(p) <= q.start
      BY DEF TilesOf, Apart
    <3> QED
      BY <1>1, <2>2, <3>1 DEF Touch, Fin, Node
  <2> QED
    BY <2>1, <2>2 DEF Prev, IsPrev
<1>2. ASSUME p \in Prev(N, n) PROVE Touch(p, n)
  <2>1. p.start < n.start /\ \A q \in N : q.start < n.start => q.start <= p.start
    BY <1>2 DEF Prev, IsPrev
  <2>2. Fin(p) <= n.start
    BY <2>1 DEF TilesOf, Apart, Fin, Node
  <2>3. Fin(p) # End
    BY <2>2 DEF TilesOf, Fin, Node
  <2>4. PICK q \in N : Touch(p, q)
    BY <2>3 DEF TilesOf
  <2>5. q.start > p.start
    BY <2>4 DEF Touch, Fin, Node
  <2>6. ~(q.start < n.start)
    BY <2>1, <2>5 DEF Node
  <2> QED
    BY <2>2, <2>4, <2>6 DEF Touch, Fin, Node
<1> QED
  BY <1>1, <1>2

\* And its successor is the one that starts where it ends.
LEMMA SuccTouches ==
  ASSUME NEW N, N \subseteq Node, TilesOf(N), NEW n \in N, NEW p \in N
  PROVE  p \in Succ(N, n) <=> Touch(n, p)
<1>1. ASSUME Touch(n, p) PROVE p \in Succ(N, n)
  <2>1. p.start > n.start
    BY <1>1 DEF Touch, Fin, Node
  <2>2. ASSUME NEW q \in N, q.start > n.start PROVE q.start >= p.start
    <3>1. q = n \/ Fin(q) <= n.start \/ Fin(n) <= q.start
      BY DEF TilesOf, Apart
    <3> QED
      BY <1>1, <2>2, <3>1 DEF Touch, Fin, Node
  <2> QED
    BY <2>1, <2>2 DEF Succ, IsNext
<1>2. ASSUME p \in Succ(N, n) PROVE Touch(n, p)
  <2>1. p.start > n.start /\ \A q \in N : q.start > n.start => q.start >= p.start
    BY <1>2 DEF Succ, IsNext
  <2>2. Fin(n) <= p.start
    BY <2>1 DEF TilesOf, Apart, Fin, Node
  <2>3. Fin(n) # End
    BY <2>2 DEF TilesOf, Fin, Node
  <2>4. PICK q \in N : Touch(n, q)
    BY <2>3 DEF TilesOf
  <2>5. q.start > n.start
    BY <2>4 DEF Touch, Fin, Node
  <2>6. q.start >= p.start
    BY <2>1, <2>5 DEF Node
  <2> QED
    BY <2>2, <2>4, <2>6 DEF Touch, Fin, Node
<1> QED
  BY <1>1, <1>2

-----------------------------------------------------------------------------
(* pscnv_mm_free_node                                                      *)

\* The free neighbours that pscnv_mm_free_node merges with.
FreePrev(N, n) == {p \in Prev(N, n) : p.type = FREE}
FreeSucc(N, n) == {p \in Succ(N, n) : p.type = FREE}

\* g stands for the node n with the free neighbours P and S merged into it.
Merged(N, n, P, S, g) ==
  /\ g \in Node /\ g.type = FREE
  /\ \/ P = {} /\ g.start = n.start /\ \A p \in N : Touch(p, n) => p.type # FREE
     \/ \E p \in N : P = {p} /\ p.type = FREE /\ Touch(p, n) /\ g.start = p.start
  /\ \/ S = {} /\ Fin(g) = Fin(n) /\ \A p \in N : Touch(n, p) => p.type # FREE
     \/ \E p \in N : S = {p} /\ p.type = FREE /\ Touch(n, p) /\ Fin(g) = Fin(p)

\* What FreeNode returns: n and its free neighbours replaced by one free node
\* over the same units.
LEMMA FreeNodeShape ==
  ASSUME NEW N, N \subseteq Node, TilesOf(N), NEW n \in N
  PROVE  \E g : /\ Merged(N, n, FreePrev(N, n), FreeSucc(N, n), g)
                /\ FreeNode(N, n) = (N \ ({n} \cup FreePrev(N, n) \cup FreeSucc(N, n))) \cup {g}
<1> DEFINE P == FreePrev(N, n)
           S == FreeSucc(N, n)
           g == [start |-> IF P = {} THEN n.start ELSE Pick(P).start,
                 size  |-> n.size + (IF P = {} THEN 0 ELSE Pick(P).size)
                                  + (IF S = {} THEN 0 ELSE Pick(S).size),
                 type  |-> FREE]
<1>1. \A p \in N : p \in P <=> Touch(p, n) /\ p.type = FREE
  BY PrevTouches DEF FreePrev, Prev
<1>2. \A p \in N : p \in S <=> Touch(n, p) /\ p.type = FREE
  BY SuccTouches DEF FreeSucc, Succ
<1>3. P \subseteq N /\ S \subseteq N
  BY DEF FreePrev, FreeSucc, Prev, Succ
<1>4. \A p, q \in P : p = q
  <2> SUFFICES ASSUME NEW p \in P, NEW q \in P, p # q PROVE FALSE
    OBVIOUS
  <2>1. p \in Node /\ q \in Node /\ Fin(p) = n.start /\ Fin(q) = n.start /\ Apart(p, q)
    BY <1>1, <1>3 DEF Touch, TilesOf
  <2> QED
    BY <2>1 DEF Apart, Fin, Node
<1>5. \A p, q \in S : p = q
  <2> SUFFICES ASSUME NEW p \in S, NEW q \in S, p # q PROVE FALSE
    OBVIOUS
  <2>1. p \in Node /\ q \in Node /\ p.start = Fin(n) /\ q.start = Fin(n) /\ Apart(p, q)
    BY <1>2, <1>3 DEF Touch, TilesOf
  <2> QED
    BY <2>1 DEF Apart, Fin, Node
<1>6. FreeNode(N, n) = (N \ ({n} \cup P \cup S)) \cup {g}
  BY DEF FreeNode, FreePrev, FreeSucc
<1>7. P = {} \/ \E p \in N : P = {p} /\ Pick(P) = p /\ p.type = FREE /\ Touch(p, n)
  <2> SUFFICES ASSUME NEW p \in P
               PROVE  P = {p} /\ Pick(P) = p /\ p.type = FREE /\ Touch(p, n)
    BY <1>3
  <2>1. P = {p}
    BY <1>4
  <2>2. Pick(P) \in P
    BY DEF Pick
  <2> QED
    BY <1>1, <1>3, <2>1, <2>2
<1>8. S = {} \/ \E p \in N : S = {p} /\ Pick(S) = p /\ p.type = FREE /\ Touch(n, p)
  <2> SUFFICES ASSUME NEW p \in S
               PROVE  S = {p} /\ Pick(S) = p /\ p.type = FREE /\ Touch(n, p)
    BY <1>3
  <2>1. S = {p}
    BY <1>5
  <2>2. Pick(S) \in S
    BY DEF Pick
  <2> QED
    BY <1>2, <1>3, <2>1, <2>2
<1>9. g.start = (IF P = {} THEN n.start ELSE Pick(P).start)
      /\ g.size = n.size + (IF P = {} THEN 0 ELSE Pick(P).size)
                         + (IF S = {} THEN 0 ELSE Pick(S).size)
      /\ g.type = FREE
  OBVIOUS
<1>10. g \in Node
  <2>1. n \in Node /\ (P # {} => Pick(P) \in Node) /\ (S # {} => Pick(S) \in Node)
    BY <1>7, <1>8
  <2>2. g.start \in Nat /\ g.size \in Nat \ {0}
    BY <1>9, <2>1 DEF Node
  <2> QED
    BY <2>2 DEF Node
<1> HIDE DEF g, P, S
<1>11. \/ P = {} /\ g.start = n.start /\ \A p \in N : Touch(p, n) => p.type # FREE
       \/ \E p \in N : P = {p} /\ p.type = FREE /\ Touch(p, n) /\ g.start = p.start
  BY <1>1, <1>7, <1>9
<1>12. \/ S = {} /\ Fin(g) = Fin(n) /\ \A p \in N : Touch(n, p) => p.type # FREE
       \/ \E p \in N : S = {p} /\ p.type = FREE /\ Touch(n, p) /\ Fin(g) = Fin(p)
  <2>0. Fin(g) = Fin(n) + (IF S = {} THEN 0 ELSE Pick(S).size)
    <3>1. CASE P = {}
      BY <1>7, <1>8, <1>9, <3>1 DEF Fin, Node
    <3>2. CASE P # {}
      BY <1>7, <1>8, <1>9, <3>2 DEF Fin, Node, Touch
    <3> QED
      BY <3>1, <3>2
  <2>1. CASE S = {}
    BY <1>2, <2>0, <2>1 DEF Fin, Node
  <2>2. CASE S # {}
    BY <1>8, <2>0, <2>2 DEF Fin, Node, Touch
  <2> QED
    BY <2>1, <2>2
<1> QED
  BY <1>6, <1>9, <1>10, <1>11, <1>12 DEF Merged, P, S

\* Releasing a node keeps the nodes a tiling, keeps free nodes apart, and adds
\* no used node.
LEMMA FreeNodeInv ==
  ASSUME NEW N, N \subseteq Node, TilesOf(N), CoalescedOf(N), NEW n \in N
  PROVE  /\ FreeNode(N, n) \subseteq Node
         /\ TilesOf(FreeNode(N, n))
         /\ CoalescedOf(FreeNode(N, n))
         /\ \A m \in FreeNode(N, n) : m.type # FREE => m \in N
<1> DEFINE P == FreePrev(N, n)
           S == FreeSucc(N, n)
           D == {n} \cup P \cup S
<1>1. PICK g : Merged(N, n, P, S, g) /\ FreeNode(N, n) = (N \ D) \cup {g}
  BY FreeNodeShape
<1> HIDE DEF P, S, D
<1>2. g \in Node /\ g.type = FREE
  BY <1>1 DEF Merged
<1>3. \/ P = {} /\ g.start = n.start /\ \A p \in N : Touch(p, n) => p.type # FREE
      \/ \E p \in N : P = {p} /\ p.type = FREE /\ Touch(p, n) /\ g.start = p.start
  BY <1>1 DEF Merged
<1>4. \/ S = {} /\ Fin(g) = Fin(n) /\ \A p \in N : Touch(n, p) => p.type # FREE
      \/ \E p \in N : S = {p} /\ p.type = FREE /\ Touch(n, p) /\ Fin(g) = Fin(p)
  BY <1>1 DEF Merged
<1>5. \A m, k \in N : m = k \/ Apart(m, k)
  BY DEF TilesOf
<1>6. P \subseteq N /\ S \subseteq N /\ n \in D
  BY <1>3, <1>4 DEF D
<1>7. FreeNode(N, n) \subseteq Node
  BY <1>1, <1>2
<1>8. Start <= g.start /\ Fin(g) <= End
  BY <1>3, <1>4 DEF TilesOf
\* A node that stays lies on one side of everything that was merged.
<1>9. ASSUME NEW m \in N, m \notin D PROVE Fin(m) <= g.start \/ Fin(g) <= m.start
  <2>1. m # n /\ m \notin P /\ m \notin S
    BY <1>9 DEF D
  <2>2. Fin(m) <= n.start \/ Fin(n) <= m.start
    BY <1>5, <2>1 DEF Apart
  <2>3. Fin(m) <= n.start => Fin(m) <= g.start
    BY <1>3, <1>5, <2>1 DEF Apart, Touch, Fin, Node
  <2>4. Fin(n) <= m.start => Fin(g) <= m.start
    BY <1>4, <1>5, <2>1 DEF Apart, Touch, Fin, Node
  <2> QED
    BY <2>2, <2>3, <2>4
\* What touched the merged nodes from outside touches the node that replaces them.
<1>10. ASSUME NEW m \in N, m \notin D, NEW k \in D, Touch(m, k) PROVE Touch(m, g)
  <2>1. m # n /\ m \notin P /\ m \notin S
    BY <1>10 DEF D
  <2>2. CASE k = n
    BY <1>3, <1>5, <1>10, <2>1, <2>2 DEF Apart, Touch, Fin, Node
  <2>3. CASE k \in P
    BY <1>3, <1>10, <2>3 DEF Touch
  <2>4. CASE k \in S
    <3>1. k.start = Fin(n) /\ Fin(m) = k.start
      BY <1>4, <1>10, <2>4 DEF Touch
    <3>2. m \in Node /\ n \in Node /\ Apart(m, n)
      BY <1>5, <2>1
    <3> QED
      BY <3>1, <3>2 DEF Apart, Fin, Node
  <2> QED
    BY <1>10, <2>2, <2>3, <2>4 DEF D
<1>11. ASSUME NEW m \in N, m \notin D, NEW k \in D, Touch(k, m) PROVE Touch(g, m)
  <2>1. m # n /\ m \notin P /\ m \notin S
    BY <1>11 DEF D
  <2>2. CASE k = n
    BY <1>4, <1>5, <1>11, <2>1, <2>2 DEF Apart, Touch, Fin, Node
  <2>3. CASE k \in S
    BY <1>4, <1>11, <2>3 DEF Touch
  <2>4. CASE k \in P
    <3>1. Fin(k) = n.start /\ Fin(k) = m.start
      BY <1>3, <1>11, <2>4 DEF Touch
    <3>2. m \in Node /\ n \in Node /\ Apart(m, n)
      BY <1>5, <2>1
    <3> QED
      BY <3>1, <3>2 DEF Apart, Fin, Node
  <2> QED
    BY <1>11, <2>2, <2>3, <2>4 DEF D
<1>12. TilesOf(FreeNode(N, n))
  <2>1. \A m \in FreeNode(N, n) : Start <= m.start /\ Fin(m) <= End
    BY <1>1, <1>8 DEF TilesOf
  <2>2. \A m, k \in FreeNode(N, n) : m = k \/ Apart(m, k)
    BY <1>1, <1>5, <1>9 DEF Apart
  <2>3. \E m \in FreeNode(N, n) : m.start = Start
    <3>1. PICK m \in N : m.start = Start
      BY DEF TilesOf
    <3>2. CASE m \notin D
      BY <1>1, <3>1, <3>2
    <3>3. CASE m \in D
      <4>1. m = n => g.start = Start
        BY <1>3, <3>1 DEF TilesOf, Touch, Fin, Node
      <4>2. m \in P => g.start = Start
        BY <1>3, <3>1
      <4>3. m \notin S
        <5>1. m \in S => m.start = Fin(n) /\ n \in Node /\ Start <= n.start
          BY <1>4 DEF TilesOf, Touch
        <5> QED
          BY <3>1, <5>1, RangeAssumption DEF Fin, Node
      <4> QED
        BY <1>1, <3>3, <4>1, <4>2, <4>3 DEF D
    <3> QED
      BY <3>2, <3>3
  <2>4. ASSUME NEW m \in FreeNode(N, n), Fin(m) # End
        PROVE  \E k \in FreeNode(N, n) : Touch(m, k)
    <3>1. CASE m \in N /\ m \notin D
      <4>1. PICK k \in N : Touch(m, k)
        BY <2>4, <3>1 DEF TilesOf
      <4> QED
        BY <1>1, <1>10, <3>1, <4>1
    <3>2. CASE m = g
      <4>1. PICK l \in {n} \cup S : Fin(l) = Fin(g) /\ (S = {} => l = n) /\ (S # {} => l \in S)
        BY <1>4
      <4>2. PICK k \in N : Touch(l, k)
        BY <1>6, <2>4, <3>2, <4>1 DEF TilesOf
      <4>3. k.start >= Fin(n) /\ k # n /\ k \notin P
        BY <1>3, <1>4, <4>1, <4>2 DEF Touch, Fin, Node
      <4>4. k \notin S
        BY <1>4, <4>1, <4>2 DEF Touch, Fin, Node
      <4> QED
        BY <1>1, <3>2, <4>1, <4>2, <4>3, <4>4 DEF D, Touch
    <3> QED
      BY <1>1, <3>1, <3>2
  <2>5. ASSUME NEW m \in FreeNode(N, n), m.start # Start
        PROVE  \E k \in FreeNode(N, n) : Touch(k, m)
    <3>1. CASE m \in N /\ m \notin D
      <4>1. PICK k \in N : Touch(k, m)
        BY <2>5, <3>1 DEF TilesOf
      <4> QED
        BY <1>1, <1>11, <3>1, <4>1
    <3>2. CASE m = g
      <4>1. PICK l \in {n} \cup P : l.start = g.start /\ (P = {} => l = n) /\ (P # {} => l \in P)
        BY <1>3
      <4>2. PICK k \in N : Touch(k, l)
        BY <1>6, <2>5, <3>2, <4>1 DEF TilesOf
      <4>3. Fin(k) <= n.start /\ k # n /\ k \notin S
        BY <1>3, <1>4, <4>1, <4>2 DEF Touch, Fin, Node
      <4>4. k \notin P
        BY <1>3, <4>1, <4>2 DEF Touch, Fin, Node
      <4> QED
        BY <1>1, <3>2, <4>1, <4>2, <4>3, <4>4 DEF D, Touch
    <3> QED
      BY <1>1, <3>1, <3>2
  <2> QED
    BY <2>1, <2>2, <2>3, <2>4, <2>5 DEF TilesOf
<1>13. CoalescedOf(FreeNode(N, n))
  <2> SUFFICES ASSUME NEW m \in FreeNode(N, n), NEW k \in FreeNode(N, n), Touch(m, k),
                      m.type = FREE, k.type = FREE
               PROVE  FALSE
    BY DEF CoalescedOf
  <2>1. CASE m \in N /\ k \in N
    BY <2>1 DEF CoalescedOf
  <2>2. CASE m = g /\ k = g
    BY <1>2, <2>2 DEF Touch, Fin, Node
  <2>3. CASE m \in N /\ m \notin D /\ k = g
    <3>1. m # n
      BY <1>6, <2>3
    <3> QED
      BY <1>3, <2>3, <3>1 DEF CoalescedOf, Touch
  <2>4. CASE m = g /\ k \in N /\ k \notin D
    <3>1. k # n
      BY <1>6, <2>4
    <3> QED
      BY <1>4, <2>4, <3>1 DEF CoalescedOf, Touch
  <2> QED
    BY <1>1, <2>1, <2>2, <2>3, <2>4
<1> QED
  BY <1>1, <1>2, <1>7, <1>12, <1>13

\* A set of nodes whose used nodes are all in a separated set is separated.
LEMMA SeparatedSubset ==
  ASSUME NEW N, NEW M, SeparatedOf(N), \A m \in M : m.type # FREE => m \in N
  PROVE  SeparatedOf(M)
  BY DEF SeparatedOf, USED0, USED1, FREE

-----------------------------------------------------------------------------
(* The split in pscnv_mm_alloc_single                                      *)

\* Releasing a node with no free neighbour only changes its type.
LEMMA FreeNodeAlone ==
  ASSUME NEW N, NEW n \in Node, FreePrev(N, n) = {}, FreeSucc(N, n) = {}
  PROVE  FreeNode(N, n) = (N \ {n}) \cup {[start |-> n.start, size |-> n.size, type |-> FREE]}
<1>1. n.size + 0 + 0 = n.size
  BY DEF Node
<1> QED
  BY <1>1 DEF FreeNode, FreePrev, FreeSucc

\* The pieces that Carve leaves of the node f.
Used(s, e, t) == [start |-> s, size |-> e - s, type |-> t]
LeftRest(f, s) ==
  IF s = f.start THEN {} ELSE {[start |-> f.start, size |-> s - f.start, type |-> FREE]}
RightRest(f, e) ==
  IF e = Fin(f) THEN {} ELSE {[start |-> e, size |-> Fin(f) - e, type |-> FREE]}

\* In a coalesced tiling nothing merges when the rests of a split are released.
LEMMA CarveShape ==
  ASSUME NEW N, N \subseteq Node, TilesOf(N), CoalescedOf(N),
         NEW f \in N, f.type = FREE, NEW t \in {USED0, USED1},
         NEW s \in Nat, NEW e \in Nat, f.start <= s, s < e, e <= Fin(f)
  PROVE  Carve(N, f, s, e, t)
           = (N \ {f}) \cup {Used(s, e, t)} \cup LeftRest(f, s) \cup RightRest(f, e)
<1> DEFINE lsp == [start |-> f.start, size |-> s - f.start, type |-> USED0]
           rsp == [start |-> e, size |-> Fin(f) - e, type |-> USED0]
           u  == Used(s, e, t)
           N0 == (N \ {f}) \cup {u}
           N1 == IF s = f.start THEN N0 ELSE FreeNode(N0 \cup {lsp}, lsp)
<1>1. Carve(N, f, s, e, t) = IF e = Fin(f) THEN N1 ELSE FreeNode(N1 \cup {rsp}, rsp)
  BY DEF Carve, Used
<1>2. u.start = s /\ u.type = t /\ u.type # FREE
  BY DEF Used, USED0, USED1, FREE
<1>3. f \in Node /\ Fin(f) \in Nat /\ f.start \in Nat
  BY DEF Node, Fin
\* Every other node of N lies beside f, and is not free where it touches f.
<1>4. ASSUME NEW m \in N, m # f
      PROVE  /\ m.start < f.start \/ m.start >= Fin(f)
             /\ m.type = FREE => ~Touch(m, f) /\ ~Touch(f, m)
  <2>1. Fin(m) <= f.start \/ Fin(f) <= m.start
    BY <1>4 DEF TilesOf, Apart
  <2> QED
    BY <2>1 DEF CoalescedOf, Fin, Node
<1>5. N1 = N0 \cup LeftRest(f, s)
  <2>1. CASE s = f.start
    BY <2>1 DEF LeftRest
  <2>2. CASE s # f.start
    <3>1. lsp \in Node /\ lsp.start = f.start
      BY <1>3, <2>2 DEF Node
    <3> HIDE DEF lsp, u
    <3>2. FreePrev(N0 \cup {lsp}, lsp) = {}
      <4> SUFFICES ASSUME NEW p \in FreePrev(N0 \cup {lsp}, lsp) PROVE FALSE
        OBVIOUS
      <4>1. p \in N0 \cup {lsp} /\ p.type = FREE /\ p.start < f.start
            /\ \A q \in N0 : q.start < f.start => q.start <= p.start
        BY <3>1 DEF FreePrev, Prev, IsPrev
      <4>2. p \in N /\ p # f
        BY <1>2, <1>3, <3>1, <4>1
      <4>3. \A q \in N : q.start < f.start => q.start <= p.start
        BY <1>3, <4>1
      <4>4. p \in Prev(N, f)
        BY <4>1, <4>2, <4>3 DEF Prev, IsPrev
      <4> QED
        BY <1>4, <4>1, <4>2, <4>4, PrevTouches
    <3>3. FreeSucc(N0 \cup {lsp}, lsp) = {}
      <4> SUFFICES ASSUME NEW p \in FreeSucc(N0 \cup {lsp}, lsp) PROVE FALSE
        OBVIOUS
      <4>1. p \in N0 \cup {lsp} /\ p.type = FREE /\ p.start > f.start
            /\ \A q \in N0 : q.start > f.start => q.start >= p.start
        BY <3>1 DEF FreeSucc, Succ, IsNext
      <4>2. p \in N /\ p # f
        BY <1>2, <1>3, <3>1, <4>1
      <4>3. s >= p.start
        BY <1>2, <1>3, <2>2, <4>1
      <4>4. p.start \in Nat
        BY <4>2 DEF Node
      <4> QED
        BY <1>3, <1>4, <4>1, <4>2, <4>3, <4>4
    <3>4. lsp \notin N0
      <4>1. u.start # f.start
        BY <1>2, <2>2
      <4>2. \A m \in N : m # f => m.start # f.start
        BY <1>3, <1>4 DEF Fin, Node
      <4> QED
        BY <3>1, <4>1, <4>2
    <3>5. FreeNode(N0 \cup {lsp}, lsp)
            = N0 \cup {[start |-> lsp.start, size |-> lsp.size, type |-> FREE]}
      BY <3>1, <3>2, <3>3, <3>4, FreeNodeAlone
    <3>6. lsp.start = f.start /\ lsp.size = s - f.start
      BY DEF lsp
    <3> QED
      BY <2>2, <3>5, <3>6 DEF LeftRest
  <2> QED
    BY <2>1, <2>2
<1>6. CASE e = Fin(f)
  BY <1>1, <1>5, <1>6 DEF RightRest
<1>7. CASE e # Fin(f)
  <2>1. rsp \in Node /\ rsp.start = e /\ rsp.type # FREE
    BY <1>3, <1>7 DEF Node, USED0, FREE
  <2>2. \A m \in N1 : (m \in N /\ m # f) \/ m = u \/ (m.start \in Nat /\ m.start < s)
    <3>1. \A m \in LeftRest(f, s) : m.start \in Nat /\ m.start < s
      BY <1>3 DEF LeftRest
    <3> QED
      BY <1>5, <3>1
  <2>3. u \in N1 /\ \A m \in N : m # f => m \in N1
    BY <1>5
  <2> HIDE DEF rsp, u, N1, N0
  <2>4. FreePrev(N1 \cup {rsp}, rsp) = {}
    <3> SUFFICES ASSUME NEW p \in FreePrev(N1 \cup {rsp}, rsp) PROVE FALSE
      OBVIOUS
    <3>1. p \in N1 /\ p.type = FREE /\ p.start < e /\ s <= p.start
      BY <1>2, <2>1, <2>3 DEF FreePrev, Prev, IsPrev
    <3>2. p \in N /\ p # f
      BY <1>2, <1>3, <2>2, <3>1
    <3>3. p.start \in Nat
      BY <3>2 DEF Node
    <3> QED
      BY <1>3, <1>4, <3>1, <3>2, <3>3
  <2>5. FreeSucc(N1 \cup {rsp}, rsp) = {}
    <3> SUFFICES ASSUME NEW p \in FreeSucc(N1 \cup {rsp}, rsp) PROVE FALSE
      OBVIOUS
    <3>1. p \in N1 \cup {rsp} /\ p.type = FREE /\ p.start > e
          /\ \A q \in N1 : q.start > e => q.start >= p.start
      BY <2>1 DEF FreeSucc, Succ, IsNext
    <3>2. p \in N /\ p # f
      BY <1>2, <2>1, <2>2, <3>1
    <3>3. p.start >= Fin(f) /\ p.start > f.start
      BY <1>3, <1>4, <3>1, <3>2 DEF Node
    <3>4. \A q \in N : q.start > f.start => q.start >= p.start
      <4> SUFFICES ASSUME NEW q \in N, q.start > f.start PROVE q.start >= p.start
        OBVIOUS
      <4>1. q # f /\ q.start \in Nat
        BY <1>3 DEF Node
      <4>2. q.start >= Fin(f)
        BY <1>3, <1>4, <4>1
      <4>3. q.start > e
        BY <1>3, <1>7, <4>1, <4>2
      <4> QED
        BY <2>3, <3>1, <4>1, <4>3
    <3>5. p \in Succ(N, f)
      BY <3>2, <3>3, <3>4 DEF Succ, IsNext
    <3> QED
      BY <1>4, <3>1, <3>2, <3>5, SuccTouches
  <2>6. rsp \notin N1
    <3>1. u.start # e
      BY <1>2
    <3>2. \A m \in N : m # f => m.start # e
      BY <1>3, <1>4, <1>7 DEF Node
    <3> QED
      BY <2>1, <2>2, <3>1, <3>2
  <2>7. FreeNode(N1 \cup {rsp}, rsp)
          = N1 \cup {[start |-> rsp.start, size |-> rsp.size, type |-> FREE]}
    BY <2>1, <2>4, <2>5, <2>6, FreeNodeAlone
  <2>8. rsp.start = e /\ rsp.size = Fin(f) - e
    BY DEF rsp
  <2> QED
    BY <1>1, <1>5, <1>7, <2>7, <2>8 DEF RightRest, N0, u
<1> QED
  BY <1>6, <1>7

\* Splitting a free node of a coalesced tiling gives a coalesced tiling.
LEMMA CarveTiles ==
  ASSUME NEW N, N \subseteq Node, TilesOf(N), CoalescedOf(N),
         NEW f \in N, f.type = FREE, NEW t \in {USED0, USED1},
         NEW s \in Nat, NEW e \in Nat, f.start <= s, s < e, e <= Fin(f)
  PROVE  /\ Carve(N, f, s, e, t) \subseteq Node
         /\ TilesOf(Carve(N, f, s, e, t))
         /\ CoalescedOf(Carve(N, f, s, e, t))
<1> DEFINE u == Used(s, e, t)
           L == LeftRest(f, s)
           R == RightRest(f, e)
           M == (N \ {f}) \cup {u} \cup L \cup R
<1>1. Carve(N, f, s, e, t) = M
  BY CarveShape
<1>2. f \in Node /\ Fin(f) \in Nat /\ f.start \in Nat /\ Start <= f.start /\ Fin(f) <= End
  BY DEF TilesOf, Node, Fin
<1>3. u \in Node /\ u.start = s /\ Fin(u) = e /\ u.type # FREE
  BY DEF Used, Node, Fin, USED0, USED1, FREE
<1>4. \A l \in L : l \in Node /\ l.start = f.start /\ Fin(l) = s
  BY <1>2 DEF LeftRest, Node, Fin
<1>5. \A r \in R : r \in Node /\ r.start = e /\ Fin(r) = Fin(f)
  BY <1>2 DEF RightRest, Node, Fin
<1>6. /\ L = {} => s = f.start
      /\ L # {} => s # f.start /\ \E l \in L : TRUE
      /\ R = {} => e = Fin(f)
      /\ R # {} => e # Fin(f) /\ \E r \in R : TRUE
      /\ \A l, k \in L : l = k
      /\ \A l, k \in R : l = k
  BY DEF LeftRest, RightRest
<1> HIDE DEF u, L, R
<1>7. ASSUME NEW m \in N, m # f
      PROVE  /\ m \in M /\ m \in Node
             /\ Fin(m) <= f.start \/ Fin(f) <= m.start
             /\ m.type = FREE => ~Touch(m, f) /\ ~Touch(f, m)
  <2>1. Fin(m) <= f.start \/ Fin(f) <= m.start
    BY <1>7 DEF TilesOf, Apart
  <2> QED
    BY <1>7, <2>1 DEF CoalescedOf
<1>8. M \subseteq Node
  BY <1>3, <1>4, <1>5
<1>9. TilesOf(M)
  <2>1. \A m \in M : Start <= m.start /\ Fin(m) <= End
    <3>1. \A m \in N : Start <= m.start /\ Fin(m) <= End
      BY DEF TilesOf
    <3>2. Start <= s /\ s <= End /\ e <= End /\ Start <= e
      BY <1>2, RangeAssumption
    <3> QED
      BY <1>2, <1>3, <1>4, <1>5, <3>1, <3>2
  <2>2. \A m, k \in M : m = k \/ Apart(m, k)
    <3>1. \A m, k \in N : m = k \/ Apart(m, k)
      BY DEF TilesOf
    <3>2. ASSUME NEW m \in N, m # f, NEW k \in {u} \cup L \cup R PROVE Apart(m, k)
      <4>1. f.start <= k.start /\ Fin(k) <= Fin(f) /\ k \in Node /\ m \in Node
        BY <1>2, <1>3, <1>4, <1>5
      <4>2. Fin(m) <= f.start \/ Fin(f) <= m.start
        BY <1>7, <3>2
      <4> QED
        BY <1>2, <4>1, <4>2 DEF Apart, Fin, Node
    <3>3. ASSUME NEW m \in {u} \cup L \cup R, NEW k \in {u} \cup L \cup R, m # k
          PROVE  Apart(m, k)
      BY <1>2, <1>3, <1>4, <1>5, <1>6, <3>3 DEF Apart
    <3> QED
      BY <3>1, <3>2, <3>3 DEF Apart
  <2>3. \E m \in M : m.start = Start
    <3>1. PICK m \in N : m.start = Start
      BY DEF TilesOf
    <3>2. CASE m # f
      BY <3>1, <3>2
    <3>3. CASE m = f
      BY <1>3, <1>4, <1>6, <3>1, <3>3
    <3> QED
      BY <3>2, <3>3
  <2>4. ASSUME NEW m \in M, m.start # Start PROVE \E k \in M : Touch(k, m)
    <3>1. ASSUME NEW n \in N, n.start # Start, n = f \/ n \in M, NEW x \in M, x.start = n.start
          PROVE  \E k \in M : Touch(k, x)
      <4>1. PICK k \in N : Touch(k, n)
        BY <3>1 DEF TilesOf
      <4>2. CASE k # f
        BY <3>1, <4>1, <4>2 DEF Touch
      <4>3. CASE k = f
        BY <1>3, <1>5, <1>6, <3>1, <4>1, <4>3 DEF Touch
      <4> QED
        BY <4>2, <4>3
    <3>2. CASE m \in N
      BY <2>4, <3>1, <3>2
    <3>3. CASE m \in L
      BY <1>4, <2>4, <3>1, <3>3
    <3>4. CASE m = u
      BY <1>3, <1>4, <1>6, <2>4, <3>1, <3>4 DEF Touch
    <3>5. CASE m \in R
      BY <1>3, <1>5, <3>5 DEF Touch
    <3> QED
      BY <3>2, <3>3, <3>4, <3>5
  <2>5. ASSUME NEW m \in M, Fin(m) # End PROVE \E k \in M : Touch(m, k)
    <3>1. ASSUME NEW n \in N, Fin(n) # End, NEW x \in M, Fin(x) = Fin(n)
          PROVE  \E k \in M : Touch(x, k)
      <4>1. PICK k \in N : Touch(n, k)
        BY <3>1 DEF TilesOf
      <4>2. CASE k # f
        BY <3>1, <4>1, <4>2 DEF Touch
      <4>3. CASE k = f
        BY <1>3, <1>4, <1>6, <3>1, <4>1, <4>3 DEF Touch
      <4> QED
        BY <4>2, <4>3
    <3>2. CASE m \in N
      BY <2>5, <3>1, <3>2
    <3>3. CASE m \in L
      BY <1>3, <1>4, <3>3 DEF Touch
    <3>4. CASE m = u
      BY <1>3, <1>5, <1>6, <2>5, <3>1, <3>4 DEF Touch
    <3>5. CASE m \in R
      BY <1>5, <2>5, <3>1, <3>5
    <3> QED
      BY <3>2, <3>3, <3>4, <3>5
  <2> QED
    BY <2>1, <2>2, <2>3, <2>4, <2>5 DEF TilesOf
<1>10. CoalescedOf(M)
  <2> SUFFICES ASSUME NEW m \in M, NEW k \in M, Touch(m, k), m.type = FREE, k.type = FREE
               PROVE  FALSE
    BY DEF CoalescedOf
  <2>1. m # u /\ k # u
    BY <1>3
  <2>2. \A x \in M : x.start \in Nat /\ Fin(x) \in Nat /\ x.start < Fin(x)
    BY <1>8 DEF Node, Fin
  <2>3. CASE m \in N /\ m # f
    <3>1. CASE k \in N
      BY <2>3, <3>1 DEF CoalescedOf
    <3>2. CASE k \in L
      BY <1>4, <1>7, <2>3, <3>2 DEF Touch
    <3>3. CASE k \in R
      BY <1>2, <1>5, <1>6, <1>7, <2>2, <2>3, <3>3 DEF Touch
    <3> QED
      BY <2>1, <3>1, <3>2, <3>3
  <2>4. CASE k \in N /\ k # f
    <3>1. CASE m \in L
      BY <1>2, <1>4, <1>6, <1>7, <2>2, <2>4, <3>1 DEF Touch
    <3>2. CASE m \in R
      BY <1>5, <1>7, <2>4, <3>2 DEF Touch
    <3> QED
      BY <2>1, <2>3, <3>1, <3>2
  <2>5. CASE m \in L \cup R /\ k \in L \cup R
    BY <1>2, <1>4, <1>5, <1>6, <2>2, <2>5 DEF Touch
  <2> QED
    BY <2>1, <2>3, <2>4, <2>5
<1> QED
  BY <1>1, <1>8, <1>9, <1>10

\* Comparing blocks of a node with a unit of it.
LEMMA BlockOrder ==
  ASSUME NEW m \in Node
  PROVE  /\ FirstBlock(m) \in Nat /\ LastBlock(m) \in Nat
         /\ FirstBlock(m) <= LastBlock(m)
         /\ Fin(m) - 1 \in Nat /\ m.start <= Fin(m) - 1
<1>1. m.start \in Nat /\ Fin(m) - 1 \in Nat /\ m.start <= Fin(m) - 1 /\ TS \in Nat \ {0}
  BY RangeAssumption DEF Node, Fin
<1> QED
  BY <1>1, DivBounds, DivMonotone DEF FirstBlock, LastBlock

\* A fragment inside the window of pscnv_mm_getfree shares no block with a
\* node of the other type, whichever node that is: the neighbour, or a node
\* behind a neighbour of the fragment's own type.
LEMMA WindowSeparates ==
  ASSUME NEW N, N \subseteq Node, TilesOf(N), SeparatedOf(N),
         NEW f \in N, f.type = FREE, NEW t \in {USED0, USED1},
         NEW s \in Nat, NEW e \in Nat, f.start <= s, s < e, e <= Fin(f),
         NeighbourIs(Prev(N, f), t) \/ RoundUp(f.start, TS) <= s,
         NeighbourIs(Succ(N, f), t) \/ e <= RoundDown(Fin(f), TS),
         NEW m \in N, m.type # FREE, m.type # t
  PROVE  LastBlock(m) < s \div TS \/ (e - 1) \div TS < FirstBlock(m)
<1>1. /\ TS \in Nat \ {0} /\ f \in Node /\ m \in Node /\ m # f
      /\ f.start \in Nat /\ Fin(f) \in Nat /\ f.start < End /\ f.start + TS <= Word
  BY RangeAssumption DEF TilesOf, Node, Fin
<1>2. Fin(m) <= f.start \/ Fin(f) <= m.start
  BY <1>1 DEF TilesOf, Apart
\* One of m and a node of type t has type 1, so N separates them.
<1>3. \A p \in N : p.type = t => LastBlock(m) < FirstBlock(p) \/ LastBlock(p) < FirstBlock(m)
  BY DEF SeparatedOf, Node, USED0, USED1, FREE
<1>4. CASE Fin(m) <= f.start
  <2>1. CASE RoundUp(f.start, TS) <= s
    <3>1. Fin(m) - 1 \in Nat /\ Fin(m) - 1 < f.start
      BY <1>1, <1>4 DEF Fin, Node
    <3> QED
      BY <1>1, <2>1, <3>1, RoundUpSeparates DEF LastBlock
  <2>2. CASE NeighbourIs(Prev(N, f), t)
    <3>1. f.start # Start
      BY <1>1, <1>4 DEF TilesOf, Fin, Node
    <3>2. PICK p \in N : Touch(p, f)
      BY <3>1 DEF TilesOf
    <3>3. p \in Prev(N, f) /\ p \in Node
      BY <3>2, PrevTouches
    <3>4. \A q \in Prev(N, f) : q = p
      <4> SUFFICES ASSUME NEW q \in Prev(N, f) PROVE q = p
        OBVIOUS
      <4>1. q \in N /\ q \in Node /\ Touch(q, f)
        BY PrevTouches DEF Prev
      <4> QED
        BY <3>2, <3>3, <4>1 DEF TilesOf, Apart, Touch, Fin, Node
    <3>5. p.type = t
      BY <2>2, <3>3, <3>4 DEF NeighbourIs
    <3>6. Fin(m) <= p.start
      BY <1>1, <1>4, <3>2, <3>3, <3>5 DEF TilesOf, Apart, Touch, Fin, Node
    <3>7. m.start <= Fin(p) - 1 /\ p.start <= s
      BY <1>1, <3>2, <3>3, <3>6 DEF Touch, Fin, Node
    <3>8. FirstBlock(m) <= LastBlock(p) /\ FirstBlock(p) <= s \div TS
      BY <1>1, <3>3, <3>7, BlockOrder, DivMonotone DEF FirstBlock, LastBlock, Node
    <3>9. LastBlock(m) < FirstBlock(p)
      BY <1>1, <1>3, <3>3, <3>5, <3>8, BlockOrder
    <3> QED
      BY <1>1, <3>3, <3>8, <3>9, BlockOrder, DivBounds
  <2> QED
    BY <2>1, <2>2
<1>5. CASE Fin(f) <= m.start
  <2>0. e - 1 \in Nat
    OBVIOUS
  <2>1. CASE e <= RoundDown(Fin(f), TS)
    <3>1. e - 1 < RoundDown(Fin(f), TS) /\ m.start \in Nat
      BY <1>1, <2>1, RoundDownBounds DEF Node
    <3> QED
      BY <1>1, <1>5, <2>0, <3>1, RoundDownSeparates DEF FirstBlock
  <2>2. CASE NeighbourIs(Succ(N, f), t)
    <3>1. Fin(f) # End
      BY <1>1, <1>5 DEF TilesOf, Fin, Node
    <3>2. PICK p \in N : Touch(f, p)
      BY <3>1 DEF TilesOf
    <3>3. p \in Succ(N, f) /\ p \in Node
      BY <3>2, SuccTouches
    <3>4. \A q \in Succ(N, f) : q = p
      <4> SUFFICES ASSUME NEW q \in Succ(N, f) PROVE q = p
        OBVIOUS
      <4>1. q \in N /\ q \in Node /\ Touch(f, q)
        BY SuccTouches DEF Succ
      <4> QED
        BY <3>2, <3>3, <4>1 DEF TilesOf, Apart, Touch, Fin, Node
    <3>5. p.type = t
      BY <2>2, <3>3, <3>4 DEF NeighbourIs
    <3>6. Fin(p) <= m.start
      BY <1>1, <1>5, <3>2, <3>3, <3>5 DEF TilesOf, Apart, Touch, Fin, Node
    <3>7. p.start <= Fin(m) - 1 /\ e - 1 <= Fin(p) - 1
      BY <1>1, <3>2, <3>3, <3>6 DEF Touch, Fin, Node
    <3>8. FirstBlock(p) <= LastBlock(m) /\ (e - 1) \div TS <= LastBlock(p)
      BY <1>1, <2>0, <3>3, <3>7, BlockOrder, DivMonotone DEF FirstBlock, LastBlock, Node
    <3>9. LastBlock(p) < FirstBlock(m)
      BY <1>1, <1>3, <3>3, <3>5, <3>8, BlockOrder
    <3> QED
      BY <1>1, <2>0, <3>3, <3>8, <3>9, BlockOrder, DivBounds
  <2> QED
    BY <2>1, <2>2
<1> QED
  BY <1>2, <1>4, <1>5

\* Nor does a fragment of type 1 inside that window share a block with what
\* lies outside the range.
LEMMA WindowInsideRange ==
  ASSUME NEW N, N \subseteq Node, TilesOf(N), SeparatedOf(N),
         NEW f \in N,
         NEW s \in Nat, NEW e \in Nat, f.start <= s, s < e, e <= Fin(f),
         NeighbourIs(Prev(N, f), USED1) \/ RoundUp(f.start, TS) <= s,
         NeighbourIs(Succ(N, f), USED1) \/ e <= RoundDown(Fin(f), TS)
  PROVE  /\ Start <= (s \div TS) * TS
         /\ ((e - 1) \div TS + 1) * TS <= End
<1>1. /\ TS \in Nat \ {0} /\ f \in Node /\ f.start \in Nat /\ Fin(f) \in Nat
      /\ Start \in Nat /\ End \in Nat /\ Start <= f.start /\ Fin(f) <= End
      /\ f.start + TS <= Word /\ e - 1 \in Nat
      /\ s \div TS \in Nat /\ (e - 1) \div TS \in Nat
  <2>1. /\ TS \in Nat \ {0} /\ f \in Node /\ f.start \in Nat /\ Fin(f) \in Nat
        /\ Start <= f.start /\ Fin(f) <= End /\ f.start < Fin(f)
    BY RangeAssumption DEF TilesOf, Node, Fin
  <2>2. e - 1 \in Nat /\ f.start + TS <= Word
    BY <2>1, RangeAssumption
  <2> QED
    BY <2>1, <2>2, RangeAssumption, DivBounds
<1>2. Start <= (s \div TS) * TS
  <2>1. CASE RoundUp(f.start, TS) <= s
    <3>1. PICK k \in Nat : RoundUp(f.start, TS) = k * TS
      BY <1>1, RoundUpBounds
    <3>2. Start <= k * TS /\ ~(s < k * TS)
      BY <1>1, <2>1, <3>1, RoundUpBounds
    <3>3. ~(s \div TS < k)
      BY <1>1, <3>2, DivLess
    <3>4. k * TS <= (s \div TS) * TS
      <4>1. k <= s \div TS
        BY <1>1, <3>3
      <4> QED
        BY <1>1, <4>1
    <3> QED
      BY <1>1, <3>2, <3>4
  <2>2. CASE NeighbourIs(Prev(N, f), USED1)
    <3>1. PICK p \in Prev(N, f) : p.type = USED1
      BY <2>2 DEF NeighbourIs, USED0, USED1
    <3>2. p \in N /\ p \in Node /\ p.start < f.start
      BY DEF Prev, IsPrev
    <3>3. Start <= FirstBlock(p) * TS
      BY <3>1, <3>2 DEF SeparatedOf
    <3>4. FirstBlock(p) <= s \div TS /\ FirstBlock(p) \in Nat
      BY <1>1, <3>2, BlockOrder, DivMonotone DEF FirstBlock, Node
    <3>5. FirstBlock(p) * TS <= (s \div TS) * TS
      BY <1>1, <3>4
    <3> QED
      BY <1>1, <3>3, <3>4, <3>5
  <2> QED
    BY <2>1, <2>2
<1>3. ((e - 1) \div TS + 1) * TS <= End
  <2>1. CASE e <= RoundDown(Fin(f), TS)
    <3>1. PICK k \in Nat : RoundDown(Fin(f), TS) = k * TS
      BY <1>1, RoundDownBounds
    <3>2. k * TS <= End /\ e - 1 < k * TS
      BY <1>1, <2>1, <3>1, RoundDownBounds
    <3>3. (e - 1) \div TS + 1 <= k
      BY <1>1, <3>2, DivLess
    <3>4. ((e - 1) \div TS + 1) * TS <= k * TS
      BY <1>1, <3>3
    <3> QED
      BY <1>1, <3>2, <3>4
  <2>2. CASE NeighbourIs(Succ(N, f), USED1)
    <3>1. PICK p \in Succ(N, f) : p.type = USED1
      BY <2>2 DEF NeighbourIs, USED0, USED1
    <3>2. p \in N /\ p \in Node /\ Touch(f, p)
      BY SuccTouches DEF Succ
    <3>3. (LastBlock(p) + 1) * TS <= End
      BY <3>1, <3>2 DEF SeparatedOf
    <3>4. e - 1 <= Fin(p) - 1 /\ Fin(p) - 1 \in Nat
      BY <1>1, <3>2 DEF Touch, Fin, Node
    <3>5. (e - 1) \div TS <= LastBlock(p) /\ LastBlock(p) \in Nat
      BY <1>1, <3>2, <3>4, BlockOrder, DivMonotone DEF LastBlock
    <3>6. ((e - 1) \div TS + 1) * TS <= (LastBlock(p) + 1) * TS
      BY <1>1, <3>5
    <3> QED
      BY <1>1, <3>3, <3>5, <3>6
  <2> QED
    BY <2>1, <2>2
<1> QED
  BY <1>2, <1>3

\* Using a fragment inside the window keeps the two types apart.
LEMMA CarveSeparates ==
  ASSUME NEW N, N \subseteq Node, TilesOf(N), CoalescedOf(N), SeparatedOf(N),
         NEW f \in N, f.type = FREE, NEW t \in {USED0, USED1},
         NEW s \in Nat, NEW e \in Nat, f.start <= s, s < e, e <= Fin(f),
         NeighbourIs(Prev(N, f), t) \/ RoundUp(f.start, TS) <= s,
         NeighbourIs(Succ(N, f), t) \/ e <= RoundDown(Fin(f), TS)
  PROVE  SeparatedOf(Carve(N, f, s, e, t))
<1> DEFINE u == Used(s, e, t)
           M == Carve(N, f, s, e, t)
<1>1. \A m \in M : m.type # FREE => m \in N \/ m = u
  BY CarveShape DEF LeftRest, RightRest
<1>2. u.type = t /\ FirstBlock(u) = s \div TS /\ LastBlock(u) = (e - 1) \div TS
  BY DEF Used, FirstBlock, LastBlock, Fin
<1>3. \A m \in N : m.type # FREE /\ m.type # t
         => LastBlock(m) < FirstBlock(u) \/ LastBlock(u) < FirstBlock(m)
  BY <1>2, WindowSeparates
<1>4. t = USED1 => Start <= FirstBlock(u) * TS /\ (LastBlock(u) + 1) * TS <= End
  BY <1>2, WindowInsideRange
<1> HIDE DEF u, M
<1> SUFFICES ASSUME NEW n \in M, n.type = USED1
             PROVE  /\ Start <= FirstBlock(n) * TS
                    /\ (LastBlock(n) + 1) * TS <= End
                    /\ \A m \in M : m.type = USED0 =>
                         LastBlock(m) < FirstBlock(n) \/ LastBlock(n) < FirstBlock(m)
  BY DEF SeparatedOf, M
<1>5. CASE n = u
  BY <1>1, <1>2, <1>3, <1>4, <1>5 DEF USED0, USED1, FREE
<1>6. CASE n \in N
  <2>1. \A m \in N : m.type = USED0 => LastBlock(m) < FirstBlock(n) \/ LastBlock(n) < FirstBlock(m)
    BY <1>6 DEF SeparatedOf
  <2>2. u.type = USED0 => LastBlock(u) < FirstBlock(n) \/ LastBlock(n) < FirstBlock(u)
    BY <1>2, <1>3, <1>6 DEF USED0, USED1, FREE
  <2> QED
    BY <1>1, <1>6, <2>1, <2>2 DEF SeparatedOf, USED0, FREE
<1> QED
  BY <1>1, <1>5, <1>6 DEF USED1, FREE

-----------------------------------------------------------------------------
(* Inductive invariant                                                     *)

\* Separation needs the tiling and the coalescing: getfree looks at one
\* neighbour on each side, and only they make that neighbour the nearest
\* storage of the other type or a shield against it.
IInv == TypeOK /\ Tiles /\ Coalesced /\ Separated

LEMMA PageNat ==
  ASSUME NEW r \in Requests
  PROVE  Page(r) \in Nat \ {0} /\ Page(r) <= SP + LP
  BY RangeAssumption, RequestAssumption DEF Page, Request

\* The gap of a free node lies in the node, and off the blocks of neighbours
\* of another type.
LEMMA GetFreeBounds ==
  ASSUME nodes \subseteq Node, TilesOf(nodes), NEW n \in nodes,
         NEW t \in {USED0, USED1}, NEW pg \in Nat \ {0}, pg <= SP + LP
  PROVE  LET s == FreeStart(nodes, n, t, pg)
             e == FreeEnd(nodes, n, t, pg)
         IN /\ s \in Nat /\ e \in Nat /\ n.start <= s /\ e <= Fin(n)
            /\ NeighbourIs(Prev(nodes, n), t) \/ RoundUp(n.start, TS) <= s
            /\ NeighbourIs(Succ(nodes, n), t) \/ e <= RoundDown(Fin(n), TS)
<1> DEFINE x == IF NeighbourIs(Prev(nodes, n), t) THEN n.start ELSE RoundUp(n.start, TS)
           y == IF NeighbourIs(Succ(nodes, n), t) THEN Fin(n) ELSE RoundDown(Fin(n), TS)
<1>1. /\ TS \in Nat \ {0} /\ n.start \in Nat /\ Fin(n) \in Nat /\ n.start < End
      /\ n.start + TS <= Word
  <2>1. n.start \in Nat /\ Fin(n) \in Nat /\ n.start < Fin(n) /\ Fin(n) <= End
    BY DEF TilesOf, Node, Fin
  <2> QED
    BY <2>1, RangeAssumption
<1>2. x \in Nat /\ n.start <= x /\ x < n.start + TS
  BY <1>1, RoundUpBounds
<1>3. x + pg <= Word
  BY <1>1, <1>2, RangeAssumption
<1>4. y \in Nat /\ y <= Fin(n)
  <2>1. RoundDown(Fin(n), TS) \in Nat /\ RoundDown(Fin(n), TS) <= Fin(n)
    BY <1>1, RoundDownBounds
  <2> QED
    BY <1>1, <2>1
<1>5. FreeStart(nodes, n, t, pg) = RoundUp(x, pg) /\ FreeEnd(nodes, n, t, pg) = RoundDown(y, pg)
  BY DEF FreeStart, FreeEnd
<1>6. NeighbourIs(Prev(nodes, n), t) \/ x = RoundUp(n.start, TS)
  OBVIOUS
<1>7. NeighbourIs(Succ(nodes, n), t) \/ y = RoundDown(Fin(n), TS)
  OBVIOUS
<1> HIDE DEF x, y
<1>8. RoundUp(x, pg) \in Nat /\ x <= RoundUp(x, pg)
  BY <1>2, <1>3, RoundUpBounds
<1>9. RoundDown(y, pg) \in Nat /\ RoundDown(y, pg) <= y
  BY <1>4, RoundDownBounds
<1> QED
  BY <1>1, <1>2, <1>4, <1>5, <1>6, <1>7, <1>8, <1>9

\* The fragment that pscnv_mm_alloc_single cuts: not empty, inside the node and
\* its gap, and not larger than what is left to allocate.
LEMMA FragBounds ==
  ASSUME nodes \subseteq Node, TilesOf(nodes), NEW n \in nodes, NEW r \in Requests,
         NEW left \in Nat, left > 0, Fits(n, r, left)
  PROVE  LET s == FragStart(n, r, left)
             e == FragEnd(n, r, left)
         IN /\ s \in Nat /\ e \in Nat /\ n.start <= s /\ s < e /\ e <= Fin(n)
            /\ e - s <= left
            /\ Lo(r) <= s /\ e <= Hi(r)
            /\ NeighbourIs(Prev(nodes, n), r.t) \/ RoundUp(n.start, TS) <= s
            /\ NeighbourIs(Succ(nodes, n), r.t) \/ e <= RoundDown(Fin(n), TS)
<1> DEFINE fs == FreeStart(nodes, n, r.t, Page(r))
           fe == FreeEnd(nodes, n, r.t, Page(r))
           ws == WindowStart(n, r)
           we == WindowEnd(n, r)
<1>1. r.t \in {USED0, USED1} /\ r.frag \in BOOLEAN /\ r.lo \in Nat /\ r.hi \in Nat
  BY RequestAssumption DEF Request
<1>2. /\ fs \in Nat /\ fe \in Nat /\ n.start <= fs /\ fe <= Fin(n)
      /\ NeighbourIs(Prev(nodes, n), r.t) \/ RoundUp(n.start, TS) <= fs
      /\ NeighbourIs(Succ(nodes, n), r.t) \/ fe <= RoundDown(Fin(n), TS)
  BY <1>1, PageNat, GetFreeBounds
<1>3. Lo(r) \in Nat /\ Hi(r) \in Nat
  BY <1>1, PageNat, RoundUpNat, RoundDownBounds DEF Lo, Hi
<1>4. ws \in Nat /\ fs <= ws /\ Lo(r) <= ws
  BY <1>2, <1>3 DEF WindowStart
<1>5. we \in Nat /\ we <= fe /\ we <= Hi(r)
  BY <1>2, <1>3 DEF WindowEnd
<1>6. we - ws >= 1
  BY <1>1, <1>4, <1>5 DEF Fits, MinSize
<1>7. FragStart(n, r, left) = IF r.back /\ we - ws > left THEN we - left ELSE ws
  BY DEF FragStart
<1>8. FragEnd(n, r, left) = IF ~r.back /\ we - ws > left THEN ws + left ELSE we
  BY DEF FragEnd
<1>9. RoundUp(n.start, TS) \in Nat /\ RoundDown(Fin(n), TS) \in Nat
      /\ n.start \in Nat /\ Fin(n) \in Nat
  <2>1. n.start \in Nat /\ Fin(n) \in Nat /\ TS \in Nat \ {0}
    BY RangeAssumption DEF Node, Fin
  <2> QED
    BY <2>1, RoundUpNat, RoundDownBounds
<1> HIDE DEF fs, fe, ws, we
<1>10. /\ FragStart(n, r, left) \in Nat /\ FragEnd(n, r, left) \in Nat
       /\ ws <= FragStart(n, r, left) /\ FragEnd(n, r, left) <= we
       /\ FragStart(n, r, left) < FragEnd(n, r, left)
       /\ FragEnd(n, r, left) - FragStart(n, r, left) <= left
  BY <1>4, <1>5, <1>6, <1>7, <1>8
<1> QED
  BY <1>2, <1>3, <1>4, <1>5, <1>9, <1>10

LEMMA InitIInv == Init => IInv
<1> SUFFICES ASSUME Init PROVE IInv
  OBVIOUS
<1> DEFINE n == [start |-> Start, size |-> End - Start, type |-> USED0]
<1>1. n \in Node /\ n.start = Start /\ Fin(n) = End
  BY RangeAssumption DEF Node, Fin
<1>2. nodes = FreeNode({n}, n)
  BY DEF Init
<1> HIDE DEF n
<1>3. TilesOf({n})
  BY <1>1, RangeAssumption DEF TilesOf
<1>4. CoalescedOf({n})
  BY <1>1, RangeAssumption DEF CoalescedOf, Touch
<1>5. nodes \subseteq Node /\ TilesOf(nodes) /\ CoalescedOf(nodes)
      /\ \A m \in nodes : m.type # FREE => m \in {n}
  BY <1>1, <1>2, <1>3, <1>4, FreeNodeInv
<1>6. SeparatedOf({n})
  BY DEF SeparatedOf, n, USED0, USED1
<1>7. Separated
  BY <1>5, <1>6, SeparatedSubset DEF Separated
<1>8. TypeOK
  <2>1. /\ chain = [o \in Objs |-> <<>>] /\ req = [o \in Objs |-> NoReq]
        /\ live = {} /\ call = Idle /\ before = {}
    BY DEF Init
  <2>2. call \in Call /\ call.op = "idle"
    BY <2>1 DEF Idle, Doing, Call
  <2>3. chain \in [Objs -> Seq(Nat)]
    BY <2>1
  <2> QED
    BY <1>5, <2>1, <2>2, <2>3 DEF TypeOK
<1> QED
  BY <1>5, <1>7, <1>8 DEF IInv, Tiles, Coalesced

\* Every step of every operation keeps the inductive invariant.
LEMMA NextIInv == IInv /\ [Next]_vars => IInv'
<1> SUFFICES ASSUME IInv, [Next]_vars PROVE IInv'
  OBVIOUS
<1> USE DEF IInv
\* Releasing a node, in a rollback or a free.
<1>1. ASSUME NEW n \in nodes, Up, nodes' = FreeNode(nodes, n)
      PROVE  nodes' \subseteq Node /\ TilesOf(nodes') /\ Coalesced' /\ Separated'
  <2>1. nodes \subseteq Node /\ TilesOf(nodes) /\ CoalescedOf(nodes) /\ SeparatedOf(nodes)
    BY <1>1 DEF TypeOK, Tiles, Coalesced, Separated
  <2> QED
    BY <1>1, <2>1, FreeNodeInv, SeparatedSubset DEF Coalesced, Separated
\* Steps that leave the nodes alone.
<1>2. ASSUME UNCHANGED nodes, Up, TypeOK' PROVE IInv'
  BY <1>2 DEF Tiles, Coalesced, Separated
<1>3. ASSUME NEW o \in Objs, NEW r \in Requests, AllocCall(o, r) PROVE IInv'
  <2>1. RoundUp(r.size, Page(r)) \in Nat
    BY PageNat, RoundUpNat, RequestAssumption DEF Request
  <2>2. TypeOK'
    BY <1>3, <2>1 DEF AllocCall, TypeOK, Call, Doing
  <2> QED
    BY <1>2, <1>3, <2>2 DEF AllocCall, Up
<1>4. ASSUME NEW n \in nodes, AllocSingle(n) PROVE IInv'
  <2> DEFINE r == req[call.obj]
             s == FragStart(n, r, call.left)
             e == FragEnd(n, r, call.left)
  <2>1. /\ call.op = "alloc" /\ call.left \in Nat /\ call.left > 0 /\ r \in Requests
        /\ Fits(n, r, call.left) /\ n.type = FREE /\ call.obj \in Objs
        /\ nodes' = Carve(nodes, n, s, e, r.t)
    BY <1>4 DEF AllocSingle, TypeOK, Call, Fits
  <2>2. /\ nodes \subseteq Node /\ TilesOf(nodes) /\ CoalescedOf(nodes) /\ SeparatedOf(nodes)
        /\ r.t \in {USED0, USED1}
    BY <2>1, RequestAssumption DEF TypeOK, Tiles, Up, Coalesced, Separated, Request
  <2>3. /\ s \in Nat /\ e \in Nat /\ n.start <= s /\ s < e /\ e <= Fin(n) /\ e - s <= call.left
        /\ NeighbourIs(Prev(nodes, n), r.t) \/ RoundUp(n.start, TS) <= s
        /\ NeighbourIs(Succ(nodes, n), r.t) \/ e <= RoundDown(Fin(n), TS)
    BY <2>1, <2>2, FragBounds
  <2>4. nodes' \subseteq Node /\ TilesOf(nodes') /\ CoalescedOf(nodes')
    BY <2>1, <2>2, <2>3, CarveTiles
  <2>5. SeparatedOf(nodes')
    BY <2>1, <2>2, <2>3, CarveSeparates
  <2>6. TypeOK'
    <3>1. chain' = [chain EXCEPT ![call.obj] = Append(@, s)] /\ UNCHANGED <<req, live, before>>
      BY <1>4 DEF AllocSingle
    <3>2. PICK b \in BOOLEAN : call' = Doing("alloc", call.obj, call.left - (e - s), b)
      BY <1>4 DEF AllocSingle, TypeOK, Call
    <3> HIDE DEF s, e
    <3>3. chain' \in [Objs -> Seq(Nat)]
      BY <2>1, <2>3, <3>1 DEF TypeOK
    <3>4. call.left - (e - s) \in Nat
      BY <2>1, <2>3
    <3>5. call' \in Call /\ call'.op = "alloc" /\ call'.obj = call.obj
      BY <2>1, <3>2, <3>4 DEF Doing, Call
    <3> QED
      BY <2>1, <2>4, <3>1, <3>3, <3>5 DEF TypeOK
  <2> QED
    BY <2>4, <2>5, <2>6 DEF Tiles, Coalesced, Separated
<1>5. CASE AllocFail
  <2>1. TypeOK'
    BY <1>5 DEF AllocFail, TypeOK, Call, Doing
  <2> QED
    BY <1>2, <1>5, <2>1 DEF AllocFail, Up
<1>6. CASE AllocDone
  <2>1. TypeOK'
    BY <1>6 DEF AllocDone, TypeOK, Call, Idle, Doing
  <2> QED
    BY <1>2, <1>6, <2>1 DEF AllocDone, Up
<1>7. ASSUME NEW n \in nodes, Rollback(n) PROVE IInv'
  <2>1. nodes' \subseteq Node /\ TilesOf(nodes') /\ Coalesced' /\ Separated'
    BY <1>1, <1>7 DEF Rollback, Up
  <2>2. chain' \in [Objs -> Seq(Nat)]
    BY <1>7 DEF Rollback, TypeOK
  <2> QED
    BY <1>7, <2>1, <2>2 DEF Rollback, TypeOK, Tiles
<1>8. CASE RollbackDone
  <2>1. TypeOK'
    BY <1>8 DEF RollbackDone, TypeOK, Call, Idle, Doing
  <2> QED
    BY <1>2, <1>8, <2>1 DEF RollbackDone, Up
<1>9. ASSUME NEW o \in Objs, FreeCall(o) PROVE IInv'
  <2>1. TypeOK'
    BY <1>9 DEF FreeCall, TypeOK, Call, Idle, Doing
  <2> QED
    BY <1>2, <1>9, <2>1 DEF FreeCall, Up
<1>10. ASSUME NEW n \in nodes, FreeStep(n) PROVE IInv'
  <2>1. nodes' \subseteq Node /\ TilesOf(nodes') /\ Coalesced' /\ Separated'
    BY <1>1, <1>10 DEF FreeStep, Up
  <2>2. chain' \in [Objs -> Seq(Nat)]
    BY <1>10 DEF FreeStep, TypeOK
  <2> QED
    BY <1>10, <2>1, <2>2 DEF FreeStep, TypeOK, Tiles
<1>11. CASE FreeDone
  <2>1. TypeOK'
    BY <1>11 DEF FreeDone, TypeOK, Call, Idle, Doing
  <2> QED
    BY <1>2, <1>11, <2>1 DEF FreeDone, Up
<1>12. CASE TakedownCall
  <2>1. TypeOK'
    BY <1>12 DEF TakedownCall, TypeOK, Call, Idle, Doing
  <2> QED
    BY <1>2, <1>12, <2>1 DEF TakedownCall, Up
<1>13. ASSUME NEW n \in nodes, NEW o \in Objs, TakedownNext(n, o) PROVE IInv'
  <2>1. TypeOK'
    BY <1>13 DEF TakedownNext, TypeOK, Call, Idle, Doing
  <2> QED
    BY <1>2, <1>13, <2>1 DEF TakedownNext, Up
<1>14. CASE TakedownDone
  BY <1>14 DEF TakedownDone, TypeOK, Call, Idle, Doing, Tiles, Up, Coalesced, CoalescedOf,
               Separated, SeparatedOf
<1>15. CASE UNCHANGED vars
  BY <1>15 DEF vars, TypeOK, Tiles, Up, Coalesced, Separated
<1> QED
  BY <1>3, <1>4, <1>5, <1>6, <1>7, <1>8, <1>9, <1>10, <1>11, <1>12, <1>13, <1>14, <1>15
     DEF Next, Step

LEMMA SpecIInv == Spec => []IInv
<1> QED
  BY InitIInv, NextIInv, PTL DEF Spec

\* The type invariant of the allocator holds in every reachable state.
THEOREM SpecTypeOK == Spec => []TypeOK
  BY SpecIInv, PTL DEF IInv

\* The nodes always tile the range: the BUG_ONs of pscnv_mm_free_node never fire.
THEOREM SpecTiles == Spec => []Tiles
  BY SpecIInv, PTL DEF IInv

\* Free nodes never touch.
THEOREM SpecCoalesced == Spec => []Coalesced
  BY SpecIInv, PTL DEF IInv

\* No block ever holds storage of both types, for every block and page size,
\* aligned or not, and for every position of the range in its blocks.
THEOREM SpecSeparated == Spec => []Separated
  BY SpecIInv, PTL DEF IInv

-----------------------------------------------------------------------------
(* Chains                                                                  *)

\* Nodes of a tiling with the same start are the same node.
LEMMA SameStart ==
  ASSUME NEW N, N \subseteq Node, TilesOf(N), NEW m \in N, NEW n \in N, m.start = n.start
  PROVE  m = n
  BY DEF TilesOf, Apart, Fin, Node

\* Releasing a used node takes it, and no other, from the used nodes.
LEMMA FreeNodeUsed ==
  ASSUME NEW N, N \subseteq Node, TilesOf(N), NEW n \in N, n.type # FREE
  PROVE  \A m : m \in FreeNode(N, n) /\ m.type # FREE <=> m \in N /\ m.type # FREE /\ m # n
<1>1. PICK g : /\ Merged(N, n, FreePrev(N, n), FreeSucc(N, n), g)
               /\ FreeNode(N, n) = (N \ ({n} \cup FreePrev(N, n) \cup FreeSucc(N, n))) \cup {g}
  BY FreeNodeShape
<1>2. g.type = FREE
  BY <1>1 DEF Merged
<1>3. \A p \in FreePrev(N, n) \cup FreeSucc(N, n) : p.type = FREE
  BY DEF FreePrev, FreeSucc
<1> QED
  BY <1>1, <1>2, <1>3

\* Splitting a free node adds the fragment cut out of it to the used nodes.
LEMMA CarveUsed ==
  ASSUME NEW N, N \subseteq Node, TilesOf(N), CoalescedOf(N),
         NEW f \in N, f.type = FREE, NEW t \in {USED0, USED1},
         NEW s \in Nat, NEW e \in Nat, f.start <= s, s < e, e <= Fin(f)
  PROVE  /\ \A m : m \in Carve(N, f, s, e, t) /\ m.type # FREE
                   <=> m = Used(s, e, t) \/ (m \in N /\ m.type # FREE)
         /\ \A m \in N : m.type # FREE => m.start # s
<1>1. Carve(N, f, s, e, t)
        = (N \ {f}) \cup {Used(s, e, t)} \cup LeftRest(f, s) \cup RightRest(f, e)
  BY CarveShape
<1>2. \A m \in LeftRest(f, s) \cup RightRest(f, e) : m.type = FREE
  BY DEF LeftRest, RightRest
<1>3. Used(s, e, t).type # FREE
  BY DEF Used, USED0, USED1, FREE
<1>4. ASSUME NEW m \in N, m.type # FREE PROVE m.start # s
  BY <1>4 DEF TilesOf, Apart, Fin, Node
<1> QED
  BY <1>1, <1>2, <1>3, <1>4

\* The four parts of ChainsExact.
UsedInChain ==
  \A n \in nodes : n.type # FREE =>
    \E o \in Objs : \E i \in DOMAIN chain[o] : chain[o][i] = n.start
ChainsUsed ==
  \A o \in Objs : \A i \in DOMAIN chain[o] :
    \E n \in nodes : n.type # FREE /\ n.start = chain[o][i]
ChainsApart ==
  \A o, q \in Objs : \A i \in DOMAIN chain[o], j \in DOMAIN chain[q] :
    chain[o][i] = chain[q][j] => o = q /\ i = j
ChainsOwned ==
  \A o \in Objs : chain[o] # <<>> =>
    \/ o \in live
    \/ call.op \in {"alloc", "rollback", "free", "takefree"} /\ call.obj = o

LEMMA ChainsParts ==
  ChainsExact <=> (Up => UsedInChain /\ ChainsUsed /\ ChainsApart /\ ChainsOwned)
  BY DEF ChainsExact, UsedInChain, ChainsUsed, ChainsApart, ChainsOwned

\* Taking an end of the chain c off together with the node it starts.
LEMMA DropEnd ==
  ASSUME IInv, ChainsExact, Up, NEW o \in Objs, NEW n \in nodes,
         chain[o] # <<>>,
         nodes' = FreeNode(nodes, n),
         NEW c \in Seq(Nat), chain' = [chain EXCEPT ![o] = c],
         \/ n.start = Head(chain[o]) /\ c = Tail(chain[o])
         \/ n.start = chain[o][Len(chain[o])] /\ c = SubSeq(chain[o], 1, Len(chain[o]) - 1)
  PROVE  (UsedInChain /\ ChainsUsed /\ ChainsApart)'
<1> DEFINE d == chain[o]
           k == IF n.start = Head(d) /\ c = Tail(d) THEN 1 ELSE Len(d)
           at(j) == IF k = 1 /\ c = Tail(d) THEN j + 1 ELSE j
<1>1. /\ nodes \subseteq Node /\ TilesOf(nodes) /\ chain \in [Objs -> Seq(Nat)]
      /\ UsedInChain /\ ChainsUsed /\ ChainsApart
  BY ChainsParts DEF IInv, TypeOK, Tiles
<1>2. d \in Seq(Nat) /\ Len(d) \in Nat \ {0} /\ DOMAIN d = 1 .. Len(d)
  BY <1>1
<1>3. k \in DOMAIN d /\ d[k] = n.start
  BY <1>2
<1>4. \A j \in DOMAIN c : at(j) \in DOMAIN d /\ at(j) # k /\ c[j] = d[at(j)]
  <2>1. CASE n.start = Head(d) /\ c = Tail(d)
    <3>1. Len(c) = Len(d) - 1 /\ \A j \in 1 .. Len(c) : c[j] = d[j + 1]
      BY <1>2, <2>1
    <3> QED
      BY <1>2, <2>1, <3>1
  <2>2. CASE ~(n.start = Head(d) /\ c = Tail(d))
    <3>1. c = SubSeq(d, 1, Len(d) - 1)
      BY <2>2
    <3>2. Len(c) = Len(d) - 1 /\ \A j \in 1 .. Len(c) : c[j] = d[j]
      BY <1>2, <3>1
    <3>3. \A j \in DOMAIN c : k = 1 => j \notin DOMAIN c
      BY <1>2, <2>2, <3>2
    <3>4. k = Len(d) /\ \A j \in DOMAIN c : at(j) = j
      BY <2>2, <3>3
    <3>5. \A j \in DOMAIN c : j \in DOMAIN d /\ j # Len(d) /\ c[j] = d[j]
      <4>1. DOMAIN c = 1 .. Len(c)
        OBVIOUS
      <4> HIDE DEF d
      <4> QED
        BY <1>2, <3>2, <4>1
    <3> HIDE DEF at, k
    <3> QED
      BY <3>4, <3>5
  <2> QED
    BY <2>1, <2>2
<1>5. \A i \in DOMAIN d : i # k => \E j \in DOMAIN c : at(j) = i
  <2>1. CASE n.start = Head(d) /\ c = Tail(d)
    <3>1. Len(c) = Len(d) - 1
      BY <1>2, <2>1
    <3> SUFFICES ASSUME NEW i \in DOMAIN d, i # 1 PROVE i - 1 \in DOMAIN c /\ (i - 1) + 1 = i
      BY <2>1
    <3> QED
      BY <1>2, <3>1
  <2>2. CASE ~(n.start = Head(d) /\ c = Tail(d))
    <3>1. c = SubSeq(d, 1, Len(d) - 1)
      BY <2>2
    <3>2. Len(c) = Len(d) - 1
      BY <1>2, <3>1
    <3> SUFFICES ASSUME NEW i \in DOMAIN d, i # Len(d) PROVE i \in DOMAIN c /\ at(i) = i
      BY <2>2
    <3>3. i \in DOMAIN c
      BY <1>2, <3>2
    <3>4. ~(c = Tail(d) /\ k = 1)
      <4>1. k = Len(d)
        BY <2>2
      <4>2. 1 <= i /\ i < Len(d)
        BY <1>2
      <4> HIDE DEF d, k
      <4> QED
        BY <1>2, <4>1, <4>2
    <3> QED
      BY <3>3, <3>4
  <2> QED
    BY <2>1, <2>2
<1>6. \A p \in Objs : chain'[p] = IF p = o THEN c ELSE chain[p]
  BY <1>1
<1> HIDE DEF d, k, at
\* The node was used, so releasing it takes it and no other from the used.
<1>7. n.type # FREE
  <2>1. PICK m \in nodes : m.type # FREE /\ m.start = d[k]
    BY <1>1, <1>3 DEF ChainsUsed, d
  <2> QED
    BY <1>1, <1>3, <2>1, SameStart
<1>8. \A m : m \in nodes' /\ m.type # FREE <=> m \in nodes /\ m.type # FREE /\ m # n
  BY <1>1, <1>7, FreeNodeUsed
<1>9. UsedInChain'
  <2> SUFFICES ASSUME NEW m \in nodes', m.type # FREE
               PROVE  \E p \in Objs : \E i \in DOMAIN chain'[p] : chain'[p][i] = m.start
    BY DEF UsedInChain
  <2>1. m \in nodes /\ m # n
    BY <1>8
  <2>2. PICK p \in Objs : \E i \in DOMAIN chain[p] : chain[p][i] = m.start
    BY <1>1, <2>1 DEF UsedInChain
  <2>3. PICK i \in DOMAIN chain[p] : chain[p][i] = m.start
    BY <2>2
  <2>4. CASE p = o
    <3>1. i # k
      BY <1>1, <1>3, <2>1, <2>3, <2>4, SameStart DEF d
    <3>2. PICK j \in DOMAIN c : at(j) = i
      BY <1>5, <2>3, <2>4, <3>1 DEF d
    <3> QED
      BY <1>4, <1>6, <2>3, <2>4, <3>2 DEF d
  <2> QED
    BY <1>6, <2>3, <2>4
<1>10. ChainsUsed'
  <2> SUFFICES ASSUME NEW p \in Objs, NEW i \in DOMAIN chain'[p]
               PROVE  \E m \in nodes' : m.type # FREE /\ m.start = chain'[p][i]
    BY DEF ChainsUsed
  <2>1. PICK x \in DOMAIN chain[p] : chain'[p][i] = chain[p][x] /\ (p = o => x # k)
    BY <1>4, <1>6 DEF d
  <2>2. PICK m \in nodes : m.type # FREE /\ m.start = chain[p][x]
    BY <1>1 DEF ChainsUsed
  <2>3. m # n
    BY <1>1, <1>3, <2>1, <2>2 DEF ChainsApart, d
  <2> QED
    BY <1>8, <2>1, <2>2, <2>3
<1>11. ChainsApart'
  <2>1. \A p \in Objs : \A i \in DOMAIN chain'[p] : i \in DOMAIN chain'[p] /\
          IF p = o THEN at(i) \in DOMAIN chain[p] /\ chain'[p][i] = chain[p][at(i)]
                   ELSE i \in DOMAIN chain[p] /\ chain'[p][i] = chain[p][i]
    BY <1>4, <1>6 DEF d
  <2>2. \A i, j \in DOMAIN c : at(i) = at(j) => i = j
    BY DEF at
  <2>3. chain'[o] = c
    BY <1>6
  <2> QED
    BY <1>1, <2>1, <2>2, <2>3 DEF ChainsApart
<1> QED
  BY <1>9, <1>10, <1>11

\* Every step keeps the chains exact.
LEMMA NextChains == IInv /\ ChainsExact /\ [Next]_vars => ChainsExact'
<1> SUFFICES ASSUME IInv, ChainsExact, [Next]_vars, Up' PROVE ChainsExact'
  BY DEF ChainsExact
<1>1. CASE Up
  <2>1. /\ nodes \subseteq Node /\ TilesOf(nodes) /\ CoalescedOf(nodes)
        /\ chain \in [Objs -> Seq(Nat)] /\ live \subseteq Objs /\ TypeOK
        /\ UsedInChain /\ ChainsUsed /\ ChainsApart /\ ChainsOwned
    BY <1>1, ChainsParts DEF IInv, TypeOK, Tiles, Coalesced
  <2>2. ASSUME UNCHANGED <<nodes, chain>>, ChainsOwned' PROVE ChainsExact'
    BY <2>1, <2>2, ChainsParts DEF UsedInChain, ChainsUsed, ChainsApart, ChainsExact, ChainsOwned
  <2>3. ASSUME NEW o \in Objs, NEW r \in Requests, AllocCall(o, r) PROVE ChainsExact'
    BY <2>1, <2>2, <2>3 DEF AllocCall, ChainsOwned
  <2>4. ASSUME NEW n \in nodes, AllocSingle(n) PROVE ChainsExact'
    <3> DEFINE r == req[call.obj]
               s == FragStart(n, r, call.left)
               e == FragEnd(n, r, call.left)
               o == call.obj
               u == Used(s, e, r.t)
    <3>1. /\ call.op = "alloc" /\ call.left \in Nat /\ call.left > 0 /\ r \in Requests
          /\ Fits(n, r, call.left) /\ n.type = FREE /\ o \in Objs
          /\ nodes' = Carve(nodes, n, s, e, r.t)
          /\ chain' = [chain EXCEPT ![o] = Append(@, s)]
          /\ call'.op = "alloc" /\ call'.obj = o /\ live' = live
      BY <2>1, <2>4 DEF AllocSingle, TypeOK, Call, Fits, Doing
    <3>2. r.t \in {USED0, USED1}
      BY <3>1, RequestAssumption DEF Request
    <3>3. s \in Nat /\ e \in Nat /\ n.start <= s /\ s < e /\ e <= Fin(n)
      BY <2>1, <3>1, FragBounds
    <3>4. /\ \A m : m \in nodes' /\ m.type # FREE <=> m = u \/ (m \in nodes /\ m.type # FREE)
          /\ \A m \in nodes : m.type # FREE => m.start # s
      BY <2>1, <3>1, <3>2, <3>3, CarveUsed
    <3>5. u.start = s
      BY DEF Used
    <3> HIDE DEF r, s, e, u
    <3>6. \A p \in Objs : p # o => chain'[p] = chain[p]
      BY <2>1, <3>1
    <3>7. /\ DOMAIN chain'[o] = 1 .. Len(chain[o]) + 1 /\ DOMAIN chain[o] = 1 .. Len(chain[o])
          /\ Len(chain[o]) \in Nat
          /\ \A i \in DOMAIN chain[o] : i \in DOMAIN chain'[o] /\ chain'[o][i] = chain[o][i]
          /\ Len(chain[o]) + 1 \in DOMAIN chain'[o] /\ chain'[o][Len(chain[o]) + 1] = s
      BY <2>1, <3>1, <3>3
    <3>8. \A p \in Objs : \A i \in DOMAIN chain[p] :
            chain[p][i] # s /\ i \in DOMAIN chain'[p] /\ chain'[p][i] = chain[p][i]
      BY <2>1, <3>4, <3>6, <3>7 DEF ChainsUsed
    <3>9. \A p \in Objs : \A i \in DOMAIN chain'[p] :
            i \in DOMAIN chain[p] \/ (p = o /\ i = Len(chain[o]) + 1 /\ chain'[p][i] = s)
      BY <3>6, <3>7
    <3>10. UsedInChain'
      <4> SUFFICES ASSUME NEW m \in nodes', m.type # FREE
                   PROVE  \E p \in Objs : \E i \in DOMAIN chain'[p] : chain'[p][i] = m.start
        BY DEF UsedInChain
      <4>1. CASE m = u
        BY <3>1, <3>5, <3>7, <4>1
      <4>2. CASE m \in nodes
        BY <2>1, <3>8, <4>2 DEF UsedInChain
      <4> QED
        BY <3>4, <4>1, <4>2
    <3>11. ChainsUsed'
      <4> SUFFICES ASSUME NEW p \in Objs, NEW i \in DOMAIN chain'[p]
                   PROVE  \E m \in nodes' : m.type # FREE /\ m.start = chain'[p][i]
        BY DEF ChainsUsed
      <4>1. CASE i \in DOMAIN chain[p]
        BY <2>1, <3>4, <3>8, <4>1 DEF ChainsUsed
      <4>2. CASE chain'[p][i] = s
        BY <3>4, <3>5, <4>2
      <4> QED
        BY <3>9, <4>1, <4>2
    <3>12. ChainsApart'
      <4> SUFFICES ASSUME NEW p \in Objs, NEW q \in Objs, NEW i \in DOMAIN chain'[p],
                          NEW j \in DOMAIN chain'[q], chain'[p][i] = chain'[q][j]
                   PROVE  p = q /\ i = j
        BY DEF ChainsApart
      <4>1. CASE i \in DOMAIN chain[p] /\ j \in DOMAIN chain[q]
        BY <2>1, <3>8, <4>1 DEF ChainsApart
      <4>2. CASE i \notin DOMAIN chain[p] /\ j \notin DOMAIN chain[q]
        BY <3>9, <4>2
      <4>3. CASE i \in DOMAIN chain[p] /\ j \notin DOMAIN chain[q]
        BY <3>8, <3>9, <4>3
      <4>4. CASE i \notin DOMAIN chain[p] /\ j \in DOMAIN chain[q]
        BY <3>8, <3>9, <4>4
      <4> QED
        BY <4>1, <4>2, <4>3, <4>4
    <3>13. ChainsOwned'
      BY <2>1, <3>1, <3>6 DEF ChainsOwned
    <3> QED
      BY <3>10, <3>11, <3>12, <3>13 DEF ChainsExact, UsedInChain, ChainsUsed, ChainsApart,
                                        ChainsOwned
  <2>5. CASE AllocFail
    BY <2>1, <2>2, <2>5 DEF AllocFail, Doing, ChainsOwned
  <2>6. CASE AllocDone
    BY <2>1, <2>2, <2>6 DEF AllocDone, Idle, Doing, ChainsOwned, TypeOK
  <2>7. ASSUME NEW n \in nodes, Rollback(n) PROVE ChainsExact'
    <3> DEFINE o == call.obj
               c == SubSeq(chain[o], 1, Len(chain[o]) - 1)
    <3>1. /\ call.op = "rollback" /\ o \in Objs /\ chain[o] # <<>>
          /\ n.start = chain[o][Len(chain[o])] /\ nodes' = FreeNode(nodes, n)
          /\ chain' = [chain EXCEPT ![o] = c] /\ UNCHANGED <<live, call>>
      BY <2>1, <2>7 DEF Rollback, TypeOK
    <3>2. c \in Seq(Nat)
      BY <2>1, <3>1
    <3> HIDE DEF c
    <3>3. (UsedInChain /\ ChainsUsed /\ ChainsApart)'
      BY <1>1, <3>1, <3>2, DropEnd DEF c
    <3>4. ChainsOwned'
      BY <2>1, <3>1 DEF ChainsOwned
    <3> QED
      BY <3>3, <3>4 DEF ChainsExact, UsedInChain, ChainsUsed, ChainsApart, ChainsOwned
  <2>8. CASE RollbackDone
    BY <2>1, <2>2, <2>8 DEF RollbackDone, Idle, Doing, ChainsOwned
  <2>9. ASSUME NEW o \in Objs, FreeCall(o) PROVE ChainsExact'
    BY <2>1, <2>2, <2>9 DEF FreeCall, Doing, ChainsOwned
  <2>10. ASSUME NEW n \in nodes, FreeStep(n) PROVE ChainsExact'
    <3> DEFINE o == call.obj
               c == Tail(chain[o])
    <3>1. /\ call.op \in {"free", "takefree"} /\ o \in Objs /\ chain[o] # <<>>
          /\ n.start = Head(chain[o]) /\ nodes' = FreeNode(nodes, n)
          /\ chain' = [chain EXCEPT ![o] = c] /\ UNCHANGED <<live, call>>
      BY <2>1, <2>10 DEF FreeStep, TypeOK
    <3>2. c \in Seq(Nat)
      BY <2>1, <3>1
    <3> HIDE DEF c
    <3>3. (UsedInChain /\ ChainsUsed /\ ChainsApart)'
      BY <1>1, <3>1, <3>2, DropEnd DEF c
    <3>4. ChainsOwned'
      BY <2>1, <3>1 DEF ChainsOwned
    <3> QED
      BY <3>3, <3>4 DEF ChainsExact, UsedInChain, ChainsUsed, ChainsApart, ChainsOwned
  <2>11. CASE FreeDone
    BY <2>1, <2>2, <2>11 DEF FreeDone, Idle, Doing, ChainsOwned
  <2>12. CASE TakedownCall
    BY <2>1, <2>2, <2>12 DEF TakedownCall, Doing, ChainsOwned
  <2>13. ASSUME NEW n \in nodes, NEW o \in Objs, TakedownNext(n, o) PROVE ChainsExact'
    BY <2>1, <2>2, <2>13 DEF TakedownNext, Doing, ChainsOwned
  <2>14. CASE TakedownDone
    BY <2>14 DEF TakedownDone, Doing, Up
  <2>15. CASE UNCHANGED vars
    BY <2>1, <2>2, <2>15 DEF vars, ChainsOwned
  <2> QED
    BY <2>3, <2>4, <2>5, <2>6, <2>7, <2>8, <2>9, <2>10, <2>11, <2>12, <2>13, <2>14, <2>15
       DEF Next, Step
<1>2. CASE ~Up
  BY <1>2 DEF Up, Next, Step, AllocCall, FreeCall, TakedownCall, AllocSingle, AllocFail, AllocDone,
              Rollback, RollbackDone, FreeStep, FreeDone, TakedownNext, TakedownDone, vars
<1> QED
  BY <1>1, <1>2

\* In every reachable state, in the middle of a failed allocation, of a free or
\* of takedown included, every used node stands at one place of one chain and
\* every chain holds used nodes only.
THEOREM SpecChainsExact == Spec => []ChainsExact
<1>1. Init => ChainsExact
  <2> SUFFICES ASSUME Init PROVE ChainsExact
    OBVIOUS
  <2> DEFINE n == [start |-> Start, size |-> End - Start, type |-> USED0]
  <2>1. n \in Node /\ n.start = Start /\ Fin(n) = End /\ n.type # FREE
    BY RangeAssumption DEF Node, Fin, USED0, FREE
  <2>2. nodes = FreeNode({n}, n) /\ \A o \in Objs : chain[o] = <<>>
    BY DEF Init
  <2> HIDE DEF n
  <2>3. TilesOf({n})
    BY <2>1, RangeAssumption DEF TilesOf
  <2>4. \A m \in nodes : m.type = FREE
    BY <2>1, <2>2, <2>3, FreeNodeUsed
  <2> QED
    BY <2>2, <2>4 DEF ChainsExact
<1> QED
  BY <1>1, NextChains, SpecIInv, PTL DEF Spec
=============================================================================
