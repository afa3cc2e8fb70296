--------------------------- MODULE ChanKillProofs ---------------------------
(***************************************************************************)
(* NoCardUse and PlaylistExact of ChanKill, for every set of threads and   *)
(* channels and any number of channels over time.                          *)
(*                                                                         *)
(* A channel that dies is first taken out of the channel table, so that    *)
(* PFIFO does not come back to it, then off PFIFO, so that PGRAPH is not    *)
(* asked for it any more, then off PGRAPH, and only then freed; the        *)
(* invariant has a part for each of these stages.                          *)
(*                                                                         *)
(* The playlist is right because an update is made under fifo->lock and    *)
(* leaves the list that the card reads alone; its second invariant says    *)
(* for each stage of an update which of the two lists is in order.         *)
(***************************************************************************)
EXTENDS ChanKill, FiniteSetTheorems, SequenceTheorems, TLAPS

Starting == {"init_list", "init_base", "init_len"}
OffTable == {"kill_list", "kill_base", "kill_len", "freeze", "frozen", "kick"}
OffFifo == {"graph_kill", "sync", "unload", "unload_next"}
OffGraph == {"graph_free"}
OffAll == {"chan_free"}
Stopped == {"sync", "unload", "unload_next", "flush"}
Dying == {"fifo_kill"} \cup OffTable \cup OffFifo \cup OffGraph \cup OffAll

\* The functions have their domains.
Shape ==
  /\ state \in [Chans -> {"free", "new", "on", "dying"}]
  /\ table \in [Chans -> {"none", "off", "on"}]
  /\ call \in [Threads -> [at : {"idle", "flush"} \cup Starting \cup Dying,
                           chan : Chans \cup {NoChan}]]

\* A channel that is started or dies belongs to one thread.
CallsInv ==
  /\ \A t \in Threads :
       /\ call[t].at \in {"idle", "flush"} <=> Mine(t) = NoChan
       /\ call[t].at \in Starting => state[Mine(t)] = "on"
       /\ call[t].at \in Dying => state[Mine(t)] = "dying"
  /\ \A t, u \in Threads : t # u /\ Mine(t) = Mine(u) => Mine(t) = NoChan

\* PFIFO comes only to channels that are enabled, and is taken off.
FifoInv ==
  /\ loaded \in Chans \cup {NoChan}
  /\ loaded # NoChan => state[loaded] \in {"on", "dying"}
  /\ \A c \in Chans : state[c] \in {"free", "new"} => table[c] # "on"
  /\ \A t \in Threads :
       /\ call[t].at \in Dying \ {"fifo_kill"} => table[Mine(t)] # "on"
       /\ call[t].at \in OffFifo \cup OffGraph \cup OffAll => loaded # Mine(t)

\* A context is there until its channel has been taken off PGRAPH.
ContextInv ==
  /\ grctx \subseteq Chans
  /\ \A c \in grctx : state[c] # "free"
  /\ \A t \in Threads : call[t].at \in OffAll => Mine(t) \notin grctx

\* Who has stopped PGRAPH holds the lock, so that nobody starts it again.
LockInv ==
  \A t \in Threads : call[t].at \in Stopped => graphLock = t /\ ~access

\* PGRAPH is only on channels that have a context, and is taken off: between the
\* two registers ctxprog does not run, which is what the wait is for.
GraphInv ==
  ~late =>
    /\ {gcur, gnext} \subseteq grctx \cup {NoChan}
    /\ \A t \in Threads :
         /\ call[t].at \in {"unload", "unload_next"} => prog # "running"
         /\ call[t].at = "unload_next" => gcur # Mine(t)
         /\ call[t].at \in OffGraph => Mine(t) \notin {gcur, gnext}

\* The inductive invariant of kills.
IInv == Shape /\ CallsInv /\ FifoInv /\ ContextInv /\ LockInv /\ GraphInv

\* It holds at the start.
LEMMA InitIInv == Init => IInv
  BY KillAssumption
     DEF Init, IInv, Shape, CallsInv, FifoInv, ContextInv, LockInv, GraphInv, Idle, Mine,
         NoChan, Starting,
         Dying, OffTable, OffFifo, OffGraph, OffAll, Stopped

\* The card's own steps keep it.
LEMMA CardIInv == IInv /\ Card => IInv'
<1> SUFFICES ASSUME IInv, Card PROVE IInv'
  OBVIOUS
<1> USE KillAssumption DEF IInv, Shape, CallsInv, FifoInv, ContextInv, LockInv, GraphInv,
                           Mine, NoChan
<1>1. UNCHANGED <<state, grctx, table, call, access, graphLock, late>>
  BY DEF Card, fifo
<1>2. ASSUME NEW c \in Chans, CardSwitch(c) PROVE IInv'
  <2>1. loaded' = c /\ table[c] = "on" /\ UNCHANGED <<gcur, gnext, prog>>
    BY <1>2 DEF CardSwitch
  <2>2. state[c] \in {"on", "dying"}
    BY <2>1
  <2> QED
    BY <1>1, <2>1, <2>2 DEF Dying, OffFifo, OffGraph, OffAll
<1>3. CASE CardFreeze \/ CardSync
  BY <1>1, <1>3 DEF CardFreeze, CardSync
<1>4. CASE CardRequest
  <2>1. access /\ gnext' = loaded /\ loaded \in grctx /\ UNCHANGED <<loaded, gcur>>
    BY <1>4 DEF CardRequest
  <2>2. \A t \in Threads : call[t].at \notin {"unload", "unload_next"}
    BY <2>1 DEF Stopped
  <2> QED
    BY <1>1, <2>1, <2>2
<1>5. CASE CardLoad
  BY <1>1, <1>5 DEF CardLoad, Starting, Dying, OffTable, OffFifo, OffGraph, OffAll, Stopped
<1> QED
  BY <1>2, <1>3, <1>4, <1>5 DEF Card

\* A thread goes on within the stages that ask the same of the card, PGRAPH apart.
LEMMA SameStage ==
  ASSUME IInv, NEW t \in Threads, NEW n, call' = [call EXCEPT ![t].at = n],
         UNCHANGED <<state, table, loaded, gcur, gnext, grctx, prog, access, graphLock>>,
         late => late',
         \/ call[t].at \in Starting /\ n \in Starting
         \/ call[t].at \in OffTable /\ n \in OffTable
         \/ call[t].at = "graph_kill" /\ n \in OffAll /\ Mine(t) \notin grctx
  PROVE  IInv'
  BY DEF IInv, Shape, CallsInv, FifoInv, ContextInv, LockInv, GraphInv, Mine, Starting,
         Dying, OffTable, OffFifo, OffGraph, OffAll, Stopped

\* A thread stops PGRAPH, waits for ctxprog, or lets PGRAPH go on.
LEMMA StopAndGo ==
  ASSUME IInv, NEW t \in Threads, NEW n, call' = [call EXCEPT ![t].at = n],
         UNCHANGED <<state, table, loaded, gcur, gnext, grctx, prog>>,
         late => late',
         \/ /\ <<call[t].at, n>> \in {<<"idle", "flush">>, <<"graph_kill", "sync">>}
            /\ graphLock = Null /\ graphLock' = t /\ ~access'
         \/ /\ call[t].at = "sync" /\ n = "unload" /\ (~late' => prog # "running")
            /\ UNCHANGED <<access, graphLock>>
         \/ call[t].at = "flush" /\ n = "idle"
  PROVE  IInv'
  BY KillAssumption
     DEF IInv, Shape, CallsInv, FifoInv, ContextInv, LockInv, GraphInv, Mine, Starting,
         Dying, OffTable, OffFifo, OffGraph, OffAll, Stopped

\* A thread takes a channel on, or is done with it.
LEMMA TakesOn ==
  ASSUME IInv, NEW t \in Threads, NEW c \in Chans, NEW n \in {"init_list", "fifo_kill"},
         Mine(t) = NoChan, \A u \in Threads : Mine(u) # c,
         call' = [call EXCEPT ![t] = [at |-> n, chan |-> c]],
         state' = [state EXCEPT ![c] = IF n = "init_list" THEN "on" ELSE "dying"],
         table' = IF n = "init_list" THEN [table EXCEPT ![c] = "on"] ELSE table,
         n = "fifo_kill" => state[c] \in {"new", "on"},
         UNCHANGED <<loaded, gcur, gnext, grctx, prog, access, graphLock, late>>
  PROVE  IInv'
  BY KillAssumption
     DEF IInv, Shape, CallsInv, FifoInv, ContextInv, LockInv, GraphInv, Mine, NoChan,
         Starting, Dying,
         OffTable, OffFifo, OffGraph, OffAll, Stopped

\* It is kept by every step of a kill or a start.
LEMMA KillingIInv == ASSUME IInv, NEW t \in Threads, Killing(t) PROVE IInv'
<1> USE DEF Goto, At, fifo, card
<1>1. CASE PlaylistWords(t)
  BY <1>1, SameStage DEF PlaylistWords, Starting, OffTable
<1>2. CASE PlaylistBase(t)
  BY <1>2, SameStage DEF PlaylistBase, Starting, OffTable
<1>3. CASE PlaylistLen(t)
  <2>1. CASE At(t, "init_len")
    <3>1. /\ call' = [call EXCEPT ![t] = [at |-> "idle", chan |-> NoChan]]
          /\ UNCHANGED <<state, table, loaded, gcur, gnext, grctx, prog, access,
                         graphLock, late>>
      BY <1>3, <2>1 DEF PlaylistLen, Idle
    <3> QED
      BY <3>1, KillAssumption
         DEF IInv, Shape, CallsInv, FifoInv, ContextInv, LockInv, GraphInv, Mine, NoChan,
             Starting, Dying,
             OffTable, OffFifo, OffGraph, OffAll, Stopped
  <2>2. CASE At(t, "kill_len")
    BY <1>3, <2>2, SameStage DEF PlaylistLen, OffTable
  <2> QED
    BY <1>3, <2>1, <2>2 DEF PlaylistLen
<1>4. CASE nv50_fifo_chan_kill(t)
  BY <1>4 DEF nv50_fifo_chan_kill, IInv, Shape, CallsInv, FifoInv, ContextInv, LockInv,
              GraphInv, Mine, NoChan, Idle,
         Starting, Dying, OffTable, OffFifo, OffGraph, OffAll, Stopped
<1>5. CASE Freeze(t) \/ WaitFrozen(t)
  BY <1>5, SameStage DEF Freeze, WaitFrozen, OffTable
<1>6. CASE Kick(t)
  BY <1>6, KillAssumption
     DEF Kick, IInv, Shape, CallsInv, FifoInv, ContextInv, LockInv, GraphInv, Mine,
         NoChan, Idle,
         Starting, Dying, OffTable, OffFifo, OffGraph, OffAll, Stopped
<1>7. CASE NoEngine(t)
  BY <1>7, SameStage DEF NoEngine, OffAll
<1>8. CASE nv50_graph_chan_kill(t) \/ WaitSync(t) \/ FlushDone(t)
  BY <1>8, StopAndGo DEF nv50_graph_chan_kill, WaitSync, FlushDone
<1>9. CASE UnloadActive(t) \/ UnloadNext(t)
  <2>1. CASE UnloadActive(t)
    BY <2>1, KillAssumption
       DEF UnloadActive, IInv, Shape, CallsInv, FifoInv, ContextInv, LockInv, GraphInv,
           Mine, NoChan, Idle, Starting, Dying, OffTable, OffFifo, OffGraph, OffAll, Stopped
  <2>2. CASE UnloadNext(t)
    BY <2>2, KillAssumption
       DEF UnloadNext, IInv, Shape, CallsInv, FifoInv, ContextInv, LockInv, GraphInv,
           Mine, NoChan, Idle, Starting, Dying, OffTable, OffFifo, OffGraph, OffAll, Stopped
  <2> QED
    BY <1>9, <2>1, <2>2
<1>10. CASE nv50_graph_chan_free(t)
  BY <1>10, KillAssumption
     DEF nv50_graph_chan_free, IInv, Shape, CallsInv, FifoInv, ContextInv, LockInv,
         GraphInv, Mine, NoChan, Idle,
         Starting, Dying, OffTable, OffFifo, OffGraph, OffAll, Stopped
<1>11. CASE nv50_chan_free(t)
  BY <1>11, KillAssumption
     DEF nv50_chan_free, IInv, Shape, CallsInv, FifoInv, ContextInv, LockInv, GraphInv,
         Mine, NoChan, Idle,
         Starting, Dying, OffTable, OffFifo, OffGraph, OffAll, Stopped
<1> QED
  BY <1>1, <1>2, <1>3, <1>4, <1>5, <1>6, <1>7, <1>8, <1>9, <1>10, <1>11 DEF Killing

\* It is kept by every step.
LEMMA NextIInv == IInv /\ [Next]_vars => IInv'
<1> SUFFICES ASSUME IInv, [Next]_vars
             PROVE  IInv'
  OBVIOUS
<1> USE DEF At, Goto, fifo, card
<1>1. CASE Card
  BY <1>1, CardIInv
<1>2. ASSUME NEW t \in Threads, Killing(t)
      PROVE  IInv'
  BY <1>2, KillingIInv
<1>3. ASSUME NEW t \in Threads, nv86_graph_tlb_flush(t)
      PROVE  IInv'
  BY <1>3, StopAndGo DEF nv86_graph_tlb_flush
<1>4. ASSUME NEW t \in Threads, NEW c \in Chans, nv50_chan_new(t, c)
      PROVE  IInv'
  BY <1>4, KillAssumption
     DEF nv50_chan_new, IInv, Shape, CallsInv, FifoInv, ContextInv, LockInv, GraphInv,
         Mine, NoChan, Idle,
         Starting, Dying, OffTable, OffFifo, OffGraph, OffAll, Stopped
<1>5. ASSUME NEW t \in Threads, NEW c \in Chans, nv50_graph_chan_alloc(t, c)
      PROVE  IInv'
  BY <1>5, KillAssumption
     DEF nv50_graph_chan_alloc, IInv, Shape, CallsInv, FifoInv, ContextInv, LockInv,
         GraphInv, Mine, NoChan, Idle,
         Starting, Dying, OffTable, OffFifo, OffGraph, OffAll, Stopped
<1>6. ASSUME NEW t \in Threads, NEW c \in Chans, nv50_fifo_chan_init(t, c)
      PROVE  IInv'
  BY <1>6, TakesOn DEF nv50_fifo_chan_init, IInv, CallsInv
<1>7. ASSUME NEW t \in Threads, NEW c \in Chans, pscnv_chan_ref_free(t, c)
      PROVE  IInv'
  BY <1>7, TakesOn DEF pscnv_chan_ref_free, IInv, CallsInv
<1>8. CASE UNCHANGED vars
  BY <1>8 DEF vars, IInv, Shape, CallsInv, FifoInv, ContextInv, LockInv, GraphInv, Mine
<1> QED
  BY <1>1, <1>2, <1>3, <1>4, <1>5, <1>6, <1>7, <1>8 DEF Next

\* The memory of a channel that is freed is not used by PFIFO or PGRAPH any more,
\* whatever they were doing when it died (pscnv_chan_ref_free relies on
\* nv50_fifo_chan_kill and nv50_graph_chan_kill), for any number of channels and
\* of threads that kill them.
THEOREM SpecNoCardUse == Spec => []NoCardUse
<1>1. IInv => NoCardUse
  BY KillAssumption DEF IInv, FifoInv, ContextInv, GraphInv, NoCardUse, NoChan
<1> QED
  BY <1>1, InitIInv, NextIInv, PTL DEF Spec

-----------------------------------------------------------------------------
(* The playlist                                                            *)

\* A finite set of numbers in ascending order is a sequence of its elements,
\* each once: no two elements have as many below them.
LEMMA AscendingIs ==
  ASSUME NEW S, S \subseteq Chans
  PROVE  /\ Ascending(S) \in Seq(S) /\ Len(Ascending(S)) = Cardinality(S)
         /\ \A c \in S : \E i \in 1 .. Len(Ascending(S)) : Ascending(S)[i] = c
<1> DEFINE n == Cardinality(S)
           upto(c) == {d \in S : d <= c}
           rank == [c \in S |-> Cardinality(upto(c))]
<1>1. IsFiniteSet(S) /\ S \subseteq Nat /\ n \in Nat
  BY FS_Subset, FS_CardinalityType, KillAssumption
<1>2. \A c \in S : IsFiniteSet(upto(c)) /\ Cardinality(upto(c)) \in 1 .. n
  <2> SUFFICES ASSUME NEW c \in S
               PROVE  IsFiniteSet(upto(c)) /\ Cardinality(upto(c)) \in 1 .. n
    OBVIOUS
  <2>1. IsFiniteSet(upto(c)) /\ Cardinality(upto(c)) <= n
    BY <1>1, FS_Subset
  <2>2. Cardinality(upto(c)) \in Nat
    BY <2>1, FS_CardinalityType
  <2>3. c \in upto(c)
    BY <1>1
  <2>4. Cardinality(upto(c)) # 0
    BY <2>1, <2>3, FS_EmptySet
  <2> QED
    BY <1>1, <2>1, <2>2, <2>4
<1>3. \A c, d \in S : c < d => Cardinality(upto(c)) # Cardinality(upto(d))
  <2> SUFFICES ASSUME NEW c \in S, NEW d \in S, c < d
               PROVE  Cardinality(upto(c)) # Cardinality(upto(d))
    OBVIOUS
  <2> c \in Nat /\ d \in Nat /\ \A e \in S : e \in Nat
    BY <1>1
  <2>1. upto(c) \subseteq upto(d) /\ d \in upto(d) /\ d \notin upto(c)
    <3>1. \A e \in S : e <= c => e <= d
      OBVIOUS
    <3>2. d <= d /\ ~(d <= c)
      OBVIOUS
    <3> QED
      BY <3>1, <3>2
  <2>2. upto(c) \in SUBSET upto(d) /\ upto(c) # upto(d)
    BY <2>1
  <2>3. IsFiniteSet(upto(d))
    BY <1>2
  <2> HIDE DEF upto
  <2> QED
    BY <2>2, <2>3, FS_Subset
<1>4. \A c, d \in S : rank[c] = rank[d] => c = d
  BY <1>1, <1>3
<1>5. rank \in Injection(S, 1 .. n)
  <2>1. rank \in [S -> 1 .. n]
    BY <1>2
  <2>2. IsInjective(rank)
    BY <1>4 DEF IsInjective
  <2> QED
    BY <2>1, <2>2 DEF Injection
<1>6. IsFiniteSet(1 .. n) /\ Cardinality(1 .. n) = n
  BY <1>1, FS_Interval
<1>7. rank \in Surjection(S, 1 .. n)
  BY <1>5, <1>6, FS_Injection
<1>8. \A i \in 1 .. n : \E c \in S : Cardinality(upto(c)) = i
  BY <1>7 DEF Surjection
<1>9. /\ DOMAIN Ascending(S) = 1 .. n
      /\ \A i \in 1 .. n : /\ Ascending(S)[i] \in S
                           /\ Cardinality(upto(Ascending(S)[i])) = i
  BY <1>8 DEF Ascending
<1>10. Ascending(S) \in Seq(S) /\ Len(Ascending(S)) = n
  <2>1. Ascending(S) = [i \in 1 .. n |-> Ascending(S)[i]]
    BY DEF Ascending
  <2>2. Ascending(S) \in [1 .. n -> S]
    BY <1>9, <2>1
  <2> QED
    BY <1>1, <2>2
<1>11. \A c \in S : Ascending(S)[rank[c]] = c
  BY <1>2, <1>4, <1>9
<1> QED
  BY <1>2, <1>10, <1>11

-----------------------------------------------------------------------------
(* The inductive invariant of the playlist                                 *)

\* What an update has still to do.
Filling == {"init_list", "kill_list"}
Switching == {"init_base", "kill_base"}
Cutting == {"init_len", "kill_len"}
Updating == Filling \cup Switching \cup Cutting

\* A list begins with the channels that are enabled.
Begins(list) ==
  Len(Enabled) <= Len(list) /\ \A i \in 1 .. Len(Enabled) : list[i] = Enabled[i]

\* The registers are set for one of the lists, and an update belongs to the
\* thread that has fifo->lock.
RegistersInv ==
  /\ playlist \in [1 .. 2 -> Seq(Chans)]
  /\ cur \in 1 .. 2 /\ base \in 1 .. 2 /\ len \in Nat
  /\ fifoLock \in Threads \cup {Null}
  /\ \A t \in Threads : call[t].at \in Starting \cup OffTable <=> fifoLock = t

\* Which list is in order depends on how far the update is; as long as the card
\* reads the old one, that has all the channels that had been enabled before.
\* When a channel is taken away the old length is enough for the new list.
ListInv ==
  /\ (\A t \in Threads : call[t].at \notin Updating) =>
       base = cur /\ Begins(playlist[base]) /\ len = Len(Enabled)
  /\ \A t \in Threads :
       /\ call[t].at \in Filling => base = cur
       /\ call[t].at \in Switching => base = 3 - cur /\ Begins(playlist[cur])
       /\ call[t].at \in Cutting => base = cur /\ Begins(playlist[base])
       /\ call[t].at \in Filling \cup Switching => On \ {Mine(t)} \subseteq Listed
       /\ call[t].at \in {"kill_list", "kill_base", "kill_len"} => len >= Len(Enabled)

\* PGRAPH takes commands and ctxprog goes on unless somebody has graph->lock.
GraphLockInv ==
  /\ graphLock = Null => access
  /\ hang => /\ graphLock \in Threads
             /\ call[graphLock].at \in {"sync", "unload", "unload_next"}

\* The variables that IInv does not type.
TypeInv ==
  /\ runs \in 0 .. MaxRuns
  /\ gcur \in Chans \cup {NoChan} /\ gnext \in Chans \cup {NoChan}

\* All of it.
LInv == IInv /\ RegistersInv /\ ListInv /\ GraphLockInv /\ TypeInv

USE DEF Begins, Filling, Switching, Cutting

\* It holds at the start.
LEMMA InitLInv == Init => LInv
<1> SUFFICES ASSUME Init PROVE LInv
  OBVIOUS
<1>1. IInv
  BY InitIInv
<1>2. \A t \in Threads : call[t].at = "idle"
  BY DEF Init, Idle
<1>3. Len(Enabled) = 0
  <2>1. On = {}
    BY DEF Init, On
  <2> QED
    BY <2>1, AscendingIs, FS_EmptySet DEF Enabled
<1>4. RegistersInv
  <2>1. playlist \in [1 .. 2 -> Seq(Chans)]
    <3> DEFINE none == <<>>
    <3>1. none \in Seq(Chans)
      OBVIOUS
    <3> HIDE DEF none
    <3>2. <<none, none>> \in [1 .. 2 -> Seq(Chans)]
      BY <3>1
    <3> QED
      BY <3>2 DEF Init, none
  <2>2. cur \in 1 .. 2 /\ base \in 1 .. 2 /\ len \in Nat /\ fifoLock = Null
    BY DEF Init
  <2>3. \A t \in Threads : call[t].at \notin Starting \cup OffTable /\ fifoLock # t
    BY <1>2, <2>2, KillAssumption DEF Starting, OffTable
  <2> QED
    BY <2>1, <2>2, <2>3 DEF RegistersInv
<1>5. ListInv
  BY <1>2, <1>3 DEF Init, ListInv, Updating
<1>6. GraphLockInv /\ TypeInv
  BY KillAssumption DEF Init, GraphLockInv, TypeInv, NoChan
<1> QED
  BY <1>1, <1>4, <1>5, <1>6 DEF LInv

\* The enabled channels are a sequence of channels, and all of them are in it.
LEMMA EnabledIs ==
  /\ Enabled \in Seq(Chans) /\ Len(Enabled) \in Nat /\ Len(Enabled) = Cardinality(On)
  /\ \A c \in On : \E i \in 1 .. Len(Enabled) : Enabled[i] = c
<1>1. On \subseteq Chans
  BY DEF On
<1>2. Enabled \in Seq(On) /\ Len(Enabled) = Cardinality(On)
  BY <1>1, AscendingIs DEF Enabled
<1>3. Enabled \in Seq(Chans)
  BY <1>1, <1>2
<1>4. Len(Enabled) \in Nat
  BY <1>3
<1> QED
  BY <1>1, <1>2, <1>3, <1>4, AscendingIs DEF Enabled

\* A list that begins with the enabled channels, and is not cut too short, has them.
LEMMA BeginsListed ==
  ASSUME RegistersInv, Begins(playlist[base]), len >= Len(Enabled)
  PROVE  On \subseteq Listed
<1> SUFFICES ASSUME NEW c \in On PROVE c \in Listed
  OBVIOUS
<1>1. PICK i \in 1 .. Len(Enabled) : Enabled[i] = c
  BY EnabledIs
<1>2. playlist[base] \in Seq(Chans) /\ Len(playlist[base]) \in Nat /\ len \in Nat
  BY DEF RegistersInv
<1>3. i \in 1 .. len /\ i \in 1 .. Len(playlist[base]) /\ playlist[base][i] = c
  BY <1>1, <1>2, EnabledIs
<1> QED
  BY <1>3 DEF Listed

\* Steps that have nothing to do with the playlist.
LEMMA ListFrame ==
  ASSUME RegistersInv, ListInv, UNCHANGED <<playlist, cur, base, len, fifoLock>>,
         On' = On,
         \A u \in Threads :
           \/ call'[u] = call[u]
           \/ /\ {call[u].at, call'[u].at} \cap Updating = {}
              /\ call'[u].at \in OffTable <=> call[u].at \in OffTable
  PROVE  RegistersInv' /\ ListInv'
<1>1. Enabled' = Enabled
  BY DEF Enabled
<1>2. Listed' = Listed
  BY DEF Listed
<1>3. \A u \in Threads : call'[u].at \in Starting \cup OffTable
                           <=> call[u].at \in Starting \cup OffTable
  BY DEF Updating, Starting, OffTable
<1>4. \A u \in Threads : call'[u].at \in Updating \/ call[u].at \in Updating
                           => call'[u] = call[u] /\ Mine(u)' = Mine(u)
  BY DEF Mine
<1>5. RegistersInv'
  BY <1>3 DEF RegistersInv
<1> QED
  BY <1>1, <1>2, <1>4, <1>5 DEF ListInv, Updating

\* Overlay keeps a list a list, and the new words are at its beginning.
LEMMA OverlayIs ==
  ASSUME NEW old \in Seq(Chans), NEW new \in Seq(Chans)
  PROVE  /\ Overlay(old, new) \in Seq(Chans)
         /\ Len(new) <= Len(Overlay(old, new))
         /\ \A i \in 1 .. Len(new) : Overlay(old, new)[i] = new[i]
<1> DEFINE rest == SubSeq(old, Len(new) + 1, Len(old))
<1>1. rest \in Seq(Chans)
  BY SubSeqProperties
<1>2. Overlay(old, new) = new \o rest
  BY DEF Overlay
<1> HIDE DEF rest
<1> QED
  BY <1>1, <1>2, ConcatProperties

\* Who has begun an update has fifo->lock, so nobody else has.
LEMMA OneUpdates ==
  ASSUME RegistersInv, NEW t \in Threads, call[t].at \in Starting \cup OffTable
  PROVE  \A u \in Threads : u # t => call[u].at \notin Updating
  BY DEF RegistersInv, Updating, Starting, OffTable

\* Who gets the lock finds the list in order.
LEMMA NobodyUpdates ==
  ASSUME RegistersInv, ListInv, fifoLock = Null
  PROVE  /\ \A u \in Threads : call[u].at \notin Updating
         /\ base = cur /\ Begins(playlist[base]) /\ len = Len(Enabled)
         /\ On \subseteq Listed
<1>1. \A u \in Threads : call[u].at \notin Updating
  BY KillAssumption DEF RegistersInv, Updating, Starting, OffTable
<1>2. base = cur /\ Begins(playlist[base]) /\ len = Len(Enabled)
  BY <1>1 DEF ListInv
<1> QED
  BY <1>1, <1>2, EnabledIs, BeginsListed

\* The steps of an update.
LEMMA UpdateStep ==
  ASSUME LInv, NEW t \in Threads,
         PlaylistWords(t) \/ PlaylistBase(t) \/ PlaylistLen(t)
  PROVE  RegistersInv' /\ ListInv'
<1> USE DEF At, Goto
<1>0. RegistersInv /\ ListInv /\ Shape
  BY DEF LInv, IInv
<1>1. UNCHANGED table
  BY DEF PlaylistWords, PlaylistBase, PlaylistLen
<1>2. On' = On /\ Enabled' = Enabled
  BY <1>1 DEF On, Enabled
<1>3. call[t].at \in Starting \cup OffTable
  BY DEF PlaylistWords, PlaylistBase, PlaylistLen, Starting, OffTable
<1>4. \A u \in Threads : u # t => call[u].at \notin Updating
  BY <1>0, <1>3, OneUpdates
<1>5. \A u \in Threads : u # t => call'[u] = call[u]
  BY <1>0 DEF PlaylistWords, PlaylistBase, PlaylistLen, Shape
<1>6. fifoLock = t
  BY <1>0, <1>3 DEF RegistersInv
<1>7. CASE PlaylistWords(t)
  <2>1. call[t].at \in Filling /\ base = cur /\ On \ {Mine(t)} \subseteq Listed
    BY <1>0, <1>7 DEF PlaylistWords, ListInv
  <2>2. call'[t].at = (IF call[t].at = "init_list" THEN "init_base" ELSE "kill_base")
        /\ Mine(t)' = Mine(t)
    BY <1>0, <1>7 DEF PlaylistWords, Shape, Mine
  <2>3. cur' = 3 - cur /\ base' = 3 - cur' /\ cur' \in 1 .. 2 /\ base' = base
        /\ UNCHANGED <<len, fifoLock>>
    BY <1>0, <1>7, <2>1 DEF PlaylistWords, RegistersInv
  <2>4. playlist' = [playlist EXCEPT ![cur'] = Overlay(playlist[cur'], Enabled)]
    BY <1>7 DEF PlaylistWords
  <2>5. playlist[cur'] \in Seq(Chans)
    BY <1>0, <2>3 DEF RegistersInv
  <2>6. playlist' \in [1 .. 2 -> Seq(Chans)] /\ playlist'[base] = playlist[base]
        /\ playlist'[cur'] = Overlay(playlist[cur'], Enabled)
    BY <1>0, <2>3, <2>4, <2>5, EnabledIs, OverlayIs DEF RegistersInv
  <2>7. Listed' = Listed
    BY <2>3, <2>6 DEF Listed
  <2>8. Len(Enabled) <= Len(playlist'[cur'])
        /\ \A i \in 1 .. Len(Enabled) : playlist'[cur'][i] = Enabled[i]
    BY <2>5, <2>6, EnabledIs, OverlayIs
  <2>9. RegistersInv'
    BY <1>0, <1>3, <1>5, <2>2, <2>3, <2>6 DEF RegistersInv, Starting, OffTable
  <2> QED
    BY <1>0, <1>2, <1>4, <1>5, <2>1, <2>2, <2>3, <2>7, <2>8, <2>9 DEF ListInv, Updating
<1>8. CASE PlaylistBase(t)
  <2>1. call[t].at \in Switching /\ base = 3 - cur /\ Begins(playlist[cur])
    BY <1>0, <1>8 DEF PlaylistBase, ListInv
  <2>2. call'[t].at = (IF call[t].at = "init_base" THEN "init_len" ELSE "kill_len")
    BY <1>0, <1>8 DEF PlaylistBase, Shape
  <2>3. base' = cur /\ UNCHANGED <<playlist, cur, len, fifoLock>>
    BY <1>8 DEF PlaylistBase
  <2>4. RegistersInv'
    BY <1>0, <1>3, <1>5, <2>2, <2>3 DEF RegistersInv, Starting, OffTable
  <2>5. call[t].at = "kill_base" => len >= Len(Enabled)
    BY <1>0 DEF ListInv
  <2> QED
    BY <1>0, <1>2, <1>4, <1>5, <2>1, <2>2, <2>3, <2>4, <2>5 DEF ListInv, Updating
<1>9. CASE PlaylistLen(t)
  <2>1. call[t].at \in Cutting /\ base = cur /\ Begins(playlist[base])
    BY <1>0, <1>9 DEF PlaylistLen, ListInv
  <2>2. /\ call[t].at = "init_len" => call'[t].at = "idle" /\ fifoLock' = Null
        /\ call[t].at = "kill_len" => call'[t].at = "freeze" /\ fifoLock' = t
    BY <1>0, <1>6, <1>9 DEF PlaylistLen, Shape, Idle
  <2>3. len' = Len(Enabled) /\ UNCHANGED <<playlist, cur, base>>
    BY <1>9 DEF PlaylistLen
  <2>4. \A u \in Threads : call'[u].at \notin Updating
    BY <1>4, <1>5, <2>1, <2>2 DEF Updating
  <2>5. RegistersInv'
    BY <1>0, <1>3, <1>5, <1>6, <2>1, <2>2, <2>3, EnabledIs, KillAssumption
       DEF RegistersInv, Starting, OffTable
  <2> QED
    BY <1>0, <1>2, <2>1, <2>3, <2>4, <2>5 DEF ListInv, Updating
<1> QED
  BY <1>7, <1>8, <1>9

\* An update begins: a channel is put in or taken out under fifo->lock.
LEMMA UpdateBegins ==
  ASSUME LInv, NEW t \in Threads, NEW c \in Chans, fifoLock = Null,
         \/ table' = [table EXCEPT ![c] = "on"] /\ call'[t].at = "init_list"
         \/ table' = [table EXCEPT ![c] = "off"] /\ call'[t].at = "kill_list",
         Mine(t)' = c, \A u \in Threads : u # t => call'[u] = call[u],
         fifoLock' = t, UNCHANGED <<playlist, cur, base, len>>
  PROVE  RegistersInv' /\ ListInv'
<1>0. RegistersInv /\ ListInv /\ Shape
  BY DEF LInv, IInv
<1>1. /\ \A u \in Threads : call[u].at \notin Updating
      /\ base = cur /\ Begins(playlist[base]) /\ len = Len(Enabled)
      /\ On \subseteq Listed
  BY <1>0, NobodyUpdates
<1>2. Listed' = Listed
  BY DEF Listed
<1>3. On' \ {c} \subseteq On
  BY <1>0 DEF On, Shape
<1>4. call'[t].at = "kill_list" => On' \subseteq On
  BY <1>0 DEF On, Shape
<1>5. call'[t].at = "kill_list" => len >= Len(Enabled)'
  <2> SUFFICES ASSUME call'[t].at = "kill_list" PROVE Len(Enabled)' <= Len(Enabled)
    BY <1>1, <1>0, EnabledIs DEF RegistersInv, Enabled
  <2>1. IsFiniteSet(On) /\ On' \in SUBSET On /\ On \subseteq Chans
    BY <1>4, KillAssumption, FS_Subset DEF On
  <2>2. Cardinality(On') <= Cardinality(On)
    BY <2>1, FS_Subset
  <2>3. Len(Enabled) = Cardinality(On) /\ Len(Enabled)' = Cardinality(On')
    BY <2>1, AscendingIs DEF Enabled
  <2> QED
    BY <2>2, <2>3
<1>6. RegistersInv'
  BY <1>0, KillAssumption DEF RegistersInv, Starting, OffTable
<1>7. \A u \in Threads : u # t => call'[u].at \notin Updating
  BY <1>1
<1>8. call'[t].at \in Filling /\ On' \ {Mine(t)'} \subseteq Listed'
  BY <1>1, <1>2, <1>3
<1> QED
  BY <1>1, <1>5, <1>6, <1>7, <1>8 DEF ListInv, Updating

\* Steps that leave On alone.
LEMMA SameOn ==
  ASSUME IInv, NEW t \in Threads,
         \/ UNCHANGED table
         \/ table' = [table EXCEPT ![Mine(t)] = "none"] /\ call[t].at = "kick"
         \/ \E c \in Chans : state[c] = "free" /\ table' = [table EXCEPT ![c] = "off"]
  PROVE  On' = On
<1>1. call[t].at = "kick" => table[Mine(t)] # "on"
  BY DEF IInv, FifoInv, Dying, OffTable
<1>2. \A c \in Chans : state[c] = "free" => table[c] # "on"
  BY DEF IInv, FifoInv
<1> QED
  BY <1>1, <1>2 DEF IInv, Shape, On

\* Every step keeps the registers and the lists as they should be.
LEMMA ListNext == LInv /\ [Next]_vars => RegistersInv' /\ ListInv'
<1> SUFFICES ASSUME LInv, [Next]_vars PROVE RegistersInv' /\ ListInv'
  OBVIOUS
<1> USE DEF At, Goto, Idle
<1>0. IInv /\ RegistersInv /\ ListInv /\ Shape
  BY DEF LInv, IInv
<1>1. CASE Card
  <2>1. UNCHANGED <<fifo, fifoLock, call>>
    BY <1>1 DEF Card
  <2> QED
    BY <1>0, <2>1, ListFrame DEF fifo, On
<1>2. ASSUME NEW t \in Threads, Killing(t) PROVE RegistersInv' /\ ListInv'
  <2>1. CASE PlaylistWords(t) \/ PlaylistBase(t) \/ PlaylistLen(t)
    BY <2>1, UpdateStep
  <2>2. CASE nv50_fifo_chan_kill(t)
    <3>1. Mine(t) \in Chans
      BY <1>0, <2>2 DEF nv50_fifo_chan_kill, IInv, CallsInv, Shape, Mine, Dying, NoChan
    <3>2. call'[t].at = "kill_list" /\ Mine(t)' = Mine(t)
      BY <1>0, <2>2 DEF nv50_fifo_chan_kill, Shape, Mine
    <3>3. \A u \in Threads : u # t => call'[u] = call[u]
      BY <1>0, <2>2 DEF nv50_fifo_chan_kill, Shape
    <3> QED
      BY <2>2, <3>1, <3>2, <3>3, UpdateBegins DEF nv50_fifo_chan_kill
  <2>3. CASE Kick(t)
    <3>1. On' = On
      BY <1>0, <2>3, SameOn DEF Kick
    <3>2. /\ \A u \in Threads : call'[u].at \in Updating \/ call[u].at \in Updating
                                  => call'[u] = call[u] /\ Mine(u)' = Mine(u)
          /\ call'[t].at = "graph_kill" /\ call[t].at = "kick"
          /\ \A u \in Threads : u # t => call'[u] = call[u]
      BY <1>0, <2>3 DEF Kick, Shape, Mine, Updating
    <3>3. fifoLock = t /\ fifoLock' = Null /\ UNCHANGED <<playlist, cur, base, len>>
      BY <1>0, <2>3 DEF Kick, RegistersInv, OffTable
    <3>4. Enabled' = Enabled /\ Listed' = Listed
      BY <3>1, <3>3 DEF Enabled, Listed
    <3>5. RegistersInv'
      BY <1>0, <3>2, <3>3, KillAssumption DEF RegistersInv, Starting, OffTable
    <3> QED
      BY <1>0, <3>1, <3>2, <3>3, <3>4, <3>5 DEF ListInv, Updating
  <2>4. CASE \/ Freeze(t) \/ WaitFrozen(t) \/ NoEngine(t) \/ nv50_graph_chan_kill(t)
             \/ WaitSync(t) \/ UnloadActive(t) \/ UnloadNext(t)
             \/ nv50_graph_chan_free(t) \/ nv50_chan_free(t) \/ FlushDone(t)
    <3>1. UNCHANGED <<table, playlist, cur, base, len, fifoLock>>
      BY <2>4
         DEF Freeze, WaitFrozen, NoEngine, nv50_graph_chan_kill, WaitSync, UnloadActive,
             UnloadNext, nv50_graph_chan_free, nv50_chan_free, FlushDone, fifo
    <3>2. /\ {call[t].at, call'[t].at} \cap Updating = {}
          /\ call'[t].at \in OffTable <=> call[t].at \in OffTable
      BY <1>0, <2>4
         DEF Freeze, WaitFrozen, NoEngine, nv50_graph_chan_kill, WaitSync, UnloadActive,
             UnloadNext, nv50_graph_chan_free, nv50_chan_free, FlushDone, Shape, Updating,
             OffTable
    <3>3. \A u \in Threads : u # t => call'[u] = call[u]
      BY <1>0, <2>4
         DEF Freeze, WaitFrozen, NoEngine, nv50_graph_chan_kill, WaitSync, UnloadActive,
             UnloadNext, nv50_graph_chan_free, nv50_chan_free, FlushDone, Shape
    <3>4. On' = On
      BY <3>1 DEF On
    <3> QED
      BY <1>0, <3>1, <3>2, <3>3, <3>4, ListFrame
  <2> QED
    BY <1>2, <2>1, <2>2, <2>3, <2>4 DEF Killing
<1>3. ASSUME NEW t \in Threads, nv86_graph_tlb_flush(t) PROVE RegistersInv' /\ ListInv'
  <2>1. On' = On
    BY <1>3 DEF nv86_graph_tlb_flush, fifo, On
  <2>2. \A u \in Threads :
           \/ call'[u] = call[u]
           \/ /\ {call[u].at, call'[u].at} \cap Updating = {}
              /\ call'[u].at \in OffTable <=> call[u].at \in OffTable
    BY <1>0, <1>3 DEF nv86_graph_tlb_flush, Shape, Updating, OffTable
  <2> QED
    BY <1>0, <1>3, <2>1, <2>2, ListFrame DEF nv86_graph_tlb_flush, fifo
<1>4. ASSUME NEW t \in Threads, NEW c \in Chans, nv50_chan_new(t, c)
      PROVE  RegistersInv' /\ ListInv'
  <2>1. On' = On
    BY <1>0, <1>4, SameOn DEF nv50_chan_new
  <2> QED
    BY <1>0, <1>4, <2>1, ListFrame DEF nv50_chan_new
<1>5. ASSUME NEW t \in Threads, NEW c \in Chans, nv50_graph_chan_alloc(t, c)
      PROVE  RegistersInv' /\ ListInv'
  BY <1>0, <1>5, ListFrame DEF nv50_graph_chan_alloc, fifo, On
<1>6. ASSUME NEW t \in Threads, NEW c \in Chans, nv50_fifo_chan_init(t, c)
      PROVE  RegistersInv' /\ ListInv'
  <2>1. call'[t].at = "init_list" /\ Mine(t)' = c
        /\ \A u \in Threads : u # t => call'[u] = call[u]
    BY <1>0, <1>6 DEF nv50_fifo_chan_init, Shape, Mine
  <2> QED
    BY <1>6, <2>1, UpdateBegins DEF nv50_fifo_chan_init
<1>7. ASSUME NEW t \in Threads, NEW c \in Chans, pscnv_chan_ref_free(t, c)
      PROVE  RegistersInv' /\ ListInv'
  <2>1. On' = On
    BY <1>7 DEF pscnv_chan_ref_free, fifo, On
  <2>2. \A u \in Threads :
           \/ call'[u] = call[u]
           \/ /\ {call[u].at, call'[u].at} \cap Updating = {}
              /\ call'[u].at \in OffTable <=> call[u].at \in OffTable
    BY <1>0, <1>7 DEF pscnv_chan_ref_free, Shape, Updating, OffTable
  <2> QED
    BY <1>0, <1>7, <2>1, <2>2, ListFrame DEF pscnv_chan_ref_free, fifo
<1>8. CASE UNCHANGED vars
  BY <1>0, <1>8, ListFrame DEF vars, fifo, On
<1> QED
  BY <1>1, <1>2, <1>3, <1>4, <1>5, <1>6, <1>7, <1>8 DEF Next

\* Every step keeps PGRAPH open while nobody has its lock, and the types.
LEMMA GraphLockNext == LInv /\ [Next]_vars => GraphLockInv' /\ TypeInv'
<1> SUFFICES ASSUME LInv, [Next]_vars PROVE GraphLockInv' /\ TypeInv'
  OBVIOUS
<1> USE KillAssumption DEF At, Goto, Idle, fifo, card, NoChan
<1>0. /\ Shape /\ GraphLockInv /\ TypeInv
      /\ loaded \in Chans \cup {NoChan}
      /\ \A t \in Threads : call[t].at \in Stopped => graphLock = t
  BY DEF LInv, IInv, FifoInv, LockInv
<1>1. CASE Card
  <2>1. UNCHANGED <<runs, graphLock, access, hang, call>>
    BY <1>1 DEF Card
  <2>2. TypeInv'
    BY <1>0, <1>1, <2>1
       DEF Card, CardSwitch, CardFreeze, CardRequest, CardLoad, CardSync, TypeInv
  <2> QED
    BY <1>0, <2>1, <2>2 DEF GraphLockInv
<1>2. ASSUME NEW t \in Threads,
             \/ PlaylistWords(t) \/ PlaylistBase(t) \/ PlaylistLen(t)
             \/ nv50_fifo_chan_kill(t) \/ Freeze(t) \/ WaitFrozen(t) \/ Kick(t)
             \/ NoEngine(t) \/ nv50_graph_chan_free(t) \/ nv50_chan_free(t)
      PROVE  GraphLockInv' /\ TypeInv'
  <2>1. UNCHANGED <<runs, graphLock, access, hang, gcur, gnext>>
    BY <1>2
       DEF PlaylistWords, PlaylistBase, PlaylistLen, nv50_fifo_chan_kill, Freeze,
           WaitFrozen, Kick, NoEngine, nv50_graph_chan_free, nv50_chan_free
  <2>2. \A u \in Threads : call[u].at \in {"sync", "unload", "unload_next"}
                             => call'[u] = call[u]
    BY <1>0, <1>2
       DEF PlaylistWords, PlaylistBase, PlaylistLen, nv50_fifo_chan_kill, Freeze,
           WaitFrozen, Kick, NoEngine, nv50_graph_chan_free, nv50_chan_free, Shape
  <2> QED
    BY <1>0, <2>1, <2>2 DEF GraphLockInv, TypeInv
<1>3. ASSUME NEW t \in Threads,
             nv50_graph_chan_kill(t) \/ WaitSync(t) \/ UnloadActive(t) \/ UnloadNext(t)
      PROVE  GraphLockInv' /\ TypeInv'
  <2>1. TypeInv'
    BY <1>0, <1>3
       DEF nv50_graph_chan_kill, WaitSync, UnloadActive, UnloadNext, TypeInv
  <2>2. CASE nv50_graph_chan_kill(t)
    <3>1. graphLock' = t /\ call'[t].at = "sync"
      BY <1>0, <2>2 DEF nv50_graph_chan_kill, Shape
    <3> QED
      BY <2>1, <3>1 DEF GraphLockInv
  <2>3. CASE WaitSync(t) \/ UnloadActive(t)
    <3>1. graphLock = t /\ UNCHANGED <<graphLock, access, hang>>
          /\ call'[t].at \in {"unload", "unload_next"}
      BY <1>0, <2>3 DEF WaitSync, UnloadActive, Shape, Stopped
    <3> QED
      BY <2>1, <3>1 DEF GraphLockInv
  <2>4. CASE UnloadNext(t)
    BY <2>1, <2>4 DEF UnloadNext, GraphLockInv
  <2> QED
    BY <1>3, <2>2, <2>3, <2>4
<1>4. ASSUME NEW t \in Threads, nv86_graph_tlb_flush(t) \/ FlushDone(t)
      PROVE  GraphLockInv' /\ TypeInv'
  <2>1. TypeInv'
    BY <1>0, <1>4 DEF nv86_graph_tlb_flush, FlushDone, TypeInv
  <2>2. ~hang
    <3>1. graphLock = Null \/ (graphLock = t /\ call[t].at = "flush")
      BY <1>0, <1>4 DEF nv86_graph_tlb_flush, FlushDone, Stopped
    <3> QED
      BY <1>0, <3>1 DEF GraphLockInv
  <2> QED
    BY <1>4, <2>1, <2>2 DEF nv86_graph_tlb_flush, FlushDone, GraphLockInv
<1>5. ASSUME NEW t \in Threads, NEW c \in Chans,
             \/ nv50_chan_new(t, c) \/ nv50_graph_chan_alloc(t, c)
             \/ nv50_fifo_chan_init(t, c) \/ pscnv_chan_ref_free(t, c)
      PROVE  GraphLockInv' /\ TypeInv'
  <2>1. UNCHANGED <<graphLock, access, hang, gcur, gnext>>
    BY <1>5
       DEF nv50_chan_new, nv50_graph_chan_alloc, nv50_fifo_chan_init, pscnv_chan_ref_free
  <2>2. runs' \in 0 .. MaxRuns
    BY <1>0, <1>5
       DEF nv50_chan_new, nv50_graph_chan_alloc, nv50_fifo_chan_init, pscnv_chan_ref_free,
           TypeInv
  <2>3. \A u \in Threads : call[u].at \in {"sync", "unload", "unload_next"}
                             => call'[u] = call[u]
    BY <1>0, <1>5
       DEF nv50_chan_new, nv50_graph_chan_alloc, nv50_fifo_chan_init, pscnv_chan_ref_free,
           Shape
  <2> QED
    BY <1>0, <2>1, <2>2, <2>3 DEF GraphLockInv, TypeInv
<1>6. CASE UNCHANGED vars
  BY <1>0, <1>6 DEF vars, GraphLockInv, TypeInv
<1> QED
  BY <1>1, <1>2, <1>3, <1>4, <1>5, <1>6 DEF Next, Killing

\* What the card reads is right whenever nobody has fifo->lock, and has every
\* channel that runs while somebody rewrites it, but for the moment before the
\* length when a channel is added (nv50_fifo_playlist_update), for any number of
\* channels and of threads.
THEOREM SpecPlaylistExact == Spec => []PlaylistExact
<1>1. LInv => PlaylistExact
  <2> SUFFICES ASSUME LInv PROVE PlaylistExact
    OBVIOUS
  <2>0. IInv /\ RegistersInv /\ ListInv /\ GraphLockInv /\ TypeInv /\ Shape
    BY DEF LInv, IInv
  <2>1. TypeOK
    <3>1. state \in [Chans -> {"free", "new", "on", "dying"}]
          /\ table \in [Chans -> {"none", "off", "on"}]
          /\ call \in [Threads -> [at : Stages, chan : Chans \cup {NoChan}]]
      BY <2>0 DEF Shape, Stages, Starting, Dying, OffTable, OffFifo, OffGraph, OffAll
    <3>2. grctx \subseteq Chans /\ loaded \in Chans \cup {NoChan}
      BY <2>0 DEF IInv, ContextInv, FifoInv
    <3>3. graphLock = Null => access /\ ~hang
      BY <2>0, KillAssumption DEF GraphLockInv
    <3> QED
      BY <2>0, <3>1, <3>2, <3>3 DEF TypeOK, TypeInv
  <2>2. fifoLock = Null => SubSeq(playlist[base], 1, len) = Enabled /\ len = Len(Enabled)
    <3> SUFFICES ASSUME fifoLock = Null
                 PROVE  SubSeq(playlist[base], 1, len) = Enabled /\ len = Len(Enabled)
      OBVIOUS
    <3>1. Begins(playlist[base]) /\ len = Len(Enabled)
      BY <2>0, NobodyUpdates
    <3>2. playlist[base] \in Seq(Chans) /\ Enabled \in Seq(Chans) /\ len \in Nat
          /\ len <= Len(playlist[base])
      BY <2>0, <3>1, EnabledIs DEF RegistersInv
    <3>3. /\ SubSeq(playlist[base], 1, len) \in Seq(Chans)
          /\ Len(SubSeq(playlist[base], 1, len)) = len
          /\ \A i \in 1 .. len : SubSeq(playlist[base], 1, len)[i] = playlist[base][i]
      BY <3>2, SubSeqProperties
    <3>4. SubSeq(playlist[base], 1, len) = Enabled
      BY <3>1, <3>2, <3>3, SeqEqual
    <3> QED
      BY <3>1, <3>4
  <2>3. ASSUME NEW c \in Chans, table[c] = "on",
               \A t \in Threads : Mine(t) = c => At(t, "idle"),
               ~ \E t \in Threads : At(t, "init_len")
        PROVE  c \in Listed
    <3>1. c \in On
      BY <2>3 DEF On
    <3>2. CASE \A t \in Threads : call[t].at \notin Updating
      <4>1. base = cur /\ Begins(playlist[base]) /\ len = Len(Enabled)
        BY <2>0, <3>2 DEF ListInv
      <4> QED
        BY <2>0, <3>1, <4>1, EnabledIs, BeginsListed
    <3>3. ASSUME NEW t \in Threads, call[t].at \in Updating PROVE c \in Listed
      <4>1. Mine(t) # c
        BY <2>3, <3>3 DEF At, Updating
      <4>2. CASE call[t].at \in Filling \cup Switching
        BY <2>0, <3>1, <4>1, <4>2 DEF ListInv
      <4>3. CASE call[t].at = "kill_len"
        <5>1. Begins(playlist[base]) /\ len >= Len(Enabled)
          BY <2>0, <4>3 DEF ListInv
        <5> QED
          BY <2>0, <3>1, <5>1, BeginsListed
      <4> QED
        BY <2>3, <3>3, <4>2, <4>3 DEF At, Updating
    <3> QED
      BY <3>2, <3>3
  <2> QED
    BY <2>1, <2>2, <2>3 DEF PlaylistExact
<1>2. LInv /\ [Next]_vars => LInv'
  BY NextIInv, ListNext, GraphLockNext DEF LInv
<1> QED
  BY <1>1, <1>2, InitLInv, PTL DEF Spec
=============================================================================
