------------------------------ MODULE ChanKill ------------------------------
(***************************************************************************)
(* How an NV50 channel is started and taken away from the card:            *)
(* nv50_fifo.c, the kill of nv50_graph.c, and the order in which           *)
(* pscnv_chan_ref_free calls them before the memory of the channel is      *)
(* freed.  PFIFO runs the channels of a playlist, one at a time; PGRAPH    *)
(* changes to the channel that PFIFO runs by a program of its own          *)
(* (ctxprog), which stops at a point where the driver can ask it to wait.  *)
(*                                                                         *)
(* The card is modelled from what the driver takes its registers to mean.  *)
(* Channel 0 is not used: PFIFO is put onto it when it is to run nothing.  *)
(***************************************************************************)
EXTENDS Integers, Sequences, FiniteSets

CONSTANTS
  Threads,
  Chans,        \* the numbers of channels, from ch_min on
  Switchable,   \* those that may have a context of PGRAPH
  MaxRuns,      \* bound: how many channels there are over time
  Null

ASSUME KillAssumption ==
  /\ Chans \subseteq Nat \ {0} /\ IsFiniteSet(Chans) /\ Switchable \subseteq Chans
  /\ MaxRuns \in Nat /\ Null \notin Threads

VARIABLES
  state,      \* of a number: "free", "new", "on" once it was started, "dying"
  runs,       \* history: how many channels there were
  grctx,      \* the channels whose context of PGRAPH is allocated
  table,      \* 0x2600 + 4 * cid: "none", "off", "on" (bit 31)
  playlist,   \* fifo->playlist: the words of the two lists
  cur,        \* fifo->cur_playlist
  base, len,  \* 0x32f4 and 0x32ec: the list the card reads, and its length
  freeze,     \* 0x2504: "no", "asked", "frozen" once the card acknowledges
  loaded,     \* 0x3204: the channel that PFIFO runs
  gcur, gnext,\* 0x40032c and 0x400330: of PGRAPH, 0 for none
  access,     \* 0x400500: whether PGRAPH takes commands from PFIFO
  hang,       \* 0x400830: ctxprog is to wait at its sync point
  prog,       \* ctxprog: "idle", "running", "waiting"
  fifoLock, graphLock,
  call,       \* of a thread: what it does next, and the channel
  late        \* history: a wait for the card has timed out

card == <<loaded, gcur, gnext, prog, freeze>>
fifo == <<table, playlist, cur, base, len>>
vars == <<state, runs, grctx, fifo, card, access, hang, fifoLock, graphLock, call, late>>

NoChan == 0
Idle == [at |-> "idle", chan |-> NoChan]
At(t, at) == call[t].at = at
Goto(t, at) == call' = [call EXCEPT ![t].at = at]
Mine(t) == call[t].chan

Init ==
  /\ state = [c \in Chans |-> "free"] /\ runs = 0
  /\ grctx = {}
  /\ table = [c \in Chans |-> "none"]
  /\ playlist = <<(<<>>), (<<>>)>> /\ cur = 1 /\ base = 1 /\ len = 0
  /\ freeze = "no" /\ loaded = NoChan
  /\ gcur = NoChan /\ gnext = NoChan /\ prog = "idle"
  /\ access = TRUE /\ hang = FALSE
  /\ fifoLock = Null /\ graphLock = Null
  /\ call = [t \in Threads |-> Idle]
  /\ late = FALSE

-----------------------------------------------------------------------------
(* Channels come and go                                                    *)

\* pscnv_chan_new: the number is bound and the instance memory allocated; the
\* channel table names it, not enabled.
nv50_chan_new(t, c) ==
  /\ At(t, "idle") /\ state[c] = "free" /\ runs < MaxRuns
  /\ state' = [state EXCEPT ![c] = "new"]
  /\ runs' = runs + 1
  /\ table' = [table EXCEPT ![c] = "off"]
  /\ UNCHANGED <<grctx, playlist, cur, base, len, card, access, hang, fifoLock,
                 graphLock, call, late>>

\* The channel gets a context, by the first object of the engine.
nv50_graph_chan_alloc(t, c) ==
  /\ At(t, "idle") /\ state[c] \in {"new", "on"} /\ c \in Switchable \ grctx
  /\ \A u \in Threads : Mine(u) # c
  /\ grctx' = grctx \cup {c}
  /\ UNCHANGED <<state, runs, fifo, card, access, hang, fifoLock, graphLock, call, late>>

\* nv50_fifo_chan_init_dma and nv50_fifo_chan_init_ib, up to the playlist.
nv50_fifo_chan_init(t, c) ==
  /\ At(t, "idle") /\ state[c] = "new" /\ fifoLock = Null
  /\ \A u \in Threads : Mine(u) # c
  /\ fifoLock' = t
  /\ state' = [state EXCEPT ![c] = "on"]
  /\ table' = [table EXCEPT ![c] = "on"]
  /\ call' = [call EXCEPT ![t] = [at |-> "init_list", chan |-> c]]
  /\ UNCHANGED <<runs, grctx, playlist, cur, base, len, card, access, hang,
                 graphLock, late>>

\* pscnv_chan_ref_free, when nobody has a reference left: the channel is killed
\* on PFIFO, then on the engines it has contexts of.
pscnv_chan_ref_free(t, c) ==
  /\ At(t, "idle") /\ state[c] \in {"new", "on"}
  /\ \A u \in Threads : Mine(u) # c
  /\ state' = [state EXCEPT ![c] = "dying"]
  /\ call' = [call EXCEPT ![t] = [at |-> "fifo_kill", chan |-> c]]
  /\ UNCHANGED <<runs, grctx, fifo, card, access, hang, fifoLock, graphLock, late>>

-----------------------------------------------------------------------------
(* nv50_fifo_playlist_update, under fifo->lock                             *)

\* The channels whose bit is set, in ascending order: of a set of numbers the
\* i-th is the one that i of them do not exceed.
On == {c \in Chans : table[c] = "on"}
Ascending(S) ==
  [i \in 1 .. Cardinality(S) |-> CHOOSE c \in S : Cardinality({d \in S : d <= c}) = i]
Enabled == Ascending(On)

\* The words behind the new ones stay as they were.
Overlay(old, new) == new \o SubSeq(old, Len(new) + 1, Len(old))

\* Faulty variant: the list that the card reads is written.
PlaylistInPlace(t) ==
  /\ At(t, "init_list") \/ At(t, "kill_list")
  /\ playlist' = [playlist EXCEPT ![cur] = Overlay(@, Enabled)]
  /\ call' = [call EXCEPT ![t].at = IF @ = "init_list" THEN "init_base" ELSE "kill_base"]
  /\ UNCHANGED <<state, runs, grctx, table, cur, base, len, card, access, hang,
                 fifoLock, graphLock, late>>

\* The other list is filled; the card does not read it yet.
PlaylistWords(t) ==
  /\ At(t, "init_list") \/ At(t, "kill_list")
  /\ cur' = 3 - cur
  /\ playlist' = [playlist EXCEPT ![3 - cur] = Overlay(@, Enabled)]
  /\ call' = [call EXCEPT ![t].at = IF @ = "init_list" THEN "init_base" ELSE "kill_base"]
  /\ UNCHANGED <<state, runs, grctx, table, base, len, card, access, hang,
                 fifoLock, graphLock, late>>

\* "XXX: is this correct? is this non-racy?": two registers, one after the other.
PlaylistBase(t) ==
  /\ At(t, "init_base") \/ At(t, "kill_base")
  /\ base' = cur
  /\ call' = [call EXCEPT ![t].at = IF @ = "init_base" THEN "init_len" ELSE "kill_len"]
  /\ UNCHANGED <<state, runs, grctx, table, playlist, cur, len, card, access, hang,
                 fifoLock, graphLock, late>>

\* The length ends the update; with it chan_init is over.
PlaylistLen(t) ==
  /\ At(t, "init_len") \/ At(t, "kill_len")
  /\ len' = Len(Enabled)
  /\ IF At(t, "init_len")
       THEN fifoLock' = Null /\ call' = [call EXCEPT ![t] = Idle]
       ELSE Goto(t, "freeze") /\ UNCHANGED fifoLock
  /\ UNCHANGED <<state, runs, grctx, table, playlist, cur, base, card, access, hang,
                 graphLock, late>>

-----------------------------------------------------------------------------
(* nv50_fifo_chan_kill                                                     *)

\* The bit goes first.
nv50_fifo_chan_kill(t) ==
  /\ At(t, "fifo_kill") /\ fifoLock = Null
  /\ fifoLock' = t
  /\ table' = [table EXCEPT ![Mine(t)] = "off"]
  /\ Goto(t, "kill_list")
  /\ UNCHANGED <<state, runs, grctx, playlist, cur, base, len, card, access, hang,
                 graphLock, late>>

Freeze(t) ==
  /\ At(t, "freeze")
  /\ freeze' = "asked" /\ Goto(t, "frozen")
  /\ UNCHANGED <<state, runs, grctx, fifo, loaded, gcur, gnext, prog, access, hang,
                 fifoLock, graphLock, late>>

\* Faulty variant: no timeout.
WaitFrozenForever(t) ==
  /\ At(t, "frozen") /\ freeze = "frozen"
  /\ Goto(t, "kick")
  /\ UNCHANGED <<state, runs, grctx, fifo, card, access, hang, fifoLock, graphLock, late>>

\* The card answers, or 2 s are over and the driver goes on.
WaitFrozen(t) ==
  /\ At(t, "frozen")
  /\ \/ freeze = "frozen" /\ UNCHANGED late
     \/ freeze = "asked" /\ late' = TRUE
  /\ Goto(t, "kick")
  /\ UNCHANGED <<state, runs, grctx, fifo, card, access, hang, fifoLock, graphLock>>

\* The channel is kicked off PFIFO if it is on it, and leaves the table.
Kick(t) ==
  /\ At(t, "kick")
  /\ loaded' = IF loaded = Mine(t) THEN NoChan ELSE loaded
  /\ table' = [table EXCEPT ![Mine(t)] = "none"]
  /\ freeze' = "no" /\ fifoLock' = Null /\ Goto(t, "graph_kill")
  /\ UNCHANGED <<state, runs, grctx, playlist, cur, base, len, gcur, gnext, prog,
                 access, hang, graphLock, late>>

-----------------------------------------------------------------------------
(* nv50_graph_chan_kill and nv50_graph_chan_free                           *)

\* Engines that the channel has no context of are passed over.
NoEngine(t) ==
  /\ At(t, "graph_kill") /\ Mine(t) \notin grctx
  /\ Goto(t, "chan_free")
  /\ UNCHANGED <<state, runs, grctx, fifo, card, access, hang, fifoLock, graphLock, late>>

\* PGRAPH takes no more commands, and ctxprog is to wait.
nv50_graph_chan_kill(t) ==
  /\ At(t, "graph_kill") /\ Mine(t) \in grctx /\ graphLock = Null
  /\ graphLock' = t
  /\ access' = FALSE /\ hang' = TRUE /\ Goto(t, "sync")
  /\ UNCHANGED <<state, runs, grctx, fifo, card, fifoLock, late>>

\* Faulty variant: does not wait.
WaitSyncNot(t) ==
  /\ At(t, "sync") /\ Goto(t, "unload")
  /\ UNCHANGED <<state, runs, grctx, fifo, card, access, hang, fifoLock, graphLock, late>>

\* ctxprog is not running or waits, or 2 s are over.
WaitSync(t) ==
  /\ At(t, "sync")
  /\ \/ prog # "running" /\ UNCHANGED late
     \/ prog = "running" /\ late' = TRUE
  /\ Goto(t, "unload")
  /\ UNCHANGED <<state, runs, grctx, fifo, card, access, hang, fifoLock, graphLock>>

\* PGRAPH forgets the channel if it is the active one.
UnloadActive(t) ==
  /\ At(t, "unload")
  /\ gcur' = IF gcur = Mine(t) THEN NoChan ELSE gcur
  /\ Goto(t, "unload_next")
  /\ UNCHANGED <<state, runs, grctx, fifo, loaded, gnext, prog, freeze, access, hang,
                 fifoLock, graphLock, late>>

\* And if it is about to be loaded; ctxprog starts over if it was running.
UnloadNext(t) ==
  /\ At(t, "unload_next")
  /\ gnext' = IF gnext = Mine(t) THEN NoChan ELSE gnext
  /\ prog' = IF prog = "waiting" THEN "running" ELSE prog
  /\ hang' = FALSE /\ access' = TRUE /\ graphLock' = Null
  /\ Goto(t, "graph_free")
  /\ UNCHANGED <<state, runs, grctx, fifo, loaded, gcur, freeze, fifoLock, late>>

nv50_graph_chan_free(t) ==
  /\ At(t, "graph_free")
  /\ grctx' = grctx \ {Mine(t)} /\ Goto(t, "chan_free")
  /\ UNCHANGED <<state, runs, fifo, card, access, hang, fifoLock, graphLock, late>>

\* nv50_chan_free and pscnv_chan_unbind.
nv50_chan_free(t) ==
  /\ At(t, "chan_free")
  /\ state' = [state EXCEPT ![Mine(t)] = "free"]
  /\ call' = [call EXCEPT ![t] = Idle]
  /\ UNCHANGED <<runs, grctx, fifo, card, access, hang, fifoLock, graphLock, late>>

\* nv86_graph_tlb_flush: PGRAPH is stopped for the time of a flush, under the
\* same lock; the wait for it may time out without consequence.
nv86_graph_tlb_flush(t) ==
  /\ At(t, "idle") /\ graphLock = Null
  /\ graphLock' = t /\ access' = FALSE /\ Goto(t, "flush")
  /\ UNCHANGED <<state, runs, grctx, fifo, card, hang, fifoLock, late>>

FlushDone(t) ==
  /\ At(t, "flush")
  /\ graphLock' = Null /\ access' = TRUE /\ Goto(t, "idle")
  /\ UNCHANGED <<state, runs, grctx, fifo, card, hang, fifoLock, late>>

-----------------------------------------------------------------------------
(* The card (external)                                                     *)

Listed == {playlist[base][i] : i \in 1 .. IF len < Len(playlist[base]) THEN len
                                          ELSE Len(playlist[base])}

\* PFIFO takes the next channel of the list that is enabled, unless frozen.
CardSwitch(c) ==
  /\ freeze # "frozen" /\ c \in Listed /\ table[c] = "on" /\ loaded' = c
  /\ UNCHANGED <<gcur, gnext, prog, freeze>>

CardFreeze == freeze = "asked" /\ freeze' = "frozen" /\ UNCHANGED <<loaded, gcur, gnext, prog>>

\* A command of another channel than the active one starts ctxprog.
CardRequest ==
  /\ access /\ prog = "idle" /\ loaded \in grctx \ {gcur}
  /\ gnext' = loaded /\ prog' = "running"
  /\ UNCHANGED <<loaded, gcur, freeze>>

\* ctxprog saves the one context and loads the other.
CardLoad ==
  /\ prog = "running" /\ gcur' = gnext /\ gnext' = NoChan /\ prog' = "idle"
  /\ UNCHANGED <<loaded, freeze>>

CardSync == prog = "running" /\ hang /\ prog' = "waiting" /\ UNCHANGED <<loaded, gcur, gnext, freeze>>

Card ==
  /\ (\E c \in Chans : CardSwitch(c)) \/ CardFreeze \/ CardRequest \/ CardLoad \/ CardSync
  /\ UNCHANGED <<state, runs, grctx, fifo, access, hang, fifoLock, graphLock, call, late>>

Killing(t) ==
  \/ PlaylistWords(t) \/ PlaylistBase(t) \/ PlaylistLen(t)
  \/ nv50_fifo_chan_kill(t) \/ Freeze(t) \/ WaitFrozen(t) \/ Kick(t)
  \/ NoEngine(t) \/ nv50_graph_chan_kill(t) \/ WaitSync(t)
  \/ UnloadActive(t) \/ UnloadNext(t)
  \/ nv50_graph_chan_free(t) \/ nv50_chan_free(t) \/ FlushDone(t)

Next ==
  \/ Card
  \/ \E t \in Threads :
       \/ Killing(t) \/ nv86_graph_tlb_flush(t)
       \/ \E c \in Chans : \/ nv50_chan_new(t, c) \/ nv50_graph_chan_alloc(t, c)
                           \/ nv50_fifo_chan_init(t, c) \/ pscnv_chan_ref_free(t, c)

Spec == Init /\ [][Next]_vars

\* A thread that has begun goes on and gets a spinlock that is free again and
\* again; nothing is asked of the card, for every wait has a timeout.
FairSpec == Spec /\ \A t \in Threads : SF_vars(Killing(t))

-----------------------------------------------------------------------------
(* Properties                                                              *)

Stages == {"idle", "init_list", "init_base", "init_len", "fifo_kill", "kill_list",
           "kill_base", "kill_len", "freeze", "frozen", "kick", "graph_kill", "sync",
           "unload", "unload_next", "graph_free", "chan_free", "flush"}

\* The variables stay in their types, and PGRAPH takes commands whenever nobody
\* holds graph->lock.
TypeOK ==
  /\ state \in [Chans -> {"free", "new", "on", "dying"}]
  /\ runs \in 0 .. MaxRuns /\ grctx \subseteq Chans
  /\ table \in [Chans -> {"none", "off", "on"}]
  /\ {loaded, gcur, gnext} \subseteq Chans \cup {NoChan}
  /\ call \in [Threads -> [at : Stages, chan : Chans \cup {NoChan}]]
  /\ graphLock = Null => access /\ ~hang

\* Memory that is freed is not used by the card any more: neither PFIFO nor
\* PGRAPH is on a channel that is freed, nor is PGRAPH about to load one, though
\* ctxprog may be between the two when the driver looks at the one register and
\* then at the other; unless a wait for the card had to be given up
\* (pscnv_chan_ref_free relies on the kills for this).
NoCardUse ==
  ~late =>
    /\ loaded # NoChan => state[loaded] # "free"
    /\ \A c \in Chans \cap {gcur, gnext} : c \in grctx /\ state[c] # "free"

\* When no update is under way the card reads a list of exactly the channels
\* that are enabled.  While one is, the list that it reads still holds every
\* channel that is enabled, whatever words are being written; the exception is
\* the moment between the two registers when a channel is added, where the old
\* length can cut the last channel off the new list
\* (nv50_fifo_playlist_update, "is this non-racy?").
PlaylistExact ==
  /\ TypeOK
  /\ fifoLock = Null =>
       SubSeq(playlist[base], 1, len) = Enabled /\ len = Len(Enabled)
  /\ \A c \in Chans :
       (table[c] = "on" /\ \A t \in Threads : Mine(t) = c => At(t, "idle")) =>
         c \in Listed \/ \E t \in Threads : At(t, "init_len")

\* A channel that is to be freed is freed, whether or not the card answers.
KillEnds == \A c \in Chans : state[c] = "dying" ~> state[c] = "free"
=============================================================================
