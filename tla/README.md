# A TLA+ model of pscnv

pscnv is a DRM kernel driver for nVidia NV50 and NVC0 cards with a small
userspace library.  It has no design document: the models are translated from
the C code, and paths and line numbers below are those of the repository.

## The system

| Component | Code | State | Operations |
|---|---|---|---|
| Range allocator | `pscnv/pscnv_mm.[ch]` | nodes of an address range in a red-black tree, chains of nodes | init, alloc, free, takedown, find_node |
| Push buffer | `libpscnv/libpscnv_ib.[ch]` | ring positions in userspace, push buffer, IB, registers | OUT_RING, FIRE_RING, ib_push, ib_update_get, chan_new |
| Address spaces and channels | `pscnv_vm.c`, `pscnv_chan.c`, `pscnv_ioctl.c`, `nv50_chan.c`, `nvc0_chan.c` | the tables `vspaces[]` and `chans[]`, krefs, owner, handle | new, free, lookup, mmap, client death, interrupt lookup |
| Mappings | `pscnv_vm.c` | nodes of an address space tagged with a buffer object | map, unmap, map_user, map_kernel |
| Page tables | `nv50_vm.c`, `nvc0_vm.c` | page tables per address space, page directories in each channel | do_map, do_unmap, fill_pd_slot, TLB flush |
| Memory objects | `pscnv_mem.c`, `pscnv_gem.c`, `pscnv_sysram.c`, `nv50_vram.c`, `nvc0_vram.c` | buffer objects, VRAM nodes, gem handles | alloc, free, fault |
| Handle table, instance heap | `pscnv_ramht.c`, `nv50_chan.c` | hash table and bump allocator in a channel | insert, find, iobj_new |
| PFIFO | `nv50_fifo.c`, `nvc0_fifo.c` | playlists, register state | init_dma, init_ib, chan_kill, interrupts |
| Engines | `nv50_graph.c`, `pscnv_engine.h` | context images, TLB references | chan_alloc, obj_new, chan_kill |
| Kernel DMA ring | `nouveau_dma.[ch]` | a ring of commands with a jump back | RING_SPACE, OUT_RING, FIRE_RING |
| Display modes, interrupts, hotplug | `nv50_display.c`, `nouveau_irq.c`, `nv50_gpio.c`, `nv50_sor.c` | `evo_irq`, masks, two work items | interrupt handler, three stages of an update, hotplug |
| DisplayPort training | `nouveau_dp.c` | rate, lanes, levels of source and sink | detect, link_train, auxch |
| BIOS scripts | `nouveau_bios.c` | `execute`, `display.output`, flags of a table run | 60 opcodes, tables run at load and for outputs |
| Card start and stop | `nouveau_state.c`, `nouveau_drv.c` | what has been initialised | load, unload, preclose |
| Power, connectors, framebuffer | `nouveau_pm.c`, `nouveau_hw.c`, `nouveau_connector.c`, `nouveau_fbcon.c`, ... | registers | |
| Old code | `attic/` | | not built |

How they interact.  An ioctl looks an address space or a channel up by number
(spinlock of the table, owner check, kref), works on it without the table's
lock and drops the reference.  A channel holds a reference to its address
space.  An address space has a mutex and a range allocator for its addresses;
the card has a mutex and a range allocator for VRAM.  The page tables of an
address space and the instance memory of a channel are themselves buffer
objects.  A mapping of a channel's registers or of a buffer object in a client
holds a reference until `vm_close`.  The DRM core calls `nouveau_preclose` when
the last reference to a client's file goes.  The card runs on its own: it
fetches what the doorbell allows and reads memory through the page tables.  It
finds objects by handle in a table in the channel's instance memory.  PFIFO runs
the channels of a playlist, PGRAPH changes contexts after it; both have to be off
a channel before its memory is freed.  The kernel sets modes through a push
buffer of its own; the card then asks the driver, by interrupts, to run scripts
of the BIOS in three stages, and a change of a connector makes the driver train a
DisplayPort link, which uses those scripts as well.

What is hard here:

* *Threads.*  All ioctls are `DRM_UNLOCKED`.  Lookups, updates of `filp`, the
  counts and the destruction of an object interleave freely.
* *Partial failure.*  Allocation of fragments, of mappings, of the memory of a
  channel can each fail half way and is undone by hand-written error paths.
* *The card as second process.*  The push buffer is shared with it without
  locks; the program sees its progress through registers, late.
* *Boundaries.*  Rings that wrap, ranges that do not start on a block boundary,
  fragments cut at both ends, `uint64_t` sums that wrap, tables that fill up.
* *Interrupts and work items.*  A handler masks the card and leaves the rest to a
  work item, while another item and clients use the same registers.
* *Hardware that does not answer.*  Waits for the card have timeouts after which
  the driver goes on; a DisplayPort sink defers, refuses, or does what it was
  asked while its answer is lost.
* *Registers in pairs.*  A playlist, a slot of the handle table, a TLB flush are
  two writes, between which the card or another thread may look.
* *Long sequences.*  Split, merge, rollback and takedown of the range allocator.

`PROJECT.json` lists every such hazard at its line, with the properties that
cover it, or the reason why none does.

## Modules

| Module | What it is |
|---|---|
| `PscnvMM` | the range allocator, one step per loop iteration |
| `RangeAlloc` | what the allocator promises its callers; `PscnvMM` implements it |
| `PscnvMMProofs` | theorems about `PscnvMM`, checked by TLAPS |
| `PushRing` | the push buffer library and the card that reads it |
| `WordFifo` | a bounded FIFO of words; `PushRing` implements it |
| `PscnvRefs` | lifetimes of address spaces and channels under concurrent ioctls |
| `PscnvRefsProofs` | theorems about `PscnvRefs`, checked by TLAPS |
| `PscnvMaps` | buffer objects, their mappings, page tables and TLBs under concurrent calls |
| `PscnvMapsStages` | the inductive invariant of `PscnvMaps` |
| `PscnvMapsProofs` | theorems about `PscnvMaps`, checked by TLAPS |
| `BiosScripts` | the interpreter of the BIOS scripts, every opcode an action |
| `ChanHeap` | instance heap and handle table of a channel, and the card that reads the table |
| `ChanHeapProofs` | theorems about `ChanHeap`, checked by TLAPS |
| `ChanKill` | channels started and killed on PFIFO and PGRAPH of NV50 |
| `ChanKillProofs` | theorems about `ChanKill`, checked by TLAPS |
| `EvoRing` | the kernel's push buffer; implements `WordFifo` too |
| `EvoRingProofs` | that it does, and the room it reckons with, checked by TLAPS |
| `DisplayIrq` | display interrupts, the stages of an update, hotplug |
| `DisplayIrqProofs` | a theorem about `DisplayIrq`, checked by TLAPS |
| `Nvc0Tables` | page tables of NVC0 |
| `DpTrain` | DisplayPort link training over an unreliable AUX channel |
| `DpTrainProofs` | theorems about `DpTrain`, checked by TLAPS |
| `MC...` | instances for TLC (requests, threads, sizes, images of the BIOS, symmetry) |

Modules whose constants are numbers and sets of model values have no `MC` module:
their configurations name them directly.

Operators called *Faulty variant* are plausible bugs that no specification
uses; each property has been seen to fail when one of them takes the place of
the definition it varies.

### PscnvMM

`nodes` is the content of the tree `mm->head` without the two sentinels, which
appear in `NeighbourIs` as a type-0 neighbour at either end.  `chain[o]` holds
the starts of the nodes linked by `next` and `prev` from the node the caller
keeps.  `call` is the call that holds the caller's mutex: its name, its object,
the size left and whether a `kzalloc` has failed.  `req` and `before` are
histories for the properties.

| Code | Action |
|---|---|
| `pscnv_mm_alloc` | `AllocCall`, then one `AllocSingle` per turn of its loop, `AllocDone`; or `AllocFail`, `Rollback` per fragment, `RollbackDone` |
| `pscnv_mm_alloc_single` | `AllocSingle(n)`: the node found, the window clipped to the caller's bounds, both splits and the merge of each |
| `pscnv_mm_free` | `FreeCall`, `FreeStep` per node, `FreeDone` |
| `pscnv_mm_takedown` | `TakedownCall`; per restart `TakedownNext`, the free of the callback, `FreeDone`; `TakedownDone` |

The tree is abstracted to an ordered set.  The recursion of `alloc_single` is an
in-order walk (reversed with FROMBACK) pruned by `maxgap`, an upper bound of the
gaps below, so the first node in order that fits is the one it finds, whatever
the shape of the tree.  A `kzalloc` that fails in it makes the walk go on, hence
`AllocSingle` on a later fit and `call.nomem`.  That `maxgap` really is an upper
bound after rotations is a property of `pscnv_tree.h`, planned separately.

Not modelled: requests of size 0 or above 2^60 (`pscnv_mem_alloc` rejects or
never makes them), a failing `pscnv_mm_init`, and the pure lookup `find_node`.

### PushRing

The variables carry the names of `struct pscnv_ib_chan` without `pb_`; `mem` is
`pb_map`, `ib` is `ib_map`, and `doorbell`, `ibPos`, `dmaGet`, `valid` are the
registers `0x8c`, `0x88`, `0x58` and bit 31 of `0x5c` of `chmap`.  Positions
count words.  Every access to a register is a step, so the card moves between
the two reads of `pscnv_ib_update_get` and between the entry and its doorbell.

| Code | Action |
|---|---|
| `OUT_RING` | `OutCall`, `OutFull` (a turn of its loop), `OutWrite` |
| `pscnv_ib_update_get` | `UpdateLow`, `UpdateHigh` |
| `FIRE_RING` | `FireCall` or `OutFull`, `Fire`, `FireDone` |
| `pscnv_ib_push` | `PushWait` (a turn of its loop), `PushEntry`, `PushBell` |
| the card (external) | `CardFetch`, `CardRead` |

The card is modelled from what the library takes its registers to mean.  Three
assumptions go into it: stores reach memory in program order; the read position
is reported inside the ring (the library compares `mg - pb_base` with a masked
position, so a card that reported the end of a segment at the end of the ring
as the end would stall OUT_RING once it is full); and before the first fetch
bit 31 is clear, while afterwards the low half of the position is right by
itself, because a push buffer does not straddle a 4 GiB boundary.  Pushing other
buffers with `pscnv_ib_push` makes the read position meaningless for
`OUT_RING`; the model, like the library's own inline functions, does not.

### PscnvRefs

An object is a channel or an address space.  `table` is both `chans[]` and
`vspaces[]`; `ref`, `slot`, `filp`, `handle`, `vspace` are the fields of the
structures; `mem` says whether `ch->bo`, or the page tables, exist; `maps` counts
the mappings of a channel's registers per file.  `todo[t]` is what thread `t`
has still to run: an ioctl puts its operations there (`Bind`, `Setup`,
`Handle`, `Late`, `Own`, `Disown`, `Ref`, `Unref`, `Touch`), and the `Unref`
that reaches zero puts the steps of `ref_free` in front (`Clear`, `Drop`,
`Unbind`, `Kfree`).  Failing steps replace the rest by the error path of the
code (`BindFails`, `SetupFails`, `LateFails` with `Undo`).

| Code | Action |
|---|---|
| `pscnv_ioctl_vspace_new`, `pscnv_vspace_new` | `VspaceNew`, then bind, setup, own |
| `pscnv_ioctl_chan_new`, `pscnv_chan_new` | `ChanNew`, then ref, bind, setup, handle, late, unref, own |
| `..._vspace_free`, `..._chan_free` | `Free`: disown, unref, unref |
| `obj_vdma_new`, `obj_eng_new`, `fifo_init`, `vspace_map`, `vspace_unmap` | `Use`: use, unref |
| `pscnv_chan_mmap`, `vm_open`, `vm_close` | `Mmap`, `VmOpen`, `VmClose` |
| `nouveau_preclose` | `Close`, one `Clean` per number |
| `fifo_init_ib` on NV50 | `InitIb`: only in `SpecInitIb`, which shows what it breaks |

Freed structures are never reused in the model, so that a late use is visible.
Numbers are reused.  The fake channels and address spaces of the driver (ids
below 0) live as long as the card and are left out.

### PscnvMaps

`gref` is the count of the gem object, `map1` the field of `struct pscnv_bo`,
`nodes[vs]` the used nodes of `vs->mm` with their `tag`, `pt[vs]` the page tables as
a function from pages to objects, `tlb[vs]` what the card remembers of them and
`lock[vs]` the mutex.  `Bar` is the address space of the driver behind the BAR,
through which clients see VRAM; its mappings hold no reference.  Threads run as
in `PscnvRefs`: a call puts its operations into `todo[t]`, and an operation may
put further ones in front, for instance when it drops the last reference.

| Code | Action |
|---|---|
| `pscnv_ioctl_gem_new`, `gem_info`, closing a handle | `GemNew`, `GemInfo`, `GemClose` |
| `pscnv_ioctl_vspace_map`, `pscnv_vspace_map` | `VspaceMapCall`, then `LockStep`, `Place` or `PlaceFails`, a `Write` per page or `WriteFails`, `UnlockStep` |
| `pscnv_ioctl_vspace_unmap`, `pscnv_vspace_unmap` | `VspaceUnmapCall`, `LockStep`, `Find`, a `Clear` per page, `Flush` or `FlushLost`, `Unref`, `MmFree`, `UnlockStep` |
| `pscnv_mmap`, `map_user` | `Mmap`, `Check`, if `map1` is empty a map into `Bar` with `Assign`, `Mapped` |
| `nv50_vspace_tlb_flush`, `nv50_vm_flush` | `Flush` when all units answer, `FlushLost` when one does not, or not to this flush |
| `drm_gem_vm_open`, `drm_gem_vm_close` (external) | `VmOpen`, `Munmap` |
| `pscnv_gem_free_object`, `pscnv_mem_free` | the steps that `Unref` adds when it drops the last reference, `Release` |
| `pscnv_vspace_ref_free` | `VspaceFree`, a turn of `Takedown` per node |
| the card (external) | `CardLoad` |

The range allocator is what `RangeAlloc` promises: room that nobody has, the
lowest in the BAR, anywhere for a client, who chooses bounds and direction.
Page tables are created without failing or make `WriteFails`; that they are
memory objects themselves, and the mutex of the DRM core around an unreference,
are left out.  Memory that was freed is never given out again, so that a late
access is visible.  When a map cannot be placed, `pscnv_ioctl_vspace_map` keeps
the reference of its lookup (`pscnv_ioctl.c:200`): `leaked` counts these, and
`RefsExact` excepts them.  A client unmaps what a map has given it, once;
`pscnv_vspace_unmap` does not check that the node it finds is in use.

Two histories, which no guard reads, name what the code itself gives up.  A flush
that times out returns -EIO, the engines after it are not told, and the trigger
`0x100c80` is written under the mutex of whichever space flushes; its callers go on
and unreference.  `FlushLost` keeps any of the translations, and `late[vs]` has the
pages of which it has kept one, until a flush of the space succeeds.  `map_user`
looks at `map1` before it takes the mutex, so two clients that map one object at
once may both put it into the BAR; the second node replaces the first in `map1`, and
nothing ever unmaps the first.  `twice` has the objects this has happened to.

### BiosScripts

An image of the BIOS (`rom`) is what the parser can tell apart: opcodes at their
offsets with the number of their data, and the tables that the driver runs.
`frames[t]` are the nested calls of `parse_init_table`, `iexec[t]` the flags
that they share, `execute` and `output` the fields of the device.  What
registers hold is left out: a condition comes out either way each time it is
looked at.  `hw` keeps of a write its opcode and whether it is to reach the card.

| Code | Action |
|---|---|
| `init_...`, one function per opcode | an action of the same name: its length, whether it looks at `iexec->execute`, what it does to the flags, whether it calls another table or ends this one |
| `parse_init_table` | `Parse`, `Return` |
| `nouveau_run_vbios_init`, `parse_init_tables` | `Init`, then `Begin` and `End` per table, `Booted` |
| `nouveau_bios_run_display_table` | the action of that name, with `DisplayScript` and `clkcmptable` |
| `nouveau_bios_run_init_table` (link training, power management) | the action of that name |

Opcodes 0x3A, 0x3B and 0x3C, and registers that are relative to an output
(`munge_reg`), take it that there is an output.  In a table that is run for none the
thread oopses or trips a BUG_ON, with the lock; it is then in `dead` and takes no
step any more, and who waits for its lock waits for good.

`WritesAnyway` and the two paths of `Asks` follow handlers that do not look at
the flag; the source says "no iexec->execute check by design" of some of them.

### ChanHeap

`heap`, `instpos` and `written` are what `nv50_chan_iobj_new` has handed out;
`handle` and `context` the two words of each slot, written one after the other.
The handle words hold anything at first, as the code clears only the others.

| Code | Action |
|---|---|
| `nv50_chan_iobj_new` | the operator of that name, one step under `instlock` |
| `pscnv_ioctl_obj_vdma_new`, `nv50_chan_dmaobj_new` | the actions of those names, `Fill` |
| `pscnv_ioctl_obj_eng_new`, `nv50_graph_chan_alloc`, `..._obj_new` | those names, `SetEngdata` |
| `pscnv_ramht_insert` | `pscnv_ramht_insert`, `InsertContext` |
| `pscnv_ramht_find` | an operator, used by `nv50_fifo_chan_init` |

### ChanKill

`table`, `base`, `len`, `freeze`, `loaded`, `gcur`, `gnext`, `access`, `hang` are
registers of PFIFO and PGRAPH, `playlist` the two lists in memory; `late` records
that a wait has timed out.  Each register that the card may look at between two
writes is a step.

| Code | Action |
|---|---|
| `nv50_fifo_chan_init_dma`, `..._ib` | `nv50_fifo_chan_init`, then the playlist |
| `nv50_fifo_playlist_update` | `PlaylistWords`, `PlaylistBase`, `PlaylistLen` |
| `nv50_fifo_chan_kill` | that name, the playlist, `Freeze`, `WaitFrozen`, `Kick` |
| `nv50_graph_chan_kill`, `..._chan_free` | that name or `NoEngine`, `WaitSync`, `UnloadActive`, `UnloadNext`, `nv50_graph_chan_free` |
| `nv86_graph_tlb_flush` | that name, `FlushDone` |
| `pscnv_chan_ref_free`, `nv50_chan_free` | those names |
| the card (external) | `CardSwitch`, `CardFreeze`, `CardRequest`, `CardLoad`, `CardSync` |

Channel 0 does not exist (`ch_min` is 1), and PFIFO is put onto it when it is to
run nothing.

### EvoRing

The positions are those of `chan->dma`; each read of GET and each write of PUT is
a step, so GET is stale when it is used.

| Code | Action |
|---|---|
| `RING_SPACE`, `nouveau_dma_wait` | `RING_SPACE`, a turn of its loop being `Room`, `Behind`, `Ahead` or `Discard` |
| the jump in `nouveau_dma_wait` | `Jump`, `Leave` per read of GET, `Wrap` |
| `READ_GET` with its timeouts | `prev`, `GiveUp` |
| `OUT_RING`, `FIRE_RING` | those names |
| the card (external) | `Fetch` |

### DisplayIrq

The upper part of the state is the card's, the lower the driver's.  The handler
runs under `irq_lock`; the two work items may run at once on two processors.

| Code | Action |
|---|---|
| `nouveau_irq_handler`, `nv50_display_irq_handler` | `IsrEnter`, `IsrHotplug`, `IsrLoop` per turn, `IsrMask`, `IsrQueue` |
| `nv50_display_irq_handler_bh` | `BhStart`, `BhLoop`, one of the three `nv50_display_unk..._handler`, `BhEnable` |
| `nv50_display_irq_hotplug_bh` | `HpdStart`, `HpdRead`, `HpdLine`, `HpdTrained`, `HpdAck` in three steps |
| `nv50_gpio_irq_enable` in `nouveau_dp_link_train` | `Trains`, `TrainBreaksOff`, `ClientTrains` |
| the card and the connector (external) | `StartUpdate`, `AfterStage`, `Plug`, `OtherInterrupt` |

### Nvc0Tables

`tables[v][d]` is None or the pair of tables of block `d`; a thread in `call` holds
the mutex of its space; `tlbPd` is the register that says whose translations the
next trigger drops.

| Code | Action |
|---|---|
| `pscnv_vspace_map`, `nvc0_vspace_place_map` | `Map` |
| `nvc0_vspace_do_map`, `write_pt` | `MapBlock` per turn |
| `nvc0_vspace_pgt`, `nvc0_vspace_fill_pde` | `FillPde`, `FillPdeFails` without memory, `NoSuchPde` for its BUG_ON |
| `nvc0_vspace_do_unmap` | `Unmap`, `UnmapBlock` per turn |
| `nvc0_tlb_flush` | `FlushPd`, `FlushTrigger`, or `FlushTimeout` with what each caller makes of -EBUSY |
| `nvc0_vspace_free` | `VspaceFree` |
| the card (external) | `Access` |

A table that was just allocated is modelled empty; that the source clears it is
in the lines of `nvc0_vspace_fill_pde`.  When a table cannot be had, or the flush
after it times out, `nvc0_vspace_pgt` returns NULL, at which its callers do not look
(`nvc0_vm.c:157`): the thread dies with the mutex of its space (`Dies`), unless the
table was that for the part of a run that needs none.  After a map a timeout has the
map undone, after an unmap it is ignored and the node released.  `missed` has the spaces
for which a flush was due and that none has reached since.  Behind the BAR only
objects in VRAM are mapped, and from the front.

### DpTrain

`pc` names the place in `nouveau_dp_link_train`; each request on the AUX channel
is one round of `AuxOk`, `AuxFails` or `AuxDefer`.  All lanes are set alike and a
request is the most that a lane asks for, as `nouveau_dp_link_train_adjust`
takes it.  Rates are DPCD codes as the sink reports them; the source has one bit for
them (`SourceRate`).  `Records` is the table of levels, record_nr entries of it;
`scanned` is what is found in the dpe_headerlen entries in which the code looks for the
limits, which may be fewer or more, and never changes.

| Code | Action |
|---|---|
| `nouveau_dp_auxch` | `Ask`, `AuxOk`, `AuxFails` (carried out or not), `AuxDefer` |
| `nouveau_dp_detect` | `Detect`, `Caps` |
| `nouveau_dp_link_train` | `LinkTrain`, `Train`, `Rated`, `Laned`, `Cr...`, `Eq...`, `Stop`, `Retry`, `Return`, `ReturnFalse` |
| `..._train_set`, `..._adjust`, `..._commit` | `TrainSet` and `PatternRead`, `Adjust`, `Commit` |

## Runs

| Run | Bounds | Result |
|---|---|---|
| `mm` | 14 units from 2 to 16, blocks of 4, pages of 1 and 2, 2 objects, 6 requests, words of 32 | all hold; 6,193 states |
| `ring` | 8 words, 2 IB entries, 16 words written | all hold, no deadlock; 114 thousand states |
| `refs` | 2 files, 3 threads, 2 channels for 1 number, 2 address spaces, 2 mappings | all hold; 0.8 million states |
| `refs_init_ib` | 1 file, 2 threads | violated, see below |
| `maps` | 2 threads, 1 address space of 2 pages, 2 pages of BAR, objects of 1 and 2 pages, 2 mappings into clients, 1 lost reference, 1 TLB entry | all hold; 2.0 million states |
| `scripts` | the images described below; tables of 12 opcodes at most, 2 retries, 1 call per thread, clocks from -3 to 2 | all hold; 0.1 million states |
| `chan_heap` | 2 threads, table of 4 slots, heap of 9 units, 2 contexts | all hold |
| `chan_kill` | 2 threads, 2 channels, 3 lives of a channel | all hold |
| `evo_ring` | buffer of 10 words and the jump's, 2 skips, requests up to 3, 4 words unfired, 16 words written | all hold |
| `display_irq` | two encoders, 3 events | all hold |
| `nvc0_tables` | 2 threads, an address space of 2 blocks and the BAR of 1, blocks of 4 pages, large pages of 2, an object of each kind, 2 mappings, 1 TLB entry | all hold; 1.1 million states |
| `dp_train` | a sink of 4 lanes, 2 in the source, the two rates the source knows and one more, 5 and 6 tries, 2 defers, a table of 4 levels, limits from a part of it, from it, and from past it | all hold; 1.1 million states |

Why the bounds are enough.  *mm*: the range starts and ends inside a block, so
the ends, where the sentinels count as type 0, matter; two objects make a node
between neighbours of other types, and the six requests combine both kinds, both
directions, fragments, bounds and a bound that wraps.  *ring*: 16 words go round
the 8-word ring twice, the IB wraps, and both fill up.  *refs*: fewer numbers than
structures, so a table fills up and numbers are reused; two threads in one file
race on one object while the other file lives and dies next to them.  *maps*: the
BAR and the address space each hold one of the objects, or the small one twice,
and fill up (both objects in the BAR at once are left to the proofs); a map of two pages fails half way; one TLB entry is enough, since what is
stated of a translation is stated of each by itself; two threads are as many as
can wait for each other with two mutexes.  *scripts*: every table of four opcodes
that steer the parser (conditions, NOT, RESUME, blocks and their ends, the end);
a table with every opcode of the source, with empty and non-empty lists, once
executed and once skipped, on two kinds of card; registers of an output in tables
with and without one; the other probes of the memory;
and two outputs whose scripts two threads run at once.  *chan_heap*: the heap
ends before the table is full or after it, depending on the objects; two handles
share a hash, and probing wraps.  *chan_kill*: with two channels PFIFO and PGRAPH can be
on different ones, the one dying or not; three lives reuse a number.  *evo_ring*:
the buffer is gone around at least twice; more skips or words repeat what these do.
*display_irq*: two events are as many as can race with one item and a third sets
the mode they race with.  *nvc0_tables*: fragments end inside a block, at its end and
after it, one space ends where the directory ends, and every table and flush may
fail.  *dp_train*: the tries are those of the source; the counters of the AUX channel only
need one more try than none; a sink with more lanes than the source is the case in
which the smaller number has to be taken.

`ring` checks deadlock.  In the others a bound or the end of all clients may stop
the system, so they do not; that the mutexes of `maps` cannot deadlock is
`LocksOrdered`, and that calls end is stated by a liveness property where the
code has a loop to wait in.

What the properties say:

* `Tiles`, `Coalesced`, `Separated`: nodes cover the range exactly, free nodes
  never touch, and no block holds storage of both kinds.  `Delivered`: an
  allocation is what was asked for.  `Allocates`: it fails only when no legal
  place exists (against a definition unit by unit, without nodes), gets the
  lowest or the highest place, and undoes itself when it fails.
  `ChainsExact`: at every step of every call each used node is in one chain, once,
  and chains have nothing else, so the loops that walk them leave nothing behind
  and free nothing twice.  `CallsReturn`: every call ends.
  `ImplementsRangeAlloc`: all this happens in one step for the callers.
* `RingIntact`, `ImplementsFifo`, `Progress`: the ring never laps the card, nothing
  is lost or doubled where it wraps, the whole is a FIFO of N - 1 words, and what
  is handed over is read.
* `RefsBalance`: the count of an object is exactly the number of references that
  exist.  `NothingDangles`, `DeathReleases`: what the counts are for.
* `RefsExact`: the same for buffer objects and their mappings.  `MapsExact`: page
  tables, range allocator and `map1` agree, and a client sees the object it asked
  for.  `NoStaleTranslation`: neither a page table nor a TLB leads to freed memory.
  Both except the pages in `late` from what they say of the TLB, and the objects in
  `twice` from what they say of the BAR; nothing else.
* `InSync`: every path of every handler that returns, returns the length of its opcode, and a
  card that was set up already is only written to by the opcodes named under
  "What the runs found".
  `BlocksRepeat`: blocks run as often as they say.  `OwnOutput`: handlers see the
  output their script runs for, and only those without one die for want of it.
  `RunsEnd`: every table ends, unless its thread, or the one with the lock, has died so.
* `HeapDisjoint`, `CardSeesRight`, `FoundAsInserted`, `PushbufIsDma`: objects do not
  overlap; the card, which looks handles up without a lock, sees complete objects
  only; the driver finds what was inserted; a push buffer is a DMA object.
* `NoCardUse`: the memory of a dead channel is not used, unless a wait has timed
  out.  PGRAPH's two registers are read one after the other, and ctxprog moves a
  channel from the second to the first: without the wait and the lock a channel
  would escape between the two.  `PlaylistExact`: the card's list has the running channels, except the
  last one between the two registers of an update that adds a channel, where the
  old length can cut it off.  `KillEnds`: a kill does not depend on the card.
* `RoomIsFree`, `ImplementsFifo`, `Served` (of `EvoRing`): the room the driver
  believes in is free, no command is lost, and the driver does not wait for a card
  that waits for it.
* `ScriptsComplete`: after an update every encoder has run both halves of what it
  was to run.  `UpdatesEnd`: every stage is answered and interrupts come back.
  `Told`: user space learns of every change, with the two exceptions below.
* `TranslatesRight`: what the card looks up is the page that is mapped there, by one
  of the two tables only, also where a map is undone or given up.
  `NoStale`: what it remembers is gone after a flush, but in the spaces in `missed`.
* `SidesAgree`: a training that succeeds leaves source and sink with the same lanes,
  levels and pattern, whatever was lost, and with the same rate if the source knows
  the rate; else with the source at 1.62.  `LevelInTable`: its BUG_ON does not fire if
  the limits were found in the table.  `TrainingEnds`: every training ends, or in that
  BUG_ON if they were not.

Fairness.  `FairSpec` of each module assumes the least that the code's scheduling
gives.  *mm*: a running call keeps running; its only blocking step returns.
*ring*: the same of a library call, and a card that serves a channel that has
work.  *scripts*: a thread that runs a table and has not died goes on, and a thread
that waits for the lock gets it when it is free.  *chan_kill*: a thread goes on and gets a spinlock that is free
again and again (strong fairness per thread); nothing of the card.  *evo_ring*: the
driver goes on, without its timeouts, and the card fetches.  *display_irq*: an
asserted, enabled interrupt is delivered and queued items run.  *dp_train*: a
call goes on; an AUX request ends, if only by its timeout.  Nothing makes a
program call, and no fairness is assumed between the disjuncts of a call.

### What the runs found

`refs_init_ib`: `nv50_fifo_chan_init_ib` drops the reference of its caller
(`nv50_fifo.c:324`, also `:267`), who drops it again (`pscnv_ioctl.c:441`).
`init_dma` and the NVC0 code do not.  The next free destroys the channel a second
time, and the BUG_ON in `pscnv_chan.c:71` fires.

Other places where the code does not keep what a property says.  The runs assume
them away with a constant, or the property names them as its exception:

* `SerialFrees`: `filp` is cleared outside the lock (`pscnv_ioctl.c:301`, `:169`),
  so two concurrent frees of one number drop the owner's reference twice.
* A mapping of channel registers that fails keeps its reference
  (`pscnv_chan.c:178`, `:199`); the model's mappings succeed.
* The interrupt lookup goes by `ch->bo` (`pscnv_chan.c:219`), which is NULL or freed
  while a channel is set up or destroyed; `pscnv_chan.h:38` says it goes by the
  handle.  It changes nothing and is not modelled.
* `BarMapFails`: `pscnv_vspace_map` stores the node for its caller even when `do_map`
  failed and the node was freed (`pscnv_vm.c:162`).  In `map1` it stays: a later
  mmap uses the freed node.  `nvc0_fifo.c:92` expects `map1` to be NULL then.
* `twice`: `map_user` looks at `map1` outside the mutex (`nv50_vm.c:204`).  Two mmaps of an
  object at once both put it into the BAR, and the node that `map1` forgets stays there,
  leading to the memory of the object even after it was freed.
* `late`: a flush that fails is not looked at (`nv50_vm.c:26`, `nv50_vm.c:167`,
  `pscnv_vm.c:130`), and the memory is unreferenced while a TLB may still lead to it.
* `pscnv_ioctl_vspace_map` keeps the reference of its lookup when there is no room
  (`pscnv_ioctl.c:200`); `RefsExact` counts these.
* `Impatient`: when the wait for the card to leave the skips gives up
  (`nouveau_dma.c:148`), the jump is written but PUT is not moved, and the next
  command is written behind the jump.
* `Steady`: link training counts its tries anew whenever the swing changes
  (`nouveau_dp.c:363`), so a sink that goes back and forth is trained for ever.
  `nouveau_dp_link_train` also returns success when the lanes were aligned and the
  clock was lost in the same status (line 428 against 445).
* `Told`: three early returns leave hotplug detection off (`nouveau_dp.c:317`, `:327`,
  `:424`), and a training by a client acknowledges changes in its name.
* `BlocksRepeat`: a block inside a block clears the flag of the outer one
  (`nouveau_bios.c:966`).
* `InSync`: the opcodes that use the AUX channel, and a part of the memory probes,
  do not look at `bios->execute` (`nouveau_bios.c:3486`).
* `NoStale`: the two flush registers of NVC0 are shared without a lock
  (`nvc0_vm.c:53`), so a flush may reach another space than its own; and a flush that
  times out is ignored by an unmap (`nvc0_vm.c:56`, `pscnv_vm.c:130`).
* `NoTable`: nobody looks at the NULL of `nvc0_vspace_pgt`, which a failed allocation or
  a flush that timed out gives (`nvc0_vm.c:157`).
* `SidesAgree`: a sink that reports a rate other than 1.62 and 2.7 (0x14, say) is told to
  use it, while the source is set to 1.62 (`nouveau_dp.c:96`); nothing notices.
* `LevelInTable`: the limits are looked for in dpe_headerlen entries (`nouveau_dp.c:141`,
  `:163`), the level in record_nr (`:242`).  What lies behind the table can raise a
  limit past it, and then the BUG_ON fires.
* `RunsEnd`: opcodes 0x3A, 0x3B and 0x3C dereference the output without a test
  (`nouveau_bios.c:4405`, `:1258`, `:1281`), and `munge_reg` has a BUG_ON (`:304`).  In
  a table that is run for no output the thread ends there, with `bios->lock`.
* `NoSuchPde`: mapping system memory up to the end of the last block looks a table
  up behind the directory, a BUG_ON (`nvc0_vm.c:110`).
* Two threads that add the first engine object allocate two contexts
  (`pscnv_ioctl.c:386`); one is lost.
* `nvc0_fifo_chan_kill` rewrites the playlist without the lock (`nvc0_fifo.c:197`);
  not modelled.

## Proofs

`PscnvMMProofs` proves, for every range, page and block size, set of objects and
set of requests that satisfy `RangeAssumption` and `RequestAssumption`:
`Spec => []TypeOK`, `[]Tiles`, `[]Coalesced`, `[]Separated` and `[]ChainsExact`.

The inductive invariant `IInv` is the conjunction of the first four.  `Coalesced` is needed for `Separated`: a free node's neighbours are
used, so the types of the two neighbours decide what lies in the blocks at its
ends, except that a neighbour may be shorter than a block; then its own
neighbours matter, and the invariant has to speak of all pairs of nodes in a
block.  The lemmas about `FreeNode` and `Carve` say that a release and a cut keep
a tiling, keep free nodes apart and add no used storage; the proof that a step
preserves `IInv` has one step per action and cites them.  Nothing about the
divisibility of the sizes is assumed: only that the range with one block and
one page more fits into a word.

`ChainsExact` is inductive on top of `IInv`.  A release takes one node from the used ones and a
cut adds one, whatever merges on the way (`FreeNodeUsed`, `CarveUsed`), and since nodes tile
the range a start names one node; so a step of a loop changes a chain and the used
nodes alike.  Takedown takes the lowest used node, walks to the head of its chain, and hands
over that chain and no other.

`ChanHeapProofs` proves, for every set of threads and handles, hash, table size and
heap size that satisfy `HeapAssumption`: `[]HeapDisjoint`, `[]PushbufIsDma`,
`[]CardSeesRight` and `[]FoundAsInserted`.

* The first two rest on `IInv`: everything in the heap lies below `instpos` and is
  apart; an object that a call carries was made by it, with the length that the
  kind of the call gives it (`CallsInv`); and so is every word of the table
  (`TableInv`).  `PushbufIsDma` needs all three, since the object comes out of the
  table, where a call has put it.
* `CardSeesRight` needs more, since the two words of a slot are written in two
  steps: `CardInv` adds that only the thread with the table's lock has claimed a
  slot, that this slot is still invalid and has the handle of its call
  (`ClaimInv`), and that a valid slot's word is among those given to its handle
  (`SlotsInv`).  That the first words hold anything at first does no harm.
* `FoundAsInserted` needs `FindInv`, and of the constants also `NullAssumption`, that no
  object is the model's `Null`.  A slot that is valid stays as it is, so what is
  found stays found.  The first object of a handle is found from its insertion
  on: all slots on the way to the one claimed are valid (`WayInv`), and none of
  them has the handle, since then the handle would have been given something
  before.

`EvoRingProofs` proves `[]RoomIsFree`, and that `EvoRing` implements `WordFifo`, for every
size of the buffer, number of skips and sizes of the requests that satisfy
`SizeAssumption`, and `~Impatient`: no wait for the card to leave the skips is given
up (with one the properties do not hold, see above).  The invariant says where
the words are that the card has still to run.  Either it is behind the driver,
and they are what lies between the two (`Linear`), or it is in front: then they are
what lies up to the jump, and what was written from the skips on (`Wrapped`).
Nowhere else is one (`OnlyIn`).  What the driver saw of GET may be old, but the card
only moves away from the room, and wraps only to where `Linear` holds again; that
PUT goes back to the skips only after the card was seen beyond them is what keeps
GET and PUT from meeting (`ahead`).

`ChanKillProofs` proves `[]NoCardUse` for any number of threads, channels and contexts.
A channel dies in stages, and `IInv` says for each what the card has been taken
off: out of the channel table PFIFO does not come back to it (`FifoInv`), off PFIFO
PGRAPH is not asked for it any more, and off PGRAPH its context can go
(`ContextInv`, `GraphInv`).  Between the two registers of PGRAPH ctxprog does not run,
since nobody lets PGRAPH take commands while the lock is held (`LockInv`); this part
holds until a wait is given up, and is the only one that needs a wait or a lock.

The second theorem is `[]PlaylistExact`.  `ListInv` says for each place of the thread
in the fifo lock which of the two buffers the card reads and what they hold: when
nobody is in it, the card's begins with the enabled channels in ascending order; while
the other one is filled and put in its place, nothing but the thread's own channel can
be missing from what the card reads; and the length is never too short when a channel
is taken out.  That a finite set of numbers has one ascending sequence, with each of
its elements once, is `AscendingIs`; that what is left of an older list in a buffer
lies behind the new one is `OverlayIs`.

`DisplayIrqProofs` proves `[]ScriptsComplete` for any set of encoders.  Only one stage
waits for the driver at a time and what the work item saw stays true until it has
handled it, so the scripts that were run and the encoder in `evo_irq.dcb` are
functions of the stage and of the two encoders of the update; `IInv` says which.

`DpTrainProofs` proves `[]SidesAgree` for every table, set of rates, source, sink and number
of tries and deferrals, with no assumption on the constants but their types; for a rate
that the source does not know it says no more than that the source is at 1.62.  A request that failed may have
been carried out, so source and sink differ in general; `IInv` says for each place
of the driver in what they agree, and that a place where they may differ leads to
none from which a training succeeds.  It also proves `[]LevelInTable` for every table
that is `Closed`, that is, has with a level all levels with a lower swing and
pre-emphasis.  Two things have to be given for the BUG_ON not to fire, and the code
ensures neither: that the table is closed, the assumption of the theorem, and that
the entries in which the limits are looked for are in the table, the premise of the
property.

`PscnvRefsProofs` proves `[]RefsBalance`, `[]NothingDangles`, `[]DeathReleases` and
`[]UnbindAsserts` (the BUG_ONs of the two unbinds, which no run checks by itself) for any
number of files, threads, channels, address spaces, numbers and mappings, from
`ObjsAssumption` and `SerialFrees`.  Without `SerialFrees` they do not hold, see
"What the runs found"; it is used in one place, where `Free` starts.

What a thread has still to run says how far it has come with an object, so most of
the inductive invariant `IInv` is about `todo`.  `Waits(t, i, do, o)` counts places from the
end, so that an operation keeps its place until it is run.

* `Structure`: the shapes that the rest of a call can have.  A new object has all
  the steps of its making ahead (`Making`); `use`, `clear`, `drop` and `unbind` are
  followed by what ends them (`Following`); the operations that change an object for
  good are there once (`Unique`); an object that is dying is in the hands of one
  thread (`DyingZone`); and who works on one that is not holds a reference or is
  making it (`Backed`).
* `OwnState`, `OpState`: what each waiting operation will find.
* `Tables`, `Memory`, `Holding`, `Closing`: a table entry, a memory, an owner that is
  missing or is still there has the operation that explains it ahead.
* `Counted`: `RefsBalance`, with the finiteness of the set of references.

The step that the others are for is the last `unref` (`LastKnows`): the count is one,
so by `Counted` the only reference is the one it gives back; so no file owns the
object, no mapping and no channel leads to it, and by `Backed` no other thread
works on it.  For the other steps the count is shown by naming the reference
that comes, goes or is exchanged for another (`OneMore`, `OneLess`, `Exchange`).

`PscnvMapsProofs` proves `[]RefsExact`, `[]NoStaleTranslation`, `[]LocksOrdered` and, if
`~BarMapFails`, `[]MapsExact`, for any number of threads and address spaces and any
objects of any size that satisfy `MapsAssumption`.  With `BarMapFails` the last one does
not hold, see "What the runs found"; the other three do not need it.  Flushes may be lost
and mmaps of an object coincide at any time; what is proved has the exceptions that `late`
and `twice` name, and no others.

Here, too, all depends on what the threads have still to run, but the calls are so few
that the invariant need not speak of sequences.  `PscnvMapsStages` gives each thread a
stage: the kind of its call, how far it is, and the address space, object, address and
page it is at; `Program` is the sequence that a stage stands for.  `Programs` says that
every thread is at a stage, and the rest of `Inv` speaks of stages only:

* `Locks`: who has a mutex is at a stage that has it.
* `Nodes`, `Downs`: nodes do not overlap, those that threads are busy with exist, and who
  takes an address space down is alone there.  With `Locks` follows that a node is
  in the hands of one thread (`OwnsOnce`).
* `Balance`: the count, with the references that are lent by mappings being unmapped
  and those that threads owe.  `Objects`: who gave the last one back is the only one
  that frees the object.
* `InBar`: a node of the BAR is where `map1` says, or is being made or undone, or its
  object is in `twice`.
* `Tables`: pages without a node are empty, and so are those that the thread busy with a
  node has cleared; the TLB has none that it has flushed, but for pages in `late`.
* `Filled`, `BarExact`, `Windowed`, `Mmaps`: what `MapsExact` is about.

For `NoStaleTranslation` these come together: a mapping of an object without references
is lent, since the references cover what is not (`Covering`); so it is in the hands of a
thread that gave its reference back, and that thread has cleared and flushed it
before, or its pages are in `late`.  In the BAR, where mappings have no reference, the thread that frees the object
takes it out first, and no other can be putting it there, since it would owe a
reference (`UnrefLastKeeps`).  `ProgramStep` says that the program of a stage is its
operation and the program of the next stage, and `PendingLent` and `PendingOwed` turn the
counts of stages into the counts of operations that `GemBalance` is stated with.

Model-checked only, and why:

* liveness, and what is stated with ENABLED: the proof system does not support it;
* of `PscnvMM`, `Delivered`, `Allocates` and the refinement of `RangeAlloc`; of `PushRing`,
  `RingIntact` and the refinement of `WordFifo`: sums along chains of nodes or IB
  entries, which call for induction over data;
* `InSync`, `BlocksRepeat` and `OwnOutput` of `BiosScripts`: what an image contains is
  given by the images of the run;
* `TranslatesRight` and `NoStale` of `Nvc0Tables`: the length of an object is the sum of
  its fragments, taken by recursion along them, so that even its being a number calls
  for induction over data.

No theorem depends on a recursive operator.

## Plan

1. *Done*: the range allocator and its abstract specification, both rings against
   one FIFO, lifetimes, mappings, scripts, heap and handle table, channel kill,
   display interrupts, NVC0 tables, DisplayPort training; theorems about the range
   allocator, lifetimes, mappings and their references, the channel heap and its table, channel kill, the kernel's push buffer, display interrupts and training.
2. Proofs: `TranslatesRight` and `NoStale` of `Nvc0Tables`, with the bounds of the fragments
   as parameters in place of their lengths.
3. NV50 page tables: runs, page directories of all channels of an address space
   and its channel list; PFIFO of NVC0 with two updates of the playlist at once.
4. `map_kernel`, page tables as memory objects, the layer between memory objects and
   VRAM; system memory and its fault handler.
5. Red-black tree with `maxgap` (TLC only).

## Not modelled

* `attic/` is not built; it and the tables of context images (`nv50_grctx.c`) are
  most of the repository's lines.
* Sequences of register writes without a decision that state depends on: modes
  and clocks, engine set-up, context images, power management, decoding of error
  interrupts, connectors and framebuffer.
* Of `nouveau_bios.c`, the parsing of the tables that describe connectors, GPIO, PLL
  limits and panels, which reads and keeps data, and the output scripts of cards
  before NV50.
* Scripts of the BIOS that call themselves, directly or in a circle: nothing in the code
  bounds the depth, and no image of the run has one.
* Card start and stop: a straight line of calls with labels that undo them, run once
  with nothing beside it.  `nouveau_preclose` is in `PscnvRefs`.
* I2C over the AUX channel; `libpscnv.c`, one ioctl per function; the tests, which need
  a card.
