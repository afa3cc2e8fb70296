----------------------------- MODULE DisplayIrq -----------------------------
(***************************************************************************)
(* Interrupts of the display (nv50_display.c, nouveau_irq.c, nv50_gpio.c). *)
(* The interrupt handler only queues work: one work item leads the card    *)
(* through the three stages in which it asks the driver to change a mode   *)
(* ("supervisors", UNK10, UNK20 and UNK40), with all interrupts of the     *)
(* card disabled until it has finished; another one looks after connectors *)
(* that were plugged or unplugged.  The two run on a work queue with a     *)
(* thread per processor, so the handler, the two items and a client that   *)
(* sets a mode all interleave.                                             *)
(***************************************************************************)
EXTENDS Integers, FiniteSets

CONSTANTS
  Encoders,    \* what a mode can be shown on
  InDcb,       \* those that have an entry in the BIOS's table
  MaxEvents,   \* bound: modes set, changes of the connector, trainings by a
               \* client and other interrupts of the display, taken together
  None

ASSUME IrqAssumption ==
  /\ InDcb \subseteq Encoders /\ None \notin Encoders
  /\ MaxEvents \in Nat

VARIABLES
  \* The card.
  en,           \* NV03_PMC_INTR_EN_0
  clk,          \* INTR_1: the stages that wait for the driver
  misc,         \* INTR_0 and the rest of INTR_1: whether anything is set
  update,       \* the stage of the update that the card is in
  cur, new,     \* what the card shows the mode on, and is to show it on
  change, line, \* 0xe054, and the line of the connector
  listen,       \* 0xe050
  \* The driver.
  isr, intr1, delayed, \* nv50_display_irq_handler
  irqWork, hpdWork,    \* whether the items are pending
  bh, seen1,           \* nv50_display_irq_handler_bh
  hbh, changed, tmp,   \* nv50_display_irq_hotplug_bh
  train,               \* nouveau_dp_link_train, by the item or by a client
  evoDcb,              \* dev_priv->evo_irq.dcb
  \* Histories and bounds.
  script,       \* per encoder: which script of the BIOS was run last
  told,         \* the state of the connector that user space was told
  missed,       \* a change was acknowledged at the end of a client's training
  left          \* how many events are still to come

hw == <<en, clk, misc, update, cur, new>>
plug == <<change, line, listen>>
isrv == <<isr, intr1, delayed>>
hpd == <<hbh, changed, tmp>>
hist == <<told, missed, left>>

vars == <<hw, plug, isrv, irqWork, hpdWork, bh, seen1, hpd, train, evoDcb, script, hist>>

Stages == {10, 20, 40}
Trainers == {"hpd", "client"}

Hotplug == change /\ listen
Display == clk # {} \/ misc

Init ==
  /\ en = TRUE /\ clk = {} /\ misc = FALSE /\ update = 0 /\ cur = None /\ new = None
  /\ change = FALSE /\ line = FALSE /\ listen = TRUE
  /\ isr = "out" /\ intr1 = {} /\ delayed = {}
  /\ irqWork = FALSE /\ hpdWork = FALSE
  /\ bh = "off" /\ seen1 = {}
  /\ hbh = "off" /\ changed = FALSE /\ tmp = FALSE
  /\ train = [p \in Trainers |-> "off"]
  /\ evoDcb = None
  /\ script = [e \in InDcb |-> "off2"]
  /\ told = FALSE /\ missed = FALSE
  /\ left = MaxEvents

-----------------------------------------------------------------------------
(* The card (external)                                                     *)

\* An update of the mode begins with the first stage; the next one comes when
\* the driver has acknowledged the last.
StartUpdate(e) ==
  /\ update = 0 /\ left > 0
  /\ update' = 10 /\ clk' = clk \cup {10} /\ new' = e
  /\ left' = left - 1
  /\ UNCHANGED <<en, misc, cur, plug, isrv, irqWork, hpdWork, bh, seen1, hpd, train,
                 evoDcb, script, told, missed>>

Plug ==
  /\ left > 0
  /\ line' = ~line /\ change' = TRUE
  /\ left' = left - 1
  /\ UNCHANGED <<hw, listen, isrv, irqWork, hpdWork, bh, seen1, hpd, train, evoDcb,
                 script, told, missed>>

\* An error of the display's channel, a vertical blank, or one not known.
OtherInterrupt ==
  /\ left > 0 /\ ~misc
  /\ misc' = TRUE
  /\ left' = left - 1
  /\ UNCHANGED <<en, clk, update, cur, new, plug, isrv, irqWork, hpdWork, bh, seen1, hpd,
                 train, evoDcb, script, told, missed>>

\* What an acknowledged stage leads to.
AfterStage(s) ==
  CASE s = 10 -> update' = 20 /\ clk' = (clk \ {10}) \cup {20} /\ UNCHANGED cur
    [] s = 20 -> update' = 40 /\ clk' = (clk \ {20}) \cup {40} /\ UNCHANGED cur
    [] s = 40 -> update' = 0 /\ clk' = clk \ {40} /\ cur' = new

-----------------------------------------------------------------------------
(* nouveau_irq_handler and nv50_display_irq_handler, under irq_lock        *)

IsrEnter ==
  /\ isr = "out" /\ en /\ (Hotplug \/ Display)
  /\ isr' = "hotplug"
  /\ UNCHANGED <<hw, plug, intr1, delayed, irqWork, hpdWork, bh, seen1, hpd, train,
                 evoDcb, script, hist>>

IsrHotplug ==
  /\ isr = "hotplug"
  /\ hpdWork' = (hpdWork \/ Hotplug)
  /\ isr' = "loop" /\ delayed' = {}
  /\ UNCHANGED <<hw, plug, intr1, irqWork, bh, seen1, hpd, train, evoDcb, script, hist>>

\* One turn of the loop: what is not a stage is acknowledged here.
IsrLoop ==
  /\ isr = "loop"
  /\ misc' = FALSE
  /\ IF ~misc /\ clk \subseteq delayed
       THEN isr' = "out" /\ intr1' = {} /\ delayed' = {}
       ELSE /\ isr' = IF clk # {} THEN "mask" ELSE "loop"
            /\ intr1' = clk /\ UNCHANGED delayed
  /\ UNCHANGED <<en, clk, update, cur, new, plug, irqWork, hpdWork, bh, seen1,
                 hpd, train, evoDcb, script, hist>>

IsrMask ==
  /\ isr = "mask"
  /\ en' = FALSE /\ isr' = "queue"
  /\ UNCHANGED <<clk, misc, update, cur, new, plug, intr1, delayed, irqWork, hpdWork, bh,
                 seen1, hpd, train, evoDcb, script, hist>>

IsrQueue ==
  /\ isr = "queue"
  /\ irqWork' = TRUE
  /\ delayed' = delayed \cup intr1 /\ isr' = "loop"
  /\ UNCHANGED <<hw, plug, intr1, hpdWork, bh, seen1, hpd, train, evoDcb, script, hist>>

-----------------------------------------------------------------------------
(* nv50_display_irq_handler_bh                                             *)

BhStart ==
  /\ bh = "off" /\ irqWork
  /\ irqWork' = FALSE /\ bh' = "loop"
  /\ UNCHANGED <<hw, plug, isrv, hpdWork, seen1, hpd, train, evoDcb, script, hist>>

\* Faulty variant: when there is nothing left to do, interrupts stay disabled.
BhLoopQuits ==
  /\ bh = "loop"
  /\ seen1' = clk /\ bh' = IF clk = {} THEN "off" ELSE "stage"
  /\ UNCHANGED <<hw, plug, isrv, irqWork, hpdWork, hpd, train, evoDcb, script, hist>>

BhLoop ==
  /\ bh = "loop"
  /\ seen1' = clk /\ bh' = IF clk = {} THEN "enable" ELSE "stage"
  /\ UNCHANGED <<hw, plug, isrv, irqWork, hpdWork, hpd, train, evoDcb, script, hist>>

First(s) == s \in seen1 /\ \A r \in seen1 : s <= r

Handles(s) ==
  /\ bh = "stage" /\ First(s) /\ AfterStage(s)
  /\ bh' = "loop" /\ seen1' = {}
  /\ UNCHANGED <<en, misc, new, plug, isrv, irqWork, hpdWork, hpd, train, hist>>

\* The encoder that shows the old mode is switched off, the first half; without
\* an encoder to change, or an entry for it, there is nothing to do.
nv50_display_unk10_handler ==
  /\ Handles(10)
  /\ LET off == cur # new /\ cur \in InDcb
     IN /\ evoDcb' = IF off THEN cur ELSE None
        /\ script' = IF off THEN [script EXCEPT ![cur] = "off1"] ELSE script

\* Faulty variant: keeps what the first stage left.
Unk20KeepsDcb ==
  /\ Handles(20)
  /\ LET off == evoDcb # None
         on == cur # new /\ new \in InDcb
         s1 == IF off THEN [script EXCEPT ![evoDcb] = "off2"] ELSE script
     IN /\ evoDcb' = IF on THEN new ELSE evoDcb
        /\ script' = IF on THEN [s1 EXCEPT ![new] = "on1"] ELSE s1

\* The second half; then the new one is switched on, the first half.
nv50_display_unk20_handler ==
  /\ Handles(20)
  /\ LET off == evoDcb # None
         on == cur # new /\ new \in InDcb
         s1 == IF off THEN [script EXCEPT ![evoDcb] = "off2"] ELSE script
     IN /\ evoDcb' = IF on THEN new ELSE None
        /\ script' = IF on THEN [s1 EXCEPT ![new] = "on1"] ELSE s1

nv50_display_unk40_handler ==
  /\ Handles(40)
  /\ evoDcb' = None
  /\ script' = IF evoDcb # None THEN [script EXCEPT ![evoDcb] = "on2"] ELSE script

BhEnable ==
  /\ bh = "enable"
  /\ en' = TRUE /\ bh' = "off"
  /\ UNCHANGED <<clk, misc, update, cur, new, plug, isrv, irqWork, hpdWork, seen1, hpd,
                 train, evoDcb, script, hist>>

-----------------------------------------------------------------------------
(* nv50_display_irq_hotplug_bh and what it calls                           *)

HpdStart ==
  /\ hbh = "off" /\ hpdWork
  /\ hpdWork' = FALSE /\ hbh' = "read"
  /\ UNCHANGED <<hw, plug, isrv, irqWork, bh, seen1, changed, tmp, train, evoDcb, script, hist>>

HpdRead ==
  /\ hbh = "read"
  /\ changed' = Hotplug /\ hbh' = "line"
  /\ UNCHANGED <<hw, plug, isrv, irqWork, hpdWork, bh, seen1, tmp, train, evoDcb, script, hist>>

\* A DisplayPort that shows a mode is switched on when it was plugged, which
\* trains the link, and off when it was unplugged.
HpdLine ==
  /\ hbh = "line"
  /\ IF changed /\ cur # None /\ line
       THEN hbh' = "train" /\ train' = [train EXCEPT !.hpd = "deafen"]
       ELSE hbh' = "ack" /\ UNCHANGED train
  /\ changed' = FALSE
  /\ UNCHANGED <<hw, plug, isrv, irqWork, hpdWork, bh, seen1, tmp, evoDcb, script, hist>>

HpdTrained ==
  /\ hbh = "train" /\ train.hpd = "off"
  /\ hbh' = "ack"
  /\ UNCHANGED <<hw, plug, isrv, irqWork, hpdWork, bh, seen1, changed, tmp, train, evoDcb,
                 script, hist>>

\* Faulty variant: what is pending now is acknowledged after user space was told.
HpdAckLate ==
  /\ \/ hbh = "ack" /\ hbh' = "write" /\ told' = line /\ UNCHANGED <<change, tmp>>
     \/ hbh = "write" /\ hbh' = "off" /\ change' = FALSE /\ UNCHANGED <<told, tmp>>
  /\ UNCHANGED <<hw, line, listen, isrv, irqWork, hpdWork, bh, seen1, changed, train, evoDcb,
                 script, missed, left>>

\* What is pending now is acknowledged, also what came after HpdRead; then user
\* space is told what the connectors are like (drm_helper_hpd_irq_event).
HpdAck ==
  /\ \/ hbh = "ack" /\ hbh' = "write" /\ tmp' = change /\ UNCHANGED <<change, told>>
     \/ hbh = "write" /\ hbh' = "tell" /\ change' = (change /\ ~tmp)
        /\ tmp' = FALSE /\ UNCHANGED told
     \/ hbh = "tell" /\ hbh' = "off" /\ told' = line /\ UNCHANGED <<change, tmp>>
  /\ UNCHANGED <<hw, line, listen, isrv, irqWork, hpdWork, bh, seen1, changed, train, evoDcb,
                 script, missed, left>>

-----------------------------------------------------------------------------
(* nouveau_dp_link_train turns hotplug detection off and on                *)

\* A client sets a mode or switches the encoder on.
ClientTrains ==
  /\ train.client = "off" /\ left > 0 /\ cur # None
  /\ train' = [train EXCEPT !.client = "deafen"]
  /\ left' = left - 1
  /\ UNCHANGED <<hw, plug, isrv, irqWork, hpdWork, bh, seen1, hpd, evoDcb, script, told, missed>>

\* nv50_gpio_irq_enable acknowledges first, then sets the mask.
Trains(p) ==
  /\ \/ /\ train[p] \in {"deafen", "listen"}
        /\ change' = FALSE
        /\ missed' = (missed \/ (p = "client" /\ change))
        /\ train' = [train EXCEPT ![p] = IF @ = "deafen" THEN "mask" ELSE "unmask"]
        /\ UNCHANGED listen
     \/ /\ train[p] \in {"mask", "unmask"}
        /\ listen' = (train[p] = "unmask")
        /\ train' = [train EXCEPT ![p] = IF @ = "mask" THEN "run" ELSE "off"]
        /\ UNCHANGED <<change, missed>>
     \/ /\ train[p] = "run"
        /\ train' = [train EXCEPT ![p] = "listen"]
        /\ UNCHANGED <<change, listen, missed>>
  /\ UNCHANGED <<hw, line, isrv, irqWork, hpdWork, bh, seen1, hpd, evoDcb, script, told, left>>

\* The setting of the rate, the lanes or the last pattern fails: return false.
TrainBreaksOff(p) ==
  /\ train[p] = "run"
  /\ train' = [train EXCEPT ![p] = "off"]
  /\ UNCHANGED <<hw, plug, isrv, irqWork, hpdWork, bh, seen1, hpd, evoDcb, script, hist>>

-----------------------------------------------------------------------------
Card ==
  \/ \E e \in Encoders \cup {None} : StartUpdate(e)
  \/ Plug \/ OtherInterrupt
nouveau_irq_handler == IsrEnter \/ IsrHotplug \/ IsrLoop \/ IsrMask \/ IsrQueue
nv50_display_irq_handler_bh ==
  \/ BhStart \/ BhLoop \/ BhEnable
  \/ nv50_display_unk10_handler \/ nv50_display_unk20_handler \/ nv50_display_unk40_handler
nv50_display_irq_hotplug_bh == HpdStart \/ HpdRead \/ HpdLine \/ HpdTrained \/ HpdAck

Next ==
  \/ Card \/ nouveau_irq_handler
  \/ nv50_display_irq_handler_bh \/ nv50_display_irq_hotplug_bh
  \/ ClientTrains \/ \E p \in Trainers : Trains(p) \/ TrainBreaksOff(p)

Spec == Init /\ [][Next]_vars

\* An interrupt that is asserted and enabled is delivered, and the work queue runs
\* what is queued, on a processor that the handler leaves alone.
FairSpec ==
  /\ Spec
  /\ WF_vars(nouveau_irq_handler) /\ WF_vars(nv50_display_irq_handler_bh)
  /\ WF_vars(nv50_display_irq_hotplug_bh)
  /\ \A p \in Trainers : WF_vars(Trains(p))

-----------------------------------------------------------------------------
(* Properties                                                              *)

\* The shape of the state.
TypeOK ==
  /\ en \in BOOLEAN /\ clk \subseteq Stages /\ misc \in BOOLEAN
  /\ update \in Stages \cup {0} /\ {cur, new, evoDcb} \subseteq Encoders \cup {None}
  /\ script \in [InDcb -> {"off1", "off2", "on1", "on2"}]
  /\ seen1 \subseteq Stages /\ intr1 \subseteq Stages /\ delayed \subseteq Stages

\* When the card has finished an update, each encoder has run both halves of what
\* it was to run: the one that shows the mode those for on, every other one those
\* for off.  The three stages pass evo_irq.dcb on from one to the next.
ScriptsComplete ==
  TypeOK /\ (update = 0 =>
    \A e \in InDcb : script[e] = IF e = cur THEN "on2" ELSE "off2")

\* Every stage is answered, so every update ends, and interrupts come back.
UpdatesEnd == (update # 0 ~> update = 0) /\ (~en ~> en)

\* In the end user space knows whether something is connected, however changes,
\* the item and the training it does interleave, unless a training by a client
\* acknowledged a change in its name or one that broke off left detection off.
Told == <>[](told = line \/ missed \/ ~listen)
=============================================================================
