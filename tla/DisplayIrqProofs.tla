-------------------------- MODULE DisplayIrqProofs --------------------------
(***************************************************************************)
(* ScriptsComplete of DisplayIrq, for every set of encoders and however    *)
(* interrupts, work items, plugs and clients interleave.                   *)
(*                                                                         *)
(* The card is in one stage at a time, which is the only one that waits    *)
(* for the driver; what the work item saw of it cannot change before the   *)
(* item has handled it, for nobody else does.  So the scripts that were    *)
(* run and the encoder in evo_irq.dcb are determined by the stage and by   *)
(* the two encoders of the update.                                         *)
(***************************************************************************)
EXTENDS DisplayIrq, TLAPS

\* The encoder that the update switches off, and the one that it switches on.
Leaving(e) == e \in InDcb /\ e = cur /\ cur # new
Coming(e) == e \in InDcb /\ e = new /\ cur # new

\* What each encoder has run when stage s waits for the driver.
ScriptAt(s, e) ==
  CASE s \in {0, 10} -> IF e = cur THEN "on2" ELSE "off2"
    [] s = 20 -> IF Leaving(e) THEN "off1" ELSE IF e = cur THEN "on2" ELSE "off2"
    [] s = 40 -> IF Coming(e) THEN "on1"
                 ELSE IF e = cur /\ cur = new THEN "on2" ELSE "off2"

DcbAt(s) ==
  CASE s \in {0, 10} -> None
    [] s = 20 -> IF Leaving(cur) THEN cur ELSE None
    [] s = 40 -> IF Coming(new) THEN new ELSE None

\* The inductive invariant.
IInv ==
  /\ TypeOK
  /\ clk = IF update = 0 THEN {} ELSE {update}
  /\ bh = "stage" => seen1 = clk /\ update # 0
  /\ evoDcb = DcbAt(update)
  /\ \A e \in InDcb : script[e] = ScriptAt(update, e)

\* It holds at the start.
LEMMA InitIInv == Init => IInv
<1> SUFFICES ASSUME Init PROVE IInv
  OBVIOUS
<1>1. TypeOK
  BY DEF Init, TypeOK, Stages
<1>2. evoDcb = DcbAt(update)
  BY DEF Init, DcbAt
<1>3. \A e \in InDcb : script[e] = "off2" /\ e # cur
  BY IrqAssumption DEF Init
<1>4. \A e \in InDcb : script[e] = ScriptAt(update, e)
  BY <1>3 DEF Init, ScriptAt
<1> QED
  BY <1>1, <1>2, <1>4 DEF Init, IInv

\* What is determined by the update stays when it does.
LEMMA UpdateAlone ==
  ASSUME UNCHANGED <<update, cur, new>>
  PROVE  /\ DcbAt(update)' = DcbAt(update)
         /\ \A e \in InDcb : ScriptAt(update, e)' = ScriptAt(update, e)
  BY DEF DcbAt, ScriptAt, Leaving, Coming

\* The steps that leave the update, its scripts and the work item alone.
LEMMA Elsewhere ==
  ASSUME IInv, TypeOK',
         UNCHANGED <<clk, update, cur, new, seen1, evoDcb, script>>,
         bh' = bh \/ bh' \in {"loop", "enable", "off"}
  PROVE  IInv'
  BY UpdateAlone DEF IInv

\* A stage that the item handles is the one that the card is in.
LEMMA HandledStage ==
  ASSUME IInv, NEW s \in Stages, Handles(s)
  PROVE  update = s /\ clk = {s} /\ seen1 = {s}
  BY DEF IInv, Handles, First, Stages

\* It is kept by every step.
LEMMA NextIInv == IInv /\ [Next]_vars => IInv'
<1> SUFFICES ASSUME IInv, [Next]_vars
             PROVE  IInv'
  OBVIOUS
<1> USE IrqAssumption DEF Stages
<1>1. ASSUME NEW e \in Encoders \cup {None}, StartUpdate(e)
      PROVE  IInv'
  <2>1. TypeOK'
    BY <1>1 DEF StartUpdate, IInv, TypeOK, isrv
  <2>2. update = 0 /\ update' = 10 /\ clk' = {10} /\ bh # "stage"
        /\ UNCHANGED <<cur, bh, evoDcb, script>>
    BY <1>1 DEF StartUpdate, IInv
  <2>3. evoDcb' = DcbAt(update)'
    BY <2>2 DEF IInv, DcbAt
  <2>4. \A f \in InDcb : script'[f] = ScriptAt(update, f)'
    BY <2>2 DEF IInv, ScriptAt
  <2> QED
    BY <2>1, <2>2, <2>3, <2>4 DEF IInv
<1>2. CASE Plug \/ OtherInterrupt
  <2>1. misc' \in BOOLEAN
    BY <1>2, Zenon DEF Plug, OtherInterrupt, IInv, TypeOK, hw
  <2>2. UNCHANGED <<en, clk, update, cur, new, isrv, bh, seen1, evoDcb, script>>
    BY <1>2, Zenon DEF Plug, OtherInterrupt, hw
  <2>3. TypeOK'
    BY <2>1, <2>2 DEF IInv, TypeOK, isrv
  <2> QED
    BY <2>3, <2>2, Elsewhere
<1>3. CASE nouveau_irq_handler
  <2> USE DEF nouveau_irq_handler, IsrEnter, IsrHotplug, IsrLoop, IsrMask, IsrQueue, hw
  <2>1. en' \in BOOLEAN /\ misc' \in BOOLEAN
    BY <1>3, Zenon DEF IInv, TypeOK
  <2>2. UNCHANGED <<clk, update, cur, new, bh, seen1, evoDcb, script>>
    BY <1>3, Zenon
  <2>3. intr1' \subseteq Stages /\ delayed' \subseteq Stages
    BY <1>3 DEF IInv, TypeOK, isrv
  <2>4. TypeOK'
    BY <2>1, <2>2, <2>3 DEF IInv, TypeOK
  <2> QED
    BY <2>4, <2>2, Elsewhere
<1>4. CASE BhStart \/ BhEnable
  <2>1. en' \in BOOLEAN
    BY <1>4, Zenon DEF BhStart, BhEnable, IInv, TypeOK, hw
  <2>2. /\ UNCHANGED <<clk, misc, update, cur, new, isrv, seen1, evoDcb, script>>
        /\ bh' \in {"loop", "off"}
    BY <1>4, Zenon DEF BhStart, BhEnable, hw
  <2>3. TypeOK'
    BY <2>1, <2>2 DEF IInv, TypeOK, isrv
  <2> QED
    BY <2>3, <2>2, Elsewhere
<1>5. CASE BhLoop
  <2>1. TypeOK'
    BY <1>5 DEF BhLoop, IInv, TypeOK, hw, isrv
  <2>2. bh' = "stage" => seen1' = clk' /\ update' # 0
    BY <1>5 DEF BhLoop, IInv, hw
  <2> QED
    BY <1>5, <2>1, <2>2, UpdateAlone DEF BhLoop, IInv, hw
<1>6. CASE nv50_display_unk10_handler
  <2>1. update = 10 /\ clk = {10} /\ seen1 = {10} /\ Handles(10)
    BY <1>6, HandledStage DEF nv50_display_unk10_handler
  <2>2. /\ update' = 20 /\ clk' = {20} /\ UNCHANGED <<en, misc, cur, new, isrv>>
        /\ bh' = "loop" /\ seen1' = {}
    BY <2>1 DEF Handles, AfterStage
  <2>3. TypeOK'
    BY <1>6, <2>1, <2>2 DEF nv50_display_unk10_handler, IInv, TypeOK, isrv
  <2> QED
    BY <1>6, <2>1, <2>2, <2>3
       DEF nv50_display_unk10_handler, IInv, TypeOK, DcbAt, ScriptAt, Leaving, Coming
<1>7. CASE nv50_display_unk20_handler
  <2>1. update = 20 /\ clk = {20} /\ seen1 = {20} /\ Handles(20)
    BY <1>7, HandledStage DEF nv50_display_unk20_handler
  <2>2. /\ update' = 40 /\ clk' = {40} /\ UNCHANGED <<en, misc, cur, new, isrv>>
        /\ bh' = "loop" /\ seen1' = {}
    BY <2>1 DEF Handles, AfterStage
  <2>3. TypeOK'
    BY <1>7, <2>1, <2>2
       DEF nv50_display_unk20_handler, IInv, TypeOK, isrv, DcbAt, Leaving
  <2> QED
    BY <1>7, <2>1, <2>2, <2>3
       DEF nv50_display_unk20_handler, IInv, TypeOK, DcbAt, ScriptAt, Leaving, Coming
<1>8. CASE nv50_display_unk40_handler
  <2>1. update = 40 /\ clk = {40} /\ seen1 = {40} /\ Handles(40)
    BY <1>8, HandledStage DEF nv50_display_unk40_handler
  <2>2. /\ update' = 0 /\ clk' = {} /\ cur' = new /\ UNCHANGED <<en, misc, new, isrv>>
        /\ bh' = "loop" /\ seen1' = {}
    BY <2>1 DEF Handles, AfterStage
  <2>3. TypeOK'
    BY <1>8, <2>1, <2>2
       DEF nv50_display_unk40_handler, IInv, TypeOK, isrv, DcbAt, Coming
  <2> QED
    BY <1>8, <2>1, <2>2, <2>3
       DEF nv50_display_unk40_handler, IInv, TypeOK, DcbAt, ScriptAt, Leaving, Coming
<1>9. CASE nv50_display_irq_hotplug_bh
  <2> USE DEF nv50_display_irq_hotplug_bh, HpdStart, HpdRead, HpdLine, HpdTrained, HpdAck, hw
  <2>1. TypeOK'
    BY <1>9 DEF IInv, TypeOK, isrv
  <2> QED
    BY <1>9, <2>1, Elsewhere
<1>10. CASE ClientTrains \/ \E p \in Trainers : Trains(p) \/ TrainBreaksOff(p)
  <2>1. UNCHANGED <<hw, isrv, bh, seen1, evoDcb, script>>
    BY <1>10 DEF ClientTrains, Trains, TrainBreaksOff
  <2>2. TypeOK'
    BY <2>1 DEF IInv, TypeOK, hw, isrv
  <2> QED
    BY <2>1, <2>2, Elsewhere DEF hw
<1>11. CASE UNCHANGED vars
  <2>1. TypeOK'
    BY <1>11 DEF vars, hw, isrv, IInv, TypeOK
  <2> QED
    BY <1>11, <2>1, Elsewhere DEF vars, hw
<1> QED
  BY <1>1, <1>2, <1>3, <1>4, <1>5, <1>6, <1>7, <1>8, <1>9, <1>10, <1>11
     DEF Next, Card, nv50_display_irq_handler_bh

\* Every update ends with both halves of the scripts run, for the encoder that
\* shows the mode and for every other one (nv50_display_unk10_handler, _unk20_,
\* _unk40_), for any number of encoders and of interrupts.
THEOREM SpecScriptsComplete == Spec => []ScriptsComplete
<1>1. IInv => ScriptsComplete
  BY DEF IInv, ScriptsComplete, ScriptAt
<1> QED
  BY <1>1, InitIInv, NextIInv, PTL DEF Spec
=============================================================================
