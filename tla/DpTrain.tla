------------------------------ MODULE DpTrain ------------------------------
(***************************************************************************)
(* Training of a DisplayPort link (nouveau_dp.c).  The driver sets up its  *)
(* side, the source, in registers and the display's side, the sink, over   *)
(* the AUX channel, where every request may be deferred, refused or lost,  *)
(* and where an answer may be lost when the request was carried out.       *)
(* Clock recovery, then equalisation: the sink says which lanes have       *)
(* locked and which voltage swing and pre-emphasis it wants, and the       *)
(* driver picks what the BIOS's table has.  When that does not succeed it  *)
(* starts again at the low rate.                                           *)
(*                                                                         *)
(* All lanes are set alike; a request is the most that any lane asks for.  *)
(***************************************************************************)
EXTENDS Integers, FiniteSets, FiniteSetsExt

CONSTANTS
  Records,    \* the levels <<swing, pre-emphasis>> of the table's record_nr entries
  Scans,      \* what the dpe_headerlen entries may hold that the limits are looked
              \* for in: part of the table, all of it, or also what follows it
  Rates,      \* the rates that a sink may report, as DPCD codes
  Lanes,      \* the numbers of lanes that a sink may have
  SourceLanes, SourceFast, \* what dcb->dpconf says of the source
  CrTries, EqTries,        \* 5, and 6: tries = 0 .. 5
  MaxDefers,  \* 16: how often nouveau_dp_auxch asks again
  Steady      \* whether the sink never asks for less swing than before

Low  == 6     \* DP_LINK_BW_1_62
High == 10    \* DP_LINK_BW_2_7
Swings == 0 .. 3
Pres == {0, 1, 3}  \* the requests of pre-emphasis enumerated: none, some, too much

ASSUME TrainAssumption ==
  /\ <<0, 0>> \in Records /\ Records \subseteq Swings \X Swings
  /\ \A S \in Scans : S \subseteq Nat \X Nat
  /\ Rates \subseteq 1 .. 255
  /\ Lanes \subseteq {1, 2, 4} /\ SourceLanes \in {1, 2, 4}
  /\ {SourceFast, Steady} \subseteq BOOLEAN
  /\ {CrTries, EqTries, MaxDefers} \subseteq Nat \ {0}

VARIABLES
  pc,        \* where the driver is
  aux,       \* the request under way on the AUX channel
  ok, answer,  \* how it ended, and what it read
  goal,      \* nouveau_dp_link_train_set: the pattern, and where to go on
  dp,        \* nv_encoder->dp: link_bw and link_nr
  config, preMax, \* config: swing and pre-emphasis, and the latter's flag
  tries, voltage, crDone, eqDone,
  result,    \* what nouveau_dp_link_train returned last
  source, sink,  \* either side: rate, lanes, pattern and level
  asked,     \* the swing that the sink asked for last
  scanned    \* what the loops over dpe_headerlen entries find; it never changes

side == <<source, sink>>
locals == <<config, preMax, tries, voltage, crDone, eqDone>>
vars == <<pc, aux, ok, answer, goal, dp, locals, result, side, asked, scanned>>

NoRequest == [op |-> "none"]
Nothing == [bw |-> 0, nr |-> 0, pattern |-> 0, aligned |-> FALSE, lacks |-> "none",
            vs |-> 0, pre |-> 0]
Off == [rate |-> 0, lanes |-> 0, pattern |-> 0, level |-> 0]

\* What config has for a swing and a pre-emphasis, but for the flags.
Level(vs, pre) == vs + 8 * pre
Swing(l) == l % 8

Init ==
  /\ pc = "idle" /\ aux = NoRequest /\ ok = TRUE /\ answer = Nothing
  /\ goal = [pattern |-> 0, then |-> "idle"]
  /\ dp = [bw |-> 0, nr |-> 0]
  /\ config = 0 /\ preMax = FALSE
  /\ tries = 0 /\ voltage = -1 /\ crDone = FALSE /\ eqDone = FALSE
  /\ result = FALSE
  /\ source = Off /\ sink = Off /\ asked = 0
  /\ scanned \in Scans

-----------------------------------------------------------------------------
(* nouveau_dp_auxch                                                        *)

\* Request op, with what it writes; the driver goes on at then.
Ask(op, val, then) ==
  /\ pc' = "aux"
  /\ aux' = [op |-> op, val |-> val, defers |-> 0, then |-> then]
  /\ UNCHANGED <<ok, answer>>

Answered(fine) ==
  /\ pc' = aux.then /\ aux' = NoRequest /\ ok' = fine
  /\ UNCHANGED <<goal, dp, scanned, locals, result, source>>

\* What a request that the sink carries out does to it and reads from it.
CarryOut ==
  \/ /\ aux.op \in {"rate", "lanes", "pattern", "level"}
     /\ sink' = [sink EXCEPT ![aux.op] = aux.val]
     /\ UNCHANGED <<answer, asked>>
  \/ /\ aux.op = "readCaps"
     /\ \E bw \in Rates, nr \in Lanes :
          answer' = [Nothing EXCEPT !.bw = bw, !.nr = nr]
     /\ UNCHANGED <<sink, asked>>
  \/ /\ aux.op = "readPattern"
     /\ answer' = [Nothing EXCEPT !.pattern = sink.pattern]
     /\ UNCHANGED <<sink, asked>>
  \/ /\ aux.op = "readStatus"  \* whether the lanes are aligned, and what the
                               \* first one that is not locked lacks
     /\ \E aligned \in BOOLEAN, lacks \in {"none", "cr", "eq"} :
          answer' = [Nothing EXCEPT !.aligned = aligned, !.lacks = lacks]
     /\ UNCHANGED <<sink, asked>>
  \/ /\ aux.op = "readAdjust"
     /\ \E vs \in Swings, pre \in Pres :
          /\ Steady => vs >= asked
          /\ answer' = [Nothing EXCEPT !.vs = vs, !.pre = pre] /\ asked' = vs
     /\ UNCHANGED sink

AuxOk == pc = "aux" /\ CarryOut /\ Answered(TRUE)

\* Refused, busy or not answered; or the answer does not get through.
AuxFails ==
  /\ pc = "aux"
  /\ \/ UNCHANGED <<sink, answer, asked>>
     \/ aux.op \in {"rate", "lanes", "pattern", "level"} /\ CarryOut
  /\ Answered(FALSE)

AuxDefer ==
  /\ pc = "aux"
  /\ IF aux.defers + 1 < MaxDefers
       THEN /\ aux' = [aux EXCEPT !.defers = @ + 1]
            /\ UNCHANGED <<pc, ok, goal, dp, scanned, locals, result, source>>
       ELSE Answered(FALSE)
  /\ UNCHANGED <<sink, answer, asked>>

-----------------------------------------------------------------------------
(* nouveau_dp_detect                                                       *)

Detect ==
  /\ pc = "idle"
  /\ Ask("readCaps", 0, "caps")
  /\ UNCHANGED <<goal, dp, scanned, locals, result, side, asked>>

\* A source that is not fast is held at Low; a fast one takes whatever rate the
\* sink reported, one that it does not know included.
Caps ==
  /\ pc = "caps" /\ pc' = "idle"
  /\ dp' = IF ok THEN [bw |-> IF SourceFast THEN answer.bw ELSE Low,
                       nr |-> Min({answer.nr, SourceLanes})]
                 ELSE dp
  /\ answer' = Nothing
  /\ UNCHANGED <<aux, ok, goal, scanned, locals, result, side, asked>>

-----------------------------------------------------------------------------
(* nouveau_dp_link_train_set: the pattern, here and there                  *)

TrainSet(p, then) ==
  /\ goal' = [pattern |-> p, then |-> then]
  /\ source' = [source EXCEPT !.pattern = p]
  /\ Ask("readPattern", 0, "pattern")

PatternRead ==
  /\ pc = "pattern"
  /\ IF ok THEN Ask("pattern", goal.pattern, goal.then)
           ELSE pc' = goal.then /\ UNCHANGED <<aux, ok, answer>>
  /\ UNCHANGED <<goal, dp, scanned, locals, result, side, asked>>

-----------------------------------------------------------------------------
(* nouveau_dp_link_train_adjust and nouveau_dp_link_train_commit           *)

\* nouveau_dp_max_voltage_swing and nouveau_dp_max_pre_emphasis look through
\* dpe_headerlen entries where the commit looks through record_nr.
MaxSwing == Max({r[1] : r \in scanned} \cup {0})
MaxPre(vs) == Max({r[2] : r \in {s \in scanned : s[1] = vs}} \cup {0})

\* Faulty variant: looks for the most pre-emphasis before the swing is limited.
AdjustUnlimited(vs, pre) ==
  LET v == Min({vs, MaxSwing})
      p == Min({pre, MaxPre(0)})
  IN /\ config' = Level(v, p)
     /\ preMax' = (pre >= MaxPre(0))

\* What the sink asks for, or the most that was found.
Adjust(vs, pre) ==
  LET v == Min({vs, MaxSwing})
      p == Min({pre, MaxPre(v)})
  IN /\ config' = Level(v, p)
     /\ preMax' = (pre >= MaxPre(v))

\* BUG_ON(i == dpe->record_nr).
Commit(l, then) ==
  IF \E r \in Records : l = Level(r[1], r[2])
    THEN source' = [source EXCEPT !.level = l] /\ Ask("level", l, then)
    ELSE pc' = "bug" /\ UNCHANGED <<source, aux, ok, answer>>

-----------------------------------------------------------------------------
(* nouveau_dp_link_train                                                   *)

LinkTrain ==
  /\ pc = "idle" /\ dp.bw # 0
  /\ pc' = "train"
  /\ UNCHANGED <<aux, ok, answer, goal, dp, scanned, locals, result, side, asked>>

\* One bit of the source's register says whether it runs at High.
SourceRate(bw) == IF bw = High THEN High ELSE Low

\* nouveau_dp_link_bw_set: the sink gets the code as it is.
Train ==
  /\ pc = "train"
  /\ crDone' = FALSE /\ eqDone' = FALSE
  /\ source' = [source EXCEPT !.rate = SourceRate(dp.bw)]
  /\ Ask("rate", dp.bw, "rated")
  /\ UNCHANGED <<goal, dp, scanned, config, preMax, tries, voltage, result, sink, asked>>

ReturnFalse ==
  /\ pc \in {"rated", "laned", "stopped"} /\ ~ok
  /\ pc' = "idle" /\ result' = FALSE
  /\ UNCHANGED <<aux, ok, answer, goal, dp, scanned, locals, side, asked>>

\* nouveau_dp_lane_count_set.
Rated ==
  /\ pc = "rated" /\ ok
  /\ source' = [source EXCEPT !.lanes = dp.nr]
  /\ Ask("lanes", dp.nr, "laned")
  /\ UNCHANGED <<goal, dp, scanned, locals, result, sink, asked>>

Laned ==
  /\ pc = "laned" /\ ok
  /\ TrainSet(1, "cr")
  /\ UNCHANGED <<dp, scanned, locals, result, sink, asked>>

Stops(from) ==
  /\ pc = from /\ pc' = "stop"
  /\ UNCHANGED <<aux, ok, answer, goal, dp, scanned, locals, result, side, asked>>

CrBegin ==
  /\ pc = "cr" /\ ok
  /\ tries' = 0 /\ voltage' = -1
  /\ config' = 0 /\ preMax' = FALSE
  /\ Commit(0, "crSet")
  /\ UNCHANGED <<goal, dp, scanned, crDone, eqDone, result, sink, asked>>

CrSet ==
  /\ pc = "crSet" /\ ok
  /\ Ask("readStatus", 0, "crStatus")
  /\ UNCHANGED <<goal, dp, scanned, locals, result, side, asked>>

\* Faulty variant: the swing is not remembered, so that every try is the first.
CrStatusForgets ==
  /\ pc = "crStatus" /\ ok
  /\ crDone' = (answer.lacks # "cr")
  /\ UNCHANGED voltage
  /\ LET n == IF voltage # Swing(config) THEN 0 ELSE tries
         over == crDone' \/ preMax
     IN /\ tries' = IF over THEN n ELSE n + 1
        /\ IF over \/ n + 1 = CrTries
             THEN pc' = "crEnd" /\ UNCHANGED <<aux, ok, answer>>
             ELSE Ask("readAdjust", 0, "crAdjust")
  /\ UNCHANGED <<goal, dp, scanned, config, preMax, eqDone, result, side, asked>>

\* The loop gives up when the pre-emphasis, not the swing, cannot be raised
\* (DP_TRAIN_MAX_PRE_EMPHASIS_REACHED), and counts the tries at one swing.
CrStatus ==
  /\ pc = "crStatus" /\ ok
  /\ crDone' = (answer.lacks # "cr")
  /\ voltage' = Swing(config)
  /\ LET n == IF voltage # Swing(config) THEN 0 ELSE tries
         over == crDone' \/ preMax
     IN /\ tries' = IF over THEN n ELSE n + 1
        /\ IF over \/ n + 1 = CrTries
             THEN pc' = "crEnd" /\ UNCHANGED <<aux, ok, answer>>
             ELSE Ask("readAdjust", 0, "crAdjust")
  /\ UNCHANGED <<goal, dp, scanned, config, preMax, eqDone, result, side, asked>>

CrAdjust ==
  /\ pc = "crAdjust" /\ ok
  /\ Adjust(answer.vs, answer.pre)
  /\ Commit(config', "crSet")
  /\ UNCHANGED <<goal, dp, scanned, tries, voltage, crDone, eqDone, result, sink, asked>>

CrBreak == ~ok /\ (\/ Stops("cr") \/ Stops("crSet") \/ Stops("crStatus") \/ Stops("crAdjust"))

CrEnd ==
  /\ pc = "crEnd"
  /\ IF crDone THEN TrainSet(2, "eq")
               ELSE pc' = "stop" /\ UNCHANGED <<aux, ok, answer, goal, source>>
  /\ UNCHANGED <<dp, scanned, locals, result, sink, asked>>

EqBegin ==
  /\ pc = "eq" /\ ok
  /\ tries' = 0
  /\ Ask("readStatus", 0, "eqStatus")
  /\ UNCHANGED <<goal, dp, scanned, config, preMax, voltage, crDone, eqDone, result, side, asked>>

\* A lane that lost its clock is found only when the lanes are aligned, and
\* leaves eq_done set.
EqStatus ==
  /\ pc = "eqStatus" /\ ok
  /\ eqDone' = (answer.aligned /\ answer.lacks # "eq")
  /\ crDone' = (crDone /\ ~(answer.aligned /\ answer.lacks = "cr"))
  /\ IF eqDone' \/ ~crDone'
       THEN pc' = "stop" /\ UNCHANGED <<aux, ok, answer>>
       ELSE Ask("readAdjust", 0, "eqAdjust")
  /\ UNCHANGED <<goal, dp, scanned, config, preMax, tries, voltage, result, side, asked>>

EqAdjust ==
  /\ pc = "eqAdjust" /\ ok
  /\ Adjust(answer.vs, answer.pre)
  /\ Commit(config', "eqSet")
  /\ UNCHANGED <<goal, dp, scanned, tries, voltage, crDone, eqDone, result, sink, asked>>

EqSet ==
  /\ pc = "eqSet" /\ ok
  /\ tries' = tries + 1
  /\ IF tries' < EqTries THEN Ask("readStatus", 0, "eqStatus")
                         ELSE pc' = "stop" /\ UNCHANGED <<aux, ok, answer>>
  /\ UNCHANGED <<goal, dp, scanned, config, preMax, voltage, crDone, eqDone, result, side, asked>>

EqBreak == ~ok /\ (\/ Stops("eq") \/ Stops("eqStatus") \/ Stops("eqAdjust") \/ Stops("eqSet"))

Stop ==
  /\ pc = "stop"
  /\ TrainSet(0, "stopped")
  /\ UNCHANGED <<dp, scanned, locals, result, sink, asked>>

Failed == ~(eqDone /\ crDone)

\* Faulty variant: starts again without telling the two sides the rate.
RetryNotRated ==
  /\ pc = "stopped" /\ ok /\ Failed /\ dp.bw # Low
  /\ dp' = [dp EXCEPT !.bw = Low] /\ source' = [source EXCEPT !.rate = Low]
  /\ pc' = "rated" /\ crDone' = FALSE /\ eqDone' = FALSE
  /\ UNCHANGED <<aux, ok, answer, goal, scanned, config, preMax, tries, voltage, result, sink,
                 asked>>

Retry ==
  /\ pc = "stopped" /\ ok /\ Failed /\ dp.bw # Low
  /\ dp' = [dp EXCEPT !.bw = Low]
  /\ pc' = "train"
  /\ UNCHANGED <<aux, ok, answer, goal, scanned, locals, result, side, asked>>

Return ==
  /\ pc = "stopped" /\ ok /\ ~(Failed /\ dp.bw # Low)
  /\ pc' = "idle" /\ result' = eqDone
  /\ UNCHANGED <<aux, ok, answer, goal, dp, scanned, locals, side, asked>>

-----------------------------------------------------------------------------
Step ==
  \/ AuxOk \/ AuxFails \/ AuxDefer \/ Caps \/ PatternRead
  \/ Train \/ ReturnFalse \/ Rated \/ Laned
  \/ CrBegin \/ CrSet \/ CrStatus \/ CrAdjust \/ CrBreak \/ CrEnd
  \/ EqBegin \/ EqStatus \/ EqAdjust \/ EqSet \/ EqBreak
  \/ Stop \/ Retry \/ Return

Next == Detect \/ LinkTrain \/ Step

Spec == Init /\ [][Next]_vars

\* A call goes on; nothing makes a call happen.
FairSpec == Spec /\ WF_vars(Step)

-----------------------------------------------------------------------------
(* Properties                                                              *)

\* When a training succeeds, source and sink have the same lanes, the same
\* levels and no pattern, and, if the driver knows the rate that the sink was
\* told, run at the same rate, whatever requests failed on the way and whether it
\* began again.  A sink told another rate (its own 0x14, say) faces a source at
\* 1.62: nouveau_dp_link_bw_set sends the code but cannot set the source to it.
SidesAgree ==
  pc = "idle" /\ result =>
    /\ \A f \in {"lanes", "pattern", "level"} : source[f] = sink[f]
    /\ source.rate = SourceRate(sink.rate)

\* Whatever the sink asks for, the table has what is committed, so that
\* BUG_ON(i == dpe->record_nr) in nouveau_dp_link_train_commit does not fire: as
\* long as the loops that look for the limits, which run over dpe_headerlen
\* entries, have found nothing that is not in the table.
LevelInTable == scanned \subseteq Records => pc # "bug"

\* A training returns, as long as the sink does not go back to less swing, unless
\* the BUG_ON stops it, for which the limits must come from past the table.
TrainingEnds ==
  pc # "idle" ~> \/ pc = "idle"
                 \/ pc = "bug" /\ ~(scanned \subseteq Records)
=============================================================================
