---------------------------- MODULE DpTrainProofs ----------------------------
(***************************************************************************)
(* SidesAgree of DpTrain, for every table of levels, every source and sink *)
(* (whatever rate the sink reports) and any number of tries and deferrals; *)
(* and LevelInTable, for every table that has with a level all the lower   *)
(* ones.                                                                   *)
(*                                                                         *)
(* A request that is reported to have succeeded was carried out, so after  *)
(* it the two sides agree in what it sets; after one that failed they may  *)
(* differ, and the driver has to leave for a place from which no training  *)
(* succeeds.  The invariant says in what they agree at each place.         *)
(***************************************************************************)
EXTENDS DpTrain, TLAPS

\* Where the driver is, or will be when the request is answered; and where it
\* goes on once the pattern is set.
Here == IF pc = "aux" THEN aux.then ELSE pc
Onward == IF Here = "pattern" THEN goal.then ELSE Here

Outside == {"idle", "caps", "train", "bug"}
Recovery == {"cr", "crSet", "crStatus", "crAdjust", "crEnd"}
Equalisation == {"eq", "eqStatus", "eqAdjust", "eqSet"}
Ends == {"stop", "stopped"}

\* A request asks the sink for what the source has.
Asks ==
  \/ aux.op = "readCaps" /\ aux.then = "caps"
  \/ aux.op = "rate" /\ aux.then = "rated" /\ source.rate = SourceRate(aux.val)
  \/ aux.op = "lanes" /\ aux.then = "laned" /\ aux.val = source.lanes
  \/ aux.op = "level" /\ aux.then \in {"crSet", "eqSet"} /\ aux.val = source.level
  \/ aux.op = "readPattern" /\ aux.then = "pattern"
  \/ aux.op = "pattern" /\ aux.then = goal.then /\ aux.val = source.pattern
  \/ aux.op = "readStatus" /\ aux.then \in {"crStatus", "eqStatus"}
  \/ aux.op = "readAdjust" /\ aux.then \in {"crAdjust", "eqAdjust"}

IsRequest(a) == a = [op |-> a.op, val |-> a.val, defers |-> a.defers, then |-> a.then]

Places ==
  /\ Onward \in Outside \cup {"rated", "laned"} \cup Recovery \cup Equalisation \cup Ends
  /\ pc = "aux" => IsRequest(aux) /\ Asks
  /\ Here = "pattern" => goal.pattern = source.pattern
  /\ Here = "pattern" \/ (pc = "aux" /\ aux.op = "pattern")
       => goal.then \in {"cr", "eq", "stopped"}

RateAgrees ==
  Onward \in {"laned"} \cup Recovery \cup Equalisation \cup Ends \/ (pc = "rated" /\ ok)
    => source.rate = SourceRate(sink.rate)

LanesAgree ==
  Onward \in Recovery \cup Equalisation \cup Ends \/ (pc = "laned" /\ ok)
    => sink.lanes = source.lanes

LevelAgrees ==
  (\/ Onward \in {"crStatus", "crAdjust", "crEnd", "eq", "eqStatus", "eqAdjust"}
   \/ pc \in {"crSet", "eqSet"} /\ ok
   \/ Onward \in Ends /\ eqDone)
    => sink.level = source.level

\* Equalisation is over only where it ends.
NotYet == Onward \in {"rated", "laned"} \cup Recovery \cup Equalisation => ~eqDone

\* What a training that has succeeded leaves.
Alike ==
  /\ source.lanes = sink.lanes /\ source.pattern = sink.pattern /\ source.level = sink.level
  /\ source.rate = SourceRate(sink.rate)

IsSide(s) == s = [rate |-> s.rate, lanes |-> s.lanes, pattern |-> s.pattern, level |-> s.level]

\* The inductive invariant.
IInv ==
  /\ IsSide(source) /\ IsSide(sink)
  /\ Places /\ RateAgrees /\ LanesAgree /\ LevelAgrees /\ NotYet
  /\ pc = "stopped" /\ ok => sink.pattern = source.pattern
  /\ Here \in {"idle", "caps"} /\ result => Alike

\* It holds at the start.
LEMMA InitIInv == Init => IInv
  BY DEF Init, IInv, Off, IsSide, Here, Onward, Outside, Recovery, Equalisation, Ends,
         Places, RateAgrees, LanesAgree, LevelAgrees, NotYet, Alike

\* A level that is set keeps it: it is asked for, or the driver stops.
LEMMA Committed ==
  ASSUME IInv, NEW l, NEW n \in {"crSet", "eqSet"}, Commit(l, n),
         Onward \in {"cr", "crAdjust", "eqAdjust"}, UNCHANGED <<goal, eqDone, result, sink>>
  PROVE  IInv'
<1> USE DEF IInv, IsSide, Here, Onward, Outside, Recovery, Equalisation, Ends,
            Places, RateAgrees, LanesAgree, LevelAgrees, NotYet, Alike, IsRequest, Asks
<1>1. CASE \E r \in Records : l = Level(r[1], r[2])
  <2>1. /\ source' = [source EXCEPT !.level = l] /\ pc' = "aux"
        /\ aux' = [op |-> "level", val |-> l, defers |-> 0, then |-> n]
    BY <1>1 DEF Commit, Ask
  <2> QED
    BY <2>1
<1>2. CASE ~\E r \in Records : l = Level(r[1], r[2])
  <2>1. pc' = "bug" /\ UNCHANGED <<source, aux, ok>>
    BY <1>2 DEF Commit
  <2> QED
    BY <2>1
<1> QED
  BY <1>1, <1>2

\* It is kept by every step.
LEMMA NextIInv == IInv /\ [Next]_vars => IInv'
<1> SUFFICES ASSUME IInv, [Next]_vars
             PROVE  IInv'
  OBVIOUS
<1> USE DEF IInv, IsSide, Here, Onward, Outside, Recovery, Equalisation, Ends,
            Places, RateAgrees, LanesAgree, LevelAgrees, NotYet, Alike, IsRequest, Asks, side, locals
<1>1. CASE AuxOk
  <2>1. pc = "aux" /\ pc' = aux.then /\ ok' = TRUE /\ UNCHANGED <<goal, eqDone, result, source>>
    BY <1>1 DEF AuxOk, Answered
  <2>2. CASE aux.op \in {"rate", "lanes", "pattern", "level"} /\ sink' = [sink EXCEPT ![aux.op] = aux.val]
    <3>1. CASE aux.op = "rate" /\ sink' = [sink EXCEPT !.rate = aux.val]
      BY <2>1, <3>1
    <3>2. CASE aux.op = "lanes" /\ sink' = [sink EXCEPT !.lanes = aux.val]
      BY <2>1, <3>2
    <3>3. CASE aux.op = "pattern" /\ sink' = [sink EXCEPT !.pattern = aux.val]
      BY <2>1, <3>3
    <3>4. CASE aux.op = "level" /\ sink' = [sink EXCEPT !.level = aux.val]
      BY <2>1, <3>4
    <3> QED
      BY <2>2, <3>1, <3>2, <3>3, <3>4
  <2>3. CASE sink' = sink /\ aux.op \notin {"rate", "lanes", "pattern", "level"}
    BY <2>1, <2>3
  <2> QED
    BY <1>1, <2>2, <2>3 DEF AuxOk, CarryOut
<1>2. CASE AuxFails
  <2>1. pc = "aux" /\ pc' = aux.then /\ ok' = FALSE /\ UNCHANGED <<goal, eqDone, result, source>>
    BY <1>2 DEF AuxFails, Answered
  <2>2. CASE aux.op \in {"rate", "lanes", "pattern", "level"} /\ sink' = [sink EXCEPT ![aux.op] = aux.val]
    <3>1. CASE aux.op = "rate" /\ sink' = [sink EXCEPT !.rate = aux.val]
      BY <2>1, <3>1
    <3>2. CASE aux.op = "lanes" /\ sink' = [sink EXCEPT !.lanes = aux.val]
      BY <2>1, <3>2
    <3>3. CASE aux.op = "pattern" /\ sink' = [sink EXCEPT !.pattern = aux.val]
      BY <2>1, <3>3
    <3>4. CASE aux.op = "level" /\ sink' = [sink EXCEPT !.level = aux.val]
      BY <2>1, <3>4
    <3> QED
      BY <2>2, <3>1, <3>2, <3>3, <3>4
  <2>3. CASE sink' = sink
    BY <2>1, <2>3
  <2> QED
    BY <1>2, <2>2, <2>3 DEF AuxFails, CarryOut
<1>3. CASE AuxDefer
  <2>1. CASE aux.defers + 1 < MaxDefers
    BY <1>3, <2>1 DEF AuxDefer
  <2>2. CASE ~(aux.defers + 1 < MaxDefers)
    BY <1>3, <2>2 DEF AuxDefer, Answered
  <2> QED
    BY <2>1, <2>2
<1>4. CASE Detect \/ Caps
  BY <1>4 DEF Detect, Caps, Ask
<1>5. CASE PatternRead
  BY <1>5 DEF PatternRead, Ask
<1>6. CASE LinkTrain \/ Train
  BY <1>6 DEF LinkTrain, Train, Ask
<1>7. CASE ReturnFalse
  BY <1>7 DEF ReturnFalse
<1>8. CASE Rated \/ Laned
  <2>1. CASE Rated
    BY <2>1 DEF Rated, Ask
  <2>2. CASE Laned
    BY <2>2 DEF Laned, TrainSet, Ask
  <2> QED
    BY <1>8, <2>1, <2>2
<1>9. CASE CrBegin
  BY <1>9, Committed DEF CrBegin
<1>10. CASE CrSet
  BY <1>10 DEF CrSet, Ask
<1>11. CASE CrStatus
  <2>1. pc = "crStatus" /\ UNCHANGED <<goal, eqDone, result, source, sink>>
    BY <1>11 DEF CrStatus
  <2>2. CASE pc' = "crEnd"
    BY <2>1, <2>2
  <2>3. CASE pc' = "aux" /\ aux' = [op |-> "readAdjust", val |-> 0, defers |-> 0,
                                   then |-> "crAdjust"]
    BY <2>1, <2>3
  <2> QED
    BY <1>11, <2>2, <2>3 DEF CrStatus, Ask
<1>12. CASE CrAdjust
  BY <1>12, Committed DEF CrAdjust
<1>13. CASE CrBreak \/ EqBreak
  BY <1>13 DEF CrBreak, EqBreak, Stops
<1>14. CASE CrEnd
  BY <1>14 DEF CrEnd, TrainSet, Ask
<1>15. CASE EqBegin
  BY <1>15 DEF EqBegin, Ask
<1>16. CASE EqStatus
  <2>1. pc = "eqStatus" /\ UNCHANGED <<goal, result, source, sink>>
    BY <1>16 DEF EqStatus
  <2>2. CASE pc' = "stop"
    BY <2>1, <2>2
  <2>3. CASE /\ pc' = "aux" /\ ~eqDone'
             /\ aux' = [op |-> "readAdjust", val |-> 0, defers |-> 0, then |-> "eqAdjust"]
    BY <2>1, <2>3
  <2>4. CASE eqDone' \/ ~crDone'
    BY <1>16, <2>2, <2>4 DEF EqStatus
  <2>5. CASE ~(eqDone' \/ ~crDone')
    BY <1>16, <2>3, <2>5 DEF EqStatus, Ask
  <2> QED
    BY <2>4, <2>5
<1>17. CASE EqAdjust
  BY <1>17, Committed DEF EqAdjust
<1>18. CASE EqSet
  <2>1. pc = "eqSet" /\ ok /\ UNCHANGED <<goal, eqDone, result, source, sink>>
    BY <1>18 DEF EqSet
  <2>2. CASE pc' = "stop"
    BY <2>1, <2>2
  <2>3. CASE pc' = "aux" /\ aux' = [op |-> "readStatus", val |-> 0, defers |-> 0,
                                   then |-> "eqStatus"]
    BY <2>1, <2>3
  <2> QED
    BY <1>18, <2>2, <2>3 DEF EqSet, Ask
<1>19. CASE Stop
  BY <1>19 DEF Stop, TrainSet, Ask
<1>20. CASE Retry
  BY <1>20 DEF Retry
<1>21. CASE Return
  BY <1>21 DEF Return
<1>22. CASE UNCHANGED vars
  BY <1>22 DEF vars
<1> QED
  BY <1>1, <1>2, <1>3, <1>4, <1>5, <1>6, <1>7, <1>8, <1>9, <1>10, <1>11, <1>12, <1>13,
     <1>14, <1>15, <1>16, <1>17, <1>18, <1>19, <1>20, <1>21, <1>22 DEF Next, Step

\* A training that succeeds leaves source and sink alike in lanes, levels and
\* pattern, and the source at the rate that nouveau_dp_link_bw_set makes of the
\* one that the sink was told, whatever requests were refused, deferred or carried
\* out without an answer, and however often it began again
\* (nouveau_dp_link_train), for every table, source and sink and every rate that a
\* sink reports.  The two rates are the same if the driver knows the sink's.
THEOREM SpecSidesAgree == Spec => []SidesAgree
<1>1. IInv => SidesAgree
  BY DEF IInv, SidesAgree, Here, Alike
<1> QED
  BY <1>1, InitIInv, NextIInv, PTL DEF Spec

-----------------------------------------------------------------------------
(* What is committed                                                       *)

\* The table has with a level all the levels that are lower in both parts.  The
\* BIOS need not see to it, and the driver does not check it.
Closed == \A r \in Records : (0 .. r[1]) \X (0 .. r[2]) \subseteq Records

\* A set of small numbers that is not empty has a greatest one.
LEMMA Greatest ==
  ASSUME NEW S \in SUBSET Swings, S # {}
  PROVE  /\ Max(S) \in S
         /\ \A n \in S : n <= Max(S)
<1> DEFINE Up(x) == \A n \in S : x >= n
<1>1. \E x \in S : Up(x)
  <2>1. CASE 3 \in S
    BY <2>1, Up(3) DEF Swings
  <2>2. CASE 3 \notin S /\ 2 \in S
    BY <2>2, Up(2) DEF Swings
  <2>3. CASE 3 \notin S /\ 2 \notin S /\ 1 \in S
    BY <2>3, Up(1) DEF Swings
  <2>4. CASE 3 \notin S /\ 2 \notin S /\ 1 \notin S
    <3>1. \A n \in S : n = 0
      BY <2>4 DEF Swings
    <3> QED
      BY <3>1
  <2> QED
    BY <2>1, <2>2, <2>3, <2>4
<1>2. Max(S) = CHOOSE x \in S : Up(x)
  BY DEF Max
<1>3. Max(S) \in S /\ Up(Max(S))
  <2> HIDE DEF Up
  <2> QED
    BY <1>1, <1>2
<1> QED
  BY <1>3 DEF Swings

\* The lesser of two numbers.
LEMMA Lesser ==
  ASSUME NEW m \in Int, NEW n \in Int
  PROVE  Min({m, n}) = IF m <= n THEN m ELSE n
<1>1. Min({m, n}) = CHOOSE x \in {m, n} : \A y \in {m, n} : x <= y
  BY DEF Min
<1>2. CASE m <= n
  BY <1>1, <1>2
<1>3. CASE ~(m <= n)
  BY <1>1, <1>3
<1> QED
  BY <1>2, <1>3

\* A closed table has what the driver makes of a request, with limits that were
\* found in the table, the whole of it or a part.
LEMMA AdjustedInTable ==
  ASSUME Closed, scanned \subseteq Records, NEW vs \in Swings, NEW pre \in Pres, Adjust(vs, pre)
  PROVE  \E r \in Records : config' = Level(r[1], r[2])
<1> DEFINE v == Min({vs, MaxSwing})
           V == {r[1] : r \in scanned} \cup {0}
           P == {r[2] : r \in {s \in scanned : s[1] = v}} \cup {0}
           p == Min({pre, MaxPre(v)})
<1>1. V \subseteq Swings /\ P \subseteq Swings
  BY TrainAssumption DEF Swings
<1>2. PICK r \in Records : r[1] = MaxSwing
  <2>1. MaxSwing \in V
    BY <1>1, Greatest DEF MaxSwing
  <2>2. 0 = <<0, 0>>[1]
    OBVIOUS
  <2> QED
    BY <2>1, <2>2, TrainAssumption
<1>3. MaxSwing \in Swings /\ v \in Swings /\ v <= r[1]
  BY <1>1, <1>2, Lesser, TrainAssumption DEF Swings
<1>4. <<v, 0>> \in Records
  BY <1>2, <1>3, TrainAssumption DEF Closed, Swings
<1>5. MaxPre(v) \in P
  BY <1>1, Greatest DEF MaxPre
<1>6. <<v, MaxPre(v)>> \in Records /\ MaxPre(v) \in Swings
  <2>1. CASE MaxPre(v) = 0
    BY <1>4, <2>1 DEF Swings
  <2>2. CASE MaxPre(v) # 0
    <3>1. PICK r1 \in scanned : r1[1] = v /\ r1[2] = MaxPre(v)
      BY <1>5, <2>2
    <3>2. r1 \in Swings \X Swings /\ r1 \in Records
      BY <3>1, TrainAssumption
    <3>3. r1 = <<r1[1], r1[2]>>
      BY <3>2
    <3> HIDE DEF v
    <3> QED
      BY <3>1, <3>2, <3>3
  <2> QED
    BY <2>1, <2>2
<1>7. p \in 0 .. MaxPre(v)
  BY <1>6, Lesser DEF Swings, Pres
<1>8. <<v, p>> \in (0 .. v) \X (0 .. MaxPre(v))
  BY <1>3, <1>7 DEF Swings
<1>9. <<v, p>> \in Records
  <2> HIDE DEF v, p
  <2>1. <<v, MaxPre(v)>>[1] = v /\ <<v, MaxPre(v)>>[2] = MaxPre(v)
    OBVIOUS
  <2> QED
    BY <1>6, <1>8, <2>1 DEF Closed
<1>10. config' = Level(v, p)
  BY DEF Adjust
<1> HIDE DEF v, p
<1> QED
  BY <1>9, <1>10

\* What was read last is a request, and the driver is not stopped by the BUG_ON
\* as long as the limits come from the table.
Requests == answer.vs \in Swings /\ answer.pre \in Pres
LInv == IInv /\ Requests /\ LevelInTable

LEMMA InitLInv == Init => LInv
  BY InitIInv DEF Init, LInv, Requests, LevelInTable, Nothing, Swings, Pres

\* Only a level that the table lacks trips the BUG_ON.
LEMMA CommitGoesOn ==
  ASSUME NEW l, NEW n, Commit(l, n)
  PROVE  /\ answer' = answer
         /\ (\E r \in Records : l = Level(r[1], r[2])) => pc' = "aux"
  BY DEF Commit, Ask

\* The table stays as it is.
LEMMA TableStays == [Next]_vars => scanned' = scanned
  BY DEF Next, Step, AuxOk, AuxFails, AuxDefer, Answered, Detect, Caps, PatternRead, LinkTrain,
         Train, ReturnFalse, Rated, Laned, Stops, CrBegin, CrSet, CrStatus, CrAdjust, CrBreak,
         CrEnd, EqBegin, EqStatus, EqAdjust, EqSet, EqBreak, Stop, Retry, Return, vars

\* The invariant is kept by every step.
LEMMA NextLInv == Closed /\ LInv /\ [Next]_vars => LInv'
<1> SUFFICES ASSUME Closed, LInv, [Next]_vars
             PROVE  Requests' /\ (scanned \subseteq Records => pc' # "bug")
  BY NextIInv, TableStays DEF LInv, LevelInTable
<1> USE DEF LInv, Requests, LevelInTable
<1>1. CASE AuxOk
  <2>1. pc' # "bug"
    BY <1>1 DEF AuxOk, Answered, IInv, Places, Asks
  <2>2. Requests'
    <3>1. CarryOut
      BY <1>1 DEF AuxOk
    <3>2. CASE aux.op \in {"rate", "lanes", "pattern", "level"}
      BY <3>1, <3>2 DEF CarryOut
    <3>3. CASE aux.op \in {"readCaps", "readPattern", "readStatus"}
      <4>1. answer'.vs = 0 /\ answer'.pre = 0
        BY <3>1, <3>3 DEF CarryOut, Nothing
      <4> QED
        BY <4>1 DEF Swings, Pres
    <3>4. CASE aux.op = "readAdjust"
      BY <3>1, <3>4 DEF CarryOut, Nothing
    <3> QED
      BY <3>1, <3>2, <3>3, <3>4 DEF CarryOut
  <2> QED
    BY <2>1, <2>2
<1>2. CASE AuxFails
  <2>1. pc' # "bug"
    BY <1>2 DEF AuxFails, Answered, IInv, Places, Asks
  <2>2. Requests'
    BY <1>2 DEF AuxFails, CarryOut
  <2> QED
    BY <2>1, <2>2
<1>3. CASE AuxDefer
  <2>1. pc' # "bug" /\ answer' = answer
    BY <1>3 DEF AuxDefer, Answered, IInv, Places, Asks
  <2> QED
    BY <2>1
<1>4. CASE Caps
  BY <1>4 DEF Caps, Nothing, Swings, Pres
<1>5. CASE CrBegin
  <2>1. Commit(0, "crSet") /\ 0 = Level(<<0, 0>>[1], <<0, 0>>[2])
    BY <1>5 DEF CrBegin, Level
  <2> QED
    BY <2>1, CommitGoesOn, TrainAssumption
<1>6. CASE CrAdjust
  <2>1. Adjust(answer.vs, answer.pre) /\ Commit(config', "crSet")
    BY <1>6 DEF CrAdjust
  <2> QED
    BY <2>1, AdjustedInTable, CommitGoesOn
<1>7. CASE EqAdjust
  <2>1. Adjust(answer.vs, answer.pre) /\ Commit(config', "eqSet")
    BY <1>7 DEF EqAdjust
  <2> QED
    BY <2>1, AdjustedInTable, CommitGoesOn
<1>8. CASE PatternRead
  BY <1>8 DEF PatternRead, Ask, IInv, Places, Here
<1>9. CASE \/ Detect \/ LinkTrain \/ Train \/ ReturnFalse \/ Rated \/ Laned \/ CrSet \/ CrStatus
             \/ CrEnd \/ EqBegin \/ EqStatus \/ EqSet \/ Stop \/ Retry \/ Return
  BY <1>9 DEF Detect, LinkTrain, Train, ReturnFalse, Rated, Laned, CrSet, CrStatus, CrEnd,
              EqBegin, EqStatus, EqSet, Stop, Retry, Return, TrainSet, Ask
<1>10. CASE CrBreak \/ EqBreak \/ UNCHANGED vars
  BY <1>10 DEF CrBreak, EqBreak, Stops, vars
<1> QED
  BY <1>1, <1>2, <1>3, <1>4, <1>5, <1>6, <1>7, <1>8, <1>9, <1>10 DEF Next, Step

\* Whatever the sink asks for, BUG_ON(i == dpe->record_nr) in
\* nouveau_dp_link_train_commit never fires, for every closed table.  (With one
\* that has <<1, 1>> but not <<1, 0>> it fires.)
THEOREM SpecLevelInTable == Closed => (Spec => []LevelInTable)
<1> SUFFICES ASSUME Closed
             PROVE  Spec => []LevelInTable
  OBVIOUS
<1>1. LInv /\ [Next]_vars => LInv'
  BY NextLInv
<1>2. LInv => LevelInTable
  BY DEF LInv
<1> QED
  BY <1>1, <1>2, InitLInv, PTL DEF Spec
=============================================================================
