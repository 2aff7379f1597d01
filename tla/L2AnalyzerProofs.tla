-------------------------- MODULE L2AnalyzerProofs --------------------------
(***************************************************************************)
(* A stuck L2 node is known to be stuck, for any duration of the timer,    *)
(* any heights and any errors, and whichever of a timer and an answer of   *)
(* the same minute comes first.                                            *)
(*                                                                         *)
(* Between two firings of the timer the vacuums that are still to come     *)
(* are at most the minutes left on the timer, the answer that is due and   *)
(* the vacuum that follows the firing itself.  TimerInv counts them: the   *)
(* quota outlasts them by one.                                             *)
(***************************************************************************)
EXTENDS L2Analyzer, AlertsStorageProofs

Sending == {"sendError", "sendStuck"}

ControlInv ==
    /\ stage # "fix" => toFix = {}
    /\ stage = "sendError" => held \in ErrorAlerts
    /\ stage = "sendStuck" => held = StuckAlert[lastHeight] /\ still >= T

\* What the reader knows, until the context is done.
ReaderInv ==
    /\ \A a \in toFix : quiet[a] = alertVacuumQuota
    /\ stage \notin Sending => received = Open \cup toFix
    /\ stage \in Sending => received \cup {held} = Open

\* The timer has fired since the height changed.
Fired == still > T \/ (still = T /\ timer # 0)

\* Vacuums of this minute that are to come: of the answer and of the firing.
Coming == (IF due THEN 1 ELSE 0) + (IF stage \in {"sendStuck", "vacuum"} THEN 1 ELSE 0)

TimerInv ==
    /\ still < T => timer = T - still
    /\ Fired => /\ quiet[StuckAlert[lastHeight]] + timer + Coming <= T + 2
                /\ detections[StuckAlert[lastHeight]] >= 1

L2Inv ==
    /\ TypeOK
    /\ StorageInv
    /\ ControlInv
    /\ ~ cancelled => ReaderInv
    /\ TimerInv

USE TimerAssumption, L2AlertsAssumption

LEMMA QuotaIs == alertVacuumQuota = T + 3 /\ alertVacuumQuota > 1
  BY L2QuotaAssumption DEF defaultAlertVacuumQuota

\* One report makes a node known to be stuck.
LEMMA StuckAlerts ==
  ASSUME NEW h \in Heights \cup {0}
  PROVE  StuckAlert[h] \in Alerts /\ FirstSend(StuckAlert[h]) = 1
  BY DEF FirstSend, RequiredConfirmations

-----------------------------------------------------------------------------
(***************************************************************************)
(* Types, and the steps of the storage                                     *)
(***************************************************************************)
LEMMA StorageStep ==
  ASSUME TypeOK, [Next]_vars
  PROVE  [StorageNext]_storageVars
<1>1. CASE UNCHANGED vars
  BY <1>1 DEF vars
<1>2. ASSUME NEW e \in ErrorAlerts, ReceiveError(e)
      PROVE  StorageNext
  BY <1>2 DEF ReceiveError, StorageNext
<1>3. CASE Fire
  BY <1>3, StuckAlerts DEF Fire, StorageNext, TypeOK
<1>4. CASE VacuumAlerts
  BY <1>4 DEF VacuumAlerts, StorageNext
<1>5. CASE \E h \in Heights : ReceiveHeight(h)
  BY <1>5 DEF ReceiveHeight
<1>6. CASE Send \/ SendGivesUp \/ FixGivesUp \/ FixDone \/ Stop \/ \E a \in Alerts : SendFixed(a)
  BY <1>6 DEF Send, SendGivesUp, FixGivesUp, FixDone, Stop, SendFixed
<1>7. CASE Tick \/ Cancel \/ ReaderLeaves \/ Terminated
  BY <1>7 DEF Tick, Cancel, ReaderLeaves, Terminated, vars
<1> QED
  BY <1>1, <1>2, <1>3, <1>4, <1>5, <1>6, <1>7 DEF Next, Answer, LoopStep

LEMMA TypeStep ==
  ASSUME TypeOK, [Next]_vars
  PROVE  TypeOK'
<1> USE DEF TypeOK
<1>1. StorageTypeOK'
  <2>1. [StorageNext]_storageVars
    BY StorageStep
  <2>2. CASE UNCHANGED storageVars
    BY <2>2 DEF StorageTypeOK, storageVars
  <2> QED
    BY <2>1, <2>2, TypePut, TypeVacuum DEF StorageNext
<1>2. CASE UNCHANGED vars
  BY <1>1, <1>2 DEF vars, loopVars
<1>3. ASSUME NEW e \in ErrorAlerts, ReceiveError(e)
      PROVE  TypeOK'
  <2>1. e \in Alerts /\ T \in 0..T /\ 0 \in 0..T + 1
    OBVIOUS
  <2>2. stage' \in {"select", "sendError", "closed"}
    BY <1>3 DEF ReceiveError, LoopHead
  <2> QED
    BY <1>1, <1>3, <2>1, <2>2 DEF ReceiveError
<1>4. CASE Fire
  BY <1>1, <1>4, StuckAlerts DEF Fire
<1>5. CASE VacuumAlerts
  <2>1. AlertsFixed \subseteq Alerts
    BY DEF AlertsFixed, Exhausted, StorageTypeOK
  <2> QED
    BY <1>1, <1>5, <2>1 DEF VacuumAlerts
<1>6. ASSUME NEW h \in Heights, ReceiveHeight(h)
      PROVE  TypeOK'
  <2>1. T \in 0..T /\ 0 \in 0..T + 1
    OBVIOUS
  <2>2. timer' \in 0..T /\ still' \in 0..T + 1
    BY <1>6, <2>1 DEF ReceiveHeight
  <2> QED
    BY <1>1, <1>6, <2>2 DEF ReceiveHeight
<1>7. CASE Send
  BY <1>1, <1>7 DEF Send, AfterSend, LoopHead
<1>8. CASE SendGivesUp
  BY <1>1, <1>8 DEF SendGivesUp, AfterSend, LoopHead
<1>9. CASE FixGivesUp \/ FixDone \/ Stop \/ \E a \in Alerts : SendFixed(a)
  BY <1>1, <1>9 DEF FixGivesUp, FixDone, Stop, SendFixed, LoopHead
<1>10. CASE Tick
  BY <1>1, <1>10 DEF Tick
<1>11. CASE Cancel \/ ReaderLeaves \/ Terminated
  BY <1>1, <1>11 DEF Cancel, ReaderLeaves, Terminated, vars, loopVars
<1> QED
  BY <1>2, <1>3, <1>4, <1>5, <1>6, <1>7, <1>8, <1>9, <1>10, <1>11 DEF Next, Answer, LoopStep

-----------------------------------------------------------------------------
(***************************************************************************)
(* The loop                                                                *)
(***************************************************************************)
LEMMA ControlStep ==
  ASSUME L2Inv, [Next]_vars
  PROVE  ControlInv'
<1> USE DEF ControlInv
<1>1. TypeOK /\ ControlInv /\ TimerInv
  BY DEF L2Inv
<1>2. CASE UNCHANGED vars
  BY <1>1, <1>2 DEF vars, loopVars
<1>3. ASSUME NEW e \in ErrorAlerts, ReceiveError(e)
      PROVE  ControlInv'
  BY <1>1, <1>3 DEF ReceiveError, LoopHead
<1>4. CASE Fire
  <2>1. still >= T
    BY <1>1, <1>4 DEF Fire, TimerInv, TypeOK
  <2> QED
    BY <1>1, <1>4, <2>1 DEF Fire
<1>5. CASE VacuumAlerts
  BY <1>1, <1>5 DEF VacuumAlerts
<1>6. ASSUME NEW h \in Heights, ReceiveHeight(h)
      PROVE  ControlInv'
  BY <1>1, <1>6 DEF ReceiveHeight
<1>7. CASE Send \/ SendGivesUp
  BY <1>1, <1>7 DEF Send, SendGivesUp, AfterSend, LoopHead
<1>8. CASE FixGivesUp \/ FixDone \/ Stop \/ \E a \in Alerts : SendFixed(a)
  BY <1>1, <1>8 DEF FixGivesUp, FixDone, Stop, SendFixed, LoopHead
<1>9. CASE Tick \/ Cancel \/ ReaderLeaves \/ Terminated
  BY <1>1, <1>9 DEF Tick, Cancel, ReaderLeaves, Terminated, vars, loopVars
<1> QED
  BY <1>2, <1>3, <1>4, <1>5, <1>6, <1>7, <1>8, <1>9 DEF Next, Answer, LoopStep

\* What the reader knows while an alert is put.
LEMMA PutReader ==
  ASSUME L2Inv, ~ cancelled, stage = "select", NEW a \in Alerts, PutAlert(a),
         received' = received, toFix' = toFix, SendNow(a) => stage' \in Sending /\ held' = a,
         ~ SendNow(a) => stage' \notin Sending
  PROVE  ReaderInv'
<1>1. TypeOK /\ toFix = {} /\ received = Open
  BY DEF L2Inv, ControlInv, ReaderInv, Sending
<1>2. Open' = IF SendNow(a) THEN Open \cup {a} ELSE Open
  BY <1>1, PutOpen DEF TypeOK
<1> QED
  BY <1>1, <1>2 DEF ReaderInv

LEMMA ReaderStep ==
  ASSUME L2Inv, [Next]_vars, ~ cancelled'
  PROVE  ReaderInv'
<1>1. TypeOK /\ ControlInv /\ IInv
  BY DEF L2Inv, IInv, TypeOK
<1>2. ~ cancelled /\ ReaderInv
  <2>1. cancelled \in BOOLEAN
    BY <1>1 DEF TypeOK
  <2>2. cancelled => cancelled'
    BY DEF Next, Tick, Answer, ReceiveHeight, ReceiveError, LoopStep, Fire, Send, SendGivesUp,
           VacuumAlerts, SendFixed, FixGivesUp, FixDone, Stop, Cancel, ReaderLeaves,
           Terminated, vars, loopVars
  <2> QED
    BY <2>1, <2>2 DEF L2Inv
<1>3. ASSUME UNCHANGED <<storageVars, toFix, received>>, stage' \notin Sending,
             stage \notin Sending
      PROVE  ReaderInv'
  BY <1>2, <1>3 DEF ReaderInv, storageVars, Open
<1>4. CASE UNCHANGED vars
  BY <1>2, <1>4 DEF vars, loopVars, ReaderInv, storageVars, Open
<1>5. ASSUME NEW e \in ErrorAlerts, ReceiveError(e)
      PROVE  ReaderInv'
  BY <1>2, <1>5, PutReader DEF ReceiveError, LoopHead, Sending
<1>6. CASE Fire
  <2>1. StuckAlert[lastHeight] \in Alerts
    BY <1>1, StuckAlerts DEF TypeOK
  <2> QED
    BY <1>2, <1>6, <2>1, PutReader DEF Fire, Sending
<1>7. CASE VacuumAlerts
  <2>1. Vacuum /\ toFix' = AlertsFixed /\ received' = received /\ stage' \notin Sending
    BY <1>7 DEF VacuumAlerts, Sending
  <2>2. received = Open
    BY <1>1, <1>2, <1>7 DEF VacuumAlerts, ReaderInv, ControlInv, Sending
  <2> QED
    BY <1>1, <2>1, <2>2, QuotaIs, VacuumOpen DEF ReaderInv
<1>8. ASSUME NEW h \in Heights, ReceiveHeight(h)
      PROVE  ReaderInv'
  BY <1>3, <1>8 DEF ReceiveHeight, Sending
<1>9. CASE Send
  <2>1. received' = Open /\ toFix' = {} /\ stage' \notin Sending
    BY <1>1, <1>2, <1>9 DEF Send, ReaderInv, ControlInv, Sending, AfterSend, LoopHead
  <2>2. Open' = Open
    BY <1>9 DEF Send, storageVars, Open
  <2> QED
    BY <2>1, <2>2 DEF ReaderInv
<1>10. ASSUME NEW a \in Alerts, SendFixed(a)
       PROVE  ReaderInv'
  <2>1. a \in toFix /\ received = Open \cup toFix /\ stage' \notin Sending
    BY <1>2, <1>10 DEF SendFixed, ReaderInv, Sending
  <2>2. a \notin Open
    BY <1>1, <1>2, <2>1, QuotaIs, OpenEntry DEF ReaderInv
  <2> QED
    BY <1>2, <1>10, <2>1, <2>2 DEF SendFixed, ReaderInv, storageVars, Open
<1>11. CASE FixDone \/ Tick
  BY <1>3, <1>11 DEF FixDone, Tick, LoopHead, Sending
<1>12. CASE SendGivesUp \/ FixGivesUp \/ Stop \/ Cancel \/ ReaderLeaves
  BY <1>2, <1>12 DEF SendGivesUp, FixGivesUp, Stop, Cancel, ReaderLeaves
<1>13. CASE Terminated
  BY <1>4, <1>13 DEF Terminated
<1> QED
  BY <1>4, <1>5, <1>6, <1>7, <1>8, <1>9, <1>10, <1>11, <1>12, <1>13 DEF Next, Answer, LoopStep

-----------------------------------------------------------------------------
(***************************************************************************)
(* The timer and the vacuums                                               *)
(***************************************************************************)
LEMMA TimerStep ==
  ASSUME L2Inv, [Next]_vars
  PROVE  TimerInv'
<1>1. TypeOK /\ ControlInv /\ TimerInv
  BY DEF L2Inv
<1> DEFINE a == StuckAlert[lastHeight]
<1>2. /\ a \in Alerts /\ T \in Nat \ {0} /\ alertVacuumQuota = T + 3
      /\ timer \in 0..T /\ still \in 0..T + 1 /\ due \in BOOLEAN
      /\ quiet[a] \in 0..alertVacuumQuota /\ detections[a] \in Nat
  BY <1>1, StuckAlerts, QuotaIs DEF TypeOK, StorageTypeOK
<1>3. /\ still < T => timer = T - still
      /\ Fired => quiet[a] + timer + Coming <= T + 2 /\ detections[a] >= 1
  BY <1>1 DEF TimerInv
<1>4. Coming \in 0..2
  BY DEF Coming
<1>5. ASSUME UNCHANGED <<quiet, detections, timer, still, lastHeight>>, Coming' <= Coming,
             Coming' \in 0..2
      PROVE  TimerInv'
  <2>1. StuckAlert[lastHeight'] = a /\ (Fired' <=> Fired)
    BY <1>5 DEF Fired
  <2> HIDE DEF a
  <2> QED
    BY <1>2, <1>3, <1>4, <1>5, <2>1 DEF TimerInv
<1>6. CASE UNCHANGED vars
  BY <1>5, <1>6 DEF vars, loopVars, storageVars, Coming
<1>7. CASE Tick
  <2>1. /\ UNCHANGED <<quiet, detections, lastHeight, stage>> /\ stage = "select"
        /\ ~ due /\ due' /\ timer > 0 /\ timer' = timer - 1
        /\ still' = IF still <= T THEN still + 1 ELSE still
    BY <1>7 DEF Tick, storageVars
  <2>2. Coming = 0 /\ Coming' = 1
    BY <2>1 DEF Coming
  <2>3. Fired' => Fired
    BY <1>2, <1>3, <2>1 DEF Fired
  <2>4. still' < T => timer' = T - still'
    BY <1>2, <1>3, <2>1
  <2>5. StuckAlert[lastHeight'] = a
    BY <2>1
  <2> HIDE DEF a
  <2> QED
    BY <1>2, <1>3, <2>1, <2>2, <2>3, <2>4, <2>5 DEF TimerInv
<1>8. ASSUME NEW h \in Heights, ReceiveHeight(h)
      PROVE  TimerInv'
  <2>1. CASE h # lastHeight
    <3>1. timer' = T /\ still' = 0
      BY <1>8, <2>1 DEF ReceiveHeight
    <3> QED
      BY <1>2, <3>1 DEF TimerInv, Fired
  <2>2. CASE h = lastHeight
    <3>1. UNCHANGED <<quiet, detections, timer, still, lastHeight>>
      BY <1>8, <2>2 DEF ReceiveHeight, storageVars
    <3>2. Coming' = Coming /\ Coming' \in 0..2
      BY <1>8 DEF ReceiveHeight, Coming
    <3> QED
      BY <1>4, <1>5, <3>1, <3>2
  <2> QED
    BY <2>1, <2>2
<1>9. ASSUME NEW e \in ErrorAlerts, ReceiveError(e)
      PROVE  TimerInv'
  <2>1. timer' = T /\ still' = 0
    BY <1>9 DEF ReceiveError
  <2> QED
    BY <1>2, <2>1 DEF TimerInv, Fired
<1>10. CASE Fire
  <2>1. /\ timer' = T /\ still' = still /\ lastHeight' = lastHeight
        /\ stage' \in {"sendStuck", "vacuum"} /\ PutAlert(a) /\ still >= T
    BY <1>2, <1>3, <1>10 DEF Fire
  <2>2. quiet'[a] = 0 /\ detections'[a] >= 1
    BY <1>1, <1>2, <2>1 DEF PutAlert, TypeOK, StorageTypeOK
  <2>3. Coming' \in 0..2
    BY DEF Coming
  <2>4. StuckAlert[lastHeight'] = a
    BY <2>1
  <2> HIDE DEF a
  <2> QED
    BY <1>2, <2>1, <2>2, <2>3, <2>4 DEF TimerInv
<1>11. CASE VacuumAlerts
  <2>1. /\ UNCHANGED <<timer, still, lastHeight, due>> /\ Vacuum
        /\ stage = "vacuum" /\ stage' = "fix"
    BY <1>11 DEF VacuumAlerts
  <2>2. Coming = Coming' + 1 /\ Coming' \in 0..1
    BY <1>2, <2>1 DEF Coming
  <2>3. /\ quiet'[a] = NextQuiet(a)
        /\ detections'[a] = IF NextQuiet(a) = alertVacuumQuota THEN 0 ELSE detections[a]
    BY <1>2, <2>1 DEF Vacuum
  <2>4. NextQuiet(a) = IF quiet[a] < alertVacuumQuota THEN quiet[a] + 1 ELSE quiet[a]
    BY DEF NextQuiet
  <2>5. StuckAlert[lastHeight'] = a /\ (Fired' <=> Fired)
    BY <2>1 DEF Fired
  <2> HIDE DEF a
  <2> QED
    BY <1>2, <1>3, <2>1, <2>2, <2>3, <2>4, <2>5 DEF TimerInv
<1>12. CASE Send \/ SendGivesUp
  <2>1. UNCHANGED <<quiet, detections, timer, still, lastHeight, due>>
    BY <1>12 DEF Send, SendGivesUp, storageVars
  <2>2. CASE stage = "sendError"
    <3>1. Coming' <= Coming /\ Coming' \in 0..2
      BY <1>12, <2>1, <2>2 DEF Send, SendGivesUp, AfterSend, LoopHead, Coming
    <3> QED
      BY <1>5, <2>1, <3>1
  <2>3. CASE stage # "sendError"
    <3>1. Coming' <= Coming /\ Coming' \in 0..2
      BY <1>12, <2>1, <2>3 DEF Send, SendGivesUp, AfterSend, Coming
    <3> QED
      BY <1>5, <2>1, <3>1
  <2> QED
    BY <2>2, <2>3
<1>13. CASE FixGivesUp \/ FixDone \/ Stop \/ \E b \in Alerts : SendFixed(b)
  <2>1. UNCHANGED <<quiet, detections, timer, still, lastHeight, due>>
    BY <1>13 DEF FixGivesUp, FixDone, Stop, SendFixed, storageVars
  <2>2. Coming' <= Coming /\ Coming' \in 0..2
    BY <1>13, <2>1 DEF FixGivesUp, FixDone, Stop, SendFixed, LoopHead, Coming
  <2> QED
    BY <1>5, <2>1, <2>2
<1>14. CASE Cancel \/ ReaderLeaves \/ Terminated
  <2>1. UNCHANGED <<quiet, detections, timer, still, lastHeight, due, stage>>
    BY <1>14 DEF Cancel, ReaderLeaves, Terminated, vars, loopVars, storageVars
  <2>2. Coming' = Coming
    BY <2>1 DEF Coming
  <2> QED
    BY <1>4, <1>5, <2>1, <2>2
<1> QED
  BY <1>6, <1>7, <1>8, <1>9, <1>10, <1>11, <1>12, <1>13, <1>14 DEF Next, Answer, LoopStep

-----------------------------------------------------------------------------
(***************************************************************************)
(* The invariant and what follows from it                                  *)
(***************************************************************************)
LEMMA L2Init == Init => L2Inv
<1> SUFFICES ASSUME Init PROVE L2Inv
  OBVIOUS
<1>1. IInv
  BY InvariantInit DEF Init
<1>2. TypeOK
  <2>1. T \in 0..T /\ 0 \in 0..T + 1 /\ StuckAlert[0] \in Alerts
    BY StuckAlerts
  <2> QED
    BY <1>1, <2>1 DEF Init, TypeOK, IInv
<1>3. ControlInv
  BY DEF Init, ControlInv
<1>4. ReaderInv
  BY DEF Init, StorageInit, ReaderInv, Open, Sending
<1>5. TimerInv
  BY DEF Init, TimerInv, Fired
<1> QED
  BY <1>1, <1>2, <1>3, <1>4, <1>5 DEF L2Inv, IInv

LEMMA L2Step == L2Inv /\ [Next]_vars => L2Inv'
<1> SUFFICES ASSUME L2Inv, [Next]_vars PROVE L2Inv'
  OBVIOUS
<1>1. TypeOK'
  BY TypeStep DEF L2Inv
<1>2. IInv'
  BY StorageStep, InvariantStep DEF L2Inv, TypeOK, IInv
<1>3. ~ cancelled' => ReaderInv'
  BY ReaderStep
<1> QED
  BY <1>1, <1>2, <1>3, ControlStep, TimerStep DEF L2Inv, IInv

THEOREM TypesCorrect == Spec => []TypeOK
<1>1. L2Inv => TypeOK
  BY DEF L2Inv
<1> QED
  BY <1>1, L2Init, L2Step, PTL DEF Spec

\* A node that has answered with one height for more than T minutes is known to
\* be stuck, and stays so for as long as it does, for every T: no order of
\* answers, firings and vacuums uses up the quota between two firings
\* (l2analyzer.go 203-210 and 262-276).
THEOREM StuckCorrect == Spec => []StuckIsKnown
<1>1. L2Inv => StuckIsKnown
  <2> SUFFICES ASSUME L2Inv, stage = "select", still > T, ~ cancelled
               PROVE  StuckAlert[lastHeight] \in received
    BY DEF StuckIsKnown
  <2>1. TypeOK /\ IInv
    BY DEF L2Inv, TypeOK, IInv
  <2>2. StuckAlert[lastHeight] \in Alerts /\ FirstSend(StuckAlert[lastHeight]) = 1
    BY <2>1, StuckAlerts DEF TypeOK
  <2>3. detections[StuckAlert[lastHeight]] >= 1
    BY DEF L2Inv, TimerInv, Fired
  <2>4. StuckAlert[lastHeight] \in Open
    BY <2>1, <2>2, <2>3, QuotaIs, InvImpliesOpen DEF OpenWhenConfirmed
  <2> QED
    BY <2>4 DEF L2Inv, ReaderInv, Sending
<1> QED
  BY <1>1, L2Init, L2Step, PTL DEF Spec

\* A node is called stuck only after T minutes without a new height or a failed
\* request, and only at the height it answered last (l2analyzer.go 255-272).
THEOREM NoFalseAlarmCorrect == Spec => NoFalseAlarm
<1>1. L2Inv /\ [Next]_vars =>
        [\A a \in received' \ received :
           a \in ErrorAlerts \/ (still >= T /\ a = StuckAlert[lastHeight])]_vars
  <2> SUFFICES ASSUME L2Inv, Next, NEW a \in received' \ received
               PROVE  a \in ErrorAlerts \/ (still >= T /\ a = StuckAlert[lastHeight])
    OBVIOUS
  <2>1. CASE Send
    BY <2>1 DEF Send, L2Inv, ControlInv
  <2>2. CASE ~ Send
    BY <2>2 DEF Next, Tick, Answer, ReceiveHeight, ReceiveError, LoopStep, Fire, SendGivesUp,
           VacuumAlerts, SendFixed, FixGivesUp, FixDone, Stop, Cancel, ReaderLeaves,
           Terminated, vars, loopVars
  <2> QED
    BY <2>1, <2>2
<1> QED
  BY <1>1, L2Init, L2Step, PTL DEF Spec, NoFalseAlarm
=============================================================================
