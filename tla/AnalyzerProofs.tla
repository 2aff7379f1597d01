--------------------------- MODULE AnalyzerProofs ---------------------------
(***************************************************************************)
(* Proofs about the analyzer, for any number of routines, alerts and       *)
(* nodes, any confirmations, backoff and quota: rounds never overlap, no   *)
(* report misses its round, and the reader of the alerts channel gets what *)
(* AlertFeed promises.                                                     *)
(***************************************************************************)
EXTENDS Analyzer, AlertsStorageProofs

USE RoutinesAssumption, QuotaAssumption

(***************************************************************************)
(* Control: where the three kinds of goroutines can be at the same time.   *)
(***************************************************************************)
RoundInv ==
    /\ main \notin {"waitRoutines", "waitProxy"} => proxy = "done"
    /\ main = "waitRoutines" => ~ cancelled /\ proxy \in {"select", "put", "send"}
    /\ main = "waitProxy" => running = {}
    /\ proxy = "done" => running = {}
    /\ failing \subseteq running
    /\ \A r \in Routines \ running : todo[r] = {}
    /\ proxy # "fix" => toFix = {}

(***************************************************************************)
(* Data: what the reader knows, compared with what the storage holds.      *)
(***************************************************************************)
ReaderInv ==
    /\ \A a \in toFix : quiet[a] = alertVacuumQuota
    /\ proxy # "send" => received = Open \cup toFix
    /\ proxy = "send" => /\ received \cup {held} = Open
                         /\ quiet[held] = 0
                         /\ detections[held] >= FirstSend(held)

AInv ==
    /\ TypeOK
    /\ StorageInv
    /\ RoundInv
    /\ alertVacuumQuota > 1 => ReaderInv

-----------------------------------------------------------------------------
(***************************************************************************)
(* Every step of the analyzer is a step of the storage or leaves it alone. *)
(***************************************************************************)
LEMMA StorageStep ==
    ASSUME held \in Alerts, [Next]_vars
    PROVE  [StorageNext]_storageVars
<1>1. CASE UNCHANGED vars
  BY <1>1 DEF vars
<1>2. CASE ProxyPut
  BY <1>2 DEF ProxyPut, StorageNext
<1>3. CASE ProxyVacuum
  BY <1>3 DEF ProxyVacuum, StorageNext
<1>4. CASE \E n \in Notifications(Nodes) : Receive(n)
  BY <1>4 DEF Receive
<1>5. CASE Close \/ MainStep
  BY <1>5 DEF Close, MainStep, NotifyError, SkipNotification, EventsStorageFails,
              NotifyFailure, StartRound, WaitRoutines, WaitProxy
<1>6. CASE \E r \in Routines : RoutineStep(r)
  BY <1>6 DEF RoutineStep, RoutineSend, RoutineFail, RoutineDone
<1>7. CASE ProxyStep /\ ~ ProxyPut /\ ~ ProxyVacuum
  BY <1>7 DEF ProxyStep, ProxySend, ProxyStop, ProxySendFixed, ProxyDone
<1>8. CASE Terminated
  BY <1>8 DEF Terminated, vars
<1> QED
  BY <1>1, <1>2, <1>3, <1>4, <1>5, <1>6, <1>7, <1>8 DEF Next

-----------------------------------------------------------------------------
(***************************************************************************)
(* Types                                                                   *)
(***************************************************************************)
LEMMA AnalyzerType ==
    ASSUME TypeOK, [Next]_vars
    PROVE  TypeOK'
<1> USE DEF TypeOK
<1>1. StorageTypeOK'
  <2>1. [StorageNext]_storageVars
    BY StorageStep
  <2>2. CASE UNCHANGED storageVars
    BY <2>2 DEF StorageTypeOK, storageVars
  <2> QED
    BY <2>1, <2>2, TypePut, TypeVacuum DEF StorageNext
<1>2. CASE UNCHANGED vars
  BY <1>1, <1>2 DEF vars, analyzerVars
<1>3. CASE \E n \in Notifications(Nodes) : Receive(n)
  BY <1>1, <1>3 DEF Receive
<1>4. CASE Close
  BY <1>1, <1>4 DEF Close
<1>5. CASE MainStep
  <2>1. ASSUME NEW found \in Rounds, NEW fail \in SUBSET CanFail,
               StartRound(found, fail)
        PROVE  TypeOK'
    BY <1>1, <2>1 DEF StartRound, Rounds
  <2> QED
    BY <1>1, <1>5, <2>1 DEF MainStep, NotifyError, SkipNotification,
       EventsStorageFails, NotifyFailure, WaitRoutines, WaitProxy
<1>6. ASSUME NEW r \in Routines, RoutineStep(r)
      PROVE  TypeOK'
  BY <1>1, <1>6 DEF RoutineStep, RoutineSend, RoutineFail, RoutineDone
<1>7. CASE ProxyStep
  <2>1. AlertsFixed \subseteq Alerts
    BY DEF AlertsFixed, Exhausted, StorageTypeOK
  <2>2. CASE ProxyPut
    BY <1>1, <2>2 DEF ProxyPut
  <2>3. CASE ProxyVacuum
    BY <1>1, <2>1, <2>3 DEF ProxyVacuum
  <2> QED
    BY <1>1, <1>7, <2>2, <2>3 DEF ProxyStep, ProxySend, ProxyStop,
       ProxySendFixed, ProxyDone
<1>8. CASE Terminated
  BY <1>1, <1>8 DEF Terminated, vars, analyzerVars
<1> QED
  BY <1>2, <1>3, <1>4, <1>5, <1>6, <1>7, <1>8 DEF Next

-----------------------------------------------------------------------------
(***************************************************************************)
(* Control                                                                 *)
(***************************************************************************)
LEMMA RoundStep ==
    ASSUME TypeOK, RoundInv, [Next]_vars
    PROVE  RoundInv'
<1> USE DEF RoundInv
<1>1. CASE UNCHANGED vars
  BY <1>1 DEF vars, analyzerVars
<1>2. CASE \E n \in Notifications(Nodes) : Receive(n)
  BY <1>2 DEF Receive
<1>3. CASE Close
  BY <1>3 DEF Close
<1>4. CASE MainStep
  <2>1. CASE NotifyError \/ SkipNotification \/ EventsStorageFails \/ NotifyFailure
    BY <2>1 DEF NotifyError, SkipNotification, EventsStorageFails, NotifyFailure
  <2>2. ASSUME NEW found \in Rounds, NEW fail \in SUBSET CanFail,
               StartRound(found, fail)
        PROVE  RoundInv'
    BY <2>2 DEF StartRound
  <2>3. CASE WaitRoutines
    BY <2>3 DEF WaitRoutines
  <2>4. CASE WaitProxy
    BY <2>4 DEF WaitProxy
  <2> QED
    BY <1>4, <2>1, <2>2, <2>3, <2>4 DEF MainStep
<1>5. ASSUME NEW r \in Routines, RoutineStep(r)
      PROVE  RoundInv'
  <2>1. ASSUME NEW a \in Alerts, RoutineSend(r, a)
        PROVE  RoundInv'
    BY <2>1 DEF RoutineSend, TypeOK
  <2>2. CASE RoutineFail(r)
    BY <2>2 DEF RoutineFail
  <2>3. CASE RoutineDone(r)
    BY <2>3 DEF RoutineDone
  <2> QED
    BY <1>5, <2>1, <2>2, <2>3 DEF RoutineStep
<1>6. CASE ProxyStep
  <2>1. CASE ProxyPut
    BY <2>1 DEF ProxyPut
  <2>2. CASE ProxySend
    BY <2>2 DEF ProxySend
  <2>3. CASE ProxyStop
    BY <2>3 DEF ProxyStop
  <2>4. CASE ProxyVacuum
    BY <2>4 DEF ProxyVacuum
  <2>5. ASSUME NEW a \in Alerts, ProxySendFixed(a)
        PROVE  RoundInv'
    BY <2>5 DEF ProxySendFixed
  <2>6. CASE ProxyDone
    BY <2>6 DEF ProxyDone, TypeOK
  <2> QED
    BY <1>6, <2>1, <2>2, <2>3, <2>4, <2>5, <2>6 DEF ProxyStep
<1>7. CASE Terminated
  BY <1>7 DEF Terminated, vars, analyzerVars
<1> QED
  BY <1>1, <1>2, <1>3, <1>4, <1>5, <1>6, <1>7 DEF Next

-----------------------------------------------------------------------------
(***************************************************************************)
(* The reader                                                              *)
(***************************************************************************)
LEMMA ReaderStep ==
    ASSUME AInv, [Next]_vars, alertVacuumQuota > 1
    PROVE  ReaderInv'
<1>1. TypeOK /\ StorageInv /\ RoundInv /\ ReaderInv /\ IInv
  BY DEF AInv, IInv, TypeOK
<1>2. ASSUME UNCHANGED <<storageVars, toFix, received>>,
             proxy = "send" <=> proxy' = "send",
             proxy = "send" => held' = held
      PROVE  ReaderInv'
  BY <1>1, <1>2 DEF ReaderInv, storageVars, Open, FirstSend, RequiredConfirmations
<1>3. CASE UNCHANGED vars
  BY <1>2, <1>3 DEF vars, analyzerVars
<1>4. CASE \E n \in Notifications(Nodes) : Receive(n)
  BY <1>2, <1>4 DEF Receive
<1>5. CASE Close \/ Terminated
  BY <1>2, <1>5 DEF Close, Terminated, vars, analyzerVars
<1>6. CASE MainStep
  <2>1. CASE NotifyError \/ SkipNotification \/ EventsStorageFails
             \/ NotifyFailure \/ WaitRoutines \/ WaitProxy
    BY <1>2, <2>1 DEF NotifyError, SkipNotification, EventsStorageFails,
                      NotifyFailure, WaitRoutines, WaitProxy
  <2>2. ASSUME NEW found \in Rounds, NEW fail \in SUBSET CanFail,
               StartRound(found, fail)
        PROVE  ReaderInv'
    BY <1>1, <1>2, <2>2 DEF StartRound, RoundInv
  <2> QED
    BY <1>6, <2>1, <2>2 DEF MainStep
<1>7. ASSUME NEW r \in Routines, RoutineStep(r)
      PROVE  ReaderInv'
  BY <1>2, <1>7 DEF RoutineStep, RoutineSend, RoutineFail, RoutineDone
<1>8. CASE ProxyPut
  <2>1. /\ held \in Alerts /\ PutAlert(held) /\ held' = held
        /\ received = Open /\ toFix = {} /\ UNCHANGED <<received, toFix>>
    BY <1>1, <1>8 DEF ProxyPut, TypeOK, RoundInv, ReaderInv
  <2>2. /\ Open' = IF SendNow(held) THEN Open \cup {held} ELSE Open
        /\ quiet'[held] = 0
    BY <1>1, <2>1, PutOpen DEF TypeOK
  <2>3. CASE SendNow(held)
    <3>1. held \in Open'
      BY <2>2, <2>3
    <3>2. IInv'
      BY <1>1, <2>1, InvariantStep DEF StorageNext
    <3>3. OpenWhenConfirmed'
      BY <3>2, InvImpliesOpen, PTL
    <3>4. detections'[held] >= FirstSend(held)'
      BY <2>1, <3>1, <3>3 DEF OpenWhenConfirmed
    <3>5. proxy' = "send"
      BY <1>8, <2>3 DEF ProxyPut
    <3> QED
      BY <2>1, <2>2, <2>3, <3>4, <3>5 DEF ReaderInv
  <2>4. CASE ~ SendNow(held)
    <3>1. proxy' = "select"
      BY <1>8, <2>4 DEF ProxyPut
    <3> QED
      BY <2>1, <2>2, <2>4, <3>1 DEF ReaderInv
  <2> QED
    BY <2>3, <2>4
<1>9. CASE ProxySend
  BY <1>1, <1>9 DEF ProxySend, ReaderInv, RoundInv, storageVars, Open
<1>10. CASE ProxyStop
  BY <1>2, <1>10 DEF ProxyStop
<1>11. CASE ProxyVacuum
  <2>1. Vacuum /\ toFix' = AlertsFixed /\ received' = received /\ proxy' = "fix"
    BY <1>11 DEF ProxyVacuum
  <2>2. received = Open
    BY <1>1, <1>11 DEF ProxyVacuum, ReaderInv, RoundInv
  <2> QED
    BY <1>1, <2>1, <2>2, VacuumOpen DEF ReaderInv
<1>12. ASSUME NEW a \in Alerts, ProxySendFixed(a)
       PROVE  ReaderInv'
  <2>1. a \in toFix /\ received = Open \cup toFix
    BY <1>1, <1>12 DEF ProxySendFixed, ReaderInv
  <2>2. a \notin Open
    BY <1>1, <2>1, OpenEntry DEF ReaderInv
  <2> QED
    BY <1>1, <1>12, <2>1, <2>2 DEF ProxySendFixed, ReaderInv, storageVars, Open
<1>13. CASE ProxyDone
  BY <1>2, <1>13 DEF ProxyDone
<1> QED
  BY <1>3, <1>4, <1>5, <1>6, <1>7, <1>8, <1>9, <1>10, <1>11, <1>12, <1>13
  DEF Next, ProxyStep

-----------------------------------------------------------------------------
(***************************************************************************)
(* The invariant and what follows from it                                  *)
(***************************************************************************)
THEOREM AnalyzerInit == Init => AInv
<1> SUFFICES ASSUME Init PROVE AInv
  OBVIOUS
<1>1. IInv
  BY InvariantInit DEF Init
<1>2. TypeOK
  <2>1. GatheringError \in Notifications(Nodes)
    BY DEF Notifications
  <2> QED
    BY <1>1, <2>1 DEF Init, TypeOK, IInv
<1>3. RoundInv
  BY DEF Init, RoundInv
<1>4. ReaderInv
  BY DEF Init, StorageInit, ReaderInv, Open
<1> QED
  BY <1>1, <1>2, <1>3, <1>4 DEF AInv, IInv

THEOREM AnalyzerStep == AInv /\ [Next]_vars => AInv'
<1> SUFFICES ASSUME AInv, [Next]_vars PROVE AInv'
  OBVIOUS
<1>1. TypeOK'
  BY AnalyzerType DEF AInv
<1>2. RoundInv'
  BY RoundStep DEF AInv
<1>3. alertVacuumQuota > 1 => ReaderInv'
  BY ReaderStep
<1>4. IInv'
  <2>1. [StorageNext]_storageVars
    BY StorageStep DEF AInv, TypeOK
  <2> QED
    BY <2>1, InvariantStep DEF AInv, TypeOK, IInv
<1> QED
  BY <1>1, <1>2, <1>3, <1>4 DEF AInv, IInv

\* The analyzer's inductive invariant: types, the storage's invariant, where
\* the goroutines are, and what the reader knows.
THEOREM AnalyzerInvariant == Spec => []AInv
  BY AnalyzerInit, AnalyzerStep, PTL DEF Spec

\* No round starts before the previous proxy has finished, for any number of
\* criterion routines: the storage has one user at a time.
THEOREM RoundsDisjointCorrect == Spec => []RoundsDisjoint
<1>1. AInv => RoundsDisjoint
  BY DEF AInv, RoundInv, RoundsDisjoint
<1> QED
  BY <1>1, AnalyzerInvariant, PTL

\* The proxy leaves its loop only when no routine has anything left to send.
THEOREM NoReportLostCorrect == Spec => []NoReportLost
<1>1. AInv => NoReportLost
  <2> SUFFICES ASSUME AInv, proxy \in {"vacuum", "fix", "done"}
               PROVE  /\ running = {} /\ failing = {}
                      /\ \A r \in Routines : todo[r] = {}
    BY DEF NoReportLost
  <2>1. running = {}
    BY DEF AInv, TypeOK, RoundInv
  <2> QED
    BY <2>1 DEF AInv, RoundInv
<1> QED
  BY <1>1, AnalyzerInvariant, PTL

\* Between rounds the reader's open alerts are exactly the confirmed ones.
THEOREM ReaderCorrect == Spec => []ReaderUpToDate
<1>1. AInv => ReaderUpToDate
  <2> SUFFICES ASSUME AInv, main = "receive", alertVacuumQuota > 1
               PROVE  received = {a \in Alerts : detections[a] >= FirstSend(a)}
    BY DEF ReaderUpToDate
  <2>1. received = Open
    BY DEF AInv, RoundInv, ReaderInv
  <2>2. OpenWhenConfirmed
    BY InvImpliesOpen DEF AInv, IInv, TypeOK
  <2> QED
    BY <2>1, <2>2 DEF OpenWhenConfirmed, Open
<1> QED
  BY <1>1, AnalyzerInvariant, PTL

-----------------------------------------------------------------------------
(***************************************************************************)
(* Refinement                                                              *)
(***************************************************************************)
LEMMA FeedStep ==
    ASSUME AInv, [Next]_vars, alertVacuumQuota > 1
    PROVE  [Feed!Next]_Feed!feedVars
<1>1. TypeOK /\ StorageInv /\ RoundInv /\ ReaderInv /\ IInv
  BY DEF AInv, IInv, TypeOK
<1>2. ASSUME UNCHANGED <<storageVars, received>>
      PROVE  UNCHANGED Feed!feedVars
  BY <1>2 DEF storageVars, Feed!feedVars
<1>3. ASSUME received = Open
      PROVE  Feed!NothingDue
  BY <1>1, <1>3, OpenEntry DEF Feed!NothingDue
<1>4. CASE ProxyPut
  <2>1. held \in Alerts /\ PutAlert(held) /\ received = Open /\ received' = received
    BY <1>1, <1>4 DEF ProxyPut, TypeOK, RoundInv, ReaderInv
  <2>2. Feed!Report(held)
    BY <1>3, <2>1 DEF Feed!Report, PutAlert
  <2> QED
    BY <2>1, <2>2 DEF Feed!Next
<1>5. CASE ProxySend
  <2>1. held \in Alerts
    BY <1>1 DEF TypeOK
  <2>2. Feed!Announce(held)
    BY <1>1, <1>5, <2>1 DEF ProxySend, ReaderInv, Feed!Announce, storageVars
  <2> QED
    BY <2>1, <2>2 DEF Feed!Next
<1>6. CASE ProxyVacuum
  <2>1. Vacuum /\ received' = received
    BY <1>6 DEF ProxyVacuum
  <2>2. received = Open
    BY <1>1, <1>6 DEF ProxyVacuum, ReaderInv, RoundInv
  <2>3. Feed!EndRound
    BY <1>3, <2>1, <2>2 DEF Feed!EndRound, Vacuum, NextQuiet
  <2> QED
    BY <2>3 DEF Feed!Next
<1>7. ASSUME NEW a \in Alerts, ProxySendFixed(a)
      PROVE  Feed!Next
  <2>1. Feed!DeclareFixed(a)
    BY <1>1, <1>7 DEF ProxySendFixed, ReaderInv, Feed!DeclareFixed, storageVars
  <2> QED
    BY <2>1 DEF Feed!Next
<1>8. CASE UNCHANGED vars \/ Terminated
  BY <1>2, <1>8 DEF vars, analyzerVars, Terminated
<1>9. CASE (\E n \in Notifications(Nodes) : Receive(n)) \/ Close
  BY <1>2, <1>9 DEF Receive, Close
<1>10. CASE MainStep
  BY <1>2, <1>10 DEF MainStep, NotifyError, SkipNotification, EventsStorageFails,
         NotifyFailure, StartRound, WaitRoutines, WaitProxy
<1>11. CASE \E r \in Routines : RoutineStep(r)
  BY <1>2, <1>11 DEF RoutineStep, RoutineSend, RoutineFail, RoutineDone
<1>12. CASE ProxyStop \/ ProxyDone
  BY <1>2, <1>12 DEF ProxyStop, ProxyDone
<1> QED
  BY <1>4, <1>5, <1>6, <1>7, <1>8, <1>9, <1>10, <1>11, <1>12 DEF Next, ProxyStep

\* The analyzer implements AlertFeed: whatever the routines find and however
\* the goroutines interleave, its reader sees alerts opened and closed exactly
\* as promised.
THEOREM Refinement == ASSUME alertVacuumQuota > 1 PROVE Spec => KeepsFeed
<1>1. Init => Feed!Init
  BY DEF Init, StorageInit, Feed!Init
<1>2. AInv /\ [Next]_vars => [Feed!Next]_Feed!feedVars
  BY FeedStep
<1> QED
  BY <1>1, <1>2, AnalyzerInvariant, PTL DEF Spec, Feed!Spec, KeepsFeed
=============================================================================
