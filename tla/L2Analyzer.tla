----------------------------- MODULE L2Analyzer -----------------------------
(***************************************************************************)
(* The analyzer of one L2 node, pkg/analysis/l2/l2analyzer.go: a collector *)
(* that asks the node for its height every minute, and a loop that raises  *)
(* an alert when a timer of T minutes, restarted by every new height, runs *)
(* out.  The loop owns an alert storage of its own.                        *)
(*                                                                         *)
(* Time is counted in minutes.  Whatever is due in a minute happens before *)
(* the minute is over (a request takes 5 seconds at most and the reader is *)
(* prompt), in any order: the timer may win against an answer of the same  *)
(* minute or lose.  Reset leaves no stale firing in the timer's channel    *)
(* (Go 1.23 and later).                                                    *)
(***************************************************************************)
EXTENDS AlertsStorage

CONSTANTS
    T,             \* l2NodesSameHeightTimerDuration / heightCollectorTimeout
    Heights,       \* heights the node may answer
    StuckAlert,    \* StuckAlert[h]: the alert about standing still at height h
    ErrorAlerts,   \* simple alerts about failed requests, one for each error
    MaxDetections  \* bound: reports of one alert in one episode

ASSUME TimerAssumption == T \in Nat \ {0}

ASSUME L2AlertsAssumption ==
    /\ StuckAlert \in [Heights \cup {0} -> Alerts]
    /\ \A g, h \in Heights \cup {0} : StuckAlert[g] = StuckAlert[h] => g = h
    /\ ErrorAlerts \subseteq Alerts
    /\ \A h \in Heights \cup {0} :
         /\ StuckAlert[h] \notin ErrorAlerts
         /\ TypeOf[StuckAlert[h]] \notin DOMAIN requiredConfirmations

VARIABLES
    lastHeight,
    timer,      \* minutes until alertTimer fires
    due,        \* the collector has asked and not handed over the answer
    stage,      \* the loop: select, sendError, sendStuck, vacuum, fix or closed
    held,       \* the alert the loop holds
    toFix,      \* fixed alerts the loop has still to send
    cancelled,  \* the context is done
    reading,    \* the publisher still reads alerts
    received,   \* alerts the reader takes to be open
    still       \* minutes with neither a new height nor a failed request,
                \* at most T + 1

loopVars == <<lastHeight, timer, due, stage, held, toFix, cancelled, reading,
              received, still>>

vars == <<storageVars, loopVars>>

Init ==
    /\ StorageInit
    /\ lastHeight = 0
    /\ timer = T
    /\ due = TRUE
    /\ stage = "select"
    /\ held = StuckAlert[0]
    /\ toFix = {}
    /\ cancelled = FALSE
    /\ reading = TRUE
    /\ received = {}
    /\ still = 0

-----------------------------------------------------------------------------
(***************************************************************************)
(* Seeded errors (mutants named in PROJECT.json; no specification uses     *)
(* them).                                                                  *)
(***************************************************************************)
\* "1 is added to survive".
QuotaTooSmall == T + 1 + 1

\* A new height does not restart the timer.
NewHeightKeepsTimer(h) ==
    /\ stage = "select"
    /\ due
    /\ due' = FALSE
    /\ stage' = "vacuum"
    /\ lastHeight' = h
    /\ still' = IF h # lastHeight THEN 0 ELSE still
    /\ UNCHANGED <<storageVars, timer, held, toFix, cancelled, reading, received>>

\* The send of an alert does not watch the context.
NeverGivesUp == FALSE /\ UNCHANGED vars

\* What Vacuum returns is dropped.
VacuumSilently ==
    /\ stage = "vacuum"
    /\ Vacuum
    /\ toFix' = {}
    /\ stage' = "fix"
    /\ UNCHANGED <<lastHeight, timer, due, held, cancelled, reading, received,
                   still>>

-----------------------------------------------------------------------------
(***************************************************************************)
(* Time and the collector                                                  *)
(***************************************************************************)
\* A minute passes: the timer runs and the collector asks again.
Tick ==
    /\ stage = "select"
    /\ ~ due
    /\ timer > 0
    /\ timer' = timer - 1
    /\ due' = TRUE
    /\ still' = IF still <= T THEN still + 1 ELSE still
    /\ UNCHANGED <<storageVars, lastHeight, stage, held, toFix, cancelled, reading,
                   received>>

-----------------------------------------------------------------------------
(***************************************************************************)
(* The loop                                                                *)
(***************************************************************************)
defaultAlertVacuumQuota == T + 1 + 2

ASSUME L2QuotaAssumption == alertVacuumQuota = defaultAlertVacuumQuota

\* for ctx.Err() == nil
LoopHead == IF cancelled THEN "closed" ELSE "select"

ReceiveHeight(h) ==
    /\ stage = "select"
    /\ due
    /\ due' = FALSE
    /\ stage' = "vacuum"
    /\ lastHeight' = h
    /\ IF h # lastHeight THEN timer' = T /\ still' = 0
       ELSE UNCHANGED <<timer, still>>
    /\ UNCHANGED <<storageVars, held, toFix, cancelled, reading, received>>

\* The timer is reset after the send, within the same minute, and "continue"
\* skips the vacuum.
ReceiveError(e) ==
    /\ stage = "select"
    /\ due
    /\ detections[e] < MaxDetections
    /\ PutAlert(e)
    /\ due' = FALSE
    /\ held' = e
    /\ stage' = IF SendNow(e) THEN "sendError" ELSE LoopHead
    /\ timer' = T
    /\ still' = 0
    /\ UNCHANGED <<lastHeight, toFix, cancelled, reading, received>>

Fire ==
    /\ stage = "select"
    /\ timer = 0
    /\ detections[StuckAlert[lastHeight]] < MaxDetections
    /\ PutAlert(StuckAlert[lastHeight])
    /\ held' = StuckAlert[lastHeight]
    /\ stage' = IF SendNow(StuckAlert[lastHeight]) THEN "sendStuck" ELSE "vacuum"
    /\ timer' = T
    /\ UNCHANGED <<lastHeight, due, toFix, cancelled, reading, received, still>>

\* Where putAndSendAlert returns to.
AfterSend == IF stage = "sendError" THEN LoopHead ELSE "vacuum"

\* alertsL2 <- alert
Send ==
    /\ stage \in {"sendError", "sendStuck"}
    /\ reading
    /\ received' = received \cup {held}
    /\ stage' = AfterSend
    /\ UNCHANGED <<storageVars, lastHeight, timer, due, held, toFix, cancelled,
                   reading, still>>

\* case <-ctx.Done() in putAndSendAlert
SendGivesUp ==
    /\ stage \in {"sendError", "sendStuck"}
    /\ cancelled
    /\ stage' = AfterSend
    /\ UNCHANGED <<storageVars, lastHeight, timer, due, held, toFix, cancelled,
                   reading, received, still>>

VacuumAlerts ==
    /\ stage = "vacuum"
    /\ Vacuum
    /\ toFix' = AlertsFixed
    /\ stage' = "fix"
    /\ UNCHANGED <<lastHeight, timer, due, held, cancelled, reading, received,
                   still>>

\* alertsL2 <- fixedAlert
SendFixed(a) ==
    /\ stage = "fix"
    /\ a \in toFix
    /\ reading
    /\ toFix' = toFix \ {a}
    /\ received' = received \ {a}
    /\ UNCHANGED <<storageVars, lastHeight, timer, due, stage, held, cancelled,
                   reading, still>>

\* case <-ctx.Done() in vacuumAlerts
FixGivesUp ==
    /\ stage = "fix"
    /\ toFix # {}
    /\ cancelled
    /\ toFix' = {}
    /\ UNCHANGED <<storageVars, lastHeight, timer, due, stage, held, cancelled,
                   reading, received, still>>

FixDone ==
    /\ stage = "fix"
    /\ toFix = {}
    /\ stage' = LoopHead
    /\ UNCHANGED <<storageVars, lastHeight, timer, due, held, toFix, cancelled,
                   reading, received, still>>

\* case <-ctx.Done(), or the collector has closed its channel, which it does
\* for the same reason.
Stop ==
    /\ stage = "select"
    /\ cancelled
    /\ stage' = "closed"
    /\ UNCHANGED <<storageVars, lastHeight, timer, due, held, toFix, cancelled,
                   reading, received, still>>

-----------------------------------------------------------------------------
(***************************************************************************)
(* Shutdown                                                                *)
(***************************************************************************)
Cancel ==
    /\ ~ cancelled
    /\ cancelled' = TRUE
    /\ UNCHANGED <<storageVars, lastHeight, timer, due, stage, held, toFix, reading,
                   received, still>>

\* The publisher's loop ends with the context and nobody reads alerts any more.
ReaderLeaves ==
    /\ cancelled
    /\ reading
    /\ reading' = FALSE
    /\ UNCHANGED <<storageVars, lastHeight, timer, due, stage, held, toFix,
                   cancelled, received, still>>

Terminated == stage = "closed" /\ UNCHANGED vars

-----------------------------------------------------------------------------
Answer ==
    \/ \E h \in Heights : ReceiveHeight(h)
    \/ \E e \in ErrorAlerts : ReceiveError(e)

LoopStep ==
    \/ Fire \/ Send \/ SendGivesUp \/ VacuumAlerts
    \/ \E a \in Alerts : SendFixed(a)
    \/ FixGivesUp \/ FixDone \/ Stop

Next ==
    \/ Tick \/ Answer \/ LoopStep
    \/ Cancel \/ ReaderLeaves \/ Terminated

Spec == Init /\ [][Next]_vars

\* Time passes, every request is answered or times out, the loop runs when it
\* can, and the reader takes every alert until the context is done.  The node
\* need not answer with any particular height.
Fairness == WF_vars(Tick) /\ WF_vars(Answer) /\ WF_vars(LoopStep)

FairSpec == Spec /\ Fairness

-----------------------------------------------------------------------------
(***************************************************************************)
(* Properties                                                              *)
(***************************************************************************)
TypeOK ==
    /\ StorageTypeOK
    /\ lastHeight \in Heights \cup {0}
    /\ timer \in 0..T
    /\ due \in BOOLEAN
    /\ stage \in {"select", "sendError", "sendStuck", "vacuum", "fix", "closed"}
    /\ held \in Alerts
    /\ toFix \subseteq Alerts
    /\ cancelled \in BOOLEAN
    /\ reading \in BOOLEAN
    /\ received \subseteq Alerts
    /\ still \in 0..(T + 1)

\* A node that has answered with one height for more than T minutes is known to
\* be stuck, and stays so for as long as it does: the quota outlasts the vacuums
\* between two firings of the timer, whichever side of an answer they fall on,
\* although backoff holds most of the reports back (l2analyzer.go 203-210 and
\* 262-276).
StuckIsKnown ==
    stage = "select" /\ still > T /\ ~ cancelled =>
        StuckAlert[lastHeight] \in received

\* A node is called stuck only after T minutes without a new height or a failed
\* request, and only at the height it answered last: no firing survives a reset
\* of the timer (l2analyzer.go 255-272).
NoFalseAlarm ==
    [][\A a \in received' \ received :
         a \in ErrorAlerts \/ (still >= T /\ a = StuckAlert[lastHeight])]_vars

\* If answers keep coming the reader is told that an alert is fixed, unless it
\* keeps being reported; a node that has moved on is not stuck for ever
\* (l2analyzer.go 184-201 and 276).
FixReachesReader ==
    []<>(stage = "vacuum") =>
        \A a \in Alerts : []<>(quiet[a] = 0) \/ <>[](a \notin received)

\* The loop ends when the context is done, also when nobody reads the alert it
\* is about to send (l2analyzer.go 196-199 and 220-224).
StopsWhenCancelled == cancelled ~> (stage = "closed")
=============================================================================
