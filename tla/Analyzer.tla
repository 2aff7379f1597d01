------------------------------ MODULE Analyzer ------------------------------
(***************************************************************************)
(* The analyzer of pkg/analysis/analyzer.go: the goroutine that receives   *)
(* gathering notifications, the criterion routines of one round, and the   *)
(* proxy goroutine that alone touches the alert storage, forwards alerts   *)
(* to the alerts channel and vacuums the storage when the round is over.   *)
(*                                                                         *)
(* Channels are unbuffered, so a send and its receive are one step.  What  *)
(* the criteria find is an input (which alerts each routine raises, and    *)
(* which routines fail); the criteria themselves are modelled elsewhere.   *)
(***************************************************************************)
EXTENDS AlertsStorage, Notifications, FiniteSets

CONSTANTS
    Nodes,          \* node URLs a notification may carry
    Routines,       \* criterion routines
    Finds,          \* Finds[r]: alerts routine r can raise
    CanFail,        \* routines that can return an error
    RoutineError,   \* the internal-error alert of a failed routine
    MaxDetections   \* bound: reports of one alert in one episode

ASSUME RoutinesAssumption ==
    /\ Finds \in [Routines -> SUBSET Alerts]
    /\ CanFail \subseteq Routines
    /\ RoutineError \in Alerts

VARIABLES
    main,         \* the goroutine of Start: receive, notifyError, check, fail,
                  \* waitRoutines, waitProxy or closed
    notification, \* the notification being processed
    running,      \* routines that have not called wg.Done
    todo,         \* todo[r]: alerts routine r has still to send
    failing,      \* routines that will return an error
    cancelled,    \* the proxy's context is done
    proxy,        \* the proxy goroutine: select, put, send, vacuum, fix or done
    held,         \* the alert the proxy holds
    toFix,        \* fixed alerts the proxy has still to send
    received      \* alerts the reader of the alerts channel takes to be open

analyzerVars == <<main, notification, running, todo, failing, cancelled, proxy,
                  held, toFix, received>>

vars == <<storageVars, analyzerVars>>

Init ==
    /\ StorageInit
    /\ main = "receive"
    /\ notification = GatheringError
    /\ running = {}
    /\ todo = [r \in Routines |-> {}]
    /\ failing = {}
    /\ cancelled = FALSE
    /\ proxy = "done"
    /\ held = RoutineError
    /\ toFix = {}
    /\ received = {}

-----------------------------------------------------------------------------
(***************************************************************************)
(* Seeded errors (mutants named in PROJECT.json; no specification uses     *)
(* them).                                                                  *)
(***************************************************************************)
\* processNotification is tried again after an error.
NotifyFailureRetries ==
    /\ main = "fail"
    /\ main' = "check"
    /\ UNCHANGED <<storageVars, notification, running, todo, failing, cancelled,
                   proxy, held, toFix, received>>

\* cancel() without wg.Wait().
CancelAtOnce ==
    /\ main = "waitRoutines"
    /\ cancelled' = TRUE
    /\ main' = "waitProxy"
    /\ UNCHANGED <<storageVars, notification, running, todo, failing, proxy, held,
                   toFix, received>>

\* No <-proxyDone.
ReturnAtOnce ==
    /\ main = "waitProxy"
    /\ main' = "receive"
    /\ UNCHANGED <<storageVars, notification, running, todo, failing, cancelled,
                   proxy, held, toFix, received>>

\* What Vacuum returns is dropped.
VacuumSilently ==
    /\ proxy = "vacuum"
    /\ Vacuum
    /\ toFix' = {}
    /\ proxy' = "fix"
    /\ UNCHANGED <<main, notification, running, todo, failing, cancelled, held,
                   received>>

-----------------------------------------------------------------------------
(***************************************************************************)
(* The goroutine of Start, with processNotification and analyze            *)
(***************************************************************************)
Receive(n) ==
    /\ main = "receive"
    /\ notification' = n
    /\ main' = IF HasError(n) THEN "notifyError" ELSE "check"
    /\ UNCHANGED <<storageVars, running, todo, failing, cancelled, proxy, held,
                   toFix, received>>

\* alerts <- NewInternalErrorAlert(n.Error()): straight to the reader, without
\* passing the storage.
NotifyError ==
    /\ main = "notifyError"
    /\ main' = "check"
    /\ UNCHANGED <<storageVars, notification, running, todo, failing, cancelled,
                   proxy, held, toFix, received>>

SkipNotification ==
    /\ main = "check"
    /\ NothingToAnalyze(notification)
    /\ main' = "receive"
    /\ UNCHANGED <<storageVars, notification, running, todo, failing, cancelled,
                   proxy, held, toFix, received>>

\* StatementsCount or ViewStatementsByTimestamp returns an error.
EventsStorageFails ==
    /\ main = "check"
    /\ ~ NothingToAnalyze(notification)
    /\ main' = "fail"
    /\ UNCHANGED <<storageVars, notification, running, todo, failing, cancelled,
                   proxy, held, toFix, received>>

\* alerts <- NewInternalErrorAlert("analyzer: failed to process notification")
NotifyFailure ==
    /\ main = "fail"
    /\ main' = "receive"
    /\ UNCHANGED <<storageVars, notification, running, todo, failing, cancelled,
                   proxy, held, toFix, received>>

\* The reports a round would make of an alert stay within the bound.
WithinBound(found, fail) ==
    \A a \in Alerts :
        detections[a] + Cardinality({r \in Routines : a \in found[r]})
            + (IF a = RoutineError THEN Cardinality(fail) ELSE 0) <= MaxDetections

\* Spawn the criterion routines and the proxy; found and fail say what the
\* criteria make of the statements.
StartRound(found, fail) ==
    /\ main = "check"
    /\ ~ NothingToAnalyze(notification)
    /\ WithinBound(found, fail)
    /\ main' = "waitRoutines"
    /\ running' = Routines
    /\ todo' = found
    /\ failing' = fail
    /\ cancelled' = FALSE
    /\ proxy' = "select"
    /\ UNCHANGED <<storageVars, notification, held, toFix, received>>

\* wg.Wait(); cancel()
WaitRoutines ==
    /\ main = "waitRoutines"
    /\ running = {}
    /\ cancelled' = TRUE
    /\ main' = "waitProxy"
    /\ UNCHANGED <<storageVars, notification, running, todo, failing, proxy, held,
                   toFix, received>>

\* <-proxyDone
WaitProxy ==
    /\ main = "waitProxy"
    /\ proxy = "done"
    /\ main' = "receive"
    /\ UNCHANGED <<storageVars, notification, running, todo, failing, cancelled,
                   proxy, held, toFix, received>>

\* The notifications channel is closed: the loop ends and closes alerts.
Close ==
    /\ main = "receive"
    /\ main' = "closed"
    /\ UNCHANGED <<storageVars, notification, running, todo, failing, cancelled,
                   proxy, held, toFix, received>>

-----------------------------------------------------------------------------
(***************************************************************************)
(* Criterion routines                                                      *)
(***************************************************************************)
\* criteriaOut <- a, received by the proxy.
RoutineSend(r, a) ==
    /\ r \in running
    /\ a \in todo[r]
    /\ proxy = "select"
    /\ todo' = [todo EXCEPT ![r] = @ \ {a}]
    /\ held' = a
    /\ proxy' = "put"
    /\ UNCHANGED <<storageVars, main, notification, running, failing, cancelled,
                   toFix, received>>

\* criteriaOut <- NewInternalErrorAlert(routineErr)
RoutineFail(r) ==
    /\ r \in running \cap failing
    /\ todo[r] = {}
    /\ proxy = "select"
    /\ failing' = failing \ {r}
    /\ held' = RoutineError
    /\ proxy' = "put"
    /\ UNCHANGED <<storageVars, main, notification, running, todo, cancelled,
                   toFix, received>>

\* defer wg.Done()
RoutineDone(r) ==
    /\ r \in running \ failing
    /\ todo[r] = {}
    /\ running' = running \ {r}
    /\ UNCHANGED <<storageVars, main, notification, todo, failing, cancelled,
                   proxy, held, toFix, received>>

-----------------------------------------------------------------------------
(***************************************************************************)
(* The proxy                                                               *)
(***************************************************************************)
ProxyPut ==
    /\ proxy = "put"
    /\ PutAlert(held)
    /\ proxy' = IF SendNow(held) THEN "send" ELSE "select"
    /\ UNCHANGED <<main, notification, running, todo, failing, cancelled, held,
                   toFix, received>>

\* alertsIn <- alert
ProxySend ==
    /\ proxy = "send"
    /\ received' = received \cup {held}
    /\ proxy' = "select"
    /\ UNCHANGED <<storageVars, main, notification, running, todo, failing,
                   cancelled, held, toFix>>

\* case <-ctx.Done()
ProxyStop ==
    /\ proxy = "select"
    /\ cancelled
    /\ proxy' = "vacuum"
    /\ UNCHANGED <<storageVars, main, notification, running, todo, failing,
                   cancelled, held, toFix, received>>

ProxyVacuum ==
    /\ proxy = "vacuum"
    /\ Vacuum
    /\ toFix' = AlertsFixed
    /\ proxy' = "fix"
    /\ UNCHANGED <<main, notification, running, todo, failing, cancelled, held,
                   received>>

\* alertsIn <- &entities.AlertFixed{...}
ProxySendFixed(a) ==
    /\ proxy = "fix"
    /\ a \in toFix
    /\ toFix' = toFix \ {a}
    /\ received' = received \ {a}
    /\ UNCHANGED <<storageVars, main, notification, running, todo, failing,
                   cancelled, proxy, held>>

\* close(proxyDone)
ProxyDone ==
    /\ proxy = "fix"
    /\ toFix = {}
    /\ proxy' = "done"
    /\ UNCHANGED <<storageVars, main, notification, running, todo, failing,
                   cancelled, held, toFix, received>>

-----------------------------------------------------------------------------
Terminated == main = "closed" /\ UNCHANGED vars

Rounds == {found \in [Routines -> SUBSET Alerts] :
             \A r \in Routines : found[r] \subseteq Finds[r]}

MainStep ==
    \/ NotifyError \/ SkipNotification \/ EventsStorageFails \/ NotifyFailure
    \/ \E found \in Rounds, fail \in SUBSET CanFail : StartRound(found, fail)
    \/ WaitRoutines \/ WaitProxy

RoutineStep(r) ==
    \/ \E a \in Alerts : RoutineSend(r, a)
    \/ RoutineFail(r)
    \/ RoutineDone(r)

ProxyStep ==
    \/ ProxyPut \/ ProxySend \/ ProxyStop \/ ProxyVacuum
    \/ \E a \in Alerts : ProxySendFixed(a)
    \/ ProxyDone

Next ==
    \/ \E n \in Notifications(Nodes) : Receive(n)
    \/ Close
    \/ MainStep
    \/ \E r \in Routines : RoutineStep(r)
    \/ ProxyStep
    \/ Terminated

Spec == Init /\ [][Next]_vars

\* Go runs every goroutine that can run, and the reader of the alerts channel
\* (FanIn, then the publisher's loop) always comes back for the next alert.
\* Nothing makes the scraper send another notification.
Fairness ==
    /\ WF_vars(MainStep)
    /\ \A r \in Routines : WF_vars(RoutineStep(r))
    /\ WF_vars(ProxyStep)

FairSpec == Spec /\ Fairness

-----------------------------------------------------------------------------
(***************************************************************************)
(* Properties                                                              *)
(***************************************************************************)
TypeOK ==
    /\ StorageTypeOK
    /\ main \in {"receive", "notifyError", "check", "fail", "waitRoutines",
                 "waitProxy", "closed"}
    /\ notification \in Notifications(Nodes)
    /\ running \subseteq Routines
    /\ todo \in [Routines -> SUBSET Alerts]
    /\ failing \subseteq Routines
    /\ cancelled \in BOOLEAN
    /\ proxy \in {"select", "put", "send", "vacuum", "fix", "done"}
    /\ held \in Alerts
    /\ toFix \subseteq Alerts
    /\ received \subseteq Alerts

\* Two rounds never overlap: a proxy has vacuumed the storage and sent the
\* last fixed alert before the next notification is looked at, so the storage
\* is never used by two proxies ("prevent data race condition",
\* analyzer.go 85-89 and 106-117).
RoundsDisjoint ==
    main \in {"receive", "notifyError", "check", "fail", "closed"} =>
        proxy = "done" /\ toFix = {}

\* A round's vacuum sees all of its reports: when the proxy leaves its loop no
\* routine has anything left to send, so no routine is left blocked on
\* criteriaOut and no alert is aged in a round that reported it
\* (analyzer.go 85-89 and 118-128).
NoReportLost ==
    proxy \in {"vacuum", "fix", "done"} =>
        running = {} /\ failing = {} /\ \A r \in Routines : todo[r] = {}

\* Between rounds the reader of the alerts channel takes exactly the alerts to
\* be open that were reported often enough and recently enough: it missed no
\* announcement and no fix (analyzer.go 104-129).
ReaderUpToDate == main = "receive" /\ alertVacuumQuota > 1 =>
    received = {a \in Alerts : detections[a] >= FirstSend(a)}

\* A notification is skipped only when "nothing to analyze" (analyzer.go 218)
\* was gathered.  NodesGatheringWithError makes this false: its NodesCount
\* drops the count of the notification it wraps (notifications.go 85-90).
OnlyEmptyRoundsSkipped ==
    [][SkipNotification => notification.nodes = {}]_vars

\* Every notification is dealt with: the analyzer comes back for the next one
\* (analyzer.go 196-231).
EveryNotificationHandled == (main # "receive") ~> (main \in {"receive", "closed"})

\* If rounds keep coming, the reader is eventually told that an alert is fixed
\* for good, unless it keeps being reported (analyzer.go 106-117).
FixedReachesReader ==
    []<>(proxy = "vacuum") =>
        \A a \in Alerts : []<>(quiet[a] = 0) \/ <>[](a \notin received)

-----------------------------------------------------------------------------
(***************************************************************************)
(* What the reader of the alerts channel is promised                       *)
(***************************************************************************)
Feed == INSTANCE AlertFeed WITH
            Quota <- alertVacuumQuota,
            Needed <- [a \in Alerts |-> FirstSend(a)],
            open <- received,
            reports <- detections,
            silent <- quiet

\* The analyzer keeps the promise: alerts are announced only in the round that
\* reports them and once confirmed, and are reported as fixed only when open
\* and silent for the whole quota, before the next round reports anything
\* (analyzer.go 69-131).
KeepsFeed == Feed!Spec
=============================================================================
