-------------------------- MODULE MCAlertsStorage --------------------------
(***************************************************************************)
(* Three alerts of the analyzer: one that is sent at once (unreachable     *)
(* node), a height alert that needs two reports, and one that needs three  *)
(* as the collector error of the L2 analyzer does.                         *)
(***************************************************************************)
EXTENDS AlertsStorage

CONSTANTS unreachable, height, simple, \* alerts; their types have their names
          MaxDetections                \* reports of one alert in one episode

MCAlerts == {unreachable, height, simple}

MCTypeOf == [a \in MCAlerts |-> a]

MCRequiredConfirmations ==
    [t \in {height, simple} |-> IF t = height THEN 2 ELSE 3]

\* The counters are bounded by bounding the reports of an episode.
MCPut(a) == detections[a] < MaxDetections /\ PutAlert(a)

MCNext == Vacuum \/ \E a \in Alerts : MCPut(a)

\* Vacuum runs at the end of every polling round.
MCSpec == StorageInit /\ [][MCNext]_storageVars /\ WF_storageVars(Vacuum)

\* An alert that is not reported for ever is eventually closed for good or
\* reported again and again: no alert stays open because an entry is lost,
\* provided the caller keeps vacuuming (alerts_storage.go 146-161).
ClosedEventually ==
    \A a \in Alerts : []<>(quiet[a] = 0) \/ <>[](a \notin Open)
=============================================================================
