--------------------------- MODULE AlertsStorage ---------------------------
(***************************************************************************)
(* The alert storage of pkg/analysis/storage/alerts_storage.go: the map    *)
(* that decides which detections of an alert reach the people watching the *)
(* nodes (confirmation, then exponential backoff) and when an alert counts *)
(* as fixed (vacuum).  The analyzer owns one storage, and so does every L2 *)
(* analyzer.                                                               *)
(*                                                                         *)
(* internalStorage is the code's map.  The other three variables record    *)
(* what a caller can see, independently of the map: how often it reported  *)
(* an alert, how often it was told to forward it, and how many vacuums     *)
(* have passed since its last report.                                      *)
(***************************************************************************)
EXTENDS Integers

CONSTANTS
    Alerts,                \* alert identities: the digests returned by ID()
    TypeOf,                \* TypeOf[a] is the alert's type
    requiredConfirmations, \* partial function from types to a number of reports
    alertBackoff,
    alertVacuumQuota

ASSUME ConfirmationsAssumption ==
    /\ DOMAIN TypeOf = Alerts
    /\ \A t \in DOMAIN requiredConfirmations : requiredConfirmations[t] \in Nat

ASSUME BackoffAssumption == alertBackoff \in Nat \ {0}

ASSUME QuotaAssumption == alertVacuumQuota \in Nat

VARIABLES
    internalStorage, \* partial function from Alerts to AlertInfo
    detections,      \* reports of an alert since it was last forgotten
    announced,       \* of these, how many the caller was told to forward,
                     \* 0 once the alert is reported as fixed
    quiet            \* vacuums since the last report, at most alertVacuumQuota

storageVars == <<internalStorage, detections, announced, quiet>>

AlertInfo == [vacuumQuota : 1..alertVacuumQuota, repeats : Nat \ {0},
              backoffThreshold : Nat, confirmed : BOOLEAN]

\* A missing key reads as Go's zero value.
ZeroInfo == [vacuumQuota |-> 0, repeats |-> 0, backoffThreshold |-> 0,
             confirmed |-> FALSE]

Lookup(a) ==
    IF a \in DOMAIN internalStorage THEN internalStorage[a] ELSE ZeroInfo

RequiredConfirmations(a) ==
    IF TypeOf[a] \in DOMAIN requiredConfirmations
    THEN requiredConfirmations[TypeOf[a]] ELSE 0

StorageInit ==
    /\ internalStorage = [a \in {} |-> ZeroInfo]
    /\ detections = [a \in Alerts |-> 0]
    /\ announced = [a \in Alerts |-> 0]
    /\ quiet = [a \in Alerts |-> alertVacuumQuota]

-----------------------------------------------------------------------------
(***************************************************************************)
(* Seeded errors (mutants named in PROJECT.json; no specification uses     *)
(* them).                                                                  *)
(***************************************************************************)
\* Counts the reports before this one.
ConfirmsLate(a) ==
    /\ ~ Lookup(a).confirmed
    /\ Lookup(a).repeats >= RequiredConfirmations(a)

\* ">=" for ">".
ExceedsBackoffEarly(a) ==
    /\ Lookup(a).confirmed
    /\ Lookup(a).repeats + 1 >= Lookup(a).backoffThreshold

\* Holds back one report more.
ExceedsBackoffLate(a) ==
    /\ Lookup(a).confirmed
    /\ Lookup(a).repeats > Lookup(a).backoffThreshold

\* A report that is held back does not refresh the quota.
HeldWithoutRefresh(a) == [Lookup(a) EXCEPT !.repeats = @ + 1]

\* Drops an entry one vacuum early.
ExhaustedEarly == {a \in DOMAIN internalStorage :
                     internalStorage[a].vacuumQuota - 1 <= 1}

\* The entry is deleted before it is looked at.
FixedUnconfirmed == {a \in DOMAIN internalStorage :
                       /\ internalStorage[a].vacuumQuota - 1 <= 0
                       /\ ~ internalStorage[a].confirmed}

-----------------------------------------------------------------------------
(***************************************************************************)
(* PutAlert                                                                *)
(***************************************************************************)
\* Not yet confirmed, and this report is the last confirmation needed.
Confirms(a) ==
    /\ ~ Lookup(a).confirmed
    /\ Lookup(a).repeats + 1 >= RequiredConfirmations(a)

\* Confirmed earlier, and this report exceeds the backoff.
ExceedsBackoff(a) ==
    /\ Lookup(a).confirmed
    /\ Lookup(a).repeats + 1 > Lookup(a).backoffThreshold

\* What PutAlert(a) returns.
SendNow(a) == alertVacuumQuota <= 1 \/ Confirms(a) \/ ExceedsBackoff(a)

\* The entry PutAlert(a) leaves in the map when it returns true ...
InfoSent(a) ==
    [vacuumQuota      |-> alertVacuumQuota,
     repeats          |-> 1,
     backoffThreshold |-> IF Confirms(a) THEN alertBackoff
                          ELSE alertBackoff * Lookup(a).backoffThreshold,
     confirmed        |-> TRUE]

\* ... and when it returns false.
InfoHeld(a) ==
    [vacuumQuota      |-> alertVacuumQuota,
     repeats          |-> Lookup(a).repeats + 1,
     backoffThreshold |-> Lookup(a).backoffThreshold,
     confirmed        |-> Lookup(a).confirmed]

PutAlert(a) ==
    /\ internalStorage' =
         IF alertVacuumQuota <= 1
         THEN internalStorage
         ELSE [x \in DOMAIN internalStorage \cup {a} |->
                 IF x # a THEN internalStorage[x]
                 ELSE IF SendNow(a) THEN InfoSent(a) ELSE InfoHeld(a)]
    /\ detections' = [detections EXCEPT ![a] = @ + 1]
    /\ announced' = IF SendNow(a) THEN [announced EXCEPT ![a] = @ + 1]
                    ELSE announced
    /\ quiet' = [quiet EXCEPT ![a] = 0]

-----------------------------------------------------------------------------
(***************************************************************************)
(* Vacuum                                                                  *)
(***************************************************************************)
\* The entries that do not outlive this vacuum.
Exhausted == {a \in DOMAIN internalStorage :
                internalStorage[a].vacuumQuota - 1 <= 0}

\* What Vacuum returns; the code's order is the map's, so any.
AlertsFixed == {a \in Exhausted : internalStorage[a].confirmed}

NextQuiet(a) == IF quiet[a] < alertVacuumQuota THEN quiet[a] + 1 ELSE quiet[a]

Vacuum ==
    /\ internalStorage' = [a \in DOMAIN internalStorage \ Exhausted |->
                             [internalStorage[a] EXCEPT !.vacuumQuota = @ - 1]]
    /\ announced' = [a \in Alerts |-> IF a \in AlertsFixed THEN 0
                                      ELSE announced[a]]
    /\ quiet' = [a \in Alerts |-> NextQuiet(a)]
    /\ detections' = [a \in Alerts |->
                        IF NextQuiet(a) = alertVacuumQuota THEN 0
                        ELSE detections[a]]

StorageNext == Vacuum \/ \E a \in Alerts : PutAlert(a)

StorageSpec == StorageInit /\ [][StorageNext]_storageVars

-----------------------------------------------------------------------------
(***************************************************************************)
(* Properties                                                              *)
(***************************************************************************)
StorageTypeOK ==
    /\ DOMAIN internalStorage \subseteq Alerts
    /\ internalStorage \in [DOMAIN internalStorage -> AlertInfo]
    /\ detections \in [Alerts -> Nat]
    /\ announced \in [Alerts -> Nat]
    /\ quiet \in [Alerts -> 0..alertVacuumQuota]

\* Alerts the caller was told to forward and not yet told are fixed.
Open == {a \in Alerts : announced[a] > 0}

\* The report of an alert that is the first to be forwarded.
FirstSend(a) == IF RequiredConfirmations(a) = 0 THEN 1
                ELSE RequiredConfirmations(a)

\* An alert is open exactly while it has been reported often enough without
\* alertVacuumQuota vacuums passing between two reports: PutAlert forgets no
\* confirmation, and Vacuum closes every alert it forgets (alerts_storage.go
\* 115-124 and 151-155).
OpenWhenConfirmed ==
    alertVacuumQuota > 1 =>
        \A a \in Alerts : a \in Open <=> detections[a] >= FirstSend(a)

\* An entry lives exactly alertVacuumQuota vacuums after its last report, so
\* the map never holds an alert nobody reports any more and never drops one
\* that is still reported (alerts_storage.go 117, 127, 137 and 150-158).
StoredWhileRecent ==
    alertVacuumQuota > 1 =>
        \A a \in Alerts :
            /\ a \in DOMAIN internalStorage <=> quiet[a] < alertVacuumQuota
            /\ a \in DOMAIN internalStorage =>
                 internalStorage[a].vacuumQuota = alertVacuumQuota - quiet[a]

\* AnnouncementAt[n] is the report, counted from the confirming one, that is
\* forwarded as the n-th: 1, 1 + b, 1 + b + b^2, ... for backoff b.
AnnouncementAt[n \in Nat] ==
    IF n = 0 THEN 0 ELSE 1 + alertBackoff * AnnouncementAt[n - 1]

\* Backoff is exactly exponential: of the reports of an open alert the ones
\* numbered AnnouncementAt[1], AnnouncementAt[2], ... are forwarded and no
\* other, whatever vacuums happen in between (alerts_storage.go 115-142).
AnnouncedOnSchedule ==
    alertVacuumQuota > 1 =>
        \A a \in Open :
            LET n == detections[a] - FirstSend(a) + 1 IN
                /\ AnnouncementAt[announced[a]] <= n
                /\ n < AnnouncementAt[announced[a] + 1]

\* Backoff never silences a lasting alert: the reports held back since the
\* last forwarded one (repeats - 1) stay below the threshold, which grows only
\* linearly with the reports made before it (alerts_storage.go 125-142).
SilenceBounded ==
    alertVacuumQuota > 1 =>
        \A a \in Open :
            LET held == internalStorage[a].repeats - 1
                n    == detections[a] - FirstSend(a) + 1
            IN  /\ 0 <= held
                /\ held <= (alertBackoff - 1) * (n - held)

\* An open alert is reported as fixed by the vacuum that makes it quiet for
\* alertVacuumQuota vacuums and by no other step, so "fixed" is never said of
\* an alert reported since (alerts_storage.go 146-161).
FixedExactlyWhenQuiet ==
    [][alertVacuumQuota > 1 =>
         \A a \in Open : a \notin Open' <=> quiet'[a] = alertVacuumQuota]_storageVars
=============================================================================
