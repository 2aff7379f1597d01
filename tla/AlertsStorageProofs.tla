------------------------ MODULE AlertsStorageProofs ------------------------
(***************************************************************************)
(* Proofs about the alert storage, for every set of alerts, every table of *)
(* confirmations, every backoff and every vacuum quota.                    *)
(*                                                                         *)
(* The invariants of AlertsStorage speak of what a caller sees; none is    *)
(* inductive alone.  StorageInv ties each entry of the map to the caller's *)
(* history: its remaining quota to the vacuums since the last report, its  *)
(* repeats to the reports, its threshold to the reports up to the last one *)
(* forwarded.                                                              *)
(***************************************************************************)
EXTENDS AlertsStorage, WellFoundedInduction, TLAPS

Absent(a) == quiet[a] = alertVacuumQuota /\ detections[a] = 0 /\ announced[a] = 0

Unconfirmed(a) ==
    /\ announced[a] = 0
    /\ detections[a] = internalStorage[a].repeats
    /\ detections[a] < RequiredConfirmations(a)

\* With held = repeats - 1 reports held back since the last one forwarded,
\* the threshold is 1 + (b - 1) * (reports up to the last one forwarded).
ClosedForm(a, r, t) ==
    t - 1 = (alertBackoff - 1) * (detections[a] - FirstSend(a) + 2 - r)

Confirmed(a) ==
    /\ announced[a] > 0
    /\ detections[a] >= FirstSend(a)
    /\ internalStorage[a].repeats <= internalStorage[a].backoffThreshold
    /\ ClosedForm(a, internalStorage[a].repeats,
                     internalStorage[a].backoffThreshold)

EntryInv(a) ==
    /\ a \notin DOMAIN internalStorage => Absent(a)
    /\ a \in DOMAIN internalStorage =>
         /\ quiet[a] < alertVacuumQuota
         /\ internalStorage[a].vacuumQuota = alertVacuumQuota - quiet[a]
         /\ IF internalStorage[a].confirmed THEN Confirmed(a) ELSE Unconfirmed(a)

StorageInv == alertVacuumQuota > 1 => \A a \in Alerts : EntryInv(a)

IInv == StorageTypeOK /\ StorageInv

USE ConfirmationsAssumption, BackoffAssumption, QuotaAssumption

-----------------------------------------------------------------------------
(***************************************************************************)
(* Arithmetic and lookups                                                  *)
(***************************************************************************)
\* The threshold keeps its closed form when a report is forwarded.
LEMMA NextThreshold ==
    ASSUME NEW b \in Nat \ {0}, NEW m \in Int, NEW t \in Nat,
           t - 1 = (b - 1) * (m - t)
    PROVE  b * t - 1 = (b - 1) * m
<1>1. (b - 1) * (m - t) = (b - 1) * m - (b - 1) * t
  OBVIOUS
<1>2. (b - 1) * t = b * t - t
  OBVIOUS
<1>3. b * t \in Int /\ (b - 1) * m \in Int /\ (b - 1) * t \in Int
  OBVIOUS
<1> QED
  BY <1>1, <1>2, <1>3

LEMMA ProductNat ==
    ASSUME NEW b \in Nat, NEW t \in Nat
    PROVE  b * t \in Nat
  OBVIOUS

\* Confirmations are natural numbers, and at least one report is needed.
LEMMA ConfirmationsType ==
    ASSUME NEW a \in Alerts
    PROVE  /\ RequiredConfirmations(a) \in Nat
           /\ FirstSend(a) \in Nat \ {0}
           /\ RequiredConfirmations(a) <= FirstSend(a)
           /\ RequiredConfirmations(a) > 0 => FirstSend(a) = RequiredConfirmations(a)
           /\ RequiredConfirmations(a) = 0 => FirstSend(a) = 1
  BY DEF RequiredConfirmations, FirstSend

\* Reading the map gives an entry or Go's zero value.
LEMMA LookupType ==
    ASSUME StorageTypeOK, NEW a \in Alerts
    PROVE  /\ Lookup(a) \in [vacuumQuota : 0..alertVacuumQuota, repeats : Nat,
                             backoffThreshold : Nat, confirmed : BOOLEAN]
           /\ a \in DOMAIN internalStorage =>
                Lookup(a) = internalStorage[a] /\ internalStorage[a] \in AlertInfo
           /\ a \notin DOMAIN internalStorage =>
                Lookup(a) = ZeroInfo
  BY DEF StorageTypeOK, Lookup, ZeroInfo, AlertInfo

-----------------------------------------------------------------------------
(***************************************************************************)
(* Type correctness                                                        *)
(***************************************************************************)
LEMMA EntryTypes ==
    ASSUME StorageTypeOK, NEW a \in Alerts, alertVacuumQuota > 1
    PROVE  InfoSent(a) \in AlertInfo /\ InfoHeld(a) \in AlertInfo
<1>1. alertBackoff * Lookup(a).backoffThreshold \in Nat
  BY LookupType, ProductNat
<1>2. InfoSent(a) \in AlertInfo
  BY <1>1 DEF InfoSent, AlertInfo
<1>3. InfoHeld(a) \in AlertInfo
  BY LookupType DEF InfoHeld, AlertInfo
<1> QED
  BY <1>2, <1>3

LEMMA TypePut ==
    ASSUME StorageTypeOK, NEW a \in Alerts, PutAlert(a)
    PROVE  StorageTypeOK'
<1>1. /\ detections' \in [Alerts -> Nat]
      /\ announced' \in [Alerts -> Nat]
      /\ quiet' \in [Alerts -> 0..alertVacuumQuota]
  BY DEF StorageTypeOK, PutAlert
<1>2. CASE alertVacuumQuota <= 1
  BY <1>1, <1>2 DEF StorageTypeOK, PutAlert
<1>3. CASE alertVacuumQuota > 1
  BY <1>1, <1>3, EntryTypes DEF StorageTypeOK, PutAlert
<1> QED
  BY <1>2, <1>3

LEMMA TypeVacuum ==
    ASSUME StorageTypeOK, Vacuum
    PROVE  StorageTypeOK'
<1>1. /\ detections' \in [Alerts -> Nat]
      /\ announced' \in [Alerts -> Nat]
      /\ quiet' \in [Alerts -> 0..alertVacuumQuota]
  BY DEF StorageTypeOK, Vacuum, NextQuiet
<1>2. ASSUME NEW a \in DOMAIN internalStorage \ Exhausted
      PROVE  [internalStorage[a] EXCEPT !.vacuumQuota = @ - 1] \in AlertInfo
  BY <1>2 DEF StorageTypeOK, Exhausted, AlertInfo
<1> QED
  BY <1>1, <1>2 DEF StorageTypeOK, Vacuum

\* The storage keeps its types, and an entry's quota stays within
\* 1..alertVacuumQuota (alerts_storage.go 96-161).
THEOREM TypeCorrect == StorageSpec => []StorageTypeOK
<1>1. StorageInit => StorageTypeOK
  BY DEF StorageInit, StorageTypeOK, AlertInfo
<1>2. StorageTypeOK /\ [StorageNext]_storageVars => StorageTypeOK'
  <2> SUFFICES ASSUME StorageTypeOK, [StorageNext]_storageVars
               PROVE  StorageTypeOK'
    OBVIOUS
  <2>1. CASE UNCHANGED storageVars
    BY <2>1 DEF StorageTypeOK, storageVars
  <2>2. CASE Vacuum
    BY <2>2, TypeVacuum
  <2>3. CASE \E a \in Alerts : PutAlert(a)
    BY <2>3, TypePut
  <2> QED
    BY <2>1, <2>2, <2>3 DEF StorageNext
<1> QED
  BY <1>1, <1>2, PTL DEF StorageSpec

-----------------------------------------------------------------------------
(***************************************************************************)
(* The inductive invariant                                                 *)
(***************************************************************************)
\* A report leaves the entry of every other alert, and what its caller saw
\* of it, alone.
LEMMA PutOthers ==
    ASSUME StorageTypeOK, alertVacuumQuota > 1, NEW a \in Alerts, PutAlert(a),
           NEW x \in Alerts, x # a, EntryInv(x)
    PROVE  EntryInv(x)'
<1>1. /\ x \in DOMAIN internalStorage' <=> x \in DOMAIN internalStorage
      /\ x \in DOMAIN internalStorage => internalStorage'[x] = internalStorage[x]
      /\ detections'[x] = detections[x]
      /\ announced'[x] = announced[x]
      /\ quiet'[x] = quiet[x]
  BY DEF PutAlert, StorageTypeOK
<1> QED
  BY <1>1 DEF EntryInv, Absent, Unconfirmed, Confirmed, ClosedForm,
              RequiredConfirmations, FirstSend

\* A report of a itself: first the state it leaves, then one step per outcome
\* of PutAlert.
LEMMA PutSelf ==
    ASSUME StorageTypeOK, alertVacuumQuota > 1, NEW a \in Alerts, PutAlert(a),
           EntryInv(a)
    PROVE  EntryInv(a)'
<1> DEFINE old == Lookup(a)
           new == IF SendNow(a) THEN InfoSent(a) ELSE InfoHeld(a)
           F   == FirstSend(a)
<1>1. /\ a \in DOMAIN internalStorage'
      /\ internalStorage'[a] = new
      /\ detections'[a] = detections[a] + 1
      /\ announced'[a] = IF SendNow(a) THEN announced[a] + 1 ELSE announced[a]
      /\ quiet'[a] = 0
  BY DEF PutAlert, StorageTypeOK
<1>2. /\ detections[a] \in Nat /\ announced[a] \in Nat
      /\ old.repeats \in Nat /\ old.backoffThreshold \in Nat
      /\ old.confirmed \in BOOLEAN
  BY LookupType DEF StorageTypeOK
<1>3. new.vacuumQuota = alertVacuumQuota
  BY DEF InfoSent, InfoHeld
<1>4. /\ ~ old.confirmed => /\ announced[a] = 0
                            /\ detections[a] = old.repeats
                            /\ detections[a] < F
      /\ old.confirmed => /\ announced[a] > 0
                          /\ detections[a] >= F
                          /\ old.repeats <= old.backoffThreshold
                          /\ ClosedForm(a, old.repeats, old.backoffThreshold)
  <2>1. CASE a \in DOMAIN internalStorage
    <3>1. old = internalStorage[a]
      BY <2>1, LookupType
    <3> QED
      BY <2>1, <3>1, <1>2, ConfirmationsType DEF EntryInv, Confirmed, Unconfirmed
  <2>2. CASE a \notin DOMAIN internalStorage
    <3>1. old = ZeroInfo
      BY <2>2, LookupType
    <3> QED
      BY <2>2, <3>1, ConfirmationsType DEF EntryInv, Absent, ZeroInfo
  <2> QED
    BY <2>1, <2>2
<1>5. F \in Nat \ {0} /\ RequiredConfirmations(a) \in Nat
  BY ConfirmationsType
<1>6. FirstSend(a)' = F /\ RequiredConfirmations(a)' = RequiredConfirmations(a)
  BY DEF FirstSend, RequiredConfirmations
<1> HIDE DEF old, new, F
<1>7. CASE Confirms(a)
  <2>1. SendNow(a) /\ new = InfoSent(a) /\ ~ old.confirmed
    BY <1>7 DEF SendNow, Confirms, old, new
  <2>2. new.confirmed /\ new.repeats = 1 /\ new.backoffThreshold = alertBackoff
    BY <1>7, <2>1 DEF InfoSent
  <2>3. detections'[a] = F
    BY <1>1, <1>2, <1>4, <1>5, <1>7, <2>1, ConfirmationsType DEF Confirms, F, old
  <2>4. alertBackoff - 1 = (alertBackoff - 1) * (detections'[a] - F + 2 - 1)
    BY <2>3, <1>5
  <2>5. /\ announced'[a] > 0 /\ detections'[a] >= F
        /\ internalStorage'[a].repeats <= internalStorage'[a].backoffThreshold
    BY <1>1, <1>2, <1>4, <1>5, <2>1, <2>2, <2>3
  <2>6. ClosedForm(a, internalStorage[a].repeats,
                      internalStorage[a].backoffThreshold)'
    BY <1>1, <1>6, <2>2, <2>4 DEF ClosedForm, F
  <2>7. Confirmed(a)'
    BY <1>6, <2>5, <2>6 DEF Confirmed, F
  <2> QED
    BY <1>1, <1>3, <2>2, <2>7 DEF EntryInv
<1>8. CASE ExceedsBackoff(a)
  <2>1. SendNow(a) /\ new = InfoSent(a) /\ old.confirmed /\ ~ Confirms(a)
    BY <1>8 DEF SendNow, Confirms, ExceedsBackoff, old, new
  <2>2. /\ new.confirmed /\ new.repeats = 1
        /\ new.backoffThreshold = alertBackoff * old.backoffThreshold
    BY <2>1 DEF InfoSent, old
  <2>3. old.repeats = old.backoffThreshold
    BY <1>2, <1>4, <1>8, <2>1 DEF ExceedsBackoff, old
  <2>4. old.backoffThreshold - 1 =
          (alertBackoff - 1) * ((detections[a] - F + 2) - old.backoffThreshold)
    <3>1. ClosedForm(a, old.backoffThreshold, old.backoffThreshold)
      BY <1>4, <2>1, <2>3
    <3> QED
      BY <3>1, <1>2, <1>5 DEF ClosedForm, F
  <2>5. alertBackoff * old.backoffThreshold - 1 =
          (alertBackoff - 1) * (detections[a] - F + 2)
    BY <1>2, <1>5, <2>4, NextThreshold
  <2>6. alertBackoff * old.backoffThreshold >= 1
    <3>1. (alertBackoff - 1) \in Nat /\ (detections[a] - F + 2) \in Nat
      BY <1>2, <1>4, <1>5, <2>1
    <3>2. (alertBackoff - 1) * (detections[a] - F + 2) \in Nat
      BY <3>1, ProductNat
    <3>3. alertBackoff * old.backoffThreshold \in Nat
      BY <1>2, ProductNat
    <3> QED
      BY <2>5, <3>2, <3>3
  <2>7. detections'[a] - F + 2 - 1 = detections[a] - F + 2
    BY <1>1, <1>2, <1>5
  <2>8. Confirmed(a)'
    BY <1>1, <1>2, <1>4, <1>5, <1>6, <2>1, <2>2, <2>5, <2>6, <2>7
    DEF Confirmed, ClosedForm, F
  <2> QED
    BY <1>1, <1>3, <2>2, <2>8 DEF EntryInv
<1>9. CASE ~ Confirms(a) /\ ~ ExceedsBackoff(a)
  <2>1. ~ SendNow(a) /\ new = InfoHeld(a)
    BY <1>9 DEF SendNow, new
  <2>2. /\ new.confirmed = old.confirmed /\ new.repeats = old.repeats + 1
        /\ new.backoffThreshold = old.backoffThreshold
    BY <2>1 DEF InfoHeld, old
  <2>3. CASE old.confirmed
    <3>1. old.repeats + 1 <= old.backoffThreshold
      BY <1>2, <1>9, <2>3 DEF ExceedsBackoff, old
    <3>2. detections'[a] - F + 2 - (old.repeats + 1) = detections[a] - F + 2 - old.repeats
      BY <1>1, <1>2, <1>5
    <3>3. Confirmed(a)'
      BY <1>1, <1>2, <1>4, <1>5, <1>6, <2>1, <2>2, <2>3, <3>1, <3>2
      DEF Confirmed, ClosedForm, F
    <3> QED
      BY <1>1, <1>3, <2>2, <2>3, <3>3 DEF EntryInv
  <2>4. CASE ~ old.confirmed
    <3>1. old.repeats + 1 < RequiredConfirmations(a)
      BY <1>2, <1>5, <1>9, <2>4 DEF Confirms, old
    <3>2. Unconfirmed(a)'
      BY <1>1, <1>2, <1>4, <1>6, <2>1, <2>2, <2>4, <3>1 DEF Unconfirmed
    <3> QED
      BY <1>1, <1>3, <2>2, <2>4, <3>2 DEF EntryInv
  <2> QED
    BY <1>2, <2>3, <2>4
<1> QED
  BY <1>7, <1>8, <1>9

\* A vacuum takes one unit of quota from an entry, or removes it together with
\* everything the caller's history says about it.
LEMMA VacuumEntry ==
    ASSUME StorageTypeOK, alertVacuumQuota > 1, Vacuum,
           NEW a \in Alerts, EntryInv(a)
    PROVE  EntryInv(a)'
<1>1. /\ detections[a] \in Nat /\ announced[a] \in Nat
      /\ quiet[a] \in 0..alertVacuumQuota
      /\ quiet'[a] = NextQuiet(a)
      /\ detections'[a] = IF NextQuiet(a) = alertVacuumQuota THEN 0 ELSE detections[a]
      /\ announced'[a] = IF a \in AlertsFixed THEN 0 ELSE announced[a]
  BY DEF StorageTypeOK, Vacuum
<1>2. CASE a \notin DOMAIN internalStorage
  BY <1>1, <1>2 DEF EntryInv, Absent, NextQuiet, Vacuum, AlertsFixed, Exhausted
<1>3. CASE a \in Exhausted
  <2>1. a \in DOMAIN internalStorage /\ a \notin DOMAIN internalStorage'
    BY <1>3 DEF Exhausted, Vacuum
  <2>2. NextQuiet(a) = alertVacuumQuota
    BY <1>1, <1>3, <2>1 DEF EntryInv, Exhausted, NextQuiet
  <2>3. announced'[a] = 0
    BY <1>1, <1>3, <2>1 DEF EntryInv, AlertsFixed, Unconfirmed
  <2> QED
    BY <1>1, <2>1, <2>2, <2>3 DEF EntryInv, Absent
<1>4. CASE a \in DOMAIN internalStorage \ Exhausted
  <2>1. /\ a \in DOMAIN internalStorage'
        /\ internalStorage'[a] =
             [internalStorage[a] EXCEPT !.vacuumQuota = @ - 1]
    BY <1>4 DEF Vacuum
  <2>2. internalStorage[a] \in AlertInfo
    BY <1>4 DEF StorageTypeOK
  <2>3. /\ internalStorage'[a].repeats = internalStorage[a].repeats
        /\ internalStorage'[a].backoffThreshold = internalStorage[a].backoffThreshold
        /\ internalStorage'[a].confirmed = internalStorage[a].confirmed
        /\ internalStorage'[a].vacuumQuota = internalStorage[a].vacuumQuota - 1
    BY <2>1, <2>2 DEF AlertInfo
  <2>4. /\ quiet[a] < alertVacuumQuota
        /\ internalStorage[a].vacuumQuota = alertVacuumQuota - quiet[a]
        /\ internalStorage[a].vacuumQuota > 1
    BY <1>1, <1>4, <2>2 DEF EntryInv, Exhausted, AlertInfo
  <2>5. quiet'[a] = quiet[a] + 1 /\ quiet'[a] < alertVacuumQuota
    BY <1>1, <2>4 DEF NextQuiet
  <2>6. detections'[a] = detections[a] /\ announced'[a] = announced[a]
    BY <1>1, <1>4, <2>5 DEF AlertsFixed
  <2>7. internalStorage'[a].vacuumQuota = alertVacuumQuota - quiet'[a]
    BY <1>1, <2>3, <2>4, <2>5
  <2>8. /\ Confirmed(a) => Confirmed(a)'
        /\ Unconfirmed(a) => Unconfirmed(a)'
    BY <2>3, <2>6 DEF Confirmed, Unconfirmed, ClosedForm, FirstSend,
                      RequiredConfirmations
  <2> QED
    BY <1>4, <2>1, <2>3, <2>5, <2>7, <2>8 DEF EntryInv
<1> QED
  BY <1>2, <1>3, <1>4 DEF Exhausted

\* The invariant holds initially and every step of the storage keeps it.
THEOREM InvariantInit == StorageInit => IInv
  BY DEF StorageInit, IInv, StorageTypeOK, AlertInfo, StorageInv, EntryInv, Absent

THEOREM InvariantStep == IInv /\ [StorageNext]_storageVars => IInv'
<1> SUFFICES ASSUME IInv, [StorageNext]_storageVars
             PROVE  IInv'
  OBVIOUS
<1> USE DEF IInv
<1>1. CASE UNCHANGED storageVars
  BY <1>1 DEF storageVars, StorageTypeOK, StorageInv, EntryInv, Absent, Confirmed,
              Unconfirmed, ClosedForm, FirstSend, RequiredConfirmations
<1>2. CASE Vacuum
  BY <1>2, TypeVacuum, VacuumEntry DEF StorageInv
<1>3. ASSUME NEW a \in Alerts, PutAlert(a)
      PROVE  IInv'
  <2>1. ASSUME NEW x \in Alerts, alertVacuumQuota > 1
        PROVE  EntryInv(x)'
    <3>1. CASE x = a
      BY <1>3, <2>1, <3>1, PutSelf DEF StorageInv
    <3>2. CASE x # a
      BY <1>3, <2>1, <3>2, PutOthers DEF StorageInv
    <3> QED
      BY <3>1, <3>2
  <2> QED
    BY <1>3, <2>1, TypePut DEF StorageInv
<1> QED
  BY <1>1, <1>2, <1>3 DEF StorageNext

\* The map and the caller's history agree in every reachable state.
THEOREM Invariant == StorageSpec => []IInv
  BY InvariantInit, InvariantStep, PTL DEF StorageSpec

-----------------------------------------------------------------------------
(***************************************************************************)
(* The properties the runs check                                           *)
(***************************************************************************)
LEMMA InvImpliesOpen == IInv => OpenWhenConfirmed
<1> SUFFICES ASSUME IInv, alertVacuumQuota > 1, NEW a \in Alerts
             PROVE  a \in Open <=> detections[a] >= FirstSend(a)
  BY DEF OpenWhenConfirmed
<1>1. /\ EntryInv(a)
      /\ detections[a] \in Nat /\ announced[a] \in Nat
      /\ a \in DOMAIN internalStorage => internalStorage[a].confirmed \in BOOLEAN
  BY DEF IInv, StorageInv, StorageTypeOK, AlertInfo
<1> QED
  BY <1>1, ConfirmationsType DEF EntryInv, Absent, Confirmed, Unconfirmed, Open

LEMMA InvImpliesStored == IInv => StoredWhileRecent
<1> SUFFICES ASSUME IInv, alertVacuumQuota > 1, NEW a \in Alerts
             PROVE  /\ a \in DOMAIN internalStorage <=> quiet[a] < alertVacuumQuota
                    /\ a \in DOMAIN internalStorage =>
                         internalStorage[a].vacuumQuota = alertVacuumQuota - quiet[a]
  BY DEF StoredWhileRecent
<1> QED
  BY DEF IInv, StorageInv, EntryInv, Absent

\* Being open means being stored as confirmed.
LEMMA OpenEntry ==
    ASSUME IInv, alertVacuumQuota > 1, NEW a \in Open
    PROVE  /\ a \in DOMAIN internalStorage
           /\ internalStorage[a] \in AlertInfo
           /\ internalStorage[a].confirmed
           /\ Confirmed(a)
           /\ quiet[a] < alertVacuumQuota
           /\ internalStorage[a].vacuumQuota = alertVacuumQuota - quiet[a]
<1>1. a \in Alerts /\ announced[a] \in Nat /\ announced[a] > 0 /\ EntryInv(a)
  BY DEF Open, IInv, StorageInv, StorageTypeOK
<1>2. a \in DOMAIN internalStorage
  BY <1>1 DEF EntryInv, Absent
<1>3. internalStorage[a] \in AlertInfo
  BY <1>2 DEF IInv, StorageTypeOK
<1> QED
  BY <1>1, <1>2, <1>3 DEF EntryInv, Unconfirmed

\* How the steps change the set of open alerts.
LEMMA PutOpen ==
    ASSUME StorageTypeOK, NEW a \in Alerts, PutAlert(a)
    PROVE  /\ Open' = IF SendNow(a) THEN Open \cup {a} ELSE Open
           /\ quiet'[a] = 0
  BY DEF StorageTypeOK, PutAlert, Open

LEMMA VacuumOpen ==
    ASSUME IInv, alertVacuumQuota > 1, Vacuum
    PROVE  /\ AlertsFixed \subseteq Open
           /\ Open' = Open \ AlertsFixed
           /\ \A a \in AlertsFixed : quiet'[a] = alertVacuumQuota
<1>1. ASSUME NEW a \in AlertsFixed
      PROVE  a \in Open /\ quiet'[a] = alertVacuumQuota
  <2>1. /\ a \in Alerts /\ a \in DOMAIN internalStorage
        /\ internalStorage[a].confirmed
        /\ internalStorage[a].vacuumQuota - 1 <= 0
    BY <1>1 DEF AlertsFixed, Exhausted, IInv, StorageTypeOK
  <2>2. a \in Open
    BY <2>1 DEF IInv, StorageInv, EntryInv, Confirmed, Open
  <2>3. quiet[a] \in Nat /\ quiet'[a] = quiet[a] + 1
    BY <2>1, <2>2, OpenEntry DEF Vacuum, NextQuiet, IInv, StorageTypeOK
  <2>4. internalStorage[a] \in AlertInfo
    BY <2>2, OpenEntry
  <2> QED
    BY <2>1, <2>2, <2>3, <2>4, OpenEntry DEF AlertInfo
<1>2. Open' = Open \ AlertsFixed
  BY DEF Open, Vacuum
<1> QED
  BY <1>1, <1>2

LEMMA InvImpliesSilence == IInv => SilenceBounded
<1> SUFFICES ASSUME IInv, alertVacuumQuota > 1, NEW a \in Open
             PROVE  LET held == internalStorage[a].repeats - 1
                        n    == detections[a] - FirstSend(a) + 1
                    IN  /\ 0 <= held
                        /\ held <= (alertBackoff - 1) * (n - held)
  BY DEF SilenceBounded
<1> DEFINE r == internalStorage[a].repeats
           t == internalStorage[a].backoffThreshold
           d == detections[a]
           f == FirstSend(a)
<1>1. r \in Nat \ {0} /\ t \in Nat /\ d \in Nat /\ f \in Nat
  BY OpenEntry, ConfirmationsType DEF AlertInfo, IInv, StorageTypeOK, Open
<1>2. r <= t /\ t - 1 = (alertBackoff - 1) * (d - f + 2 - r)
  BY OpenEntry DEF Confirmed, ClosedForm
<1> HIDE DEF r, t, d, f
<1>3. d - f + 2 - r = (d - f + 1) - (r - 1)
  BY <1>1
<1>4. 0 <= r - 1 /\ r - 1 <= (alertBackoff - 1) * ((d - f + 1) - (r - 1))
  BY <1>1, <1>2, <1>3
<1> QED
  BY <1>4 DEF r, t, d, f

\* An alert is open exactly while it has been reported often enough: the
\* confirmations of PutAlert are neither lost nor skipped, for every table of
\* confirmations, every backoff and every quota above one.
THEOREM OpenCorrect == StorageSpec => []OpenWhenConfirmed
  BY Invariant, InvImpliesOpen, PTL

\* An entry is stored exactly for the quota of vacuums after its last report.
THEOREM StoredCorrect == StorageSpec => []StoredWhileRecent
  BY Invariant, InvImpliesStored, PTL

\* The reports held back are bounded by a multiple of those made before.
THEOREM SilenceCorrect == StorageSpec => []SilenceBounded
  BY Invariant, InvImpliesSilence, PTL

\* A step closes an open alert exactly when it makes it quiet for the quota.
LEMMA CloseStep ==
    ASSUME IInv, StorageNext, alertVacuumQuota > 1, NEW a \in Open
    PROVE  a \notin Open' <=> quiet'[a] = alertVacuumQuota
<1>1. a \in Alerts /\ announced[a] \in Nat /\ announced[a] > 0
  BY DEF Open, IInv, StorageTypeOK
<1>2. ASSUME NEW b \in Alerts, PutAlert(b)
      PROVE  a \in Open' /\ quiet'[a] # alertVacuumQuota
  <2>1. announced'[a] >= announced[a]
    BY <1>1, <1>2 DEF PutAlert, IInv, StorageTypeOK
  <2>2. quiet'[a] = IF a = b THEN 0 ELSE quiet[a]
    BY <1>1, <1>2 DEF PutAlert, IInv, StorageTypeOK
  <2>3. announced'[a] \in Nat
    BY <1>1, <1>2, TypePut DEF IInv, StorageTypeOK
  <2> QED
    BY <1>1, <2>1, <2>2, <2>3, OpenEntry DEF Open
<1>3. CASE Vacuum
  <2>1. quiet[a] \in Nat /\ quiet'[a] = quiet[a] + 1
    BY <1>1, <1>3, OpenEntry DEF Vacuum, NextQuiet, IInv, StorageTypeOK
  <2>2. a \in AlertsFixed <=> quiet[a] + 1 = alertVacuumQuota
    BY <2>1, OpenEntry DEF AlertsFixed, Exhausted
  <2>3. announced'[a] = IF a \in AlertsFixed THEN 0 ELSE announced[a]
    BY <1>1, <1>3 DEF Vacuum
  <2> QED
    BY <1>1, <2>1, <2>2, <2>3 DEF Open
<1> QED
  BY <1>2, <1>3 DEF StorageNext

\* "Fixed" is said of an open alert by the vacuum that ends its quota of quiet
\* vacuums and by no other step.
THEOREM FixedCorrect == StorageSpec => FixedExactlyWhenQuiet
<1>1. IInv /\ [StorageNext]_storageVars =>
        [alertVacuumQuota > 1 =>
           \A a \in Open : a \notin Open' <=> quiet'[a] = alertVacuumQuota]_storageVars
  BY CloseStep
<1> QED
  BY <1>1, Invariant, PTL DEF StorageSpec, FixedExactlyWhenQuiet

-----------------------------------------------------------------------------
(***************************************************************************)
(* The schedule of the announcements                                       *)
(***************************************************************************)
Before == {p \in Nat \X Nat : p[1] < p[2]}

LEMMA Induction ==
    ASSUME NEW S, NEW n \in Nat, 0 \in S, \A i \in 1..n : i - 1 \in S => i \in S
    PROVE  0..n \subseteq S
<1> DEFINE U == (0..n) \ S
<1>1. U \subseteq Nat
  OBVIOUS
<1>2. IsWellFoundedOn(Before, Nat)
  BY NatLessThanWellFounded DEF OpToRel, Before
<1>3. ASSUME U # {} PROVE FALSE
  <2>1. PICK x \in U : \A y \in U : ~ (<<y, x>> \in Before)
    <3> HIDE DEF U
    <3> QED
      BY <1>1, <1>2, <1>3, WFMin
  <2>2. x \in 1..n /\ x - 1 \in 0..n
    OBVIOUS
  <2>3. <<x - 1, x>> \in Before
    BY <2>2 DEF Before
  <2>4. x - 1 \in S
    BY <2>1, <2>2, <2>3
  <2> QED
    BY <2>2, <2>4
<1> QED
  BY <1>3

\* f is the schedule up to n, and on all numbers.
UpTo(f, n)  == f = [i \in 0..n |-> IF i = 0 THEN 0 ELSE 1 + alertBackoff * f[i - 1]]
Schedule(f) == f = [i \in Nat |-> IF i = 0 THEN 0 ELSE 1 + alertBackoff * f[i - 1]]

LEMMA UpToExists ==
    ASSUME NEW n \in Nat
    PROVE  \E f : UpTo(f, n)
<1> DEFINE S == {k \in Nat : \E f : UpTo(f, k)}
<1>1. 0 \in S
  <2>1. UpTo([i \in 0..0 |-> 0], 0)
    BY DEF UpTo
  <2> QED
    BY <2>1
<1>2. ASSUME NEW k \in 1..n, k - 1 \in S
      PROVE  k \in S
  <2>1. PICK f : UpTo(f, k - 1)
    BY <1>2
  <2> DEFINE g == [i \in 0..k |-> IF i < k THEN f[i] ELSE 1 + alertBackoff * f[k - 1]]
  <2>2. UpTo(g, k)
    BY <2>1 DEF UpTo
  <2> QED
    BY <2>2
<1>3. 0..n \subseteq S
  <2> HIDE DEF S
  <2> QED
    BY <1>1, <1>2, Induction
<1> QED
  BY <1>3

LEMMA UpToUnique ==
    ASSUME NEW m \in Nat, NEW n \in Nat, m <= n, NEW f, NEW g, UpTo(f, m), UpTo(g, n)
    PROVE  f[m] = g[m]
<1> DEFINE S == {k \in 0..m : f[k] = g[k]}
<1>1. \A k \in 0..m : /\ f[k] = IF k = 0 THEN 0 ELSE 1 + alertBackoff * f[k - 1]
                      /\ g[k] = IF k = 0 THEN 0 ELSE 1 + alertBackoff * g[k - 1]
  BY DEF UpTo
<1>2. 0 \in S
  BY <1>1
<1>3. ASSUME NEW k \in 1..m, k - 1 \in S
      PROVE  k \in S
  <2>1. k \in 0..m /\ k # 0 /\ f[k - 1] = g[k - 1]
    BY <1>3
  <2> QED
    BY <1>1, <2>1
<1>4. 0..m \subseteq S
  <2> HIDE DEF S
  <2> QED
    BY <1>2, <1>3, Induction
<1> QED
  BY <1>4

LEMMA ScheduleExists == \E f : Schedule(f)
<1> DEFINE part(n) == CHOOSE f : UpTo(f, n)
           F       == [n \in Nat |-> part(n)[n]]
<1>1. \A n \in Nat : UpTo(part(n), n)
  BY UpToExists
<1> HIDE DEF part
<1>2. F[0] = 0
  <2>1. part(0)[0] = 0
    BY <1>1 DEF UpTo
  <2> QED
    BY <2>1
<1>3. ASSUME NEW n \in Nat \ {0}
      PROVE  F[n] = 1 + alertBackoff * F[n - 1]
  <2>1. n - 1 \in Nat /\ n \in Nat /\ n - 1 <= n
    OBVIOUS
  <2>2. part(n)[n] = 1 + alertBackoff * part(n)[n - 1]
    <3>1. UpTo(part(n), n)
      BY <1>1
    <3> QED
      BY <2>1, <3>1 DEF UpTo
  <2>3. part(n - 1)[n - 1] = part(n)[n - 1]
    <3>1. UpTo(part(n), n) /\ UpTo(part(n - 1), n - 1)
      BY <1>1, <2>1
    <3> QED
      BY <2>1, <3>1, UpToUnique
  <2>4. F[n] = part(n)[n] /\ F[n - 1] = part(n - 1)[n - 1]
    BY <2>1
  <2> QED
    BY <2>2, <2>3, <2>4
<1>4. F = [i \in Nat |-> F[i]]
  OBVIOUS
<1> HIDE DEF F
<1>5. Schedule(F)
  BY <1>2, <1>3, <1>4 DEF Schedule
<1> QED
  BY <1>5

\* The n-th announcement is due 1 + b + ... + b^(n - 1) reports after the first.
LEMMA ScheduleIs ==
    /\ AnnouncementAt[0] = 0
    /\ \A n \in Nat : /\ AnnouncementAt[n] \in Nat
                      /\ AnnouncementAt[n + 1] = 1 + alertBackoff * AnnouncementAt[n]
<1>1. AnnouncementAt = CHOOSE f : Schedule(f)
  BY Zenon DEF AnnouncementAt, Schedule
<1>2. Schedule(AnnouncementAt)
  BY <1>1, ScheduleExists
<1>3. AnnouncementAt[0] = 0
  BY <1>2 DEF Schedule
<1>4. \A n \in Nat : AnnouncementAt[n + 1] = 1 + alertBackoff * AnnouncementAt[n]
  <2> SUFFICES ASSUME NEW n \in Nat
               PROVE  AnnouncementAt[n + 1] = 1 + alertBackoff * AnnouncementAt[n]
    OBVIOUS
  <2>1. n + 1 \in Nat /\ n + 1 # 0 /\ n + 1 - 1 = n
    OBVIOUS
  <2>2. AnnouncementAt[n + 1] = 1 + alertBackoff * AnnouncementAt[n + 1 - 1]
    BY <1>2, <2>1 DEF Schedule
  <2> QED
    BY <2>1, <2>2
<1>5. ASSUME NEW n \in Nat
      PROVE  AnnouncementAt[n] \in Nat
  <2> DEFINE S == {k \in Nat : AnnouncementAt[k] \in Nat}
  <2>1. 0 \in S
    BY <1>3
  <2>2. ASSUME NEW i \in 1..n, i - 1 \in S
        PROVE  i \in S
    <3>1. i - 1 \in Nat /\ i = i - 1 + 1 /\ AnnouncementAt[i - 1] \in Nat
      BY <2>2
    <3>2. alertBackoff * AnnouncementAt[i - 1] \in Nat
      BY <3>1, ProductNat
    <3>3. AnnouncementAt[i] = 1 + alertBackoff * AnnouncementAt[i - 1]
      BY <1>4, <3>1
    <3> QED
      BY <3>2, <3>3
  <2>3. 0..n \subseteq S
    <3> HIDE DEF S
    <3> QED
      BY <2>1, <2>2, Induction
  <2> QED
    BY <2>3
<1> QED
  BY <1>3, <1>4, <1>5

\* The reports up to the last announcement are those of the schedule, and the
\* threshold is the number of reports up to the next one.
Scheduled(a) ==
    /\ detections[a] - FirstSend(a) + 1
         = AnnouncementAt[announced[a]] + internalStorage[a].repeats - 1
    /\ internalStorage[a].backoffThreshold
         = AnnouncementAt[announced[a] + 1] - AnnouncementAt[announced[a]]

LEMMA ScheduledNext ==
    ASSUME NEW a,
           detections'[a] - FirstSend(a) + 1
             = AnnouncementAt[announced'[a]] + internalStorage'[a].repeats - 1,
           internalStorage'[a].backoffThreshold
             = AnnouncementAt[announced'[a] + 1] - AnnouncementAt[announced'[a]]
    PROVE  Scheduled(a)'
<1>1. FirstSend(a)' = FirstSend(a)
  BY DEF FirstSend, RequiredConfirmations
<1> QED
  BY <1>1 DEF Scheduled

ScheduleInv == alertVacuumQuota > 1 => \A a \in Open : Scheduled(a)

LEMMA OpenIs ==
    ASSUME StorageTypeOK, NEW a \in Alerts
    PROVE  announced[a] \in Nat /\ (a \in Open <=> announced[a] # 0)
  BY DEF StorageTypeOK, Open

\* A report of an open alert is forwarded when its turn has come.
LEMMA PutOpenScheduled ==
    ASSUME IInv, alertVacuumQuota > 1, NEW a \in Open, Scheduled(a), PutAlert(a)
    PROVE  Scheduled(a)'
<1> DEFINE r == internalStorage[a].repeats
           t == internalStorage[a].backoffThreshold
           d == detections[a]
           k == announced[a]
           F == FirstSend(a)
<1>1. /\ a \in Alerts /\ a \in DOMAIN internalStorage /\ internalStorage[a].confirmed
      /\ r \in Nat \ {0} /\ t \in Nat /\ d \in Nat /\ k \in Nat /\ r <= t
  BY OpenEntry DEF Open, IInv, StorageTypeOK, AlertInfo, Confirmed
<1>2. F \in Nat /\ F' = F
  BY <1>1, ConfirmationsType DEF FirstSend, RequiredConfirmations
<1>3. Lookup(a) = internalStorage[a]
  BY <1>1 DEF Lookup
<1>4. /\ ~ Confirms(a)
      /\ ExceedsBackoff(a) <=> r + 1 > t
      /\ SendNow(a) <=> r + 1 > t
  BY <1>1, <1>3 DEF Confirms, ExceedsBackoff, SendNow
<1>5. /\ internalStorage'[a] = IF SendNow(a) THEN InfoSent(a) ELSE InfoHeld(a)
      /\ detections'[a] = d + 1
      /\ announced'[a] = IF SendNow(a) THEN k + 1 ELSE k
  BY <1>1 DEF PutAlert, IInv, StorageTypeOK
<1>6. d - F + 1 = AnnouncementAt[k] + r - 1 /\ t = AnnouncementAt[k + 1] - AnnouncementAt[k]
  BY DEF Scheduled
<1>7. /\ AnnouncementAt[k] \in Nat /\ AnnouncementAt[k + 1] \in Nat
      /\ AnnouncementAt[k + 1] = 1 + alertBackoff * AnnouncementAt[k]
      /\ AnnouncementAt[k + 1 + 1] = 1 + alertBackoff * AnnouncementAt[k + 1]
  <2>1. k \in Nat /\ k + 1 \in Nat
    BY <1>1
  <2> HIDE DEF k
  <2> QED
    BY <2>1, ScheduleIs
<1>8. CASE SendNow(a)
  <2>1. internalStorage'[a].repeats = 1 /\ internalStorage'[a].backoffThreshold = alertBackoff * t
    BY <1>3, <1>4, <1>5, <1>8 DEF InfoSent
  <2>2. r = t
    BY <1>1, <1>4, <1>8
  <2>3. d + 1 - F + 1 = AnnouncementAt[k + 1] + 1 - 1
    BY <1>1, <1>2, <1>6, <1>7, <2>2
  <2>4. alertBackoff * t = AnnouncementAt[k + 1 + 1] - AnnouncementAt[k + 1]
    <3> DEFINE x == AnnouncementAt[k]
               y == AnnouncementAt[k + 1]
    <3>1. x \in Nat /\ y \in Nat /\ t = y - x
      BY <1>6, <1>7
    <3> HIDE DEF x, y, t
    <3>2. alertBackoff * (y - x) = alertBackoff * y - alertBackoff * x
      BY <3>1
    <3>3. alertBackoff * y \in Nat /\ alertBackoff * x \in Nat
      BY <3>1, ProductNat
    <3>4. (1 + alertBackoff * y) - (1 + alertBackoff * x) = alertBackoff * y - alertBackoff * x
      BY <3>3
    <3> QED
      BY <1>7, <3>1, <3>2, <3>4 DEF x, y
  <2>5. announced'[a] = k + 1
    BY <1>5, <1>8
  <2>6. detections'[a] = d + 1
    BY <1>5
  <2> QED
    <3>1. detections'[a] - FirstSend(a) + 1
            = AnnouncementAt[announced'[a]] + internalStorage'[a].repeats - 1
      BY <1>1, <1>2, <1>7, <2>1, <2>3, <2>5, <2>6
    <3>2. internalStorage'[a].backoffThreshold
            = AnnouncementAt[announced'[a] + 1] - AnnouncementAt[announced'[a]]
      BY <2>1, <2>4, <2>5
    <3> QED
      BY <3>1, <3>2, ScheduledNext
<1>9. CASE ~ SendNow(a)
  <2>1. internalStorage'[a].repeats = r + 1 /\ internalStorage'[a].backoffThreshold = t
    BY <1>3, <1>5, <1>9 DEF InfoHeld
  <2>2. d + 1 - F + 1 = AnnouncementAt[k] + (r + 1) - 1
    BY <1>1, <1>2, <1>6, <1>7
  <2>3. announced'[a] = k
    BY <1>5, <1>9
  <2>4. detections'[a] = d + 1
    BY <1>5
  <2> QED
    <3>1. detections'[a] - FirstSend(a) + 1
            = AnnouncementAt[announced'[a]] + internalStorage'[a].repeats - 1
      BY <1>1, <1>2, <1>7, <2>1, <2>2, <2>3, <2>4
    <3>2. internalStorage'[a].backoffThreshold
            = AnnouncementAt[announced'[a] + 1] - AnnouncementAt[announced'[a]]
      BY <1>6, <2>1, <2>3
    <3> QED
      BY <3>1, <3>2, ScheduledNext
<1> QED
  BY <1>8, <1>9

\* The report that opens an alert is the one that confirms it.
LEMMA PutNewScheduled ==
    ASSUME IInv, alertVacuumQuota > 1, NEW a \in Alerts, a \notin Open, a \in Open', PutAlert(a)
    PROVE  Scheduled(a)'
<1> DEFINE d == detections[a]
           F == FirstSend(a)
<1>1. announced[a] = 0 /\ d \in Nat /\ EntryInv(a) /\ StorageTypeOK
  BY OpenIs DEF IInv, StorageInv, StorageTypeOK
<1>2. announced'[a] = IF SendNow(a) THEN 1 ELSE 0
  BY <1>1 DEF PutAlert, StorageTypeOK
<1>3. SendNow(a)
  BY <1>2 DEF Open
<1>4. /\ a \in DOMAIN internalStorage => internalStorage[a] \in AlertInfo /\ Unconfirmed(a)
      /\ a \notin DOMAIN internalStorage => Absent(a)
  BY <1>1 DEF EntryInv, Confirmed, StorageTypeOK
<1>5. F \in Nat \ {0} /\ F' = F /\ RequiredConfirmations(a) \in Nat
  BY ConfirmationsType DEF FirstSend, RequiredConfirmations
<1>6. d = Lookup(a).repeats /\ d < F /\ ~ Lookup(a).confirmed
  <2>1. CASE a \in DOMAIN internalStorage
    <3>1. Lookup(a) = internalStorage[a] /\ d = internalStorage[a].repeats /\ d < F
      BY <1>1, <1>4, <1>5, <2>1, ConfirmationsType DEF Lookup, Unconfirmed
    <3>2. ~ internalStorage[a].confirmed
      BY <1>1, <2>1 DEF EntryInv, Confirmed
    <3> QED
      BY <3>1, <3>2
  <2>2. CASE a \notin DOMAIN internalStorage
    BY <1>4, <1>5, <2>2 DEF Lookup, Absent, ZeroInfo
  <2> QED
    BY <2>1, <2>2
<1>7. Confirms(a)
  BY <1>3, <1>6 DEF SendNow, ExceedsBackoff
<1>8. d + 1 = F
  BY <1>1, <1>5, <1>6, <1>7, ConfirmationsType DEF Confirms
<1>9. /\ internalStorage'[a] = InfoSent(a)
      /\ detections'[a] = d + 1 /\ announced'[a] = 1
  BY <1>1, <1>2, <1>3 DEF PutAlert, StorageTypeOK
<1>10. internalStorage'[a].repeats = 1 /\ internalStorage'[a].backoffThreshold = alertBackoff
  BY <1>7, <1>9 DEF InfoSent
<1>11. AnnouncementAt[1] = 1 /\ AnnouncementAt[1 + 1] = 1 + alertBackoff
  <2>1. AnnouncementAt[0 + 1] = 1 + alertBackoff * AnnouncementAt[0] /\ AnnouncementAt[0] = 0
    BY ScheduleIs
  <2>2. AnnouncementAt[1] = 1
    BY <2>1
  <2>3. AnnouncementAt[1 + 1] = 1 + alertBackoff * AnnouncementAt[1]
    BY ScheduleIs
  <2> QED
    BY <2>2, <2>3
<1>12. d + 1 - F + 1 = AnnouncementAt[1] + 1 - 1
  BY <1>1, <1>5, <1>8, <1>11
<1>13. alertBackoff = AnnouncementAt[1 + 1] - AnnouncementAt[1]
  BY <1>11
<1>14. detections'[a] - FirstSend(a) + 1
         = AnnouncementAt[announced'[a]] + internalStorage'[a].repeats - 1
  BY <1>1, <1>5, <1>9, <1>10, <1>11, <1>12
<1>15. internalStorage'[a].backoffThreshold
         = AnnouncementAt[announced'[a] + 1] - AnnouncementAt[announced'[a]]
  BY <1>9, <1>10, <1>13
<1> QED
  BY <1>14, <1>15, ScheduledNext

\* Steps that leave the entry of an open alert, but for its quota, alone.
LEMMA KeepsScheduled ==
    ASSUME NEW a, Scheduled(a),
           detections'[a] = detections[a], announced'[a] = announced[a],
           internalStorage'[a].repeats = internalStorage[a].repeats,
           internalStorage'[a].backoffThreshold = internalStorage[a].backoffThreshold
    PROVE  Scheduled(a)'
<1>1. FirstSend(a)' = FirstSend(a)
  BY DEF FirstSend, RequiredConfirmations
<1> QED
  BY <1>1 DEF Scheduled

LEMMA ScheduleStep ==
    ASSUME IInv, ScheduleInv, [StorageNext]_storageVars
    PROVE  ScheduleInv'
<1> SUFFICES ASSUME alertVacuumQuota > 1, NEW a \in Open'
             PROVE  Scheduled(a)'
  BY DEF ScheduleInv
<1>1. a \in Alerts /\ StorageTypeOK
  BY DEF Open, IInv
<1>2. a \in Open => Scheduled(a)
  BY DEF ScheduleInv
<1>3. CASE UNCHANGED storageVars
  BY <1>2, <1>3, KeepsScheduled DEF storageVars, Open
<1>4. ASSUME NEW b \in Alerts, PutAlert(b)
      PROVE  Scheduled(a)'
  <2>1. CASE a = b
    <3>1. CASE a \in Open
      BY <1>2, <1>4, <2>1, <3>1, PutOpenScheduled
    <3>2. CASE a \notin Open
      BY <1>1, <1>4, <2>1, <3>2, PutNewScheduled
    <3> QED
      BY <3>1, <3>2
  <2>2. CASE a # b
    <3>1. detections'[a] = detections[a] /\ announced'[a] = announced[a]
      BY <1>1, <1>4, <2>2 DEF PutAlert, StorageTypeOK
    <3>2. a \in Open
      BY <1>1, <3>1 DEF Open
    <3>3. internalStorage'[a] = internalStorage[a]
      BY <1>4, <2>2, <3>2, OpenEntry DEF PutAlert
    <3> QED
      BY <1>2, <3>1, <3>2, <3>3, KeepsScheduled
  <2> QED
    BY <2>1, <2>2
<1>5. CASE Vacuum
  <2>1. announced'[a] = IF a \in AlertsFixed THEN 0 ELSE announced[a]
    BY <1>1, <1>5 DEF Vacuum
  <2>2. a \notin AlertsFixed /\ announced'[a] = announced[a] /\ a \in Open
    BY <1>1, <2>1 DEF Open
  <2>3. quiet'[a] # alertVacuumQuota
    BY <1>5, <2>2, CloseStep DEF StorageNext
  <2>4. detections'[a] = detections[a]
    BY <1>1, <1>5, <2>3 DEF Vacuum
  <2>5. a \in DOMAIN internalStorage \ Exhausted
    BY <2>2, OpenEntry DEF AlertsFixed
  <2>6. internalStorage'[a] = [internalStorage[a] EXCEPT !.vacuumQuota = @ - 1]
    BY <1>5, <2>5 DEF Vacuum
  <2>7. internalStorage[a] \in AlertInfo
    BY <2>5 DEF IInv, StorageTypeOK
  <2>8. /\ internalStorage'[a].repeats = internalStorage[a].repeats
        /\ internalStorage'[a].backoffThreshold = internalStorage[a].backoffThreshold
    BY <2>6, <2>7 DEF AlertInfo
  <2> QED
    BY <1>2, <2>2, <2>4, <2>8, KeepsScheduled
<1> QED
  BY <1>3, <1>4, <1>5 DEF StorageNext

\* For any backoff the reports of an open alert that are forwarded are those
\* numbered 1, 1 + b, 1 + b + b^2, ... and no other (alerts_storage.go 115-142).
THEOREM ScheduleCorrect == StorageSpec => []AnnouncedOnSchedule
<1>1. StorageInit => ScheduleInv
  <2>1. StorageInit => \A a \in Alerts : announced[a] = 0
    BY DEF StorageInit
  <2>2. StorageInit => Open = {}
    BY <2>1 DEF Open
  <2> QED
    BY <2>2 DEF ScheduleInv
<1>2. IInv /\ ScheduleInv => AnnouncedOnSchedule
  <2> SUFFICES ASSUME IInv, ScheduleInv, alertVacuumQuota > 1, NEW a \in Open
               PROVE  /\ AnnouncementAt[announced[a]] <= detections[a] - FirstSend(a) + 1
                      /\ detections[a] - FirstSend(a) + 1 < AnnouncementAt[announced[a] + 1]
    BY DEF AnnouncedOnSchedule
  <2>1. /\ a \in Alerts /\ announced[a] \in Nat /\ Scheduled(a)
        /\ internalStorage[a].repeats \in Nat \ {0}
        /\ internalStorage[a].backoffThreshold \in Nat
        /\ internalStorage[a].repeats <= internalStorage[a].backoffThreshold
    BY OpenEntry DEF ScheduleInv, Open, IInv, StorageTypeOK, AlertInfo, Confirmed
  <2>2. AnnouncementAt[announced[a]] \in Nat /\ AnnouncementAt[announced[a] + 1] \in Nat
    BY <2>1, ScheduleIs
  <2> QED
    BY <2>1, <2>2 DEF Scheduled
<1>3. IInv /\ ScheduleInv /\ [StorageNext]_storageVars => ScheduleInv'
  BY ScheduleStep
<1> QED
  BY <1>1, <1>2, <1>3, Invariant, PTL DEF StorageSpec
=============================================================================
