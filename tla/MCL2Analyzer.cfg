SPECIFICATION FairSpec
CONSTANTS
    requestFailed = requestFailed
    T = 3
    Heights = {1, 2}
    Alerts <- MCAlerts
    TypeOf <- MCTypeOf
    requiredConfirmations <- MCRequiredConfirmations
    alertBackoff = 2
    alertVacuumQuota <- defaultAlertVacuumQuota
    StuckAlert <- MCStuckAlert
    ErrorAlerts = {requestFailed}
    MaxDetections = 4
INVARIANTS
    StuckIsKnown
PROPERTIES
    NoFalseAlarm
    FixReachesReader
    StopsWhenCancelled
