SPECIFICATION MCSpec
CONSTANTS
    unreachable = unreachable
    height = height
    simple = simple
    Alerts <- MCAlerts
    TypeOf <- MCTypeOf
    requiredConfirmations <- MCRequiredConfirmations
    alertBackoff = 2
    alertVacuumQuota = 3
    MaxDetections = 8
INVARIANTS
    OpenWhenConfirmed
    StoredWhileRecent
    AnnouncedOnSchedule
    SilenceBounded
PROPERTIES
    FixedExactlyWhenQuiet
    ClosedEventually
