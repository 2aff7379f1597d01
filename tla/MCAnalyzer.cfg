SPECIFICATION FairSpec
CONSTANTS
    unreachable = unreachable
    height = height
    internalError = internalError
    rUnreachable = rUnreachable
    rHeight = rHeight
    Alerts <- MCAlerts
    TypeOf <- MCTypeOf
    requiredConfirmations <- MCRequiredConfirmations
    alertBackoff = 2
    alertVacuumQuota = 3
    Nodes = {n1}
    Routines <- MCRoutines
    Finds <- MCFinds
    CanFail = {rUnreachable}
    RoutineError = internalError
    MaxDetections = 4
INVARIANTS
    RoundsDisjoint
    NoReportLost
    ReaderUpToDate
PROPERTIES
    EveryNotificationHandled
    FixedReachesReader
    KeepsFeed
