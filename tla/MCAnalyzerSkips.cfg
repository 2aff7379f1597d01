SPECIFICATION Spec
CONSTANTS
    unreachable = unreachable
    height = height
    internalError = internalError
    rUnreachable = rUnreachable
    rHeight = rHeight
    Alerts <- MCAlerts
    TypeOf <- MCTypeOf
    requiredConfirmations <- MCRequiredConfirmations
    alertBackoff = 2
    alertVacuumQuota = 2
    Nodes = {n1}
    Routines <- MCRoutines
    Finds <- MCFinds
    CanFail = {rUnreachable}
    RoutineError = internalError
    MaxDetections = 3
PROPERTIES
    OnlyEmptyRoundsSkipped
