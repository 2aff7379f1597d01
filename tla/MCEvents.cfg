SPECIFICATION MCSpec
CONSTANTS
    a = a
    b = b
    Nodes = {a, b}
    Hashes = {x, y}
    NoHash = NoHash
    MaxUint = 4
    depthCommonHeightSearch = 2
    heightDifference = 1
    Heights = {1, 2, 3}
    Streak = 2
    Depth = 3
    ConsiderPrevUnreachableAsIncomplete = TRUE
    MaxHeightDiff = 1
    Threshold = 1
    RoundSize = 4
    MaxRounds = 4
    MaxStored = 4
SYMMETRY Symmetry
INVARIANTS
    AnswersAreCurrent
    DifferenceExact
    StatusExact
    RoundHidesNothing
    StreakExact
    ComparisonsExact
    OneReportPerIdentifier
