SPECIFICATION MCSpec
CONSTANTS
    x = x
    y = y
    Nodes = {a, b}
    nodeA = a
    nodeB = b
    Heights = {1, 2, 3, 4, 5}
    Hashes = {x, y}
    NoHash = NoHash
    MaxUint = 10
    MaxForkDepth = 1
    HeightBucketSize = 3
    FirstHeights = {1, 2}
    MaxRounds = 4
INVARIANTS
    ResultIsBoundary
    LastCommonFound
    DeepForkNotMissed
PROPERTIES
    SearchEnds
