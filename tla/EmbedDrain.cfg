SPECIFICATION Spec
CONSTANTS
    Callers <- MCCallers
    Messages = {1, 2, 3}
    Kind <- MCKind
    Poison = {3}
    MaxFaults = 1
    Configured = 3
    MaxBatch = 2
    BisectAfter = 2
    Threshold = 3
    Budget = 1
    MaxWindow = 1
    Matches = {1, 2}
    Score <- MCScore
    MinScore = 2
    ScanCap = 1
    Limit = 2
INVARIANTS
    EmbeddingsTrue
    RepliesReachTheirCall
PROPERTY OldestDrain
CHECK_DEADLOCK FALSE
