SPECIFICATION Spec
CONSTANTS
    NumJobs = 1
    BadJid = {}
    Polls = {1}
    NoId = {}
    MaxRetries = 3
    StaleSecs = 1
    StartStaleSecs = 2
    PruneSecs = 3
    MaxDelay = 1
    Receipts = {"delivered", "read"}
    MaxFaults = 3
INVARIANTS
    RowsTrue
    SendsAccounted
    DroppedOnlyAfterBudget
    WaiterToldTruth
PROPERTY ImplementsOutbox
