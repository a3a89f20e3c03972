SPECIFICATION FairSpec
CONSTANTS
    NumJobs = 2
    BadJid = {2}
    Polls = {}
    NoId = {1}
    MaxRetries = 2
    StaleSecs = 1
    StartStaleSecs = 1
    PruneSecs = 1
    MaxDelay = 1
    Receipts = {}
    MaxFaults = 0
PROPERTIES
    
    CancelStops
