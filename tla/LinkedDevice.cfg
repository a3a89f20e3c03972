SPECIFICATION LinkedSpec
CONSTANTS
    Ids = {"m1", "m2"}
    Corpus <- MCCorpus
    Phones = {"p1", "p2", "me"}
    Lids = {"l1", "l3"}
    Owner <- MCOwner
    Allowed = {"p1"}
    OwnPolls <- MCOwnPolls
    Options = {"yes", "no"}
    SentKeys = {"s1", "s2"}
    MaxDownloads = 1
    Calls <- MCCalls
    Names = {"n1", "n2"}
    Traffic = {"inbound", "pairing", "signal", "appSync", "groups", "retries", "tokens"}
    MaxTries = 1
    MaxFailures = 1
    MaxCalls = 4
    MaxTime = 1
    MaxStarts = 2
    MaxPairings = 3
INVARIANTS
    DownloadsSafe
    
    CallsWhole
    NameTrue
CHECK_DEADLOCK FALSE
