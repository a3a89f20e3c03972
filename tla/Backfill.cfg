SPECIFICATION Spec
CONSTANTS
    Chats = {c1}
    H = 3
    Batch = 1
    Backstop = 2
    MaxMessages = 2
    QueueDepth = 1
    Targets <- MCTargets
    Handlers = {h1}
    MaxJobs = 2
    MaxFaults = 1
INVARIANTS
    OneActivePerChat
    
    
 
CHECK_DEADLOCK FALSE
