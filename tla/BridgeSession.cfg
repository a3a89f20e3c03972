SPECIFICATION FairSpec
CONSTANTS
    MaxSessions = 2
    MaxEvents = 3
INVARIANTS
    AgreesAtRest
    HardStopIsFinal
    OneClient
PROPERTY StopsEventually
CHECK_DEADLOCK FALSE
