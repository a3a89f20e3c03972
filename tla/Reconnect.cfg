SPECIFICATION ReconnectSpec
CONSTANTS
    Second = 2
    ReplacedBackoff = 5
    MaxDelay = 8
    MaxReplacements = 3
    Window = 20
    Lengths <- MCLengths
    MaxTime = 60
INVARIANTS
    BackoffSound
    LimitExact
CHECK_DEADLOCK FALSE
