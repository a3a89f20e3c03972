SPECIFICATION Spec
CONSTANTS
    Handlers = {h1, h2}
    Ids = {a, b}
    Capacity = 1
    MaxAdmits = 5
SYMMETRY Symmetry
INVARIANTS
    CacheConsistent
    ForwardedOnce
    SingleFlight
CHECK_DEADLOCK FALSE
