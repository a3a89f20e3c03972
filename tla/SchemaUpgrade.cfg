CONSTANTS
  Binaries = {7, 8, 9}
  StartVersions = {3, 7}
  Messages = {m1}
  Process = {p1, p2}
  MaxTime = 2
  MaxCrashes = 1
  MaxFaults = 2
CONSTANT Settings <- MCSettings
SYMMETRY MCSymmetry
SPECIFICATION Spec
INVARIANTS
    
    ServesValidated
    BreakerHolds
