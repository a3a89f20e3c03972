CONSTANTS
  Conn = {c1, c2}
  Capacity = 1
  SsePermits = 1
  MostOther = 1
  MostVersions = 2
  Requests <- MCRequests
  Mixes <- MCMixes
  Settings <- MCSettings
SPECIFICATION Spec
INVARIANTS
    StreamGapless
    AnswersTrue
    
    CallersServed
CHECK_DEADLOCK FALSE
