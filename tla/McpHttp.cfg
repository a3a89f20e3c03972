CONSTANTS
  Conn = {c1, c2}
  Task = {t1, t2, t3}
  ReadPermits = 1
  WritePermits = 1
  LargePermits = 1
  MostArrivals = 3
  Heads <- MCHeads
  Bodies <- MCBodies
  Settings <- MCSettings
SPECIFICATION Spec
INVARIANTS
    BooksBalance
    CallsAgree
 
CHECK_DEADLOCK FALSE
