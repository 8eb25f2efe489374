SPECIFICATION Spec
CONSTANTS
  a = a
  b = b
  s = s
  r = r
  u = u
  c1 = c1
  c2 = c2
  Variables <- OneAsyncOneSync
  Handling <- HandlingAsyncSync
  Clients <- OneClient
  Faults <- NoFaults
  MayShutDown = TRUE
  MaxRequest = 1
  MaxValue = 3
  MaxQueue = 2
INVARIANTS
  NoDeadCallback
CHECK_DEADLOCK FALSE
