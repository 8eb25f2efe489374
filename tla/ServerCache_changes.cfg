SPECIFICATION FairSpec
CONSTANTS
  a = a
  b = b
  s = s
  r = r
  u = u
  c1 = c1
  c2 = c2
  Variables <- TwoAsyncOneSync
  Handling <- HandlingTwoAsync
  Clients <- OneClient
  Faults <- NoFaults
  MayShutDown = TRUE
  MaxRequest = 2
  MaxValue = 3
  MaxQueue = 2
INVARIANTS
  NoChangeLost
  ReadsAnswered
PROPERTIES
  ChangeArrives
CHECK_DEADLOCK FALSE
