SPECIFICATION Spec
CONSTANTS
  a = a
  b = b
  s = s
  r = r
  u = u
  c1 = c1
  c2 = c2
  Variables <- TwoSync
  Handling <- HandlingTwoSync
  Clients <- OneClient
  Faults <- Conversion
  MayShutDown = FALSE
  MaxRequest = 1
  MaxValue = 3
  MaxQueue = 1
INVARIANTS
  CacheHeld
