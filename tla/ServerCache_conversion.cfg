SPECIFICATION Spec
CONSTANTS
  a = a
  b = b
  s = s
  r = r
  u = u
  c1 = c1
  c2 = c2
  Variables <- AllKinds
  Handling <- HandlingAll
  Clients <- TwoClients
  Faults <- Conversion
  MayShutDown = FALSE
  MaxRequest = 2
  MaxValue = 2
  MaxQueue = 2
SYMMETRY ClientSymmetry
INVARIANTS
  TypeOK
  AsyncCacheHeld
  ReadsFresh
