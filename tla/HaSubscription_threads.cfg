SPECIFICATION Spec
CONSTANTS
  n1 = n1
  n2 = n2
  e1 = e1
  t1 = t1
  t2 = t2
  sdk = sdk
  Nodes <- TwoVariables
  EventTypes <- NoEventType
  Threads <- TwoThreads
  Sdk <- sdk
  Faults <- LateAnswers
  MaxRequest = 1
  MaxHandle = 2
  MaxSubs = 2
  MaxInFlight = 1
SYMMETRY ThreadSymmetry
INVARIANTS
  NotificationsAttributed
PROPERTIES
  RemovedHandlesGone
  HandleLifeCycle
