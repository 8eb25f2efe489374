SPECIFICATION Spec
CONSTANTS
  n1 = n1
  n2 = n2
  e1 = e1
  t1 = t1
  t2 = t2
  sdk = sdk
  Nodes <- VariableAndEventType
  EventTypes <- OneEventType
  Threads <- OneThread
  Sdk <- sdk
  Faults <- Refusals
  MaxRequest = 2
  MaxHandle = 4
  MaxSubs = 2
  MaxInFlight = 1
PROPERTIES
  FailedNodesLeaveList
