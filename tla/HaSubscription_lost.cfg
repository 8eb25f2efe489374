SPECIFICATION FairSpec
CONSTANTS
  n1 = n1
  n2 = n2
  e1 = e1
  t1 = t1
  t2 = t2
  sdk = sdk
  Nodes <- VariableAndEventType
  EventTypes <- OneEventType
  Threads <- OneThread
  Sdk <- sdk
  Faults <- LossAndRefusals
  MaxRequest = 2
  MaxHandle = 2
  MaxSubs = 2
  MaxInFlight = 1
INVARIANTS
  IdsAgree
PROPERTIES
  OperationsEnd
  Resubscribed
