SPECIFICATION Spec
CONSTANTS
  n1 = n1
  n2 = n2
  e1 = e1
  t1 = t1
  t2 = t2
  sdk = sdk
  Nodes <- TwoVariables
  EventTypes <- NoEventType
  Threads <- OneThread
  Sdk <- sdk
  Faults <- AddRefusals
  MaxRequest = 2
  MaxHandle = 4
  MaxSubs = 2
  MaxInFlight = 1
INVARIANTS
  TypeOK
  NoCrash
  EveryItemListed
  ListedItemsExist
  NoSubscriptionLeaked
PROPERTIES
  OnlyPickedItemsDeleted
