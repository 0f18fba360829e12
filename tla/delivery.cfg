SPECIFICATION FairSpec
CONSTANTS
  Kinds = {"read", "gate", "invalid"}
  QueueMax = 3
  BatchMax = 2
  MaxInflight = 2
  MaxQueued = 3
  MaxMessages = 4
  MaxFaults = 2
INVARIANTS
  TypeOK
  NeverDropped
  InOrder
PROPERTIES
  ImplementsDelivery
  EventuallyStored
CHECK_DEADLOCK FALSE
