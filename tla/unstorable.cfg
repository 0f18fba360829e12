SPECIFICATION FairSpec
CONSTANTS
  Kinds = {"read", "unstorable"}
  QueueMax = 2
  BatchMax = 2
  MaxInflight = 2
  MaxQueued = 2
  MaxMessages = 2
  MaxFaults = 0
PROPERTIES
  EventuallyStored
CHECK_DEADLOCK FALSE
