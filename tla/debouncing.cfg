SPECIFICATION FairSpec
CONSTANTS
  Keys = {k1, k3}
  Unmapped = {k3}
  Quiet = 3
  MinReadCount = 2
  FetchBatch = 2
  Rssis = {"weak", "none"}
  MaxDelay = 1
  MaxStall = 1
  MaxReads = 3
  MaxNow = 4
  MaxFaults = 1
INVARIANTS
  TypeOK
  NeverSkipped
  ObservedOnce
  PassWhole
PROPERTIES
  EventuallyObserved
CHECK_DEADLOCK FALSE
