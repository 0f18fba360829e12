SPECIFICATION FairSpec
CONSTANTS
  Containers = {1, 2, 3}
  BatchRows = 2
  MaxTx = 4
  MaxOpen = 2
  MaxOutages = 1
INVARIANTS
  TypeOK
  CursorExact
PROPERTIES
  EventuallyCaughtUp
