SPECIFICATION Spec
CONSTANTS
  Containers = {1, 2}
  BatchRows = 2
  MaxTx = 3
  MaxOpen = 2
  MaxOutages = 0
INVARIANTS
  NothingLost
