SPECIFICATION Spec
CONSTANTS
  Timeout = 1
  LookupMargin = 1
  Reach = 1
  LateTurns = FALSE
  MaxRepeats = 1
  MaxNow = 3
INVARIANTS
  TypeOK
  CrossingsAreLoads
  OwnDirection
CHECK_DEADLOCK FALSE
