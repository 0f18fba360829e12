SPECIFICATION Spec
CONSTANTS
  p = p
  q = q
  b = b
  NoTid = NoTid
  o1 = o1
  o2 = o2
  Tids = {p, b}
  Reusable = {p}
  Known = {p, b}
  Loads <- BoxOnPallet
  Passages <- InAndOut
  FetchBatch = 1
  MaxObs = 3
  MaxSessions = 1
  MaxCorrections = 1
  MaxResolutions = 0
  MaxLostAcks = 0
  MaxCrashes = 0
  Operators = {o1}
INVARIANTS
  TypeOK
  LedgerEndsAtStatus
  NeverDispatchedTwice
  AccountedForOnce
  StartsWhereLastEnded
  LedgerInv
PROPERTIES
  PalletMovesWhole
  KeepsCustody
