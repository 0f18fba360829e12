SPECIFICATION Spec
CONSTANTS
  p = p
  q = q
  b = b
  NoTid = NoTid
  o1 = o1
  o2 = o2
  Tids = {p, b}
  Reusable = {p}
  Known = {p, b}
  Loads <- BoxOnPallet
  Passages <- InAndOut
  FetchBatch = 2
  MaxObs = 3
  MaxSessions = 1
  MaxCorrections = 0
  MaxResolutions = 0
  MaxLostAcks = 1
  MaxCrashes = 0
  Operators = {o1}
INVARIANTS
  MovedOnce
