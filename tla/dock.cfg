SPECIFICATION Spec
CONSTANTS
  p = p
  q = q
  b = b
  NoTid = NoTid
  o1 = o1
  o2 = o2
  Tids = {b}
  Reusable = {}
  Known = {}
  Loads <- NoLoads
  Passages <- EveryDirection
  FetchBatch = 2
  MaxObs = 2
  MaxSessions = 2
  MaxCorrections = 1
  MaxResolutions = 2
  MaxLostAcks = 0
  MaxCrashes = 0
  Operators = {o1, o2}
SYMMETRY OperatorSymmetry
INVARIANTS
  DispatchAttributed
PROPERTIES
  CorrectionNotApart
