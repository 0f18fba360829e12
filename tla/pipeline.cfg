SPECIFICATION PipelineSpec
CONSTANTS
  Tags = {t1, t2}
  Absent = Absent
  Config <- SmallConfig
  Keys <- AllKeys
  Unmapped <- NoPortal
  DefaultTimeout = 3
  Timeout = 3
  LookupMargin = 5
  PassDuration = 2
  Stagger = 1
  Separation = 0
  BoxBlocked = 0
  PalletBlocked = 1
  Parked = 3
  Attenuations = {12}
  Floor <- RssiFloor
  Quiet = 2
  MinReadCount = 1
  FetchBatch = 10
  Rssis = {"strong", "weak"}
  MaxDelay = 1
  MaxStall = 0
  MaxReads = 3
  MaxNow = 7
  MaxFaults = 1
  MaxEvents = 2
  Commands <- AllCommands
SYMMETRY Symmetry
INVARIANTS
  PipelineTypeOK
  DirectionOfALoad
CHECK_DEADLOCK FALSE
