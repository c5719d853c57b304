SPECIFICATION FairSpec
CONSTANTS
  Tx <- TxLive
  Target = {}
  CoordLane = FALSE
  MaxFailures = 2
  A4 = TRUE
  ErrCodes = {"schema"}
  FaultPoints = {"sleep", "coord", "look", "compare", "passed", "step", "drain", "save", "refresh", "stamp", "report", "halt"}
  MaxTx = 2
  MaxFaults = 1
INVARIANTS
  ApplyNeverMeetsReplay
  TriggersOnlyInReplay
PROPERTIES
  AppliedOrHalted
  NeverAbandoned
  ResumeReenables
CHECK_DEADLOCK FALSE
