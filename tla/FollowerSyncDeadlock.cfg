SPECIFICATION FairSpec
CONSTANTS
  Tx <- TxAlters
  Target = {}
  CoordLane = FALSE
  MaxFailures = 2
  A4 = FALSE
  ErrCodes = {"schema"}
  FaultPoints = {}
  MaxTx = 2
  MaxFaults = 0
PROPERTY AppliedOrHalted
CHECK_DEADLOCK FALSE
