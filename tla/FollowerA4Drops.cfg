SPECIFICATION Spec
CONSTANTS
  Tx <- TxWeb
  Target = {}
  CoordLane = FALSE
  MaxFailures = 2
  A4 = TRUE
  ErrCodes = {"schema"}
  FaultPoints = {}
  MaxTx = 1
  MaxFaults = 0
PROPERTY EveryStepResumes
CHECK_DEADLOCK FALSE
