SPECIFICATION Spec
CONSTANTS
  Tx <- TxWeb
  Target = {}
  CoordLane = FALSE
  MaxFailures = 2
  A4 = FALSE
  ErrCodes = {"schema"}
  FaultPoints = {"halted"}
  MaxTx = 2
  MaxFaults = 1
INVARIANT CarriedExactly
CHECK_DEADLOCK FALSE
