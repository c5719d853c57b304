SPECIFICATION Spec
CONSTANTS
  Tx <- TxHalts
  Target = {"t1", "t2"}
  CoordLane = FALSE
  MaxFailures = 2
  A4 = FALSE
  ErrCodes = {"schema", "refused"}
  FaultPoints = {"sleep", "coord", "look", "compare", "passed", "step", "drain", "save", "refresh", "stamp", "report", "halt", "command"}
  MaxTx = 2
  MaxFaults = 1
INVARIANTS
  CarriedExactly
  NoSilentDivergence
CHECK_DEADLOCK FALSE
