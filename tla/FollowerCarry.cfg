SPECIFICATION Spec
CONSTANTS
  Tx <- TxCarry
  Target = {}
  CoordLane = TRUE
  MaxFailures = 2
  A4 = FALSE
  ErrCodes = {"schema"}
  FaultPoints = {"sleep", "coord", "look", "compare", "passed", "step", "drain", "save", "refresh", "stamp", "report", "halt", "command"}
  MaxTx = 3
  MaxFaults = 1
INVARIANTS
  TypeOK
  CarriedExactly
  ReplayOnExactPrefix
  ApplyNeverMeetsReplay
  ArmedIsPending
  SettledIsComplete
PROPERTIES
  KeepsPromise
CHECK_DEADLOCK FALSE
