SPECIFICATION Spec
CONSTANTS
  Documents <- Published
  Slot = {"m"}
  Follow = 1
  Skew = 1
  Back = 2
  Ahead = 1
  Lag = 1
  MaxTime = 3
  MaxDrills = 2
INVARIANTS TypeOK NotSentTwice
PROPERTIES RealIsNotHidden DrillIsNotReal DrillIdIsItsOwn NoSilentLoss RecordIsTrue EverythingSettles
CHECK_DEADLOCK FALSE
