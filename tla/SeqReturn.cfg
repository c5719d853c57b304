SPECIFICATION Spec
CONSTANTS
  Seq = {"a"}
  Runner = {"p"}
  Command = {"final", "reverse-final", "from-data"}
  OneWay = TRUE
  MayRestore = TRUE
  Unreadable = {}
  Owned = {"a"}
  Early = {"a"}
  Floor = 1
  FinalFloor = 2
  Window = 1
  Keep = 1
  FiveMinutes = 2
  MinGap = 2
  Burst = {1}
  MaxValue = 6
  MaxTime = 0
INVARIANTS NoReuse
PROPERTIES NeverBackwards
