SPECIFICATION Spec
CONSTANTS
  Seq = {"a"}
  Runner = {"timer", "operator"}
  Command = {"forward", "final"}
  OneWay = TRUE
  MayRestore = FALSE
  Unreadable = {}
  Owned = {}
  Early = {"a"}
  Floor = 1
  FinalFloor = 2
  Window = 2
  Keep = 2
  FiveMinutes = 2
  MinGap = 2
  Burst = {1}
  MaxValue = 8
  MaxTime = 1
PROPERTIES NeverBackwards
