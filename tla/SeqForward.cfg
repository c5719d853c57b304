SPECIFICATION Spec
CONSTANTS
  Seq = {"a", "b"}
  Runner = {"p"}
  Command = {"forward", "final"}
  OneWay = TRUE
  MayRestore = FALSE
  Unreadable = {"b"}
  Owned = {}
  Early = {}
  Floor = 1
  FinalFloor = 2
  Window = 1
  Keep = 2
  FiveMinutes = 2
  MinGap = 2
  Burst = {1}
  MaxValue = 5
  MaxTime = 2
INVARIANTS TypeOK NoReuse RunCovers
PROPERTIES NeverBackwards StillSourceStillTarget
