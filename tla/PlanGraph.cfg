SPECIFICATION Spec
CONSTANTS
  Stem = {1, 2, 3}
  Layouts <- AllLayouts
INVARIANTS TypeOK CyclesAreFlagged RootSelects OpenIsVisible VisibleIsDrawn ScriptsAgree
PROPERTY Ends
CHECK_DEADLOCK FALSE
