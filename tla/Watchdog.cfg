SPECIFICATION Spec
CONSTANTS
  Watches <- Sets
  Limit = 1
  Renotify = 2
  MaxErrors = 1
  MaxFaults = 1
INVARIANT TypeOK
PROPERTIES NotPassedOver DisabledIsTrue StaysBadStaysNoticed
CHECK_DEADLOCK FALSE
