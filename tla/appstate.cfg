SPECIFICATION Spec
CONSTANTS
  HistorySize = 2
  MaxValue = 2
  MaxEvents = 5
  MaxCalls = 3
INVARIANTS
  ProjectionsOwned
  DiffReportsChange
PROPERTIES
  CaptureIsOfOneWindow
CHECK_DEADLOCK FALSE
