SPECIFICATION ToolSpec
CONSTANTS
  Pixels <- MCPixels
  Frames <- MCFrames
  Near <- MCNear
  Region <- MCRegion
  base = {}
  Unit = 2
  MinInside = 2
  MaxOutside = 0
  MaxBefore = 1
  MaxAge = 1
  Timeout = 2
  StableMs = 1
  IntervalMs = 1
  MaxTime = 2
INVARIANTS ChangeIsNew
CHECK_DEADLOCK FALSE
