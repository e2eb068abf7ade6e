SPECIFICATION FairSpec
CONSTANTS
  Frames <- MCFrames
  Near <- MCNear
  Timeout = 3
  StableMs = 2
  IntervalMs = 1
  MaxTime = 4
INVARIANTS SettledWasStill FramesOfTarget VerdictInTime CancelStopsSampling
PROPERTIES Returns
CHECK_DEADLOCK FALSE
