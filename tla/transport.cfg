SPECIFICATION FairSpec
CONSTANTS
  Id = {r1, r2}
  NoId = NoId
  MaxLines = 4
  QueueLimit = 1
INVARIANTS LinesInOrder NothingLostUnnoticed CleanEndAnswersAll
PROPERTIES InterruptedForCause CancelEndsCall HostGoneEnds
CHECK_DEADLOCK FALSE
