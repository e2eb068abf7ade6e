SPECIFICATION Spec
CONSTANTS
  Id = {r1, r2}
  NoId = NoId
  MaxLines = 3
  QueueLimit = 2
PROPERTIES OnlyMatchingConsumed
CHECK_DEADLOCK FALSE
