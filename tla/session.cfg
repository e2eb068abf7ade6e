SPECIFICATION FairSpec
CONSTANTS
  MaxSlots = 2
  MaxSessions = 3
  MaxRequests = 4
  MaxStray = 1
INVARIANTS SessionsInStep IdsHandedOnce
PROPERTIES ResultIsOwn CallsReturn
CHECK_DEADLOCK FALSE
