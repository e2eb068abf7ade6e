SPECIFICATION SeenSpec
CONSTANTS
  Nodes = 2
  Texts = {a, g}
  Goal = g
  NoRequest = NoRequest
  MaxChanges = 1
  Cursor = {c1, c2}
  Spot = {s1, s2}
  Limit = 1
  MaxPolls = 1
  NoCursor = NoCursor
  MaxFaults = 1
  MaxCalls = 2
SYMMETRY Symmetry
INVARIANTS
  NoStrayCursor
  OutcomeIsHonest
  NothingElseMutated
PROPERTIES
  SuccessIsObserved
  EarlierEditsKept
  IndicatedFirst
CHECK_DEADLOCK FALSE
