SPECIFICATION FairSpec
CONSTANTS
  Revisions = {base, other}
  Base = base
  Torn = torn
  Keys = {k1, k2}
  Elsewhere = elsewhere
  EventLimit = 2
  KeyLimit = 1
  Timeout = 1
  Grace = 1
  MaxTime = 1
  MaxEvents = 3
INVARIANTS TimeoutMeansUnchanged ChangeIsOfTarget CancelStopsObserving StorageOutlivesRegistration
PROPERTIES Returns
CHECK_DEADLOCK FALSE
