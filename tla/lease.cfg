SPECIFICATION FairSpec
CONSTANTS
  Server = {s1, s2}
  Slot = {k1}
  Button = {b1}
  MaxOpens = 2
  NoFd = NoFd
  NoSlot = NoSlot
  NoText = NoText
INVARIANTS TypeOK MutualExclusion ChildrenCovered DependantsNeedLease
PROPERTIES TextWrittenUnderLock ImplementsDesktopLease LeaseFreedAfterDeath CallsReturn
CHECK_DEADLOCK FALSE
