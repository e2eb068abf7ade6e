SPECIFICATION Spec
CONSTANTS
  Server = {s1, s2}
  Slot = {k1}
  Button = {b1}
  MaxOpens = 1
  NoFd = NoFd
  NoSlot = NoSlot
  NoText = NoText
PROPERTIES RefusalNamesOwner
CHECK_DEADLOCK FALSE
