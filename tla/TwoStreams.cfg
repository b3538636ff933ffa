SPECIFICATION Spec
CONSTANTS
  Clients = {c1, c2}
  MaxSubscribers = 2
  Loops = {l1, l2}
  MaxBackoff = 3
  MaxEvents = 1
  MaxCrashes = 0
  NoLoop = none
INVARIANTS
  OneStream
CHECK_DEADLOCK FALSE
