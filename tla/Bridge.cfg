SPECIFICATION Spec
CONSTANTS
  Clients = {c1, c2}
  MaxSubscribers = 2
  Loops = {l1, l2}
  MaxBackoff = 3
  MaxEvents = 3
  MaxCrashes = 1
  NoLoop = none

  
  
PROPERTIES
  StreamReturns
  
CHECK_DEADLOCK FALSE
