SPECIFICATION FairSpec
CONSTANTS
  Watchers = {w}
  i = i
  j = j
  h = h
  v = v
  Reservations = {i, j}
  Owners = {h, v}
  HostOwners = {h}
  OwnerOf <- MCOwnerOf
  Blank = Blank
  Filters <- MCFilters
  Capacity = 2
  Buffer = 1
  MaxEvents = 5
INVARIANTS
  DeliveredExactly
  NewestKept
  KnowsUnlessExpired
PROPERTIES
  EventArrives
  UnfilteredTaskEnds
CHECK_DEADLOCK FALSE
