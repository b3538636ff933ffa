SPECIFICATION FairSpec
CONSTANTS
  RangeStart = 1
  RangeEnd = 2
  Clients = {c1, c2}
  Nobody = Nobody
  Reaper = Reaper
  MaxId = 1
  Ports = {1, 2}
  h = h
  g = g
  v = v
  w = w
  t = t
  Owners <- MCOwners
  HostOwners <- MCHostOwners
  VmOwners <- MCVmOwners
  Configured = {v, w}
  CountedWith <- MCCountedWith
  Targets = {t}
  Requests <- LiveCalls
  MaxPerOwner = 2
  MaxReconnects = 1
  ExternalPorts = {}
  MayDisconnect = FALSE
  MayDropWrites = FALSE
  MayRestart = FALSE
INVARIANTS
  FwdRegistered
  ReconnectBound
PROPERTIES
  CallsEnd
  BrokerLockReturns
  PendingResolves
  DueLeaseEnds
  HoldClosed
CHECK_DEADLOCK FALSE
