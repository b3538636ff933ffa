SPECIFICATION Spec
CONSTANTS
  RangeStart = 1
  RangeEnd = 2
  Clients = {c1, c2}
  Nobody = Nobody
  Reaper = Reaper
  MaxId = 2
  Ports = {1, 2}
  h = h
  g = g
  v = v
  w = w
  t = t
  Owners <- MCOwners
  HostOwners <- MCHostOwners
  VmOwners <- MCVmOwners
  Configured = {v, w}
  CountedWith <- MCCountedWith
  Targets = {t}
  Requests <- Mixed
  MaxPerOwner = 2
  MaxReconnects = 0
  ExternalPorts = {}
  MayDisconnect = FALSE
  MayDropWrites = FALSE
  MayRestart = FALSE
PROPERTIES
  ReleasedIsDead
CHECK_DEADLOCK FALSE
