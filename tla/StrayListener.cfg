SPECIFICATION Spec
CONSTANTS
  RangeStart = 1
  RangeEnd = 2
  Clients = {c1, c2}
  Nobody = Nobody
  Reaper = Reaper
  MaxId = 2
  Ports = {1, 2}
  h = h
  g = g
  v = v
  w = w
  t = t
  Owners <- MCOwners
  HostOwners <- MCHostOwners
  VmOwners <- MCVmOwners
  Configured = {v, w}
  CountedWith <- MCCountedWith
  Targets = {t}
  Requests <- VmCalls
  MaxPerOwner = 2
  MaxReconnects = 1
  ExternalPorts = {}
  MayDisconnect = FALSE
  MayDropWrites = FALSE
  MayRestart = FALSE
SYMMETRY ClientSymmetry
INVARIANTS
  NoStrayListener
CHECK_DEADLOCK FALSE
