SPECIFICATION Spec
CONSTANTS
  RangeStart = 1
  RangeEnd = 2
  Clients = {c1, c2}
  Nobody = Nobody
  Reaper = Reaper
  MaxId = 2
  Ports = {1, 2}
  h = h
  g = g
  v = v
  w = w
  t = t
  Owners <- MCOwners
  HostOwners <- MCHostOwners
  VmOwners <- MCVmOwners
  Configured = {v}
  CountedWith <- MCCountedWith
  Targets = {t}
  Requests <- CoreCalls
  MaxPerOwner = 2
  MaxReconnects = 0
  ExternalPorts = {1}
  MayDisconnect = TRUE
  MayDropWrites = TRUE
  MayRestart = TRUE
SYMMETRY ClientSymmetry
INVARIANTS
  TypeOK
  OneRowPerPort
  HoldAccounted
  
PROPERTIES
  LedgerSpec
  DeadStaysDead
  HoldKept
CHECK_DEADLOCK FALSE
