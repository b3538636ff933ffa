SPECIFICATION FairSpec
CONSTANTS
  c1 = c1
  c2 = c2
  Conns = {c1, c2}
  MaxConnections = 1
  MaxReconnects = 1
  Window <- MCWindow
INVARIANTS
  CounterExact
  TunnelBound
  EndsComplete
PROPERTIES
  BusyConnectionEnds
  
CHECK_DEADLOCK FALSE
