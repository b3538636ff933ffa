SPECIFICATION Spec
CONSTANTS
  RangeStart = 3
  RangeEnd = 5
  MaxPort = 7
  OwnerChars <- Chars
  MaxOwnerLen = 5
  Years = {1970, 1971, 1972, 1973, 1999, 2000, 2001, 2096, 2100, 2101}
  LastYear = 2102
INVARIANTS
  ScanMatchesRelation
  AllocationHonoursRequest
  
  WatchWithinList
  ParseMatchesCalendar
  
  ReserveAsTyped
  ActsOnNamed
  ListComplete
  
  SettingsAgree
  SessionWithExpectedHost
CHECK_DEADLOCK FALSE
