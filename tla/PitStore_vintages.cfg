SPECIFICATION PitSpec
CONSTANTS
  Scans = {p1}
  Lag = 1
  MaxLookback = 2
  LastDay = 2
  MaxRevision = 1
  MaxScans = 2
  Unknown = Unknown
CHECK_DEADLOCK FALSE
PROPERTIES
  EveryVintageIsKept
