SPECIFICATION CastSpec
CONSTANTS
  Viewers = {v1}
  Limit = 2
  Cap = 2
  MaxRows = 4
  MaxClock = 4
  MaxFail = 1
  MaxStop = 1
  NoCursor = NoCursor
CHECK_DEADLOCK FALSE
INVARIANTS
  StreamInvariant
  SignalsAreNeverSkipped
  LossNeedsATie
PROPERTIES
  ImplementsLiveFeed
  SignalsArePublished
