SPECIFICATION StreamSpec
CONSTANTS
  Viewers = {}
  Limit = 2
  Cap = 1
  MaxRows = 3
  MaxClock = 3
  MaxFail = 0
  MaxStop = 0
  NoCursor = NoCursor
CHECK_DEADLOCK FALSE
INVARIANTS
  EventsAfterStartupAreStreamed
