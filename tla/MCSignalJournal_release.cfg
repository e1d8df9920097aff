SPECIFICATION LoopCastSpec
CONSTANTS
  Strategies = {s1}
  Tickers = {t1}
  Night = night
  Operators = {}
  Journaling = {}
  Releases <- OneRelease
  Hold = 1
  Blackout = 2
  NoBar = NoBar
  MaxDay = 3
  MaxSignals = 1
CHECK_DEADLOCK FALSE
INVARIANTS
  NoEntryIntoRelease
