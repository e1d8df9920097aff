SPECIFICATION LoopCastSpec
CONSTANTS
  Strategies = {s1}
  Tickers = {t1}
  Night = night
  Operators = {}
  Journaling = {}
  Releases <- NoRelease
  Hold = 1
  Blackout = 2
  NoBar = NoBar
  MaxDay = 2
  MaxSignals = 2
CHECK_DEADLOCK FALSE
PROPERTIES
  NightJournalsOpenSignals
