SPECIFICATION CastSpec
CONSTANTS
  Strategies = {s1, s2}
  Tickers = {t1}
  Night = night
  Operators = {op}
  Journaling = {op}
  Releases <- OneRelease
  Hold = 1
  Blackout = 2
  NoBar = NoBar
  MaxDay = 3
  MaxSignals = 2
SYMMETRY JournalSymmetry
CHECK_DEADLOCK FALSE
INVARIANTS
  JournalInvariant
  OneTradePerSignal
  StableSetupsSurface
  PulledStrategyIsSilent
