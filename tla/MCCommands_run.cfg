SPECIFICATION OneCommandSpec
CONSTANTS
  e1 = e1
  e2 = e2
  EraStrategies = {e1, e2}
  p1 = p1
  p2 = p2
  Scorers = {p1, p2}
  Nothing = Nothing
  MaxCommands = 2
  a1 = a1
  a2 = a2
  b1 = b1
  TradeStrategies = {a1, a2, b1}
  Scanners = {"etf", "equity"}
  Horizons = {"swing", "position"}
  Profile <- Profiles
  Replayers = {p1, p2}
  MaxEntries = 2
  MaxReplays = 2
  Scans = {p1, p2}
  Lag = 1
  MaxLookback = 2
  LastDay = 3
  MaxRevision = 1
  MaxScans = 2
  Unknown = Unknown
  Genomes = {g1, g2, g3}
  Ids = {i1, i2, i3}
  Actionable = {g1, g2}
  Thin = {}
  ScoreSpace <- AllScores
  NoRow = NoRow
  NoScore = NoScore
  NoId = NoId
  Runs = {r1}
  MaxGen = 2
  PerGen = 2
SYMMETRY ProcessSymmetry
CHECK_DEADLOCK FALSE
INVARIANTS
  CommandsTypeOK
  QuietEraIsReadOnce
  LoneReplayIsExact
  StoreIsConsistent
  FinishedRunMatchesVerdict
  StatusInvariant
  ScoreboardDurable
  TrialsCountDistinctGenomes
PROPERTIES
  EraIsOnceOnly
  ReplayTouchesItsScannerOnly
  PastViewsOnlyMoveForward
  RetiredStaysRetired
