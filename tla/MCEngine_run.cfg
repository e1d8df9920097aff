SPECIFICATION EngineSpec
CONSTANTS
  Genomes = {g1}
  Ids = {i1}
  Actionable = {g1}
  ScoreSpace <- PassFail
  NoRow = NoRow
  NoScore = NoScore
  BreachSpace <- Breaches
  Sources = {src}
  MaxWeek = 2
  MaxCrash = 1
  Unlabelable = Unlabelable
  NoResult = NoResult
  NoPnl = NoPnl
  NoConviction = NoConviction
  NoFeature = NoFeature
INVARIANTS
  MonitorInvariant
  LabelsAreHonest
  CohortsAreFair
  DetectorsAreFair
  VerdictsAreEarned
  SignaturesAreBehaviour
  BreedingIsSound
  NoSideIsFavoured
  LevelsStand
  NothingIsMadeUp
  OrderIsKept
PROPERTIES
  OnlyTonightsDisableIsUndone
  RemovalsAreReported
  BleedingStrategyIsPulled
