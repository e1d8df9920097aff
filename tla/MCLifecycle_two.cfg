SPECIFICATION LifecycleSpec
CONSTANTS
  Genomes = {g1}
  Ids = {i1, i2}
  Actionable = {g1}
  Thin = {}
  ScoreSpace <- TwoVerdicts
  NoRow = NoRow
  NoScore = NoScore
  NoId = NoId
  Runs = {r1, r2}
  MaxGen = 1
  PerGen = 1
  BreachSpace <- DemoteOnly
  Sources = {src}
  MaxWeek = 1
  MaxCrash = 0
SYMMETRY LifecycleSymmetry
INVARIANTS
  PromotedHasPassingScore
  LifecycleInvariant
PROPERTIES
  VerdictOutlivesTheRun
