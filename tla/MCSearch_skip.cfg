SPECIFICATION SearchSpec
CONSTANTS
  Genomes = {g1, g2}
  Ids = {i1, i2}
  Actionable = {g1, g2}
  Thin = {}
  ScoreSpace <- VerdictScores
  NoRow = NoRow
  NoScore = NoScore
  NoId = NoId
  Runs = {r1}
  MaxGen = 2
  PerGen = 1
CHECK_DEADLOCK FALSE
PROPERTIES
  SkippedEvaluationKeepsPromotion
