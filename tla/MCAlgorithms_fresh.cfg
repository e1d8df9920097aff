SPECIFICATION CaseSpec
CONSTANTS
  Unlabelable = Unlabelable
  NoResult = NoResult
  NoPnl = NoPnl
  NoConviction = NoConviction
  NoFeature = NoFeature
INVARIANTS
  FreshSeedsAreKept
