\* Sum against the exact summation; Avg, AvgExact and AvgRound against the
\* exact mean.
CONSTANTS
  WordBits = 7
  Base <- MCBase
  MaxPrec = 2
  DefaultPrec = 2
  Pow10 <- MCPow10
  Inputs <- MCInputs
  MaxTerms = 4
  Ops <- MCOps
  Places <- AllPlaces
  CallModes <- AllCallModes
SPECIFICATION Spec
INVARIANTS
  TypeOK NoWrap PrecCovers AvgTruncatesMean AvgExactOrRounded
PROPERTIES
  SumIsExact
