\* The 7-bit instance, DefaultPrec below MaxPrec as in the prec_9 and prec_12 builds.
CONSTANTS
  WordBits = 7
  Base <- MCBase
  MaxPrec = 2
  DefaultPrec = 1
  Pow10 <- MCPow10
  Ops <- SevenBitOps
  Starts <- SevenBitStarts
  Operands <- SevenBitOperandsOf
  Wholes <- MulDivWholes
  Places <- AllPlaces
  Ints <- SevenBitInts
  Exps <- SevenBitExps
  CallModes <- AllCallModes
  MaxCalls = 1
SPECIFICATION Spec
INVARIANTS
  ExactOrReason ExactPrecision MulTruncates RoundedOnce LegacyChainAgrees
\* the history is bounded by MaxCalls, so the client stops
CHECK_DEADLOCK FALSE
