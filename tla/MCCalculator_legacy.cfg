\* The relation of MulDivRound to the legacy chain as muldiv.go words it.
CONSTANTS
  WordBits = 7
  Base <- MCBase
  MaxPrec = 2
  DefaultPrec = 2
  Pow10 <- MCPow10
  Ops <- MulDivOps
  Starts <- SevenBitStarts
  Operands <- SevenBitOperandsOf
  Wholes <- MulDivWholes
  Places <- AllPlaces
  Ints <- SevenBitInts
  Exps <- SevenBitExps
  CallModes <- AllCallModes
  MaxCalls = 1
SPECIFICATION Spec
INVARIANTS
  LegacyChainAsDocumented
\* the history is bounded by MaxCalls, so the client stops
CHECK_DEADLOCK FALSE
