\* Div in the 10-bit instance, where precision degrades by up to three digits.
CONSTANTS
  WordBits = 10
  Base <- MCBase
  MaxPrec = 3
  DefaultPrec = 3
  Pow10 <- MCPow10
  Ops <- TenBitOps
  Starts <- TenBitStarts
  Operands <- TenBitOperands
  Wholes <- MulDivWholes
  Places <- AllPlaces
  Ints <- SevenBitInts
  Exps <- SevenBitExps
  CallModes <- AllCallModes
  MaxCalls = 2
SPECIFICATION Spec
INVARIANTS
  DivGreatestPrec EstimateTight
\* the history is bounded by MaxCalls, so the client stops
CHECK_DEADLOCK FALSE
