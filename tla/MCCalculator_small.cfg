\* Every Decimal of the 4-bit instance.
CONSTANTS
  WordBits = 4
  Base <- MCBase
  MaxPrec = 1
  DefaultPrec = 1
  Pow10 <- MCPow10
  Ops <- FourBitOps
  Starts <- AllDecimals
  Operands <- FourBitOperands
  Wholes <- FourBitWholes
  Places <- AllPlaces
  Ints <- SevenBitInts
  Exps <- SevenBitExps
  CallModes <- AllCallModes
  MaxCalls = 1
SPECIFICATION Spec
INVARIANTS
  TypeOK AddSubExact QuoRemIdentity RoundedOnce RoundFamily OrderIsExact
\* the history is bounded by MaxCalls, so the client stops
CHECK_DEADLOCK FALSE
