\* What the tests say of a refusal, against the float below 10^-MaxPrec.
CONSTANTS
  WordBits = 10
  Base <- MCBase
  MaxPrec = 3
  DefaultPrec = 2
  Pow10 <- MCPow10
  CacheSpan = 10
  Formats <- MCFormats
  Exponents <- MCExponents
SPECIFICATION Spec
INVARIANTS
  RefusedNeedsPlaces
