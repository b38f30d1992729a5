\* Two formats, 8 and 128 significands a binade.
CONSTANTS
  WordBits = 10
  Base <- MCBase
  MaxPrec = 3
  DefaultPrec = 2
  Pow10 <- MCPow10
  CacheSpan = 10
  Formats <- MCFormats
  Exponents <- MCExponents
SPECIFICATION Spec
INVARIANTS
  ShortestClosest Converts
