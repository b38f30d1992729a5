\* Every kind of destination against every sender.
CONSTANTS
  WordBits = 10
  Base <- MCBase
  MaxPrec = 3
  DefaultPrec = 3
  Pow10 <- MCPow10
  CacheSpan = 10
  Values <- MCValues
  Foreign <- MCForeign
SPECIFICATION Spec
INVARIANTS
  TypeOK ParseComplete BinaryCanonical CacheTransparent
PROPERTIES
  RoundTrips NoStaleAmount
