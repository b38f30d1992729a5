\* Two-limb coefficients of 20 bits; literals of up to 14 bytes.
CONSTANTS
  WordBits = 10
  Base <- MCBase
  MaxPrec = 3
  DefaultPrec = 2
  Pow10 <- MCPow10
  CacheSpan = 10
  MaxParseLen = 14
  ShortCut = 3
  Literals <- MCLiterals
SPECIFICATION Spec
INVARIANTS
  StrictIsText TruncCutsOff
PROPERTIES
  Terminates
CHECK_DEADLOCK FALSE
