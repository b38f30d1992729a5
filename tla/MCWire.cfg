\* A scratch buffer of 16 bytes, padding in runs of four zeros.
CONSTANTS
  WordBits = 10
  Base <- MCBase
  MaxPrec = 3
  DefaultPrec = 2
  Pow10 <- MCPow10
  CacheSpan = 10
  MaxParseLen = 14
  ShortCut = 3
  Literals <- MCLiterals
  ScratchLen = 16
  ZeroRun = 4
  Amounts <- MCAmounts
  Requests <- MCRequests
  Respell <- MCRespell
  Bare <- MCBare
SPECIFICATION WireSpec
INVARIANTS
  CanonicalText FixedText JSONMeansText
PROPERTIES
  WireTerminates
CHECK_DEADLOCK FALSE
