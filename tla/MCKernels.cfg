\* Every kernel at the edges of its words.
CONSTANTS
  WordBits = 7
  Base <- MCBase
  MaxPrec = 2
  Pow10 <- MCPow10
  Calls <- MCCalls
SPECIFICATION Spec
INVARIANTS
  DigitsExact
PROPERTIES
  KernelsImplementIntegers
