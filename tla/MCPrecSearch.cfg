\* Every monotone predicate below the library's own limits.
CONSTANT
  Limits <- MCLimits
SPECIFICATION FairSpec
INVARIANTS
  FindsGreatest SearchBrackets
PROPERTY
  Terminates
