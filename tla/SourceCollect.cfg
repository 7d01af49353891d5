CONSTANTS
  Sizes <- MCSizes
  MaxRounds = 2
SPECIFICATION Spec
INVARIANTS
  LeaksOnlyKnown
  ReleasedOnce
  OversamplingSuffices
CHECK_DEADLOCK FALSE
