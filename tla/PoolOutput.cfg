CONSTANTS
  c1 = c1
  c2 = c2
  Callers = {c1, c2}
  Requests <- SmallRequests
  MaxRounds = 2
  SampleMax = 1
  BlockLen = 2
  Yield = 2
  MaxBytes = 2
  MaxBlocks = 1
SPECIFICATION FairSpec
INVARIANTS
  CounterNeverRepeats
  OwnStateAdvances
PROPERTIES
  IsByteStream
  CallsReturn
