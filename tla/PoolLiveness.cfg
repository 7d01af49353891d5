CONSTANTS
  c1 = c1
  c2 = c2
  Callers = {c1, c2}
  CallerOps <- AllAgainstRaw
  N = 2
  MaxConcurrent = 1
SPECIFICATION FairSpec
PROPERTIES
  CallsReturn
  SourcesCollectedAgain
