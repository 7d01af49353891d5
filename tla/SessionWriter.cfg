CONSTANTS
  Declared = {"a", "b"}
  Undeclared = {"u"}
  RawLens = {0, 1, 2}
  CondLens = {0, 1}
  FlushInterval = 2
  AnalysisCap = 2
  OnError = {"finish", "drop"}
  MaxSamples = 3
  MaxFailures = 2
SPECIFICATION Spec
CHECK_DEADLOCK FALSE
INVARIANTS
  IndexMatchesData
  LossBounded
  ClosedIsComplete
  AnalysisKeepsTail
