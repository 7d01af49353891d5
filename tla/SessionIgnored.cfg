CONSTANTS
  Declared = {"a", "b"}
  Undeclared = {"u"}
  RawLens = {0, 1, 2}
  CondLens = {0, 1}
  FlushInterval = 2
  AnalysisCap = 2
  OnError = {"ignore"}
  MaxSamples = 3
  MaxFailures = 1
SPECIFICATION Spec
CHECK_DEADLOCK FALSE
INVARIANT IndexMatchesData
