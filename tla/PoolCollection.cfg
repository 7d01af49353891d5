CONSTANTS
  c1 = c1
  c2 = c2
  Callers = {c1, c2}
  CallerOps <- AllAgainstAnything
  N = 2
  MaxConcurrent = 1
SPECIFICATION Spec
INVARIANTS
  TypeOK
  OneWorkerPerSource
  InFlightAccounted
  OnlySilentSourcesMarked
  OneAnswerPerSource
PROPERTY SharedSweepBudget
