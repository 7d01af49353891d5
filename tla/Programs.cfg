SPECIFICATION Spec
CONSTANTS
  PipeSize = 2
  MaxOutput = 4
  Ids = {c1, c2, c3}
  Selectors = 3
  Chunk = 2
  MaxBytes = 6
  Sources = {s1, s2}
  Measured = {m1}
  WarmupRounds = 1
  Rounds = 3
  NaN = NaN
INVARIANTS
  CommandSound
  CameraSound
  ClientsSound
  BenchmarkSound
PROPERTIES
  ChildrenEnd
  ClientsEnd
CHECK_DEADLOCK FALSE
