SPECIFICATION StreamSpec
CONSTANTS
  Chunk = 2
  MaxBytes = 4
  Sources = {s1, s2}
PROPERTY
  StreamIsFinite
CHECK_DEADLOCK FALSE
