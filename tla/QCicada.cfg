CONSTANTS
  r1 = r1
  r2 = r2
  t1 = t1
  t2 = t2
  Readers = {r1, r2}
  Setters = {t1, t2}
  Modes = {"raw", "sha256"}
  Wanted = 2
  NoOne = NoOne
  Closed = Closed
SPECIFICATION FairSpec
INVARIANTS
  OneHandle
  ConfiguredForMode
  OneModePerConnection
PROPERTY DeviceReleased
