SPECIFICATION Spec
CONSTANTS
  a = a
  b = b
  c = c
  d = d
  e5 = e5
  Events = {a, b, c, d}
  SegmentEvents = 2
  FaultKinds = {"lost", "landed", "torn", "unlisted", "unrotated"}
  MaxFaults = 2
  MaxReopens = 2
  NoHash = NoHash
  Fragment = Fragment
  Garbage = Garbage
SYMMETRY Symmetric
INVARIANTS
  SalvageHasNoGaps
  StrictIsComplete
  BootIsHonest
CHECK_DEADLOCK FALSE
