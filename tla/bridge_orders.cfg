SPECIFICATION FairSpec
CONSTANTS
  MaxSeq = 3
  QueueLimit = 2
  MaxConns = 2
  LastSeq <- Numbers
  MaxWire = 2
INVARIANTS
  NoGap
  ActedOnce
PROPERTIES
  GapsClose
CHECK_DEADLOCK FALSE
