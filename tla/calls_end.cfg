SPECIFICATION FairSpec
CONSTANTS
  a = a
  b = b
  p = p
  x = x
  y = y
  old = old
  Intents = {a}
  Paths = {p}
  Contents = {x, y, old}
  Target <- OnePath
  Bytes <- Different
  Appends = {}
  OldFiles <- NoFileYet
  InProcess = {}
  MaxDeaths = 1
  MaxWalFaults = 1
  MaxEmitFaults = 1
  RecoveryAlone = TRUE
  MaxCrashes = 2
PROPERTIES
  CallsEnd
  OrphansSettle
CHECK_DEADLOCK FALSE
