SPECIFICATION Spec
CONSTANTS
  a = a
  b = b
  p = p
  x = x
  y = y
  old = old
  Intents = {a, b}
  Paths = {p}
  Contents = {x, y, old}
  Target <- OnePath
  Bytes <- Different
  Appends = {a}
  OldFiles <- NoFileYet
  InProcess = {}
  MaxDeaths = 1
  MaxWalFaults = 0
  MaxEmitFaults = 0
  RecoveryAlone = TRUE
  MaxCrashes = 1
INVARIANTS
  TypeOK
  WithdrawnNeverActs
  CompletedWasProved
PROPERTIES
  SettledIsFinal
  KeepsPromise
CHECK_DEADLOCK FALSE
