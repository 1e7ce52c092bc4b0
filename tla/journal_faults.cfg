SPECIFICATION Spec
CONSTANTS
  a = a
  b = b
  p = p
  x = x
  y = y
  old = old
  Intents = {a, b}
  Paths = {p}
  Contents = {x, y, old}
  Target <- OnePath
  Bytes <- Same
  Appends = {}
  OldFiles <- AnyFile
  InProcess = {b}
  MaxDeaths = 0
  MaxWalFaults = 1
  MaxEmitFaults = 1
  RecoveryAlone = TRUE
  MaxCrashes = 1
INVARIANTS
  EffectWasAnnounced
  AnswerIsHonest
  CompletedWasProved
  DisownedOpenly
CHECK_DEADLOCK FALSE
