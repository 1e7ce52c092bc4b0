SPECIFICATION LogSpec
CONSTANTS
  mail = mail
  tmp = tmp
  Txs = {mail, tmp}
  Reversible <- OnlyTmp
  MaxRecords = 8
  MaxFailures = 2
  MaxStops = 2
INVARIANTS
  AcknowledgedIsKept
  RefusedForCause
  SeenEffectIsEscalated
CHECK_DEADLOCK FALSE
