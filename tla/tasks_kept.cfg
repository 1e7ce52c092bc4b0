SPECIFICATION FairSpec
CONSTANTS
  a = a
  b = b
  c = c
  Tasks = {a, b, c}
  MaxRuns <- TwiceA
  Recurring = {a}
  Delayed = {a}
  Cancelled = {c}
  MaxWorkers = 2
INVARIANTS
  TypeOK
  NothingIsLost
  RunsAreCounted
PROPERTIES
  EveryTaskEnds
