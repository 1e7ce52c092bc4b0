SPECIFICATION FairSpec
CONSTANTS
  Tasks = {t1, t2}
  Mutators = {t1, t2, a1}
  NoTask = NoTask
  MaxStops = 1
  Triggers = {s1, s2}
  Windows = {w1}
  MaxWindows = 2
INVARIANTS TypeOK SnapshotsAreQuiet TagIsCurrent
PROPERTIES WaitersPass TasksServed
CHECK_DEADLOCK FALSE
