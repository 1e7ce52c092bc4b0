SPECIFICATION CausalSpec
CONSTANTS
  a = a
  b = b
  c = c
  d = d
  Events = {a, b, c, d}
  Parents <- Graph
  Clock <- Clocks
  Runners = {r1, r2}
  MaxFailures = 1
  NoRunner = none
INVARIANTS
  CausalOrder
PROPERTIES
  RunReturns
CHECK_DEADLOCK FALSE
