SPECIFICATION FairSpec
CONSTANTS
  click = click
  type = type
  urgent = urgent
  modest = modest
  w = w
  generic = generic
  s1 = s1
  s2 = s2
  Intents = {click, type, urgent, modest}
  Windows = {w}
  Generic = generic
  Lane <- TwoLanes
  Priority <- Urgency
  Verified = {click}
  Stream = {urgent}
  Threads = {s1, s2}
  MaxStops = 1
INVARIANTS
  OneHolder
PROPERTIES
  NoOvertaking
  FuturesResolve
