SPECIFICATION FairSpec
CONSTANTS
  groq = groq
  together = together
  c1 = c1
  c2 = c2
  Callers = {c1, c2}
  Configured <- Keyed
  Priority <- Equal
  DailyLimit <- Limits
  Vision <- Eyes
  Retries = 2
  MaxDays = 1
INVARIANTS
  LimitKept
PROPERTIES
  NoneNeglected
