CONSTANTS
  NO_EVENT = NO_EVENT
  WAKING_EVENT = WAKING_EVENT
  t = t
  c1 = c1
  c2 = c2
  Threads = {t, c1, c2}
  May <- MayStop
  Sleepers = {t}
  MP = TRUE
  MaxCalls = 1
SPECIFICATION FairSpec
INVARIANTS
  StaysOutOfUser
  HoldsAreKept
PROPERTIES
  CallsReturn
  TerminatedExits
CHECK_DEADLOCK FALSE
