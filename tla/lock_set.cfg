CONSTANTS
  t1 = t1
  t2 = t2
  t3 = t3
  Threads = {t1, t2, t3}
  Ulocks = {u1}
  Abortable = {"acquire", "handoff", "accept"}
  Mortal = {t1}
  Unlinked = FALSE
  MaxCalls = 3
SPECIFICATION Spec
INVARIANTS
  
  
  DestroyWakesAll
CHECK_DEADLOCK FALSE
