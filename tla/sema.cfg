\* Waits of every kind, all calls, several processors.
SPECIFICATION FairSpec
CONSTANTS
  Threads = {t1, t2, t3}
  Urgent = {t1}
  Priority <- MCPriority
  Policy = "FIXED_PRIORITY"
  Value = 1
  Waits = {"forever", "timed", "zero"}
  Calls = {"signal", "signal_all", "signal_thread", "destroy"}
  Aborts = TRUE
  MP = TRUE
  MaxGiven = 2
INVARIANTS  NoUseAfterFree NoUnitInvented
PROPERTIES PolicyOrder DestroyReleases
CHECK_DEADLOCK FALSE
