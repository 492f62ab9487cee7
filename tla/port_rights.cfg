SPECIFICATION Spec
CONSTANTS
  t1 = t1
  t2 = t2
  p1 = p1
  p2 = p2
  Tasks = {t1, t2}
  Ports = {p1, p2}
  NULL = NULL
  DEAD = DEAD
  NumNames = 2
  NumSlots = 2
  UrefsMax = 3
  Calls <- MCCalls
  Dests = {"copy_send", "move_send", "move_sonce"}
  Bodies = {"make_send", "move_receive"}
  Inserts = {"make_sonce"}
  MaxMsgs = 2
  MaxMscount = 3
  MaxSonce = 3
  MaxCalls = 3
  RtPorts = {p2}
  Starts <- MCStarts
INVARIANTS RightsCounted ReferencesAgree  NoCircle
PROPERTY WorkEnds
CHECK_DEADLOCK FALSE
