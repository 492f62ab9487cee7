\* Sends that time out leave the sender on ip_blocked.
SPECIFICATION Spec
CONSTANTS
  Ports = {p1}
  Psets = {}
  Threads = {t1, t2, t3}
  Msgs = {m1, m2, m3}
  KernelPorts = {}
  Circular = {}
  NULL = NULL
  QlimitDefault = 1
  Qlimits = {}
  Seqnos = {}
  SendOptions = {"timeout"}
  RcvOptions = {"block"}
  Overwrite = FALSE
  Aborts = {}
  Calls = {}
  MP = FALSE
INVARIANT ListsIntact
CHECK_DEADLOCK FALSE
