\* Liveness under weak fairness of the threads.
SPECIFICATION FairSpec
CONSTANTS
  Ports = {p1}
  Psets = {}
  Threads = {t1, t2}
  Msgs = {m1, m2}
  KernelPorts = {}
  Circular = {}
  NULL = NULL
  QlimitDefault = 1
  Qlimits = {0, 2}
  Seqnos = {}
  SendOptions = {"block"}
  RcvOptions = {"timeout"}
  Overwrite = FALSE
  Aborts = {"rcvwait"}
  Calls = {"port_destroy", "set_qlimit"}
  MP = FALSE
PROPERTIES SendersOfDeadPortsReturn RoomUnblocks HandedIsReceived
CHECK_DEADLOCK FALSE
