\* One port and one set under every call but set_seqno; receives time out and
\* are aborted, sends block.
SPECIFICATION Spec
CONSTANTS
  Ports = {p1}
  Psets = {s1}
  Threads = {t1, t2, t3}
  Msgs = {m1, m2, m3}
  KernelPorts = {}
  Circular = {}
  NULL = NULL
  QlimitDefault = 1
  Qlimits = {1, 2}
  Seqnos = {}
  SendOptions = {"block", "always"}
  RcvOptions = {"timeout", "poll"}
  Overwrite = FALSE
  Aborts = {"rcvwait"}
  Calls = {"pset_move", "pset_destroy", "set_qlimit", "move_receive", "port_destroy"}
  MP = FALSE
SYMMETRY Symmetry
VIEW View
INVARIANTS WaitersAreServable OnePlace NothingLost NoLostSendWakeup GonePortsAreClean NoPanic
CHECK_DEADLOCK FALSE
