\* Two ports move between two sets while messages are sent and received.
SPECIFICATION Spec
CONSTANTS
  Ports = {p1, p2}
  Psets = {s1, s2}
  Threads = {t1, t2}
  Msgs = {m1, m2, m3}
  KernelPorts = {}
  Circular = {}
  NULL = NULL
  QlimitDefault = 1
  Qlimits = {}
  Seqnos = {}
  SendOptions = {"always"}
  RcvOptions = {"timeout", "block"}
  Overwrite = FALSE
  Aborts = {}
  Calls = {"pset_move", "pset_destroy"}
  MP = FALSE
SYMMETRY Symmetry
VIEW View
INVARIANT InOrder
CHECK_DEADLOCK FALSE
