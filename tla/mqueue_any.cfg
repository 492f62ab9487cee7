\* Everything a program may do on several processors, the calls that break
\* other properties included.
SPECIFICATION Spec
CONSTANTS
  Ports = {p1, k1}
  Psets = {s1}
  Threads = {t1, t2}
  Msgs = {m1, m2}
  KernelPorts = {k1}
  Circular = {m2}
  NULL = NULL
  QlimitDefault = 1
  Qlimits = {}
  Seqnos = {3}
  SendOptions = {"timeout", "poll"}
  RcvOptions = {"timeout"}
  Overwrite = TRUE
  Aborts = {"sendwait", "rcvwait"}
  Calls = {"pset_move", "pset_destroy", "set_seqno", "move_receive", "port_destroy"}
  MP = TRUE
SYMMETRY Symmetry
INVARIANTS QueueDiscipline RightQueue Unshared 
CHECK_DEADLOCK FALSE
