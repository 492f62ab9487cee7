\* Three queues, four threads, every order of the operations.
SPECIFICATION Spec
CONSTANTS
  Threads = {t1, t2, t3, t4}
  Queues = {q1, q2, q3}
  NULL = NULL
INVARIANT TanglesExactly
PROPERTY RingsAreLists
