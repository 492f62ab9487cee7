------------------------------- MODULE RwSpec -------------------------------
(***************************************************************************)
(* What a read/write lock that can be upgraded promises its users          *)
(* (kern/lock.h): readers together or a writer alone, and a reader that    *)
(* asks to become a writer keeps all writers out from the moment it asks,  *)
(* or is told at once that another reader was first.                       *)
(***************************************************************************)
CONSTANT Threads

VARIABLE mode      \* per thread: "none", "read", "upgrade", "write"

Nobody(M, t) == \A u \in Threads \ {t} : mode[u] \notin M

Becomes(t, m) == mode' = [mode EXCEPT ![t] = m]

Read(t) == mode[t] = "none" /\ Nobody({"upgrade", "write"}, t) /\ Becomes(t, "read")

Write(t) ==
  /\ mode[t] \in {"none", "upgrade"}
  /\ Nobody({"read", "upgrade", "write"}, t)
  /\ Becomes(t, "write")

Upgrade(t) == mode[t] = "read" /\ Nobody({"upgrade", "write"}, t) /\ Becomes(t, "upgrade")

\* Only another reader that asked first makes it fail.
UpgradeFails(t) == mode[t] = "read" /\ ~Nobody({"upgrade"}, t) /\ Becomes(t, "none")

Downgrade(t) == mode[t] = "write" /\ Becomes(t, "read")

Release(t) == mode[t] \in {"read", "write"} /\ Becomes(t, "none")

Init == mode = [t \in Threads |-> "none"]

Next == \E t \in Threads : Read(t) \/ Write(t) \/ Upgrade(t) \/ UpgradeFails(t)
                           \/ Downgrade(t) \/ Release(t)

Spec == Init /\ [][Next]_mode

=============================================================================
