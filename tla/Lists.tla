------------------------------- MODULE Lists -------------------------------
(***************************************************************************)
(* Sequences in the place of the kernel's linked lists, and when a thread  *)
(* may be put on an ipc_thread_queue (ipc_thread.[ch]).                    *)
(***************************************************************************)
EXTENDS Integers, Sequences, FiniteSets, Functions

\* The elements of s at the positions in I, in order.
At(s, I) ==
  [k \in 1..Cardinality(I) |->
     s[CHOOSE i \in I : Cardinality({j \in I : j <= i}) = k]]

\* Mutant: the thread stays on the list.
WithoutNot(s, t) == s

\* ipc_thread_rmqueue: pull one thread out of a list.
Without(s, t) == At(s, {i \in DOMAIN s : s[i] # t})

Smaller(a, b) == IF a <= b THEN a ELSE b

(***************************************************************************)
(* ipc_thread_enqueue links a thread through its only pair of links, so it *)
(* is sound only if the thread is on no list.  A thread that is still on   *)
(* one comes to no harm when every ring involved is that thread alone;     *)
(* otherwise the rings are spliced and some list is wrong.  IpcThread      *)
(* checks this against the pointers.                                       *)
(***************************************************************************)
Tangles(t, list, others) ==
  ~ \/ /\ t \notin Range(list)
       /\ \A o \in others : Range(o) \cap (Range(list) \cup {t}) = {}
    \/ /\ list \in {<<>>, <<t>>}
       /\ \A o \in others : t \in Range(o) => o = <<t>>

\* The list after ipc_thread_enqueue, if that does not tangle it.
Enqueued(t, list) == IF list = <<t>> THEN list ELSE Append(list, t)

=============================================================================
