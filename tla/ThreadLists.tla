---------------------------- MODULE ThreadLists ----------------------------
(***************************************************************************)
(* What an ipc_thread_queue promises to ipc_mqueue.c: a list of threads,   *)
(* served first come, first served, from which any thread can be pulled.   *)
(***************************************************************************)
EXTENDS Lists

CONSTANTS Threads, Queues

VARIABLE list

Init == list = [q \in Queues |-> <<>>]

Enqueue(t, q) ==
  /\ ~Tangles(t, list[q], {list[o] : o \in Queues \ {q}})
  /\ list' = [list EXCEPT ![q] = Enqueued(t, @)]

Dequeue(q) ==
  /\ list[q] # <<>>
  /\ list' = [list EXCEPT ![q] = Tail(@)]

Remove(t, q) ==
  /\ t \in Range(list[q])
  /\ list' = [list EXCEPT ![q] = Without(@, t)]

Next ==
  \E q \in Queues : Dequeue(q) \/ \E t \in Threads : Enqueue(t, q) \/ Remove(t, q)

Spec == Init /\ [][Next]_list

=============================================================================
