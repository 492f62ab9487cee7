----------------------------- MODULE IpcThread -----------------------------
(***************************************************************************)
(* The thread queues of ipc_thread.[ch] with their pointers: a queue is a  *)
(* base pointer into a ring of threads doubly linked through ith_next and  *)
(* ith_prev.  A thread has one pair of links, whatever queue it is on.     *)
(***************************************************************************)
EXTENDS Lists

CONSTANTS Threads, Queues, NULL

ASSUME ThreadAssumption == NULL \notin Threads /\ IsFiniteSet(Threads)

VARIABLES ithq_base, ith_next, ith_prev

vars == <<ithq_base, ith_next, ith_prev>>

\* The three pointers maps as one value.
Rings == [base |-> ithq_base, next |-> ith_next, prev |-> ith_prev]

Become(R) == ithq_base' = R.base /\ ith_next' = R.next /\ ith_prev' = R.prev

LinksInit(R, t) == [R EXCEPT !.next[t] = t, !.prev[t] = t]

\* Mutant: the new thread goes in front of the last one, not behind it.
EnqueueBeforeLast(R, q, t) ==
  LET first == R.base[q]
      last  == R.prev[first]
  IN IF first = NULL THEN [R EXCEPT !.base[q] = t]
     ELSE [R EXCEPT !.next[t] = last, !.prev[t] = R.prev[last],
                    !.next[R.prev[last]] = t, !.prev[last] = t]

ipc_thread_enqueue(R, q, t) ==
  LET first == R.base[q]
      last  == R.prev[first]
  IN IF first = NULL THEN [R EXCEPT !.base[q] = t]
     ELSE [R EXCEPT !.next[t] = first, !.prev[t] = last,
                    !.prev[first] = t, !.next[last] = t]

\* Mutant: the links of the thread are not reset.
RmqueueKeepingLinks(R, q, t) ==
  LET next == R.next[t]
      prev == R.prev[t]
  IN IF next = t THEN [R EXCEPT !.base[q] = NULL]
     ELSE [R EXCEPT !.base[q] = IF @ = t THEN next ELSE @,
                    !.prev[next] = prev, !.next[prev] = next]

\* Also ipc_thread_rmqueue_first_macro, which is the case base = thread.
ipc_thread_rmqueue(R, q, t) ==
  LET next == R.next[t]
      prev == R.prev[t]
  IN IF next = t THEN [R EXCEPT !.base[q] = NULL]
     ELSE LinksInit([R EXCEPT !.base[q] = IF @ = t THEN next ELSE @,
                              !.prev[next] = prev, !.next[prev] = next], t)

\* The thread k links after the base of queue q.
Follow(R, q) ==
  LET f[k \in 0..Cardinality(Threads)] == IF k = 0 THEN R.base[q] ELSE R.next[f[k - 1]]
  IN f

\* How many links lead back to the base, or 0 if none do.
RingLength(R, q) ==
  LET back == {k \in 1..Cardinality(Threads) : Follow(R, q)[k] = R.base[q]}
  IN IF back = {} THEN 0 ELSE CHOOSE k \in back : \A j \in back : k <= j

\* The list that is read off the ring of queue q.
ListOf(R, q) ==
  IF R.base[q] = NULL THEN <<>>
  ELSE [k \in 1..RingLength(R, q) |-> Follow(R, q)[k - 1]]

ipc_thread_inqueue(R, q, t) == t \in Range(ListOf(R, q))

-----------------------------------------------------------------------------
Init ==
  /\ ithq_base = [q \in Queues |-> NULL]
  /\ ith_next = [t \in Threads |-> t]
  /\ ith_prev = [t \in Threads |-> t]

\* Callers enqueue a thread where it does not tangle the rings; what happens
\* otherwise is TanglesExactly's business.
Enqueue(t, q) ==
  /\ ~Tangles(t, ListOf(Rings, q), {ListOf(Rings, o) : o \in Queues \ {q}})
  /\ Become(ipc_thread_enqueue(Rings, q, t))

\* ipc_thread_dequeue
Dequeue(q) ==
  /\ ithq_base[q] # NULL
  /\ Become(ipc_thread_rmqueue(Rings, q, ithq_base[q]))

Remove(t, q) ==
  /\ ipc_thread_inqueue(Rings, q, t)
  /\ Become(ipc_thread_rmqueue(Rings, q, t))

Next ==
  \E q \in Queues : Dequeue(q) \/ \E t \in Threads : Enqueue(t, q) \/ Remove(t, q)

Spec == Init /\ [][Next]_vars

-----------------------------------------------------------------------------
\* Forward and backward links agree.
LinksAgree(R) == \A t \in Threads : R.prev[R.next[t]] = t /\ R.next[R.prev[t]] = t

\* Tangles says exactly when ipc_thread_enqueue goes wrong: it holds iff,
\* after the enqueue, the links disagree or some queue reads differently
\* from what the caller meant (the asserts of ipc_thread_enqueue_macro).
TanglesExactly ==
  \A t \in Threads, q \in Queues :
    LET R == ipc_thread_enqueue(Rings, q, t)
        meant == [o \in Queues |-> IF o = q THEN Enqueued(t, ListOf(Rings, q))
                                            ELSE ListOf(Rings, o)]
    IN Tangles(t, ListOf(Rings, q), {ListOf(Rings, o) : o \in Queues \ {q}})
         <=> ~(LinksAgree(R) /\ \A o \in Queues : ListOf(R, o) = meant[o])

Abstract == INSTANCE ThreadLists WITH list <- [q \in Queues |-> ListOf(Rings, q)]

\* The rings behave as the sequences IpcMqueue uses for them: each pointer
\* operation is the list operation, also for a thread left on a queue.
RingsAreLists == Abstract!Spec

=============================================================================
