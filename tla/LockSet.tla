------------------------------ MODULE LockSet ------------------------------
(***************************************************************************)
(* A lock set (kern/sync_lock.c): locks that threads acquire, release, and *)
(* hand to each other, the queues of waiting threads, and what becomes of  *)
(* them when a thread is aborted or terminated or the set is destroyed.    *)
(* One action is one stretch of code under the locks of the set and the    *)
(* ulock, with what follows it up to the next wait: one processor, and a   *)
(* kernel that is not preempted.  The policy is FIFO.  A call that is      *)
(* refused changes nothing and is left out.                                *)
(***************************************************************************)
EXTENDS Lists

CONSTANTS
  Threads,
  Ulocks,
  Abortable,       \* waits threads are aborted in: "acquire", "handoff", "accept"
  Mortal,          \* threads that may be terminated
  Unlinked,        \* are threads aborted in a hand-off whose wait_link is clear
  MaxCalls         \* bound: calls of one thread

ASSUME LockSetAssumption ==
  /\ Abortable \subseteq {"acquire", "handoff", "accept"}
  /\ Mortal \subseteq Threads
  /\ "THREAD_NULL" \notin Threads
  /\ Unlinked \in BOOLEAN
  /\ MaxCalls \in Nat

VARIABLES
  active,          \* is the set active
  ulock,           \* per ulock: owner, stable, held, ho_thread, blocked_threads
  held_ulocks, handoff_ulocks,
  th,              \* per thread: control and wait state, and whether
                   \* wait_link.prev is non-zero; history: missed, a call
                   \* that was completed has returned THREAD_INTERRUPTED
  calls,
  holds            \* history: the ulocks that the results of its calls have
                   \* given to a thread

setVars == <<active, held_ulocks, handoff_ulocks>>
vars == <<setVars, ulock, th, calls, holds>>

NoThread == "THREAD_NULL"

Out == [op |-> "none", lock |-> "none", wait |-> FALSE, link |-> FALSE, result |-> "none", dead |-> FALSE,
        missed |-> FALSE]

\* Back from its call; wait_link stays as it is.
Idle(i) == [Out EXCEPT !.link = i.link, !.dead = i.dead, !.missed = i.missed]

\* Results that come with the lock.
Got == {"SUCCESS", "LOCK_UNSTABLE"}
Status(u) == IF u.stable THEN "SUCCESS" ELSE "LOCK_UNSTABLE"

\* What thread t knows after its call op on l has returned r.
Learns(t, l, op, r) ==
  holds' = [holds EXCEPT ![t] =
    CASE r \in Got /\ op \in {"acquire", "accept"} -> @ \cup {l}
      [] r = "SUCCESS" /\ op \in {"release", "handoff"} -> @ \ {l}
      [] OTHER -> @]

\* A call on ulock l by a thread that is free to make it.
Calls(t, l) ==
  /\ active
  /\ th[t].op = "none" /\ ~th[t].dead
  /\ calls[t] < MaxCalls
  /\ calls' = [calls EXCEPT ![t] = @ + 1]

\* The caller goes to wait.
WaitsIn(t, op, l, link) ==
  th' = [th EXCEPT ![t] = [@ EXCEPT !.wait = TRUE, !.op = op, !.lock = l, !.link = th[t].link \/ link]]

-----------------------------------------------------------------------------
(* Waking a thread i that has been given something.                        *)

\* clear_wait(i, r, TRUE)
clear_wait(i, r) == IF i.wait THEN [i EXCEPT !.wait = FALSE, !.result = r] ELSE i

\* Mutant: LOCK_OPERATION_COMPLETE is forgotten.
CompleteNot(i, r) == clear_wait(i, r)

\* LOCK_OPERATION_COMPLETE, then clear_wait
Complete(i, r) == clear_wait([i EXCEPT !.link = FALSE], r)

\* The caller wakes u with result r.
Wakes(u, r) == th' = [th EXCEPT ![u] = Complete(@, r)]

-----------------------------------------------------------------------------
(* The calls.                                                              *)

\* ulock_ownership_set of a ulock that was free
Take(t, l) ==
  /\ ulock' = [ulock EXCEPT ![l].owner = t, ![l].held = TRUE]
  /\ held_ulocks' = held_ulocks \cup {l}
  /\ Learns(t, l, "acquire", Status(ulock[l]))
  /\ UNCHANGED <<active, handoff_ulocks>>

lock_acquire(t, l) ==
  /\ Calls(t, l)
  /\ \/ ~ulock[l].held /\ Take(t, l) /\ UNCHANGED th
     \/ /\ ulock[l].held
        /\ ulock' = [ulock EXCEPT ![l].blocked_threads = Append(@, t)]
        /\ WaitsIn(t, "acquire", l, TRUE)
        /\ UNCHANGED <<setVars, holds>>

\* lock_try, of a lock that is free
lock_try(t, l) ==
  /\ Calls(t, l)
  /\ ~ulock[l].held
  /\ Take(t, l)
  /\ UNCHANGED th

lock_make_stable(t, l) ==
  /\ Calls(t, l)
  /\ ulock[l].owner = t
  /\ ulock' = [ulock EXCEPT ![l].stable = TRUE]
  /\ UNCHANGED <<setVars, th, holds>>

\* Mutant: the lock is freed before the queue is looked at.
ReleasedFree(u) == [u EXCEPT !.owner = NoThread, !.held = FALSE]

\* The ulock after lock_release_internal: passed on to the first thread that
\* waits for it, or free.
Released(u) ==
  IF u.blocked_threads # <<>>
  THEN [u EXCEPT !.owner = Head(u.blocked_threads), !.blocked_threads = Tail(@)]
  ELSE [u EXCEPT !.owner = NoThread, !.held = FALSE]

\* lock_release: lock_release_internal by the owner
lock_release(t, l) ==
  /\ Calls(t, l)
  /\ ulock[l].owner = t
  /\ ulock' = [ulock EXCEPT ![l] = Released(@)]
  /\ IF ulock'[l].held THEN Wakes(ulock'[l].owner, Status(ulock[l])) ELSE UNCHANGED th
  /\ held_ulocks' = IF ulock'[l].held THEN held_ulocks ELSE held_ulocks \ {l}
  /\ Learns(t, l, "release", "SUCCESS")
  /\ UNCHANGED <<active, handoff_ulocks>>

\* The pending hand-off of l ends with t as its owner.
HandedTo(t, l) ==
  /\ ulock' = [ulock EXCEPT ![l].owner = t, ![l].ho_thread = NoThread]
  /\ handoff_ulocks' = handoff_ulocks \ {l}
  /\ UNCHANGED <<active, held_ulocks>>

\* A thread is left waiting for the other side of the hand-off.
Offered(t, l, op) ==
  /\ ulock' = [ulock EXCEPT ![l].ho_thread = t]
  /\ handoff_ulocks' = handoff_ulocks \cup {l}
  /\ WaitsIn(t, op, l, FALSE)
  /\ UNCHANGED <<active, held_ulocks, holds>>

lock_handoff(t, l) ==
  LET a == ulock[l].ho_thread
  IN
  /\ Calls(t, l)
  /\ ulock[l].owner = t
  /\ \/ a # NoThread /\ HandedTo(a, l) /\ Wakes(a, Status(ulock[l]))
        /\ Learns(t, l, "handoff", "SUCCESS")
     \/ a = NoThread /\ Offered(t, l, "handoff")

\* The owner is not expected to accept its own lock.
lock_handoff_accept(t, l) ==
  LET h == ulock[l].ho_thread
  IN
  /\ Calls(t, l)
  /\ ulock[l].owner # t
  /\ \/ /\ h # NoThread /\ ulock[l].owner = h
        /\ HandedTo(t, l)
        /\ Wakes(h, "SUCCESS")
        /\ Learns(t, l, "accept", Status(ulock[l]))
     \/ h = NoThread /\ Offered(t, l, "accept")

-----------------------------------------------------------------------------
(* Waiting, and what a thread finds when it runs again.                    *)

\* The wait has ended and wait_link says that the operation was completed.
Return(t) ==
  LET i == th[t]
  IN
  /\ i.op # "none" /\ ~i.wait /\ ~i.link
  /\ th' = [th EXCEPT ![t] = [Idle(@) EXCEPT !.missed = i.missed \/ i.result = "INTERRUPTED"]]
  /\ Learns(t, i.lock, i.op, i.result)
  /\ UNCHANGED <<setVars, ulock, calls>>

\* LOCK_OPERATION_ABORTED: the thread takes itself back.
AbortedAcquire(t) ==
  LET l == th[t].lock
  IN
  /\ th[t].op = "acquire" /\ ~th[t].wait /\ th[t].link
  /\ ulock' = [ulock EXCEPT ![l].blocked_threads = Without(@, t)]
  /\ th' = [th EXCEPT ![t] = Idle(@)]
  /\ UNCHANGED <<setVars, calls, holds>>

AbortedHandoff(t) ==
  LET l == th[t].lock
  IN
  /\ th[t].op \in {"handoff", "accept"} /\ ~th[t].wait /\ th[t].link
  /\ IF active
     THEN /\ handoff_ulocks' = handoff_ulocks \ {l}
          /\ ulock' = [ulock EXCEPT ![l].ho_thread = NoThread]
     ELSE UNCHANGED <<handoff_ulocks, ulock>>
  /\ th' = [th EXCEPT ![t] = Idle(@)]
  /\ UNCHANGED <<active, held_ulocks, calls, holds>>

MayAbort(t) ==
  /\ th[t].op \in Abortable
  /\ th[t].link \/ Unlinked

\* thread_abort of a thread that waits
Abort(t) ==
  /\ th[t].wait /\ MayAbort(t)
  /\ th' = [th EXCEPT ![t] = clear_wait(@, "INTERRUPTED")]
  /\ UNCHANGED <<setVars, ulock, calls, holds>>

\* act_disable_task_locked: act_ulock_release_all makes the thread's locks
\* unstable and releases them, twice if the thread itself comes next; then
\* act_abort ends its wait.
Terminate(t) ==
  LET mine == {l \in Ulocks : ulock[l].owner = t}
      next(l) == Released([ulock[l] EXCEPT !.stable = FALSE])
      after == [l \in Ulocks |-> IF l \notin mine THEN ulock[l]
                                 ELSE IF next(l).owner = t THEN Released(next(l)) ELSE next(l)]
      given(u) == \E l \in mine : u \in {next(l).owner, after[l].owner}
      done == [u \in Threads |-> IF given(u) THEN Complete(th[u], "LOCK_UNSTABLE") ELSE th[u]]
  IN
  /\ t \in Mortal /\ active /\ ~th[t].dead
  /\ th[t].wait => MayAbort(t)
  /\ ulock' = after
  /\ held_ulocks' = {l \in held_ulocks : after[l].held}
  /\ th' = [done EXCEPT ![t] = [clear_wait(@, "INTERRUPTED") EXCEPT !.dead = TRUE]]
  /\ holds' = [holds EXCEPT ![t] = {}]
  /\ UNCHANGED <<active, handoff_ulocks, calls>>

\* Mutant: those who wait for a hand-off are forgotten.
DestroyHeldOnly ==
  /\ active
  /\ active' = FALSE /\ held_ulocks' = {} /\ handoff_ulocks' = {}
  /\ th' = [t \in Threads |->
              IF \E l \in held_ulocks : t \in Range(ulock[l].blocked_threads)
              THEN Complete(th[t], "LOCK_SET_DESTROYED") ELSE th[t]]
  /\ ulock' = [l \in Ulocks |-> IF l \in held_ulocks
                                THEN [ulock[l] EXCEPT !.owner = NoThread, !.blocked_threads = <<>>]
                                ELSE ulock[l]]
  /\ holds' = [t \in Threads |-> {}]
  /\ UNCHANGED calls

\* All who wait for a held ulock or in a hand-off are woken; owners lose
\* their ulocks.
lock_set_destroy ==
  /\ active
  /\ active' = FALSE /\ held_ulocks' = {} /\ handoff_ulocks' = {}
  /\ th' = [t \in Threads |->
              IF \/ \E l \in held_ulocks : t \in Range(ulock[l].blocked_threads)
                 \/ \E l \in handoff_ulocks : t = ulock[l].ho_thread
              THEN Complete(th[t], "LOCK_SET_DESTROYED") ELSE th[t]]
  /\ ulock' = [l \in Ulocks |-> IF l \in held_ulocks
                                THEN [ulock[l] EXCEPT !.owner = NoThread, !.blocked_threads = <<>>]
                                ELSE ulock[l]]
  /\ holds' = [t \in Threads |-> {}]
  /\ UNCHANGED calls

-----------------------------------------------------------------------------
Init ==
  /\ active = TRUE
  /\ ulock = [l \in Ulocks |-> [owner |-> NoThread, stable |-> TRUE, held |-> FALSE,
                                ho_thread |-> NoThread, blocked_threads |-> <<>>]]
  /\ held_ulocks = {} /\ handoff_ulocks = {}
  /\ th = [t \in Threads |-> Out]
  /\ calls = [t \in Threads |-> 0]
  /\ holds = [t \in Threads |-> {}]

Call(t, l) ==
  \/ lock_acquire(t, l) \/ lock_try(t, l) \/ lock_release(t, l) \/ lock_make_stable(t, l)
  \/ lock_handoff(t, l) \/ lock_handoff_accept(t, l)

Step(t) ==
  \/ Return(t) \/ AbortedAcquire(t) \/ AbortedHandoff(t)

Next ==
  \/ \E t \in Threads : Step(t) \/ Abort(t) \/ Terminate(t) \/ \E l \in Ulocks : Call(t, l)
  \/ lock_set_destroy

Spec == Init /\ [][Next]_vars

-----------------------------------------------------------------------------
(* Properties.                                                             *)

\* Thread t is in a call on l that has been decided in its favour.
Told(t, l) == th[t].op # "none" /\ th[t].lock = l /\ ~th[t].wait /\ ~th[t].link

\* Mutual exclusion: a thread whose calls have given it a lock is the owner
\* until it gives the lock away, and a lock is passed on only to a thread
\* that is told.  Left out is a thread that was aborted and then given the
\* lock, or rid of it, before it ran: its call returns THREAD_INTERRUPTED.
LockBelongs ==
  active =>
    \A l \in Ulocks, t \in Threads :
      ~th[t].missed =>
        /\ l \in holds[t] /\ ~th[t].dead =>
             ulock[l].owner = t \/ (th[t].op = "handoff" /\ Told(t, l))
        /\ ulock[l].owner = t => l \in holds[t] \/ Told(t, l)

\* The queues say what the threads and the ulocks say: the threads blocked
\* on a ulock wait in lock_acquire, a ulock with waiters or an owner is held
\* and on held_ulocks, one with a pending hand-off is on handoff_ulocks and
\* its thread is in that hand-off.
QueuesAgree ==
  active =>
    \A l \in Ulocks :
      LET u == ulock[l]
      IN
      /\ Range(u.blocked_threads) =
           {t \in Threads : th[t].op = "acquire" /\ th[t].lock = l /\ th[t].link}
      /\ u.held <=> u.owner # NoThread
      /\ u.held <=> l \in held_ulocks
      /\ u.blocked_threads # <<>> => u.held
      /\ u.ho_thread # NoThread <=> l \in handoff_ulocks
      /\ u.ho_thread # NoThread => /\ th[u.ho_thread].op \in {"handoff", "accept"}
                                   /\ th[u.ho_thread].lock = l

\* lock_set_destroy: "All threads currently blocked on the lock set's ulocks
\* are awoken", in whatever call they wait.
DestroyWakesAll == ~active => \A t \in Threads : ~th[t].wait

\* lock_handoff and lock_handoff_accept: a thread woken by anything else
\* than the other side or lock_set_destroy clears the ulock's handoff state,
\* so that no hand-off is pending for a thread that is not in one.
HandoffCleared ==
  active => \A l \in Ulocks : ulock[l].ho_thread # NoThread => th[ulock[l].ho_thread].op # "none"

\* act_disable_task_locked cleans up "any ulocks that are still owned by the
\* thread activation": no lock stays with a thread that is gone.
AbortedKeepsNone ==
  active => \A l \in Ulocks :
    LET o == ulock[l].owner
    IN o # NoThread => ~(th[o].dead /\ th[o].op = "none")

=============================================================================
