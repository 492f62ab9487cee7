----------------------------- MODULE Semaphore -----------------------------
(***************************************************************************)
(* One kernel semaphore (kern/sync_sema.c) with the queue of waiting       *)
(* threads in the order of its policy (kern/sync_policy.c) and the         *)
(* references its callers hold through its port (kern/ipc_sync.c).  One    *)
(* action is one stretch of code under the semaphore's lock.               *)
(***************************************************************************)
EXTENDS Lists

CONSTANTS
  Threads,
  Priority,        \* thread_t.priority, per thread
  Policy,          \* SYNC_POLICY_FIFO or SYNC_POLICY_FIXED_PRIORITY
  Value,           \* the count the semaphore is created with
  Waits,           \* how threads wait: "forever", "timed", "zero"
  Calls,           \* the calls made besides waiting
  Aborts,          \* may waiting threads be aborted
  MP,              \* NCPUS > 1, or a kernel that can be preempted
  MaxGiven         \* bound: units given by signals

ASSUME SemaphoreAssumption ==
  /\ Priority \in [Threads -> Nat]
  /\ Policy \in {"FIFO", "FIXED_PRIORITY"}
  /\ Value \in Nat
  /\ Waits \subseteq {"forever", "timed", "zero"}
  /\ Aborts \in BOOLEAN
  /\ MP \in BOOLEAN
  /\ MaxGiven \in Nat

VARIABLES
  active, count, ref_count,
  blocked_threads,
  port,        \* is the semaphore's port active
  freed,       \* has kfree been called
  corrupt,     \* was a thread taken off the queue twice
  th,          \* per thread: control, wait state, result, and whether
               \* wait_link.prev is non-zero (looked at after a wait only)
  given,       \* history: units the semaphore was created with or given
  used         \* history: waits that returned KERN_SUCCESS

semVars == <<active, count, blocked_threads>>
refVars == <<ref_count, port, freed>>
vars == <<semVars, refVars, corrupt, th, given, used>>

Out == [pc |-> "out", wait |-> FALSE, timed |-> FALSE, result |-> "SUCCESS", linked |-> FALSE]

(***************************************************************************)
(* A thread that found itself aborted goes for the lock (pc "aborted"): on *)
(* one processor nothing comes between, on several anything may.           *)
(***************************************************************************)
Running == ~corrupt /\ (MP \/ \A t \in Threads : th[t].pc # "aborted")

\* The thread leaves the call with result r; the reference is dropped next.
Leaves(t, r) == [th EXCEPT ![t] = [Out EXCEPT !.pc = "leave", !.result = r]]

-----------------------------------------------------------------------------
(* References.                                                             *)

\* Mutant: the call runs on the semaphore without a reference of its own.
ConvertOnly(t) ==
  /\ Running
  /\ th[t].pc = "out"
  /\ port
  /\ th' = [th EXCEPT ![t].pc = "call"]
  /\ UNCHANGED <<semVars, refVars, corrupt, given, used>>

convert_port_to_semaphore(t) ==
  /\ Running
  /\ th[t].pc = "out"
  /\ port
  /\ ref_count' = ref_count + 1
  /\ th' = [th EXCEPT ![t].pc = "call"]
  /\ UNCHANGED <<semVars, port, freed, corrupt, given, used>>

\* The call is over: the stub drops the reference, the last one frees.
semaphore_dereference(t) ==
  /\ Running
  /\ th[t].pc = "leave"
  /\ ref_count' = ref_count - 1
  /\ freed' = (freed \/ ref_count = 1)
  /\ th' = [th EXCEPT ![t] = Out]
  /\ UNCHANGED <<semVars, port, corrupt, given, used>>

-----------------------------------------------------------------------------
(* The queue.                                                              *)

\* Mutant: a thread goes in front of those of its own priority.
EnqueueBeforeEquals(q, t) ==
  LET before == IF Policy = "FIXED_PRIORITY"
                THEN {i \in DOMAIN q : \A j \in 1..i : Priority[q[j]] < Priority[t]}
                ELSE DOMAIN q
      n == Cardinality(before)
  IN SubSeq(q, 1, n) \o <<t>> \o SubSeq(q, n + 1, Len(q))

\* Behind the last of the leading threads of smaller or equal priority
\* number, or at the end.
sync_policy_enqueue(q, t) ==
  LET before == IF Policy = "FIXED_PRIORITY"
                THEN {i \in DOMAIN q : \A j \in 1..i : Priority[q[j]] <= Priority[t]}
                ELSE DOMAIN q
      n == Cardinality(before)
  IN SubSeq(q, 1, n) \o <<t>> \o SubSeq(q, n + 1, Len(q))

\* Mutant: the thread is not woken.
ClearedNot(i, r) == i

\* clear_wait: nothing happens to a thread that waits no more.
Cleared(i, r) == IF i.wait THEN [i EXCEPT !.wait = FALSE, !.result = r] ELSE i

\* SEMAPHORE_OPERATION_COMPLETE and clear_wait of a thread taken off the queue.
Completed(i, r) == Cleared([i EXCEPT !.linked = FALSE], r)

-----------------------------------------------------------------------------
(* Waiting.                                                                *)

semaphore_wait_common(t, how) ==
  /\ Running
  /\ th[t].pc = "call"
  /\ \/ /\ how = "zero" \/ ~active
        /\ th' = Leaves(t, IF how = "zero" THEN "OPERATION_TIMED_OUT" ELSE "TERMINATED")
        /\ UNCHANGED <<semVars, used>>
     \/ /\ how # "zero" /\ active
        /\ count > 0
        /\ count' = count - 1
        /\ th' = Leaves(t, "SUCCESS")
        /\ used' = used + 1
        /\ UNCHANGED <<active, blocked_threads>>
     \/ /\ how # "zero" /\ active
        /\ count <= 0
        /\ count' = count - 1
        /\ blocked_threads' = sync_policy_enqueue(blocked_threads, t)
        /\ th' = [th EXCEPT ![t] = [pc |-> "wait", wait |-> TRUE, timed |-> how = "timed",
                                    result |-> "SUCCESS", linked |-> TRUE]]
        /\ UNCHANGED <<active, used>>
  /\ UNCHANGED <<refVars, corrupt, given>>

Aborted(i) == IF i.result = "TIMED_OUT" THEN "OPERATION_TIMED_OUT" ELSE "ABORTED"

\* Mutant: the thread goes without giving its unit back.
AbortUncounted(t) ==
  /\ ~corrupt
  /\ th[t].pc = "aborted"
  /\ th' = Leaves(t, Aborted(th[t]))
  /\ blocked_threads' = Without(blocked_threads, t)
  /\ UNCHANGED <<active, count, corrupt, refVars, given, used>>

(***************************************************************************)
(* Under the lock, an aborted thread leaves the queue of a semaphore that  *)
(* is still active.  If a signal took it off since it looked, wait_link is *)
(* no longer its place in the queue and removing it again destroys the     *)
(* queue; the model stops there.                                           *)
(***************************************************************************)
AbortContinue(t) ==
  /\ ~corrupt
  /\ th[t].pc = "aborted"
  /\ th' = Leaves(t, Aborted(th[t]))
  /\ corrupt' = (active /\ ~th[t].linked)
  /\ IF active /\ th[t].linked
     THEN /\ blocked_threads' = Without(blocked_threads, t)
          /\ count' = count + 1
          /\ UNCHANGED active
     ELSE UNCHANGED semVars
  /\ UNCHANGED <<refVars, given, used>>

(***************************************************************************)
(* The thread runs after thread_block.  A thread that is still linked was  *)
(* woken by a timeout or an abort; another one returns its wait result as  *)
(* it is.                                                                  *)
(***************************************************************************)
WaitContinue(t) ==
  /\ Running
  /\ th[t].pc = "wait"
  /\ ~th[t].wait
  /\ \/ /\ th[t].linked
        /\ th' = [th EXCEPT ![t].pc = "aborted"]
        /\ UNCHANGED used
     \/ /\ ~th[t].linked
        /\ th' = Leaves(t, th[t].result)
        /\ used' = IF th[t].result = "SUCCESS" THEN used + 1 ELSE used
  /\ UNCHANGED <<semVars, refVars, corrupt, given>>

\* A timeout or thread_abort ends the wait.
thread_timeout(t) ==
  /\ Running
  /\ th[t].timed
  /\ th[t].wait
  /\ th' = [th EXCEPT ![t] = Cleared(@, "TIMED_OUT")]
  /\ UNCHANGED <<semVars, refVars, corrupt, given, used>>

thread_abort(t) ==
  /\ Running
  /\ Aborts
  /\ th[t].wait
  /\ th' = [th EXCEPT ![t] = Cleared(@, "INTERRUPTED")]
  /\ UNCHANGED <<semVars, refVars, corrupt, given, used>>

-----------------------------------------------------------------------------
(* Signalling.  A call on an inactive semaphore returns KERN_TERMINATED.   *)

Terminated(t) ==
  /\ Running
  /\ th[t].pc = "call"
  /\ ~active
  /\ th' = Leaves(t, "TERMINATED")
  /\ UNCHANGED <<semVars, refVars, corrupt, given, used>>

\* The threads of T are taken off the queue and complete with result r.
Take(t, T, r, own) ==
  /\ blocked_threads' = At(blocked_threads, {i \in DOMAIN blocked_threads :
                                               blocked_threads[i] \notin T})
  /\ th' = [u \in Threads |-> IF u = t THEN [Out EXCEPT !.pc = own, !.result = "SUCCESS"]
                              ELSE IF u \in T THEN Completed(th[u], r) ELSE th[u]]

\* Mutant: a signal takes every waiter.
AllWaiters == IF count < 0 THEN Range(blocked_threads) ELSE {}

\* Whom a signal takes off the queue.
FirstWaiter == IF count < 0 THEN {Head(blocked_threads)} ELSE {}

semaphore_signal(t) ==
  /\ "signal" \in Calls
  /\ Running
  /\ th[t].pc = "call"
  /\ active
  /\ given < MaxGiven
  /\ count' = count + 1
  /\ Take(t, FirstWaiter, "SUCCESS", "leave")
  /\ given' = given + 1
  /\ UNCHANGED <<active, refVars, corrupt, used>>

\* Every waiter is taken, and the count is 0 whatever it was.
semaphore_signal_all(t) ==
  /\ "signal_all" \in Calls
  /\ Running
  /\ th[t].pc = "call"
  /\ active
  /\ given + Len(blocked_threads) <= MaxGiven
  /\ count' = 0
  /\ Take(t, Range(blocked_threads), "SUCCESS", "leave")
  /\ given' = given + Len(blocked_threads)
  /\ UNCHANGED <<active, refVars, corrupt, used>>

\* Thread u is taken if it is on the queue.
semaphore_signal_thread(t, u) ==
  /\ "signal_thread" \in Calls
  /\ Running
  /\ th[t].pc = "call"
  /\ active
  /\ \/ /\ u \notin Range(blocked_threads)
        /\ th' = Leaves(t, "NOT_WAITING")
        /\ UNCHANGED <<count, blocked_threads, given>>
     \/ /\ u \in Range(blocked_threads)
        /\ given < MaxGiven
        /\ count' = count + 1
        /\ Take(t, {u}, "SUCCESS", "leave")
        /\ given' = given + 1
  /\ UNCHANGED <<active, refVars, corrupt, used>>

-----------------------------------------------------------------------------
(* Destruction: inactive and everyone woken under the lock; then the port, *)
(* then the reference the semaphore was created with.                      *)

\* count++ is tested once more than threads are woken.
CountAfterDestroy == IF count < 0 THEN 1 ELSE count

semaphore_destroy(t) ==
  /\ "destroy" \in Calls
  /\ Running
  /\ th[t].pc = "call"
  /\ active
  /\ active' = FALSE
  /\ count' = CountAfterDestroy
  /\ Take(t, Range(blocked_threads), "SEMAPHORE_DESTROYED", "dealloc")
  /\ UNCHANGED <<refVars, corrupt, given, used>>

\* ipc_port_dealloc_kernel: no new caller finds the semaphore.
DestroyPort(t) ==
  /\ Running
  /\ th[t].pc = "dealloc"
  /\ port' = FALSE
  /\ th' = [th EXCEPT ![t].pc = "disown"]
  /\ UNCHANGED <<semVars, ref_count, freed, corrupt, given, used>>

\* The creator's reference.
DestroyDereference(t) ==
  /\ Running
  /\ th[t].pc = "disown"
  /\ ref_count' = ref_count - 1
  /\ freed' = (freed \/ ref_count = 1)
  /\ th' = [th EXCEPT ![t].pc = "leave"]
  /\ UNCHANGED <<semVars, port, corrupt, given, used>>

-----------------------------------------------------------------------------
\* semaphore_create.
Init ==
  /\ active = TRUE
  /\ count = Value
  /\ ref_count = 1
  /\ blocked_threads = <<>>
  /\ port = TRUE
  /\ freed = FALSE
  /\ corrupt = FALSE
  /\ th = [t \in Threads |-> Out]
  /\ given = Value
  /\ used = 0

\* What a thread does in the end whatever the others do.
Step(t) ==
  \/ WaitContinue(t) \/ AbortContinue(t) \/ DestroyPort(t) \/ DestroyDereference(t)
  \/ semaphore_dereference(t)

Call(t) ==
  \/ convert_port_to_semaphore(t)
  \/ \E how \in Waits : semaphore_wait_common(t, how)
  \/ Terminated(t) \/ semaphore_signal(t) \/ semaphore_signal_all(t) \/ semaphore_destroy(t)
  \/ \E u \in Threads : semaphore_signal_thread(t, u)

Next == \E t \in Threads : Step(t) \/ Call(t) \/ thread_timeout(t) \/ thread_abort(t)

Spec == Init /\ [][Next]_vars

\* A runnable thread is eventually run.
FairSpec == Spec /\ \A t \in Threads : WF_vars(Step(t))

-----------------------------------------------------------------------------
(* Properties.                                                             *)

\* The type invariant.
TypeOK ==
  /\ active \in BOOLEAN /\ port \in BOOLEAN /\ freed \in BOOLEAN /\ corrupt \in BOOLEAN
  /\ count \in Int /\ ref_count \in Nat /\ given \in Nat /\ used \in Nat
  /\ blocked_threads \in Seq(Threads)
  /\ th \in [Threads -> [pc : {"out", "call", "wait", "aborted", "dealloc", "disown", "leave"},
                         wait : BOOLEAN, timed : BOOLEAN, linked : BOOLEAN,
                         result : {"SUCCESS", "TIMED_OUT", "INTERRUPTED", "TERMINATED",
                                   "OPERATION_TIMED_OUT", "ABORTED", "NOT_WAITING",
                                   "SEMAPHORE_DESTROYED"}]]

\* A negative count is the number of queued threads, and no thread is queued
\* otherwise: every waiter that gives up settles the count, so that no signal
\* ever finds the queue empty (the panic in semaphore_signal_common).
CountIsQueue ==
  active => Len(blocked_threads) = IF count < 0 THEN -count ELSE 0

\* A thread that waits, or is on its way out of a wait that ended early, is
\* marked as queued exactly while it is on the queue, and nobody else is on
\* it: what SEMAPHORE_OPERATION_ABORTED relies on to tell a signal from a
\* timeout.
LinkedIsQueued ==
  /\ IsInjective(blocked_threads)
  /\ ~corrupt => \A t \in Threads :
       t \in Range(blocked_threads) <=> th[t].linked /\ th[t].pc \in {"wait", "aborted"}

\* The semaphore and its waiters agree: count and queue as CountIsQueue says,
\* and the threads' marks as LinkedIsQueued says, whatever mixture of signals,
\* timeouts, aborts and destruction takes threads off the queue.
WaitersAgree == CountIsQueue /\ LinkedIsQueued

\* The semaphore is freed only when no call is under way and none can start.
NoUseAfterFree == freed => ~port /\ \A t \in Threads : th[t].pc = "out"

\* Threads a signal has let go that have not returned yet.
LetGo == {t \in Threads : th[t].pc = "wait" /\ ~th[t].wait /\ ~th[t].linked
                           /\ th[t].result = "SUCCESS"}

\* No unit is made up: waits that succeeded or are about to, and the units
\* still there, are covered by the initial value and the signals.
NoUnitInvented ==
  used + Cardinality(LetGo) + (IF active /\ count > 0 THEN count ELSE 0) <= given

Ahead(q, t, u) == \E i, j \in DOMAIN q : i < j /\ q[i] = t /\ q[j] = u

\* Threads wait in the order of the policy: nobody overtakes a thread that
\* is queued already and is not of lower priority, and no step reorders the
\* queue (sync_policy_enqueue, also with threads leaving from the middle).
PolicyOrder ==
  [][LET q == blocked_threads
         n == blocked_threads'
     IN \A t, u \in Range(n) :
          t \in Range(q) /\ t # u =>
            /\ Ahead(q, t, u) => Ahead(n, t, u)
            /\ u \notin Range(q) /\ (Policy = "FIFO" \/ Priority[t] <= Priority[u])
                 => Ahead(n, t, u)]_vars

\* Threads waiting on a semaphore that is destroyed return, also those whose
\* timeout or abort comes at the same moment (unless the queue was destroyed
\* before).
DestroyReleases ==
  \A t \in Threads : (th[t].pc = "wait" /\ ~active) ~> (th[t].pc = "out" \/ corrupt)

\* A signal wakes a thread if any thread is blocked ("If any threads are
\* blocked on the semaphore ONE is woken up", semaphore_signal).
SignalWakesOne ==
  [][\A t \in Threads :
       semaphore_signal(t) /\ (\E u \in Threads : th[u].wait) =>
         \E u \in Threads : th[u].wait /\ ~th'[u].wait]_vars

\* No thread is taken off the queue twice (the check that
\* semaphore_wait_common makes before "ripping the thread off").
NotTakenTwice == ~corrupt

=============================================================================
