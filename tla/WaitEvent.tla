----------------------------- MODULE WaitEvent -----------------------------
(***************************************************************************)
(* Waiting for events, and the timers that end waits: assert_wait,         *)
(* thread_block, thread_wakeup_prim and clear_wait_locked of               *)
(* kern/sched_prim.c with set_timeout, reset_timeout, timeout_tick and the *)
(* softclock thread of kern/mach_clock.c.                                  *)
(*                                                                         *)
(* All events hash to one bucket of wait_queue.  One action is one stretch *)
(* of code under the lock of the bucket, of a thread or of the timers.  On *)
(* one processor the code at splsched runs to its end; on several, any     *)
(* other step may come between two of its stretches.                       *)
(***************************************************************************)
EXTENDS Lists, SchedPrim

CONSTANTS
  Threads,         \* the threads that wait
  Wakers,          \* whoever wakes and aborts them: threads or interrupts
  Soft, Clock,     \* the softclock thread; the clock interrupt
  Events,          \* events threads wait for
  TimerHead,       \* the event softclock waits for
  Intervals,       \* the timeouts of each thread, in ticks
  MP,              \* NCPUS > 1
  Sync,            \* threads that also wait at synchronisers, for no event
  Stealth,         \* threads that wait uninterruptibly as well
  Aborted,         \* threads that may be aborted
  MaxTicks         \* bound: clock ticks

ASSUME WaitEventAssumption ==
  /\ Soft # Clock /\ {Soft, Clock} \cap (Threads \cup Wakers) = {}
  /\ Threads \cap Wakers = {}
  /\ {NO_EVENT, WAKING_EVENT, TimerHead} \cap Events = {}
  /\ NO_EVENT # WAKING_EVENT /\ TimerHead \notin {NO_EVENT, WAKING_EVENT}
  /\ Intervals \in [Threads -> SUBSET (Nat \ {0})]
  /\ Sync \subseteq Threads /\ Stealth \subseteq Threads /\ Aborted \subseteq Threads
  /\ MP \in BOOLEAN
  /\ MaxTicks \in Nat

VARIABLES
  wait_queue,      \* one hash bucket
  th,              \* per thread: flags, event, result, timer and references
  chain,           \* timer_head.chain
  timeout_ticks,
  ctl,             \* control and locals of threads and of the interrupt
  offers           \* history: ends offered to the present wait of a thread

vars == <<wait_queue, th, chain, timeout_ticks, ctl, offers>>

All == Threads \cup {Soft}
Actors == All \cup Wakers \cup {Clock}

Idle == [pc |-> "run", wake_queue |-> <<>>, who |-> Soft, event |-> NO_EVENT,
         result |-> "AWAKENED", ret |-> "run"]

At_pc(a, pc) == ctl[a].pc = pc

(***************************************************************************)
(* At splsched on one processor nobody else runs.                          *)
(***************************************************************************)
Masked(a) == ctl[a].pc \in {"due", "waking", "clearing", "switch", "deallocate"}
MayRun(a) == MP \/ Masked(a) \/ \A b \in Actors : ~Masked(b)

Goto(a, pc) == ctl' = [ctl EXCEPT ![a] = [Idle EXCEPT !.pc = pc]]

\* Back from clear_wait_locked of thread t, which thread_timeout remembers.
Return(a, t, pc) ==
  ctl' = [ctl EXCEPT ![a] = [Idle EXCEPT !.pc = pc,
                                         !.who = IF pc = "deallocate" THEN t ELSE @]]

-----------------------------------------------------------------------------
(* Timers.  S is the part of the state that ends of waits change.  A       *)
(* timer's ticks are forgotten when it leaves the chain.                   *)

S0 == [th |-> th, queue |-> wait_queue, chain |-> chain]

Becomes(S) == th' = S.th /\ wait_queue' = S.queue /\ chain' = S.chain

\* reset_timeout.  A timer that is PENDING keeps the reference set_timeout took.
reset_timeout(S, t) ==
  CASE S.th[t].timer = "SET" ->
         [S EXCEPT !.th[t].timer = "UNSET", !.th[t].ticks = 0, !.th[t].ref_count = @ - 1,
                   !.chain = Without(@, t)]
    [] S.th[t].timer = "PENDING" -> [S EXCEPT !.th[t].timer = "UNSET"]
    [] OTHER -> S

\* In front of the first timer that is not due earlier.
Inserted(c, t, ticks) ==
  LET n == Cardinality({i \in DOMAIN c : th[c[i]].ticks < ticks})
  IN SubSeq(c, 1, n) \o <<t>> \o SubSeq(c, n + 1, Len(c))

TimerSet(i, ticks) == [i EXCEPT !.timer = "SET", !.ticks = ticks, !.ref_count = @ + 1]

\* thread_set_timeout, between assert_wait and thread_block; the thread may
\* have been woken already.
thread_set_timeout(t, n) ==
  /\ MayRun(t)
  /\ At_pc(t, "asserted")
  /\ \/ /\ th[t].wait
        /\ chain' = Inserted(chain, t, timeout_ticks + n)
        /\ th' = [th EXCEPT ![t] = TimerSet(@, timeout_ticks + n)]
     \/ /\ ~th[t].wait
        /\ UNCHANGED <<chain, th>>
  /\ Goto(t, "timed")
  /\ UNCHANGED <<wait_queue, timeout_ticks, offers>>

-----------------------------------------------------------------------------
(* Ending waits.                                                           *)

Offer(T, r) == offers' = [t \in All |-> IF t \in T THEN offers[t] \cup {r} ELSE offers[t]]

End(S, t, r) ==
  LET R == reset_timeout(S, t)
  IN [R EXCEPT !.th[t] = [Ended(@, r) EXCEPT !.wait_event = NO_EVENT]]

\* The threads waiting for event e, or the first of them.
Waiters(e, one) ==
  LET match == {i \in DOMAIN wait_queue : th[wait_queue[i]].wait_event = e}
  IN IF one THEN {i \in match : \A j \in match : i <= j} ELSE match

(***************************************************************************)
(* thread_wakeup_prim, first under the lock of the bucket: the threads are *)
(* put on a private queue and marked.                                      *)
(***************************************************************************)
ScanBucket(a, e, one, r, ret) ==
  LET mine == Waiters(e, one)
      woken == {wait_queue[i] : i \in mine}
  IN /\ wait_queue' = At(wait_queue, DOMAIN wait_queue \ mine)
     /\ th' = [t \in All |-> IF t \in woken THEN [th[t] EXCEPT !.wait_event = WAKING_EVENT]
                             ELSE th[t]]
     /\ ctl' = [ctl EXCEPT ![a] =
                  IF mine = {} THEN [Idle EXCEPT !.pc = ret]
                  ELSE [Idle EXCEPT !.pc = "waking", !.wake_queue = At(wait_queue, mine),
                                    !.result = r, !.ret = ret]]
     /\ Offer({t \in woken : th[t].wait_event = e}, r)

thread_wakeup(a, e, one) ==
  /\ MayRun(a)
  /\ At_pc(a, "run")
  /\ ScanBucket(a, e, one, "AWAKENED", "run")
  /\ UNCHANGED <<chain, timeout_ticks>>

\* Mutant: only the first is woken.
WakeFirst(a) ==
  /\ At_pc(a, "waking")
  /\ Becomes(End(S0, Head(ctl[a].wake_queue), ctl[a].result))
  /\ Goto(a, ctl[a].ret)
  /\ UNCHANGED <<timeout_ticks, offers>>

\* Then, one by one, under the lock of the thread.
WakeNext(a) ==
  LET t == Head(ctl[a].wake_queue)
      rest == Tail(ctl[a].wake_queue)
  IN /\ At_pc(a, "waking")
     /\ Becomes(End(S0, t, ctl[a].result))
     /\ IF rest = <<>> THEN Goto(a, ctl[a].ret)
                       ELSE ctl' = [ctl EXCEPT ![a].wake_queue = rest]
     /\ UNCHANGED <<timeout_ticks, offers>>

(***************************************************************************)
(* clear_wait_locked.  A thread that waits for an event is unlocked so     *)
(* that its bucket can be locked first (pc "clearing").                    *)
(***************************************************************************)
clear_wait_locked(a, S, t, r, interrupt_only, ret) ==
  LET e == S.th[t].wait_event
  IN \/ /\ (interrupt_only /\ S.th[t].unint) \/ e = WAKING_EVENT
        /\ Becomes(S) /\ Return(a, t, ret)
     \/ /\ ~(interrupt_only /\ S.th[t].unint)
        /\ e = NO_EVENT
        /\ Becomes(End(S, t, r)) /\ Return(a, t, ret)
     \/ /\ ~(interrupt_only /\ S.th[t].unint)
        /\ e \notin {NO_EVENT, WAKING_EVENT}
        /\ Becomes(S)
        /\ ctl' = [ctl EXCEPT ![a] = [Idle EXCEPT !.pc = "clearing", !.who = t, !.event = e,
                                                  !.result = r, !.ret = ret]]

\* Mutant: the event is not looked at again.
ClearUnchecked(a) ==
  LET t == ctl[a].who
  IN /\ At_pc(a, "clearing")
     /\ Becomes(End([S0 EXCEPT !.queue = Without(@, t)], t, ctl[a].result))
     /\ Return(a, t, ctl[a].ret)
     /\ UNCHANGED <<timeout_ticks, offers>>

\* Bucket and thread locked: the thread is taken off if it still waits for
\* that event.
ClearRecheck(a) ==
  LET t == ctl[a].who
  IN /\ At_pc(a, "clearing")
     /\ Becomes(IF th[t].wait_event = ctl[a].event
                THEN End([S0 EXCEPT !.queue = Without(@, t)], t, ctl[a].result)
                ELSE S0)
     /\ Return(a, t, ctl[a].ret)
     /\ UNCHANGED <<timeout_ticks, offers>>

\* clear_wait by a synchroniser, whose threads wait for no event.
clear_wait(a, t) ==
  /\ MayRun(a)
  /\ At_pc(a, "run")
  /\ th[t].wait /\ th[t].wait_event = NO_EVENT
  /\ clear_wait_locked(a, S0, t, "AWAKENED", TRUE, "run")
  /\ Offer(IF th[t].unint THEN {} ELSE {t}, "AWAKENED")
  /\ UNCHANGED timeout_ticks

\* act_abort of the thread: TH_ABORT, then clear_wait in a step of its own.
act_abort(a, t) ==
  /\ MayRun(a)
  /\ At_pc(a, "run")
  /\ ~th[t].abort
  /\ th' = [th EXCEPT ![t].abort = TRUE]
  /\ ctl' = [ctl EXCEPT ![a] = [Idle EXCEPT !.pc = "abort", !.who = t]]
  /\ UNCHANGED <<wait_queue, chain, timeout_ticks, offers>>

AbortClear(a) ==
  LET t == ctl[a].who
  IN /\ MayRun(a)
     /\ At_pc(a, "abort")
     /\ clear_wait_locked(a, S0, t, "INTERRUPTED", TRUE, "run")
     /\ Offer(IF th[t].wait /\ ~th[t].unint THEN {t} ELSE {}, "INTERRUPTED")
     /\ UNCHANGED timeout_ticks

\* special_handler: the thread has noticed the abort.
AbortDone(t) ==
  /\ MayRun(t)
  /\ At_pc(t, "run")
  /\ th[t].abort
  /\ th' = [th EXCEPT ![t].abort = FALSE]
  /\ UNCHANGED <<wait_queue, chain, timeout_ticks, ctl, offers>>

-----------------------------------------------------------------------------
(* Waiting.                                                                *)

\* What clear_wait_locked, under way since an earlier wait of the thread for
\* the same event, will end this one with.
Late(t, e) == {ctl[a].result : a \in {a \in Actors : At_pc(a, "clearing")
                                                     /\ ctl[a].who = t /\ ctl[a].event = e}}

assert_wait(t, e, interruptible) ==
  /\ th' = [th EXCEPT ![t] = Asserted(@, e, interruptible)]
  /\ wait_queue' = IF e = NO_EVENT THEN wait_queue ELSE Append(wait_queue, t)
  /\ Goto(t, "asserted")
  /\ offers' = [offers EXCEPT ![t] = Late(t, e)]
  /\ UNCHANGED <<chain, timeout_ticks>>

\* A thread begins to wait; the panic of assert_wait is the absence of
\* QueuesAgree.
Wait(t, e, interruptible) ==
  /\ MayRun(t)
  /\ At_pc(t, "run")
  /\ assert_wait(t, e, interruptible)

\* thread_block: an aborted thread ends its own wait.
thread_block(t) ==
  /\ MayRun(t)
  /\ ctl[t].pc \in {"asserted", "timed"}
  /\ \/ /\ th[t].abort
        /\ clear_wait_locked(t, S0, t, "INTERRUPTED", TRUE, "switch")
        /\ Offer(IF th[t].wait /\ ~th[t].unint THEN {t} ELSE {}, "INTERRUPTED")
     \/ /\ ~th[t].abort
        /\ Goto(t, "switch")
        /\ UNCHANGED <<wait_queue, th, chain, offers>>
  /\ UNCHANGED timeout_ticks

\* thread_dispatch, by whoever runs next on the processor.
thread_dispatch(t) ==
  /\ At_pc(t, "switch")
  /\ th' = [th EXCEPT ![t] = Dispatched(@)]
  /\ Goto(t, "off")
  /\ UNCHANGED <<wait_queue, chain, timeout_ticks, offers>>

\* thread_invoke: the thread comes back from thread_block, and its caller
\* looks at wait_result and forgets it.
thread_invoke(t) ==
  /\ MayRun(t)
  /\ At_pc(t, "off")
  /\ th[t].run
  /\ th' = [th EXCEPT ![t] = [Invoked(@) EXCEPT !.wait_result = "AWAKENED"]]
  /\ Goto(t, "run")
  /\ offers' = [offers EXCEPT ![t] = {}]
  /\ UNCHANGED <<wait_queue, chain, timeout_ticks>>

-----------------------------------------------------------------------------
(* The clock.                                                              *)

Due == chain # <<>> /\ th[Head(chain)].ticks <= timeout_ticks

\* Mutant: softclock does not hold timer_lock while it asserts the wait.
SoftclockUnlocked ==
  /\ MayRun(Soft)
  /\ \/ /\ At_pc(Soft, "run")
        /\ ~Due
        /\ Goto(Soft, "sleep")
        /\ UNCHANGED <<th, chain, wait_queue, offers, timeout_ticks>>
     \/ /\ At_pc(Soft, "sleep")
        /\ assert_wait(Soft, TimerHead, FALSE)
     \/ LET t == Head(chain)
        IN /\ At_pc(Soft, "run")
           /\ Due
           /\ chain' = Tail(chain)
           /\ th' = [th EXCEPT ![t].timer = "PENDING", ![t].ticks = 0]
           /\ ctl' = [ctl EXCEPT ![Soft] = [Idle EXCEPT !.pc = "fire", !.who = t]]
           /\ Offer(IF th[t].ticks <= timeout_ticks THEN {t} ELSE {}, "TIMED_OUT")
           /\ UNCHANGED <<wait_queue, timeout_ticks>>

\* One round of softclock, under timer_lock.
softclock ==
  /\ MayRun(Soft)
  /\ At_pc(Soft, "run")
  /\ \/ /\ ~Due
        /\ assert_wait(Soft, TimerHead, FALSE)
     \/ LET t == Head(chain)
        IN /\ Due
           /\ chain' = Tail(chain)
           /\ th' = [th EXCEPT ![t].timer = "PENDING", ![t].ticks = 0]
           /\ ctl' = [ctl EXCEPT ![Soft] = [Idle EXCEPT !.pc = "fire", !.who = t]]
           /\ Offer(IF th[t].ticks <= timeout_ticks THEN {t} ELSE {}, "TIMED_OUT")
           /\ UNCHANGED <<wait_queue, timeout_ticks>>

\* Mutant: the wait is ended whether or not the timer is still PENDING.
ThreadTimeoutAnyway ==
  LET t == ctl[Soft].who
  IN /\ MayRun(Soft)
     /\ At_pc(Soft, "fire")
     /\ clear_wait_locked(Soft, [S0 EXCEPT !.th[t].timer = IF @ = "PENDING" THEN "UNSET" ELSE @],
                          t, "TIMED_OUT", FALSE, "deallocate")
     /\ UNCHANGED <<timeout_ticks, offers>>

\* The timer's function; it does nothing if the timer was reset meanwhile.
thread_timeout ==
  LET t == ctl[Soft].who
  IN /\ MayRun(Soft)
     /\ At_pc(Soft, "fire")
     /\ \/ /\ th[t].timer = "PENDING"
           /\ clear_wait_locked(Soft, [S0 EXCEPT !.th[t].timer = "UNSET"], t, "TIMED_OUT",
                                FALSE, "deallocate")
        \/ /\ th[t].timer # "PENDING"
           /\ Goto(Soft, "run")
           /\ UNCHANGED <<wait_queue, th, chain>>
     /\ UNCHANGED <<timeout_ticks, offers>>

\* The reference set_timeout took.
TimeoutDeallocate ==
  /\ At_pc(Soft, "deallocate")
  /\ th' = [th EXCEPT ![ctl[Soft].who].ref_count = @ - 1]
  /\ Goto(Soft, "run")
  /\ UNCHANGED <<wait_queue, chain, timeout_ticks, offers>>

\* The clock interrupt: the tick under timer_lock, the wakeup after it.
timeout_tick ==
  /\ MayRun(Clock)
  /\ At_pc(Clock, "run")
  /\ timeout_ticks < MaxTicks
  /\ timeout_ticks' = timeout_ticks + 1
  /\ Goto(Clock, IF chain # <<>> /\ th[Head(chain)].ticks <= timeout_ticks + 1
                 THEN "due" ELSE "run")
  /\ UNCHANGED <<wait_queue, th, chain, offers>>

TickWakeup ==
  /\ At_pc(Clock, "due")
  /\ ScanBucket(Clock, TimerHead, FALSE, "AWAKENED", "run")
  /\ UNCHANGED <<chain, timeout_ticks>>

-----------------------------------------------------------------------------
Init ==
  /\ wait_queue = <<>>
  /\ th = [t \in All |-> [run |-> TRUE, wait |-> FALSE, susp |-> FALSE, unint |-> FALSE,
                          abort |-> FALSE, wait_event |-> NO_EVENT, wait_result |-> "AWAKENED",
                          timer |-> "UNSET", ticks |-> 0, ref_count |-> 1]]
  /\ chain = <<>>
  /\ timeout_ticks = 0
  /\ ctl = [a \in Actors |-> Idle]
  /\ offers = [t \in All |-> {}]

\* What goes on by itself.
Step(a) ==
  \/ WakeNext(a) \/ ClearRecheck(a) \/ AbortClear(a)
  \/ a \in All /\ (thread_block(a) \/ thread_dispatch(a) \/ thread_invoke(a))
  \/ a = Soft /\ (softclock \/ thread_timeout \/ TimeoutDeallocate)
  \/ a = Clock /\ (timeout_tick \/ TickWakeup)

Call(t) ==
  \/ \E e \in Events : Wait(t, e, TRUE) \/ (t \in Stealth /\ Wait(t, e, FALSE))
  \/ t \in Sync /\ Wait(t, NO_EVENT, TRUE)
  \/ \E n \in Intervals[t] : thread_set_timeout(t, n)
  \/ AbortDone(t)

Wake(a) ==
  \/ \E e \in Events, one \in BOOLEAN : thread_wakeup(a, e, one)
  \/ \E t \in Threads : clear_wait(a, t)
  \/ \E t \in Aborted : act_abort(a, t)

Next ==
  \/ \E a \in Actors : Step(a)
  \/ \E t \in Threads : Call(t)
  \/ \E a \in Wakers : Wake(a)

Spec == Init /\ [][Next]_vars

-----------------------------------------------------------------------------
(* Properties.                                                             *)

Holders(t) == {a \in Actors : t \in Range(ctl[a].wake_queue)}

\* Every thread that has asserted an event is in exactly one place: in the
\* bucket, or, marked, on the private queue of one thread_wakeup_prim.  It
\* still waits, and a running thread has asserted none.  So the panics of
\* assert_wait and thread_wakeup_prim are never reached.
QueuesAgree ==
  /\ IsInjective(wait_queue)
  /\ \A t \in All :
       /\ t \in Range(wait_queue) <=> th[t].wait_event \notin {NO_EVENT, WAKING_EVENT}
       /\ th[t].wait_event = WAKING_EVENT <=> Holders(t) # {}
       /\ Cardinality(Holders(t)) <= 1
       /\ th[t].wait_event # NO_EVENT => th[t].wait
       /\ ctl[t].pc = "run" => ~th[t].wait
  /\ \A a \in Actors : IsInjective(ctl[a].wake_queue)

\* The chain holds exactly the timers that are SET, in the order they run
\* out; a timer is SET or PENDING only while its thread waits, and PENDING
\* only in the hands of softclock; and softclock never works for a thread
\* without holding a reference to it.
TimersAgree ==
  /\ IsInjective(chain)
  /\ \A i, j \in DOMAIN chain : i < j => th[chain[i]].ticks <= th[chain[j]].ticks
  /\ \A t \in Threads :
       LET held == ctl[Soft].who = t
       IN /\ th[t].timer = "SET" <=> t \in Range(chain)
          /\ th[t].timer # "UNSET" => th[t].wait
          /\ th[t].timer = "PENDING" => held /\ At_pc(Soft, "fire")
          /\ th[t].ref_count >= 1 + (IF th[t].timer = "SET" THEN 1 ELSE 0)
                                  + (IF held THEN 1 ELSE 0)

\* The queues and the chain agree with the threads (QueuesAgree and
\* TimersAgree) through the windows of thread_wakeup_prim, clear_wait_locked
\* and softclock, in which neither lock is held.
QueuesAndTimersAgree == QueuesAgree /\ TimersAgree

\* A wait ends only with a result that was offered to it: a wakeup of its
\* event, an abort of an interruptible wait, a timeout once the time is up.
\* On several processors clear_wait_locked may also end the thread's next
\* wait for the same event, if that begins while the thread is unlocked.
EndsForItsReason ==
  \A t \in All :
    ctl[t].pc \in {"asserted", "timed", "switch", "off"} /\ ~th[t].wait
      => th[t].wait_result \in offers[t]

\* An end that is offered is under way: as long as the wait goes on, some
\* thread_wakeup_prim has the thread on its queue, some clear_wait_locked is
\* about to look at it again, or softclock is about to time it out.  No
\* wakeup, abort or timeout is lost in the windows of that code.
OfferIsCarried ==
  \A t \in All : th[t].wait /\ offers[t] # {} =>
    \E a \in Actors :
      \/ t \in Range(ctl[a].wake_queue)
      \/ At_pc(a, "clearing") /\ ctl[a].who = t /\ ctl[a].event = th[t].wait_event
      \/ At_pc(a, "fire") /\ ctl[a].who = t /\ th[t].timer = "PENDING"

\* Softclock does not sleep through a timer: when one has run out, softclock
\* is awake, or the tick that made it due is about to wake it.  (It looks at
\* the chain and asserts its wait under timer_lock, and set_timeout, which
\* never wakes it, takes at least one tick.)
SoftclockWatches ==
  Due => \/ ~th[Soft].wait
         \/ At_pc(Clock, "due")
         \/ Holders(Soft) # {}

\* Outside of a timeout, no reference is held for one: "Release the extra
\* reference on the thread, taken in set_timeout()" (reset_timeout).
TimerReferenceReturned ==
  \A t \in Threads :
    th[t].timer = "UNSET" /\ ctl[Soft].who # t => th[t].ref_count = 1

=============================================================================
