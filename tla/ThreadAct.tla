----------------------------- MODULE ThreadAct -----------------------------
(***************************************************************************)
(* Control of threads by other threads: suspend, resume, abort, abort      *)
(* safely, look at or set the state, terminate (kern/thread_act.c), with   *)
(* thread_stop, thread_unstop and thread_wait of kern/sched_prim.c and the *)
(* special handler a thread runs on its way back to user mode.  Every      *)
(* thread has one activation, the top one.                                 *)
(*                                                                         *)
(* One action is one stretch of code under the activation's locks or under *)
(* wake_lock.  Waits and wakeups are atomic here; WaitEvent looks at them  *)
(* more closely.                                                           *)
(***************************************************************************)
EXTENDS Integers, FiniteSets, SchedPrim

CONSTANTS
  Threads,
  May,             \* triples <<c, op, u>>: thread c may call op for thread u
  Sleepers,        \* threads that wait in the kernel for other things
  MP,              \* NCPUS > 1
  MaxCalls         \* bound: calls of one thread

ASSUME ThreadActAssumption ==
  /\ May \subseteq Threads \X {"suspend", "resume", "abort", "abort_safely", "state", "terminate"}
                 \X Threads
  /\ Sleepers \subseteq Threads
  /\ MP \in BOOLEAN
  /\ MaxCalls \in Nat

VARIABLES
  th,              \* per thread: flags, event, result, wake_active
  act,             \* per activation: suspend counts, active, handlers
  ctl,             \* control and locals of a thread
  calls,           \* calls a thread has made
  suspended        \* history: what thread_suspend's return has promised

vars == <<th, act, ctl, calls, suspended>>

\* The events: a thread's I/O, its suspend_count, its wake_active.
Io(t) == <<"io", t>>
Count(t) == <<"suspend_count", t>>
WakeActive(t) == <<"wake_active", t>>

At_pc(t, pc) == ctl[t].pc = pc

User == [pc |-> "user", op |-> "none", who |-> "none", ok |-> FALSE, ret |-> "user"]

Goto(t, pc) == ctl' = [ctl EXCEPT ![t].pc = pc]
Return(t) == ctl' = [ctl EXCEPT ![t] = [User EXCEPT !.pc = "kernel"]]

-----------------------------------------------------------------------------
(* Waits, as functions of th.                                              *)

EndWait(H, t, r) == [H EXCEPT ![t] = [Ended(@, r) EXCEPT !.wait_event = NO_EVENT]]

thread_wakeup(H, e) ==
  [t \in Threads |-> IF H[t].wait_event = e
                     THEN [Ended(H[t], "AWAKENED") EXCEPT !.wait_event = NO_EVENT] ELSE H[t]]

\* clear_wait(t, THREAD_INTERRUPTED, TRUE)
Interrupted(H, t) == IF H[t].unint THEN H ELSE EndWait(H, t, "INTERRUPTED")

\* The thread asserts event e and will go on at ret.
WaitFor(c, H, e, interruptible, ret) ==
  /\ th' = [H EXCEPT ![c] = Asserted(@, e, interruptible)]
  /\ ctl' = [ctl EXCEPT ![c].pc = "asserted", ![c].ret = ret]

\* Mutant: whoever waits for the thread to block is not told.
DispatchQuietly(H, t) == [H EXCEPT ![t] = Dispatched(@)]

\* thread_dispatch: those who wait for the thread to block are told.
thread_dispatch(H, t) ==
  LET D == [H EXCEPT ![t] = Dispatched(@)]
  IN IF D[t].run \/ ~D[t].wake_active THEN D
     ELSE thread_wakeup([D EXCEPT ![t].wake_active = FALSE], WakeActive(t))

\* thread_block: an aborted thread ends its wait first.
thread_block(t) ==
  /\ At_pc(t, "asserted")
  /\ th' = thread_dispatch(IF th[t].abort THEN Interrupted(th, t) ELSE th, t)
  /\ Goto(t, "off")
  /\ UNCHANGED <<act, calls, suspended>>

thread_invoke(t) ==
  /\ At_pc(t, "off")
  /\ th[t].run
  /\ th' = [th EXCEPT ![t] = Invoked(@)]
  /\ Goto(t, ctl[t].ret)
  /\ UNCHANGED <<act, calls, suspended>>

-----------------------------------------------------------------------------
(* User mode, and the way back to it.                                      *)

\* A system call or a page fault that waits.
Sleep(t, how) ==
  /\ At_pc(t, "user")
  /\ WaitFor(t, th, IF how = "receive" THEN NO_EVENT ELSE Io(t), how # "fault", "kernel")
  /\ UNCHANGED <<act, calls, suspended>>

\* What it waits for happens: a wakeup, or thread_go for a message.
IoDone(t) ==
  /\ th[t].wait
  /\ ctl[t].ret = "kernel" /\ ctl[t].pc \in {"asserted", "off"}
  /\ \/ th[t].wait_event = Io(t) /\ th' = thread_wakeup(th, Io(t))
     \/ th[t].wait_event = NO_EVENT /\ th' = [th EXCEPT ![t] = Gone(@)]
  /\ UNCHANGED <<act, ctl, calls, suspended>>

\* act_execute_returnhandlers: the handler is taken off the list and run.
\* A thread in user mode is brought there by AST_APC.
PopHandler(t) ==
  /\ ctl[t].pc \in {"user", "kernel"}
  /\ act[t].handlers
  /\ act' = [act EXCEPT ![t].handlers = FALSE]
  /\ Goto(t, "special")
  /\ UNCHANGED <<th, calls, suspended>>

ReturnToUser(t) ==
  /\ At_pc(t, "kernel")
  /\ ~act[t].handlers
  /\ ctl' = [ctl EXCEPT ![t] = User]
  /\ UNCHANGED <<th, act, calls, suspended>>

\* Mutant: a suspended thread waits even if it has been terminated.
SpecialHandlerSuspendFirst(t) ==
  /\ At_pc(t, "special")
  /\ \/ /\ act[t].suspend_count > 0 /\ ~act[t].handlers
        /\ WaitFor(t, [th EXCEPT ![t].abort = FALSE], Count(t), TRUE, "resumed")
     \/ /\ act[t].suspend_count = 0 \/ act[t].handlers
        /\ IF act[t].active THEN Goto(t, "kernel") /\ th' = [th EXCEPT ![t].abort = FALSE]
           ELSE /\ Goto(t, "exited")
                /\ th' = thread_dispatch([th EXCEPT ![t] = Asserted(@, NO_EVENT, FALSE)], t)
  /\ UNCHANGED <<act, calls, suspended>>

\* special_handler: a terminated thread goes to thread_terminate_self and
\* never comes back, a suspended one waits unless a handler has been
\* installed since.
special_handler(t) ==
  /\ At_pc(t, "special")
  /\ \/ /\ ~act[t].active
        /\ th' = thread_dispatch([th EXCEPT ![t] = Asserted(@, NO_EVENT, FALSE)], t)
        /\ Goto(t, "exited")
     \/ /\ act[t].active /\ act[t].suspend_count > 0 /\ ~act[t].handlers
        /\ WaitFor(t, [th EXCEPT ![t].abort = FALSE], Count(t), TRUE, "resumed")
     \/ /\ act[t].active /\ (act[t].suspend_count = 0 \/ act[t].handlers)
        /\ th' = [th EXCEPT ![t].abort = FALSE]
        /\ Goto(t, "kernel")
  /\ UNCHANGED <<act, calls, suspended>>

\* Mutant: woken is taken for resumed.
SpecialResumedOnce(t) ==
  /\ At_pc(t, "resumed")
  /\ Goto(t, "kernel")
  /\ UNCHANGED <<th, act, calls, suspended>>

\* special_handler after its wait: still or again suspended, once more.
SpecialResumed(t) ==
  /\ At_pc(t, "resumed")
  /\ act' = [act EXCEPT ![t].handlers = @ \/ act[t].suspend_count > 0]
  /\ Goto(t, "kernel")
  /\ UNCHANGED <<th, calls, suspended>>

-----------------------------------------------------------------------------
(* Holding an activation, as functions of act and th.                      *)

nudge(H, u) == thread_wakeup(H, Count(u))

Held(A, u) == [A EXCEPT ![u].suspend_count = @ + 1,
                        ![u].handlers = @ \/ A[u].suspend_count = 0]
NudgeIf(H, u, b) == IF b THEN nudge(H, u) ELSE H

\* thread_hold
thread_hold(u) ==
  /\ act' = Held(act, u)
  /\ th' = NudgeIf(th, u, act[u].suspend_count = 0)

\* thread_release, on a scheduler state H
thread_release(H, u) ==
  /\ act' = [act EXCEPT ![u].suspend_count = IF @ > 0 THEN @ - 1 ELSE @]
  /\ th' = NudgeIf(H, u, act[u].suspend_count = 1)

\* thread_unstop: a thread that is only stopped is started; otherwise
\* whoever waits for the stop or for the thread is told.
thread_unstop(H, u) ==
  IF ~H[u].susp THEN H
  ELSE IF ~H[u].run /\ ~H[u].wait THEN [H EXCEPT ![u].susp = FALSE, ![u].run = TRUE]
  ELSE IF ~H[u].wake_active THEN [H EXCEPT ![u].susp = FALSE]
  ELSE thread_wakeup([H EXCEPT ![u].susp = FALSE, ![u].wake_active = FALSE], WakeActive(u))

\* act_abort of the top activation
act_abort(A, H, u) ==
  /\ act' = [A EXCEPT ![u].handlers = TRUE]
  /\ th' = Interrupted(nudge([H EXCEPT ![u].abort = TRUE], u), u)

-----------------------------------------------------------------------------
(* The calls.  A call that is refused changes nothing.                     *)

Calls(c, u, op) ==
  /\ <<c, op, u>> \in May
  /\ At_pc(c, "user")
  /\ calls[c] < MaxCalls
  /\ calls' = [calls EXCEPT ![c] = @ + 1]
  /\ act[u].active

Enter(c, u, op, pc) ==
  ctl' = [ctl EXCEPT ![c] = [pc |-> pc, op |-> op, who |-> u, ok |-> FALSE, ret |-> pc]]

\* Only the first suspender waits for the thread.
thread_suspend(c, u) ==
  LET first == act[u].user_stop_count = 0
      zero == act[u].suspend_count = 0
  IN
  /\ Calls(c, u, "suspend")
  /\ act' = [act EXCEPT ![u].user_stop_count = @ + 1,
                        ![u].suspend_count = IF first THEN @ + 1 ELSE @,
                        ![u].handlers = @ \/ (first /\ zero)]
  /\ th' = NudgeIf(th, u, first /\ zero /\ u # c)
  /\ IF first /\ zero /\ u # c
     THEN Enter(c, u, "suspend", "wait") /\ UNCHANGED suspended
     ELSE /\ Return(c)
          /\ suspended' = [suspended EXCEPT ![u] = IF @ = "settled" THEN @ ELSE "claimed"]

thread_resume(c, u) ==
  LET last == act[u].user_stop_count = 1
  IN
  /\ Calls(c, u, "resume")
  /\ act[u].user_stop_count > 0
  /\ act' = [act EXCEPT ![u].user_stop_count = @ - 1,
                        ![u].suspend_count = IF last THEN @ - 1 ELSE @]
  /\ th' = NudgeIf(th, u, last)
  /\ suspended' = [suspended EXCEPT ![u] = IF last THEN "no" ELSE @]
  /\ Return(c)

thread_abort(c, u) ==
  /\ Calls(c, u, "abort")
  /\ c # u
  /\ act_abort(act, th, u)
  /\ Return(c)
  /\ UNCHANGED suspended

Stopping == {"state", "abort_safely", "terminate"}

\* thread_get_state, thread_set_state, thread_abort_safely and, with several
\* processors, thread_terminate: hold the thread and stop it.
HoldAndStop(c, u, op) ==
  /\ op = "terminate" => MP
  /\ Calls(c, u, op)
  /\ c # u
  /\ thread_hold(u)
  /\ Enter(c, u, op, "stop")
  /\ UNCHANGED suspended

\* act_disable_task_locked, as a function of act
Disabled(A, u) == [A EXCEPT ![u].active = FALSE, ![u].handlers = TRUE]

\* thread_terminate of the caller itself, or on one processor.
TerminateNow(c, u) ==
  /\ Calls(c, u, "terminate")
  /\ c = u \/ ~MP
  /\ act_abort(Disabled(act, u), NudgeIf(th, u, act[u].suspend_count > 0), u)
  /\ Return(c)
  /\ UNCHANGED suspended

-----------------------------------------------------------------------------
(* thread_stop and thread_wait, whose waits the caller may be aborted in.  *)

\* In a loop, before its wait or woken from it; and interrupted in it.
InLoop(c, pc, woken) ==
  \/ At_pc(c, pc)
  \/ At_pc(c, woken) /\ th[c].wait_result = "AWAKENED"
Broken(c, woken) == At_pc(c, woken) /\ th[c].wait_result # "AWAKENED"

thread_stop(c) ==
  LET u == ctl[c].who
  IN
  /\ InLoop(c, "stop", "stop_woken")
  /\ \/ /\ th[u].susp
        /\ WaitFor(c, [th EXCEPT ![u].wake_active = TRUE], WakeActive(u), TRUE, "stop_woken")
     \/ /\ ~th[u].susp
        /\ th' = [th EXCEPT ![u].susp = TRUE]
        /\ Goto(c, "wait")
  /\ UNCHANGED <<act, calls, suspended>>

\* The end of a wait in thread_suspend, whatever became of the wait.
SuspendReturns(c, promise) ==
  /\ Return(c)
  /\ suspended' = [suspended EXCEPT ![ctl[c].who] =
                     IF act[ctl[c].who].user_stop_count = 0 \/ @ = "settled" THEN @ ELSE promise]

thread_wait(c) ==
  LET u == ctl[c].who
  IN
  /\ InLoop(c, "wait", "wait_woken")
  /\ \/ /\ th[u].run
        /\ WaitFor(c, [th EXCEPT ![u].wake_active = TRUE], WakeActive(u), TRUE, "wait_woken")
        /\ UNCHANGED suspended
     \/ /\ ~th[u].run
        /\ UNCHANGED th
        /\ IF ctl[c].op = "suspend" THEN SuspendReturns(c, "settled")
           ELSE /\ ctl' = [ctl EXCEPT ![c].pc = "tail", ![c].ok = TRUE]
                /\ UNCHANGED suspended
  /\ UNCHANGED <<act, calls>>

\* The wait is interrupted: thread_stop_wait takes the stop back.
StopBroken(c) ==
  /\ Broken(c, "stop_woken")
  /\ Goto(c, "tail")
  /\ UNCHANGED <<th, act, calls, suspended>>

WaitBroken(c) ==
  /\ Broken(c, "wait_woken")
  /\ IF ctl[c].op = "suspend" THEN SuspendReturns(c, "claimed") /\ UNCHANGED th
     ELSE /\ th' = thread_unstop(th, ctl[c].who)
          /\ Goto(c, "tail")
          /\ UNCHANGED suspended
  /\ UNCHANGED <<act, calls>>

-----------------------------------------------------------------------------
(* What the calls do once thread_stop_wait has returned.                   *)

\* thread_get_state and thread_set_state do not look at its result.
StateTail(c) ==
  /\ ctl[c].op = "state"
  /\ thread_release(thread_unstop(th, ctl[c].who), ctl[c].who)
  /\ Return(c)

\* A wait in special_handler, or of an I/O, is a safe point; one in
\* thread_stop or thread_wait is not.
AtSafePoint(u) ==
  /\ th[u].wait /\ ~th[u].run /\ ~th[u].unint
  /\ ctl[u].ret \in {"kernel", "resumed"}

\* Mutant: the stop is cleared whether or not it was obtained.
AbortSafelyTailAnyway(c) ==
  /\ ctl[c].op = "abort_safely"
  /\ thread_release(thread_unstop(th, ctl[c].who), ctl[c].who)
  /\ Return(c)

AbortSafelyTail(c) ==
  LET u == ctl[c].who
      Cleared == IF AtSafePoint(u) THEN Interrupted(th, u) ELSE th
  IN
  /\ ctl[c].op = "abort_safely"
  /\ thread_release(IF ctl[c].ok THEN thread_unstop(Cleared, u) ELSE th, u)
  /\ Return(c)

\* Back in the locks, thread_terminate finds the thread active or not.
TerminateTail(c) ==
  LET u == ctl[c].who
  IN
  /\ ctl[c].op = "terminate"
  /\ \/ /\ ctl[c].ok /\ act[u].active
        /\ act_abort(Disabled(act, u), nudge(th, u), u)
        /\ Goto(c, "out")
     \/ /\ ctl[c].ok /\ ~act[u].active
        /\ Goto(c, "out")
        /\ UNCHANGED <<th, act>>
     \/ /\ ~ctl[c].ok
        /\ thread_release(th, u)
        /\ Return(c)

Tail(c) ==
  /\ At_pc(c, "tail")
  /\ StateTail(c) \/ AbortSafelyTail(c) \/ TerminateTail(c)
  /\ UNCHANGED <<calls, suspended>>

TerminateOut(c) ==
  /\ At_pc(c, "out")
  /\ thread_release(thread_unstop(th, ctl[c].who), ctl[c].who)
  /\ Return(c)
  /\ UNCHANGED <<calls, suspended>>

-----------------------------------------------------------------------------
Init ==
  /\ th = [t \in Threads |-> [run |-> TRUE, wait |-> FALSE, susp |-> FALSE, unint |-> FALSE,
                              abort |-> FALSE, wake_active |-> FALSE,
                              wait_event |-> NO_EVENT, wait_result |-> "AWAKENED"]]
  /\ act = [t \in Threads |-> [suspend_count |-> 0, user_stop_count |-> 0,
                               active |-> TRUE, handlers |-> FALSE]]
  /\ ctl = [t \in Threads |-> User]
  /\ calls = [t \in Threads |-> 0]
  /\ suspended = [t \in Threads |-> "no"]

\* Steps a thread that can run takes in the end.
Step(t) ==
  \/ thread_block(t) \/ thread_invoke(t)
  \/ PopHandler(t) \/ ReturnToUser(t) \/ special_handler(t) \/ SpecialResumed(t)
  \/ thread_stop(t) \/ thread_wait(t) \/ StopBroken(t) \/ WaitBroken(t)
  \/ Tail(t) \/ TerminateOut(t)

Call(c, u) ==
  \/ thread_suspend(c, u) \/ thread_resume(c, u) \/ thread_abort(c, u)
  \/ TerminateNow(c, u)
  \/ \E op \in Stopping : HoldAndStop(c, u, op)

Next ==
  \/ \E t \in Threads : Step(t) \/ IoDone(t)
  \/ \E t \in Sleepers, how \in {"receive", "event", "fault"} : Sleep(t, how)
  \/ \E c, u \in Threads : Call(c, u)

Spec == Init /\ [][Next]_vars

\* Threads that can run do, and page faults end.
FairSpec ==
  /\ Spec
  /\ \A t \in Threads : WF_vars(Step(t)) /\ WF_vars(th[t].unint /\ IoDone(t))

-----------------------------------------------------------------------------
(* Properties.                                                             *)

\* Caller c has set TH_SUSP in its target and not yet cleared it.
HasStopped(c) ==
  /\ ctl[c].op \in Stopping
  /\ \/ ctl[c].pc \in {"wait", "wait_woken", "out"}
     \/ ctl[c].pc \in {"asserted", "off"} /\ ctl[c].ret = "wait_woken"
     \/ ctl[c].pc = "tail" /\ ctl[c].ok

\* What thread_stop_wait and thread_suspend are for: while a caller works on
\* a thread that it has stopped and seen blocked, and while a suspension
\* lasts whose first caller has seen the thread blocked, the thread does not
\* execute in user mode.
StaysOutOfUser ==
  /\ \A c \in Threads : ctl[c].pc = "tail" /\ ctl[c].ok => ctl[ctl[c].who].pc # "user"
  /\ \A u \in Threads : suspended[u] = "settled" => ctl[u].pc # "user"

\* thread_stop is exclusive: as long as a caller has a thread stopped, nobody
\* else clears its TH_SUSP or stops it too.
StopIsKept ==
  /\ \A c \in Threads : HasStopped(c) => th[ctl[c].who].susp
  /\ \A c, d \in Threads : HasStopped(c) /\ HasStopped(d) /\ c # d => ctl[c].who # ctl[d].who

\* thread_hold, thread_release, thread_suspend, thread_resume: the count is
\* the number of callers that hold the activation, one more if it is
\* suspended, and a thread sleeps in special_handler only while it is
\* positive and the activation is active.
SuspendCounts ==
  \A u \in Threads :
    /\ act[u].suspend_count =
         Cardinality({c \in Threads : ctl[c].who = u /\ ctl[c].op \in Stopping})
         + (IF act[u].user_stop_count > 0 THEN 1 ELSE 0)
    /\ th[u].wait_event = Count(u) => act[u].suspend_count > 0 /\ act[u].active

\* What a caller has stopped or held stays so until that caller lets it go
\* (StopIsKept), and the count says who holds it (SuspendCounts), in all the
\* interleavings of suspend, resume, abort_safely, terminate and get_state.
HoldsAreKept == StopIsKept /\ SuspendCounts

\* Every call that stops a thread comes back, however its target and the
\* other callers move, and so does thread_suspend unless the thread is
\* resumed meanwhile (thread_wait then waits for it to block by itself).
CallsReturn ==
  \A c, u \in Threads :
    (ctl[c].op # "none" /\ ctl[c].who = u)
      ~> \/ ctl[c].op = "none"
         \/ ctl[c].op = "suspend" /\ act[u].user_stop_count = 0

\* A terminated thread reaches thread_terminate_self, whether it was
\* running, waiting, suspended or stopped.
TerminatedExits == \A u \in Threads : ~act[u].active ~> ctl[u].pc = "exited"

\* mach/mach.defs on thread_suspend: once the call has completed, the thread
\* does not execute any further user instructions.
SuspendCompletes == \A u \in Threads : suspended[u] # "no" => ctl[u].pc # "user"

=============================================================================
