----------------------------- MODULE SchedPrim -----------------------------
(***************************************************************************)
(* How the scheduler's flags of one thread change as it waits, is woken    *)
(* and leaves the processor (kern/sched_prim.c).  A thread i is a record   *)
(* with the flags TH_RUN, TH_WAIT, TH_SUSP and TH_UNINT as Booleans and    *)
(* the fields wait_event and wait_result.                                  *)
(***************************************************************************)

CONSTANTS NO_EVENT, WAKING_EVENT

\* assert_wait of event e, by the thread itself.
Asserted(i, e, interruptible) ==
  [i EXCEPT !.wait = TRUE, !.unint = @ \/ ~interruptible, !.wait_event = e]

(***************************************************************************)
(* The switch on TH_SCHED_STATE in clear_wait_locked and                   *)
(* thread_wakeup_prim: a thread that sleeps is started unless it is        *)
(* stopped in an interruptible wait; one that still runs only loses        *)
(* TH_WAIT; one that does not wait is left alone.                          *)
(***************************************************************************)
Ended(i, r) ==
  IF i.wait THEN [i EXCEPT !.wait = FALSE,
                           !.run = @ \/ ~i.susp \/ i.unint,
                           !.wait_result = r]
  ELSE i

\* thread_go, which starts message waits: TH_SUSP is not looked at.
Gone(i) == IF i.wait THEN [i EXCEPT !.wait = FALSE, !.run = TRUE, !.wait_result = "AWAKENED"]
           ELSE i

\* thread_dispatch: a thread that still waits gives up TH_RUN.
Dispatched(i) == [i EXCEPT !.run = @ /\ ~i.wait]

\* thread_invoke: the thread runs again.
Invoked(i) == [i EXCEPT !.unint = FALSE]

=============================================================================
