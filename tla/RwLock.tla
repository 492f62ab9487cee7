------------------------------ MODULE RwLock ------------------------------
(***************************************************************************)
(* The kernel's read/write lock, lock_t (kern/lock.c).  One action is one  *)
(* stretch of code under the interlock; the wakeup that follows a release  *)
(* is a step of its own, because the interlock is free by then.  A thread  *)
(* that spins tries again; one that sleeps waits for the wakeup first.     *)
(***************************************************************************)
EXTENDS Integers, FiniteSets

CONSTANTS
  Threads,
  can_sleep

ASSUME RwLockAssumption == IsFiniteSet(Threads) /\ can_sleep \in BOOLEAN

VARIABLES
  read_count, want_write, want_upgrade, waiting,
  pc,              \* where a thread is in its calls
  asleep           \* threads that sleep on the lock

lockVars == <<read_count, want_write, want_upgrade, waiting>>
vars == <<lockVars, pc, asleep>>

(***************************************************************************)
(* "idle", or waiting: "write" for want_write, "drain" for the readers to  *)
(* leave, "read", "upgrade"; or holding: "R", "W" through want_write, "U"  *)
(* through want_upgrade; or about to call thread_wakeup: "wake" on the way *)
(* out, "wakeR" on the way to a read lock.                                 *)
(***************************************************************************)
Pcs == {"idle", "write", "drain", "read", "upgrade", "R", "W", "U", "wake", "wakeR"}

Goto(t, p) == pc' = [pc EXCEPT ![t] = p]

\* What each loop waits out.
Blocked(p) ==
  CASE p = "write"   -> want_write
    [] p = "drain"   -> read_count # 0 \/ want_upgrade
    [] p = "read"    -> want_write \/ want_upgrade
    [] p = "upgrade" -> read_count # 0
    [] OTHER         -> FALSE

Awake(t, p) == pc[t] = p /\ t \notin asleep

-----------------------------------------------------------------------------
(* The calls, from their entry to the first loop.                          *)

EnterWrite(t) == pc[t] = "idle" /\ Goto(t, "write") /\ UNCHANGED <<lockVars, asleep>>
EnterRead(t) == pc[t] = "idle" /\ Goto(t, "read") /\ UNCHANGED <<lockVars, asleep>>

\* thread_sleep_simple_lock in any of the loops
Sleep(t) ==
  /\ can_sleep
  /\ t \notin asleep /\ Blocked(pc[t])
  /\ waiting' = TRUE
  /\ asleep' = asleep \cup {t}
  /\ UNCHANGED <<read_count, want_write, want_upgrade, pc>>

\* lock_write: the want_write bit first, then the readers and upgrades.
WantWrite(t) ==
  /\ Awake(t, "write") /\ ~Blocked("write")
  /\ want_write' = TRUE
  /\ Goto(t, "drain")
  /\ UNCHANGED <<read_count, want_upgrade, waiting, asleep>>

\* Mutant: a writer does not wait for an upgrade that is going on.
DrainedOfReaders(t) ==
  /\ Awake(t, "drain") /\ read_count = 0
  /\ Goto(t, "W")
  /\ UNCHANGED <<lockVars, asleep>>

Drained(t) ==
  /\ Awake(t, "drain") /\ ~Blocked("drain")
  /\ Goto(t, "W")
  /\ UNCHANGED <<lockVars, asleep>>

lock_read(t) ==
  /\ Awake(t, "read") /\ ~Blocked("read")
  /\ read_count' = read_count + 1
  /\ Goto(t, "R")
  /\ UNCHANGED <<want_write, want_upgrade, waiting, asleep>>

\* The end of a release: is there anyone to wake, once the interlock is free.
Wakes(t, wake, next, other) ==
  /\ waiting' = (waiting /\ ~wake)
  /\ Goto(t, IF waiting /\ wake THEN next ELSE other)

\* Mutant: the reader that gives way does not wake the one that was first.
ReadToWriteFailsQuietly(t) ==
  /\ pc[t] = "R" /\ want_upgrade
  /\ read_count' = read_count - 1
  /\ Goto(t, "idle")
  /\ UNCHANGED <<want_write, want_upgrade, waiting, asleep>>

\* lock_read_to_write: the read lock is given up in any case; if another
\* reader was first, that is all.
ReadToWriteFails(t) ==
  /\ pc[t] = "R" /\ want_upgrade
  /\ read_count' = read_count - 1
  /\ Wakes(t, read_count' = 0, "wake", "idle")
  /\ UNCHANGED <<want_write, want_upgrade, asleep>>

ReadToWrite(t) ==
  /\ pc[t] = "R" /\ ~want_upgrade
  /\ read_count' = read_count - 1
  /\ want_upgrade' = TRUE
  /\ Goto(t, "upgrade")
  /\ UNCHANGED <<want_write, waiting, asleep>>

Upgraded(t) ==
  /\ Awake(t, "upgrade") /\ ~Blocked("upgrade")
  /\ Goto(t, "U")
  /\ UNCHANGED <<lockVars, asleep>>

lock_write_to_read(t) ==
  /\ pc[t] \in {"W", "U"}
  /\ read_count' = read_count + 1
  /\ IF want_upgrade THEN want_upgrade' = FALSE /\ UNCHANGED want_write
     ELSE want_write' = FALSE /\ UNCHANGED want_upgrade
  /\ Wakes(t, TRUE, "wakeR", "R")
  /\ UNCHANGED asleep

\* lock_done finds out from the lock what it is that the caller held.
lock_done(t) ==
  /\ pc[t] \in {"R", "W", "U"}
  /\ \/ /\ read_count # 0
        /\ read_count' = read_count - 1
        /\ UNCHANGED <<want_write, want_upgrade>>
     \/ /\ read_count = 0 /\ want_upgrade
        /\ want_upgrade' = FALSE
        /\ UNCHANGED <<read_count, want_write>>
     \/ /\ read_count = 0 /\ ~want_upgrade
        /\ want_write' = FALSE
        /\ UNCHANGED <<read_count, want_upgrade>>
  /\ Wakes(t, read_count' = 0, "wake", "idle")
  /\ UNCHANGED asleep

\* Mutant: one thread is woken where all are meant.
WakeupOne(t) ==
  /\ pc[t] \in {"wake", "wakeR"}
  /\ IF asleep = {} THEN UNCHANGED asleep ELSE \E u \in asleep : asleep' = asleep \ {u}
  /\ Goto(t, IF pc[t] = "wake" THEN "idle" ELSE "R")
  /\ UNCHANGED lockVars

\* thread_wakeup, after the interlock has been released
thread_wakeup(t) ==
  /\ pc[t] \in {"wake", "wakeR"}
  /\ asleep' = {}
  /\ Goto(t, IF pc[t] = "wake" THEN "idle" ELSE "R")
  /\ UNCHANGED lockVars

-----------------------------------------------------------------------------
Init ==
  /\ read_count = 0 /\ want_write = FALSE /\ want_upgrade = FALSE /\ waiting = FALSE
  /\ pc = [t \in Threads |-> "idle"]
  /\ asleep = {}

Enter(t) == EnterWrite(t) \/ EnterRead(t)

\* What a thread that waits or has to wake others does by itself.
Step(t) ==
  \/ Sleep(t) \/ thread_wakeup(t)
  \/ WantWrite(t) \/ Drained(t) \/ lock_read(t) \/ Upgraded(t)

\* What a thread that holds the lock may ask for.
Change(t) == ReadToWriteFails(t) \/ ReadToWrite(t) \/ lock_write_to_read(t)

Next == \E t \in Threads : Enter(t) \/ Step(t) \/ Change(t) \/ lock_done(t)

Spec == Init /\ [][Next]_vars

\* Threads run, and let go of the lock in the end.
FairSpec ==
  /\ Spec
  /\ \A t \in Threads : WF_vars(Step(t)) /\ SF_vars(lock_done(t))

-----------------------------------------------------------------------------
(* Properties.                                                             *)

TypeOK ==
  /\ read_count \in Nat
  /\ want_write \in BOOLEAN /\ want_upgrade \in BOOLEAN /\ waiting \in BOOLEAN
  /\ pc \in [Threads -> Pcs]
  /\ asleep \subseteq Threads

\* What the lock means to a thread: an upgrade that has not been granted yet
\* already keeps writers out.
Mode(p) ==
  CASE p \in {"R", "wakeR"} -> "read"
    [] p = "upgrade"        -> "upgrade"
    [] p \in {"W", "U"}     -> "write"
    [] OTHER                -> "none"

Abstract == INSTANCE RwSpec WITH mode <- [t \in Threads |-> Mode(pc[t])]

\* The lock is a read/write lock with upgrades: every step of the code is a
\* step of RwSpec or changes nothing that its users see.
Implements == Abstract!Spec

\* A sleeping thread has something to wait for, or a wakeup is on its way:
\* lock_done may leave the sleepers alone as long as there are readers.
NoLostWakeup ==
  \A t \in asleep : Blocked(pc[t]) \/ \E u \in Threads : pc[u] \in {"wake", "wakeR"}

\* A writer that has got want_write, and a reader whose upgrade was
\* accepted, come to hold the lock: nobody gets in before them.
ClaimsAreServed ==
  \A t \in Threads : /\ (pc[t] = "drain") ~> (pc[t] = "W")
                     /\ (pc[t] = "upgrade") ~> (pc[t] = "U")

=============================================================================
