--------------------------- MODULE LockSetProofs ---------------------------
(***************************************************************************)
(* Lock sets for any threads and ulocks: queues and owners agree with what *)
(* the threads do, ownership is what the threads were told, and nobody     *)
(* stays asleep in a set that was destroyed.  The case of LockSet's        *)
(* constant Unlinked, in which hand-offs stay behind, is excluded.         *)
(***************************************************************************)
EXTENDS LockSetLemmas

-----------------------------------------------------------------------------
(* The end of a thread.                                                    *)

\* act_ulock_release_all on a ulock of the thread, once and, if the thread
\* itself comes next, twice.
Once(l) == Released([ulock[l] EXCEPT !.stable = FALSE])
Twice(t, l) == IF Once(l).owner = t THEN Released(Once(l)) ELSE Once(l)

Given(t, u) == \E l \in Ulocks : ulock[l].owner = t /\ u \in {Once(l).owner, Twice(t, l).owner}

\* Whoever is given the ulock was blocked on it and has left the queue, and
\* the thread that ends does not keep it.
LEMMA TerminatedUlock ==
  ASSUME IInv, active, NEW t \in Threads, NEW l \in Ulocks, ulock[l].owner = t
  PROVE  LET b == ulock[l].blocked_threads
             y == Twice(t, l)
         IN /\ y \in UlockState /\ y.ho_thread = ulock[l].ho_thread
            /\ IsInjective(y.blocked_threads)
            /\ y.held <=> y.owner # NoThread
            /\ y.blocked_threads # <<>> => y.held
            /\ Range(y.blocked_threads) = Range(b) \ {Once(l).owner, y.owner}
            /\ y.owner # t
            /\ Once(l).owner \in Range(b) \cup {NoThread}
            /\ y.owner \in Range(b) \cup {NoThread}
            /\ Once(l).owner \in {t, y.owner}
<1> DEFINE u == [ulock[l] EXCEPT !.stable = FALSE]
           b == ulock[l].blocked_threads
           x == Once(l)
           y == Twice(t, l)
<1>1. u \in UlockState /\ u.held /\ u.blocked_threads = b /\ u.ho_thread = ulock[l].ho_thread
      /\ IsInjective(b)
  BY NoThreadIsNone DEF IInv, TypeOK, UlockState, QueuesOK
<1>2. x = Released(u)
  BY DEF Once
<1> HIDE DEF u, x
<1>3. /\ x \in UlockState /\ x.ho_thread = ulock[l].ho_thread
      /\ IsInjective(x.blocked_threads)
      /\ x.held <=> x.owner # NoThread
      /\ x.blocked_threads # <<>> => x.held
      /\ Range(x.blocked_threads) = Range(b) \ {x.owner}
      /\ x.held => x.owner \in Range(b)
  BY <1>1, <1>2, ReleasedLemma
<1>4. CASE x.owner # t
  <2>1. y = x
    BY <1>4 DEF Twice, x
  <2> QED BY <1>3, <1>4, <2>1 DEF x
<1>5. CASE x.owner = t
  <2>1. y = Released(x)
    BY <1>5 DEF Twice, x
  <2>2. x.held
    BY <1>3, <1>5, NoThreadIsNone
  <2>3. /\ y \in UlockState /\ y.ho_thread = x.ho_thread
        /\ IsInjective(y.blocked_threads)
        /\ y.held <=> y.owner # NoThread
        /\ y.blocked_threads # <<>> => y.held
        /\ Range(y.blocked_threads) = Range(x.blocked_threads) \ {y.owner}
        /\ y.held => y.owner \in Range(x.blocked_threads)
    BY <1>3, <2>1, <2>2, ReleasedLemma
  <2> HIDE DEF y
  <2> QED BY <1>3, <1>5, <2>2, <2>3, NoThreadIsNone DEF x, y
<1> QED BY <1>4, <1>5

\* act_disable_task_locked: the ulocks of the thread pass to others, who are
\* told that they are unstable, and its wait is broken off.
LEMMA TerminateStep ==
  ASSUME IInv, ~Unlinked, NEW t \in Threads, Terminate(t)
  PROVE  IInv'
<1> DEFINE done == [u \in Threads |-> IF Given(t, u) THEN Complete(th[u], "LOCK_UNSTABLE")
                                      ELSE th[u]]
           gone == [clear_wait(done[t], "INTERRUPTED") EXCEPT !.dead = TRUE]
<1>1. /\ active /\ active' = active /\ handoff_ulocks' = handoff_ulocks
      /\ th[t].wait => th[t].link
      /\ ulock' = [l \in Ulocks |-> IF ulock[l].owner = t THEN Twice(t, l) ELSE ulock[l]]
      /\ held_ulocks' = {l \in held_ulocks : ulock'[l].held}
      /\ th' = [done EXCEPT ![t] = gone]
      /\ holds' = [holds EXCEPT ![t] = {}]
  <2> DEFINE mine == {l \in Ulocks : ulock[l].owner = t}
             after == [l \in Ulocks |-> IF l \notin mine THEN ulock[l]
                                        ELSE IF Once(l).owner = t THEN Released(Once(l))
                                        ELSE Once(l)]
             given(u) == \E l \in mine : u \in {Once(l).owner, after[l].owner}
             d == [u \in Threads |-> IF given(u) THEN Complete(th[u], "LOCK_UNSTABLE")
                                     ELSE th[u]]
  <2>1. /\ active /\ active' = active /\ handoff_ulocks' = handoff_ulocks
        /\ th[t].wait => MayAbort(t)
        /\ ulock' = after
        /\ held_ulocks' = {l \in held_ulocks : after[l].held}
        /\ th' = [d EXCEPT ![t] = [clear_wait(d[t], "INTERRUPTED") EXCEPT !.dead = TRUE]]
        /\ holds' = [holds EXCEPT ![t] = {}]
    BY Zenon DEF Terminate, Once
  <2>2. after = [l \in Ulocks |-> IF ulock[l].owner = t THEN Twice(t, l) ELSE ulock[l]]
    BY Zenon DEF Twice
  <2>3. ASSUME NEW u PROVE given(u) <=> Given(t, u)
    <3>1. \A l \in mine : after[l] = Twice(t, l)
      BY Zenon DEF Twice
    <3> HIDE DEF after
    <3> QED BY <3>1, Zenon DEF Given
  <2>4. d = done
    BY <2>3, Zenon
  <2>5. th[t].wait => th[t].link
    BY <2>1 DEF MayAbort
  <2> HIDE DEF after, d, done
  <2> QED BY <2>1, <2>2, <2>4, <2>5
\* The ulocks
<1>2. \A l \in Ulocks : ulock[l].owner # t => ulock'[l] = ulock[l]
  BY <1>1
<1>3. ASSUME NEW l \in Ulocks, ulock[l].owner = t
      PROVE  /\ ulock'[l] = Twice(t, l)
             /\ ulock'[l] \in UlockState /\ ulock'[l].ho_thread = ulock[l].ho_thread
             /\ IsInjective(ulock'[l].blocked_threads)
             /\ ulock'[l].held <=> ulock'[l].owner # NoThread
             /\ ulock'[l].blocked_threads # <<>> => ulock'[l].held
             /\ Range(ulock'[l].blocked_threads)
                  = Range(ulock[l].blocked_threads) \ {Once(l).owner, ulock'[l].owner}
             /\ ulock'[l].owner # t
             /\ Once(l).owner \in Range(ulock[l].blocked_threads) \cup {NoThread}
             /\ ulock'[l].owner \in Range(ulock[l].blocked_threads) \cup {NoThread}
             /\ Once(l).owner \in {t, ulock'[l].owner}
  <2>1. ulock'[l] = Twice(t, l)
    BY <1>1, <1>3
  <2> QED BY <1>1, <1>3, <2>1, TerminatedUlock
<1>4. ulock' \in [Ulocks -> UlockState] /\ \A l \in Ulocks : ulock'[l].owner # t
  BY <1>1, <1>2, <1>3 DEF IInv, TypeOK
\* The threads that are given one of them
<1>5. ASSUME NEW u \in Threads, Given(t, u)
      PROVE  /\ th[u].op = "acquire" /\ th[u].link /\ th[u].lock \in Ulocks
             /\ ulock[th[u].lock].owner = t
             /\ u \in {Once(th[u].lock).owner, ulock'[th[u].lock].owner}
             /\ u # t => ulock'[th[u].lock].owner = u
  <2>1. PICK l \in Ulocks : ulock[l].owner = t /\ u \in {Once(l).owner, Twice(t, l).owner}
    BY <1>5 DEF Given
  <2>2. u \in Range(ulock[l].blocked_threads) /\ u \in {Once(l).owner, ulock'[l].owner}
    BY <1>3, <2>1, NoThreadIsNone
  <2>3. Queued(u, l)
    BY <1>1, <2>2 DEF IInv, QueuesOK
  <2> QED BY <1>3, <2>1, <2>2, <2>3 DEF Queued
<1>6. ASSUME NEW l \in Ulocks, ulock[l].owner = t, NEW u \in Threads,
             u \in {Once(l).owner, ulock'[l].owner}
      PROVE  Given(t, u)
  BY <1>3, <1>6 DEF Given
<1>7. ASSUME NEW u \in Threads
      PROVE  /\ done[u] \in ThreadState
             /\ done[u].op = th[u].op /\ done[u].lock = th[u].lock
             /\ done[u].dead = th[u].dead /\ done[u].missed = th[u].missed
             /\ ~Given(t, u) => done[u] = th[u]
             /\ Given(t, u) => /\ ~done[u].wait /\ ~done[u].link
                               /\ done[u].result \in {"LOCK_UNSTABLE", "INTERRUPTED"}
  <2>1. th[u] \in ThreadState /\ "LOCK_UNSTABLE" \in Results
    BY DEF IInv, TypeOK, Results
  <2>2. CASE Given(t, u)
    <3>1. done[u] = Complete(th[u], "LOCK_UNSTABLE")
      BY <2>2
    <3>2. ~th[u].wait => th[u].result = "INTERRUPTED"
      BY <1>5, <2>2 DEF IInv, ThreadsOK
    <3> HIDE DEF done
    <3> QED BY <2>1, <2>2, <3>1, <3>2, CompleteLemma
  <2>3. CASE ~Given(t, u)
    <3>1. done[u] = th[u]
      BY <2>3
    <3> QED BY <2>1, <2>3, <3>1
  <2> QED BY <2>2, <2>3
<1> HIDE DEF done
<1>8. /\ gone \in ThreadState
      /\ gone.op = th[t].op /\ gone.lock = th[t].lock /\ gone.missed = th[t].missed
      /\ gone.dead /\ ~gone.wait /\ gone.link = done[t].link
      /\ gone.result = IF done[t].wait THEN "INTERRUPTED" ELSE done[t].result
  <2> DEFINE c == clear_wait(done[t], "INTERRUPTED")
  <2>1. /\ c \in ThreadState
        /\ c.op = done[t].op /\ c.lock = done[t].lock /\ c.missed = done[t].missed
        /\ ~c.wait /\ c.link = done[t].link
        /\ c.result = IF done[t].wait THEN "INTERRUPTED" ELSE done[t].result
    <3>1. done[t] \in ThreadState /\ "INTERRUPTED" \in Results
      BY <1>7 DEF Results
    <3> QED BY <3>1, ClearLemma
  <2> HIDE DEF c
  <2>2. /\ [c EXCEPT !.dead = TRUE] \in ThreadState
        /\ LET g == [c EXCEPT !.dead = TRUE]
           IN /\ g.op = c.op /\ g.lock = c.lock /\ g.missed = c.missed /\ g.wait = c.wait
              /\ g.link = c.link /\ g.result = c.result /\ g.dead = TRUE
    BY <2>1 DEF ThreadState
  <2>3. gone = [c EXCEPT !.dead = TRUE]
    BY DEF c
  <2> HIDE DEF gone
  <2> QED BY <1>7, <2>1, <2>2, <2>3
<1> HIDE DEF gone
<1>9. /\ th' \in [Threads -> ThreadState]
      /\ th'[t] = gone
      /\ \A u \in Threads : u # t => th'[u] = done[u]
  <2>1. done \in [Threads -> ThreadState]
    BY <1>7 DEF done
  <2> QED BY <1>1, <1>8, <2>1
\* What the threads are afterwards
<1>10. ASSUME NEW u \in Threads
       PROVE  /\ th'[u].op = th[u].op /\ th'[u].lock = th[u].lock
              /\ th'[u].missed = th[u].missed
              /\ Given(t, u) => /\ ~th'[u].wait /\ ~th'[u].link
                                /\ th'[u].result \in {"LOCK_UNSTABLE", "INTERRUPTED"}
              /\ u # t => th'[u].dead = th[u].dead
              /\ u # t /\ ~Given(t, u) => th'[u] = th[u]
  BY <1>7, <1>8, <1>9
<1>11. /\ th'[t].dead /\ ~th'[t].wait
       /\ ~Given(t, t) => th'[t].link = th[t].link
       /\ ~Given(t, t) => th'[t].result = IF th[t].wait THEN "INTERRUPTED" ELSE th[t].result
  BY <1>7, <1>8, <1>9
<1>12. TypeOK'
  <2>1. holds' \in [Threads -> SUBSET Ulocks] /\ held_ulocks' \in SUBSET Ulocks
    BY <1>1 DEF IInv, TypeOK
  <2> QED BY <1>1, <1>4, <1>9, <2>1 DEF IInv, TypeOK
<1>13. ThreadsOK' /\ DestroyWakesAll'
  <2>1. ASSUME NEW u \in Threads
        PROVE  /\ th'[u].op = "acquire" /\ th'[u].wait => th'[u].link
               /\ th'[u].op = "none" => ~th'[u].wait
               /\ th'[u].op # "none" => th'[u].lock \in Ulocks
               /\ th'[u].op # "none" /\ ~th'[u].wait /\ th'[u].link =>
                    th'[u].result = "INTERRUPTED"
    BY <1>10, <1>11 DEF IInv, ThreadsOK
  <2> QED BY <1>1, <2>1 DEF ThreadsOK, DestroyWakesAll
<1>14. QueuesOK'
  <2> SUFFICES ASSUME NEW l \in Ulocks
               PROVE  /\ IsInjective(ulock'[l].blocked_threads)
                      /\ \A u \in Threads :
                           u \in Range(ulock'[l].blocked_threads) <=> Queued(u, l)'
                      /\ ulock'[l].held <=> ulock'[l].owner # NoThread
                      /\ ulock'[l].held <=> l \in held_ulocks'
                      /\ ulock'[l].blocked_threads # <<>> => ulock'[l].held
    BY DEF QueuesOK
  <2>1. ASSUME NEW u \in Threads
        PROVE  u \in Range(ulock'[l].blocked_threads) <=> Queued(u, l)'
    <3>1. u \in Range(ulock[l].blocked_threads) <=> Queued(u, l)
      BY <1>1 DEF IInv, QueuesOK
    <3>2. Queued(u, l)' <=> Queued(u, l) /\ ~Given(t, u)
      BY <1>10, <1>11 DEF Queued
    <3>3. CASE ulock[l].owner # t
      BY <1>2, <1>5, <3>1, <3>2, <3>3 DEF Queued
    <3>4. CASE ulock[l].owner = t
      <4>1. u \in Range(ulock'[l].blocked_threads)
              <=> Queued(u, l) /\ u \notin {Once(l).owner, ulock'[l].owner}
        BY <1>3, <3>1, <3>4
      <4>2. Queued(u, l) => (Given(t, u) <=> u \in {Once(l).owner, ulock'[l].owner})
        BY <1>5, <1>6, <3>4 DEF Queued
      <4> QED BY <3>2, <4>1, <4>2
    <3> QED BY <3>3, <3>4
  <2>2. ulock'[l].held <=> l \in held_ulocks'
    <3>1. ulock[l].held <=> l \in held_ulocks
      BY <1>1 DEF IInv, QueuesOK
    <3>2. ulock[l].held <=> ulock[l].owner # NoThread
      BY <1>1 DEF IInv, QueuesOK
    <3> QED BY <1>1, <1>2, <3>1, <3>2, NoThreadIsNone
  <2>3. CASE ulock[l].owner # t
    BY <1>1, <1>2, <2>1, <2>2, <2>3 DEF IInv, QueuesOK
  <2>4. CASE ulock[l].owner = t
    BY <1>3, <2>1, <2>2, <2>4
  <2> QED BY <2>3, <2>4
<1>15. HandoffsOK'
  <2>1. \A l \in Ulocks : ulock'[l].ho_thread = ulock[l].ho_thread
    BY <1>2, <1>3
  <2>2. ASSUME NEW u \in Threads, NEW l \in Ulocks PROVE InHandoff(u, l)' <=> InHandoff(u, l)
    <3>1. CASE u = t
      BY <1>1, <1>5, <1>10, <1>11, <3>1 DEF InHandoff
    <3>2. CASE u # t
      BY <1>5, <1>10, <3>2 DEF InHandoff
    <3> QED BY <3>1, <3>2
  <2> QED BY <1>1, <2>1, <2>2 DEF IInv, HandoffsOK
\* A ulock that changes hands goes to a thread in lock_acquire.
<1>16. ASSUME NEW l \in Ulocks, NEW u \in Threads, ulock'[l].owner = u, ulock[l].owner # u
       PROVE  Given(t, u) /\ th[u].lock = l /\ u # t
  <2>1. ulock[l].owner = t
    BY <1>2, <1>16
  <2>2. Given(t, u) /\ u \in Range(ulock[l].blocked_threads)
    BY <1>3, <1>6, <1>16, <2>1, NoThreadIsNone
  <2> QED BY <1>1, <1>4, <1>16, <2>2 DEF IInv, QueuesOK, Queued
<1>17. OwnersOK'
  <2> SUFFICES ASSUME NEW u \in Threads, NEW l \in Ulocks
               PROVE
    /\ th'[u].op = "handoff" /\ th'[u].lock = l /\ th'[u].wait => ulock'[l].owner = u
    /\ th'[u].op = "accept" /\ InHandoff(u, l)' => ulock'[l].owner # u
    /\ Told(u, l)' /\ th'[u].op = "handoff" =>
         \/ th'[u].result = "INTERRUPTED"
         \/ th'[u].result = "SUCCESS" /\ ulock'[l].owner # u
    /\ Told(u, l)' /\ th'[u].op # "handoff" =>
         \/ th'[u].result = "INTERRUPTED"
         \/ th'[u].result \in Got /\ (~th'[u].dead => ulock'[l].owner = u)
    BY DEF OwnersOK
  <2>1. /\ th[u].op = "handoff" /\ th[u].lock = l /\ th[u].wait => ulock[l].owner = u
        /\ th[u].op = "accept" /\ InHandoff(u, l) => ulock[l].owner # u
        /\ Told(u, l) /\ th[u].op = "handoff" =>
             \/ th[u].result = "INTERRUPTED"
             \/ th[u].result = "SUCCESS" /\ ulock[l].owner # u
        /\ Told(u, l) /\ th[u].op # "handoff" =>
             \/ th[u].result = "INTERRUPTED"
             \/ th[u].result \in Got /\ (~th[u].dead => ulock[l].owner = u)
    BY <1>1 DEF IInv, OwnersOK
  <2>2. CASE Given(t, u)
    BY <1>5, <1>10, <1>11, <2>2 DEF Told, Got
  <2>3. CASE ~Given(t, u) /\ u # t
    <3>1. th'[u] = th[u]
      BY <1>10, <2>3
    <3>2. ulock'[l].owner = u <=> ulock[l].owner = u
      BY <1>2, <1>16, <2>3
    <3> QED BY <2>1, <3>1, <3>2 DEF Told, InHandoff
  <2>4. CASE ~Given(t, u) /\ u = t
    <3>1. ~th'[u].wait /\ th'[u].dead /\ ulock'[l].owner # u
          /\ th'[u].op = th[u].op /\ th'[u].lock = th[u].lock
      BY <1>4, <1>10, <1>11, <2>4
    <3>2. Told(u, l)' => Told(u, l) /\ th'[u].result = th[u].result
      BY <1>1, <1>11, <2>4, <3>1 DEF Told
    <3> QED BY <2>1, <3>1, <3>2
  <2> QED BY <2>2, <2>3, <2>4
<1>18. LockBelongs'
  <2> SUFFICES ASSUME NEW l \in Ulocks, NEW u \in Threads, ~th'[u].missed
               PROVE
    /\ l \in holds'[u] /\ ~th'[u].dead =>
         ulock'[l].owner = u \/ (th'[u].op = "handoff" /\ Told(u, l)')
    /\ ulock'[l].owner = u => l \in holds'[u] \/ Told(u, l)'
    BY DEF LockBelongs
  <2>1. /\ l \in holds[u] /\ ~th[u].dead =>
             ulock[l].owner = u \/ (th[u].op = "handoff" /\ Told(u, l))
        /\ ulock[l].owner = u => l \in holds[u] \/ Told(u, l)
    BY <1>1, <1>10 DEF IInv, LockBelongs
  <2>2. CASE u = t
    BY <1>4, <1>11, <2>2
  <2>3. CASE u # t
    <3>1. holds'[u] = holds[u]
      BY <1>1, <2>3 DEF IInv, TypeOK
    <3>2. ulock[l].owner = u => ulock'[l].owner = u
      BY <1>2, <2>3
    <3>3. Told(u, l) => Told(u, l)'
      <4>1. th'[u] = th[u] \/ Given(t, u)
        BY <1>10, <2>3
      <4> QED BY <1>10, <4>1 DEF Told
    <3>4. ulock'[l].owner = u /\ ulock[l].owner # u => Told(u, l)'
      BY <1>5, <1>10, <1>16 DEF Told
    <3> QED BY <1>10, <2>1, <2>3, <3>1, <3>2, <3>3, <3>4
  <2> QED BY <2>2, <2>3
<1> QED BY <1>12, <1>13, <1>14, <1>15, <1>17, <1>18 DEF IInv

-----------------------------------------------------------------------------
(* The theorems.                                                           *)

LEMMA InitStep == Init => IInv
<1> SUFFICES ASSUME Init PROVE IInv
  OBVIOUS
<1> DEFINE free == [owner |-> NoThread, stable |-> TRUE, held |-> FALSE,
                    ho_thread |-> NoThread, blocked_threads |-> <<>>]
<1>1. <<>> \in Seq(Threads) /\ Range(<<>>) = {} /\ IsInjective(<<>>)
  BY EmptySeq DEF Range, IsInjective
<1>2. free \in UlockState /\ Out \in ThreadState
  BY <1>1 DEF UlockState, ThreadState, Out, Results
<1>3. /\ active = TRUE /\ held_ulocks = {} /\ handoff_ulocks = {}
      /\ \A l \in Ulocks : ulock[l] = free
      /\ \A t \in Threads : th[t] = Out /\ holds[t] = {}
      /\ ulock = [l \in Ulocks |-> free] /\ th = [t \in Threads |-> Out]
      /\ holds = [t \in Threads |-> {}]
  BY DEF Init
<1>4. TypeOK
  BY <1>2, <1>3 DEF TypeOK
<1>5. ThreadsOK /\ DestroyWakesAll
  BY <1>3 DEF ThreadsOK, DestroyWakesAll, Out
<1>6. QueuesOK
  BY <1>1, <1>3 DEF QueuesOK, Queued, Out
<1>7. HandoffsOK
  BY <1>3, NoThreadIsNone DEF HandoffsOK, InHandoff, Out
<1>8. OwnersOK /\ LockBelongs
  BY <1>3, NoThreadIsNone DEF OwnersOK, LockBelongs, InHandoff, Told, Out
<1> QED BY <1>4, <1>5, <1>6, <1>7, <1>8 DEF IInv

LEMMA NextStep ==
  ASSUME ~Unlinked
  PROVE  IInv /\ [Next]_vars => IInv'
<1> SUFFICES ASSUME IInv, [Next]_vars PROVE IInv'
  OBVIOUS
<1>1. ASSUME NEW t \in Threads, NEW l \in Ulocks, lock_acquire(t, l) PROVE IInv'
  <2>1. active /\ th[t].op = "none" /\ ~th[t].dead
    BY <1>1 DEF lock_acquire, Calls
  <2>2. CASE ~ulock[l].held
    BY <1>1, <2>1, <2>2, TakeStep DEF lock_acquire
  <2>3. CASE ulock[l].held
    BY <1>1, <2>1, <2>3, BlockStep DEF lock_acquire
  <2> QED BY <2>2, <2>3
<1>2. ASSUME NEW t \in Threads, NEW l \in Ulocks, lock_try(t, l) PROVE IInv'
  BY <1>2, TakeStep DEF lock_try, Calls
<1>3. ASSUME NEW t \in Threads, NEW l \in Ulocks, Call(t, l) PROVE IInv'
  BY <1>1, <1>2, <1>3, ReleaseStep, StableStep, HandoffStep, AcceptStep DEF Call
<1>4. ASSUME NEW t \in Threads, Step(t) PROVE IInv'
  BY <1>4, ReturnStep, AbortedAcquireStep, AbortedHandoffStep DEF Step
<1>5. CASE UNCHANGED vars
  <2>1. /\ active' = active /\ held_ulocks' = held_ulocks /\ handoff_ulocks' = handoff_ulocks
        /\ ulock' = ulock /\ th' = th /\ holds' = holds
    BY <1>5 DEF vars, setVars
  <2>2. TypeOK' /\ ThreadsOK' /\ DestroyWakesAll'
    BY <2>1 DEF IInv, TypeOK, ThreadsOK, DestroyWakesAll
  <2>3. active' => QueuesOK'
    BY <2>1 DEF IInv, QueuesOK, Queued
  <2>4. active' => HandoffsOK'
    BY <2>1 DEF IInv, HandoffsOK, InHandoff
  <2>5. active' => OwnersOK'
    BY <2>1 DEF IInv, OwnersOK, InHandoff, Told
  <2>6. LockBelongs'
    BY <2>1 DEF IInv, LockBelongs, Told
  <2> QED BY <2>2, <2>3, <2>4, <2>5, <2>6 DEF IInv
<1> QED BY <1>3, <1>4, <1>5, AbortStep, TerminateStep, DestroyStep DEF Next

LEMMA IInvImplies == IInv => QueuesAgree
<1> SUFFICES ASSUME IInv, active, NEW l \in Ulocks
             PROVE
  LET u == ulock[l]
  IN
  /\ Range(u.blocked_threads) =
       {t \in Threads : th[t].op = "acquire" /\ th[t].lock = l /\ th[t].link}
  /\ u.held <=> u.owner # NoThread
  /\ u.held <=> l \in held_ulocks
  /\ u.blocked_threads # <<>> => u.held
  /\ u.ho_thread # NoThread <=> l \in handoff_ulocks
  /\ u.ho_thread # NoThread => /\ th[u.ho_thread].op \in {"handoff", "accept"}
                               /\ th[u.ho_thread].lock = l
  BY DEF QueuesAgree
<1> DEFINE b == ulock[l].blocked_threads
           o == ulock[l].ho_thread
<1>1. b \in Seq(Threads) /\ o \in Threads \cup {NoThread}
  BY DEF IInv, TypeOK, UlockState
<1>2. ASSUME NEW t \in Range(b) PROVE t \in Threads
  <2>1. DOMAIN b = 1..Len(b)
    BY <1>1, LenProperties
  <2>2. PICK i \in 1..Len(b) : t = b[i]
    BY <2>1 DEF Range
  <2> HIDE DEF b
  <2> QED BY <1>1, <2>2, ElementOfSeq
<1>3. \A t \in Threads : t \in Range(b) <=> Queued(t, l)
  BY DEF IInv, QueuesOK
<1>4. Range(b) = {t \in Threads : th[t].op = "acquire" /\ th[t].lock = l /\ th[t].link}
  BY <1>2, <1>3 DEF Queued
<1>5. o # NoThread => th[o].op \in {"handoff", "accept"} /\ th[o].lock = l
  BY <1>1 DEF IInv, HandoffsOK, InHandoff
<1> QED BY <1>4, <1>5 DEF IInv, QueuesOK, HandoffsOK

\* blocked_threads, held_ulocks and handoff_ulocks say at every moment what
\* the threads and ulocks say, for any number of threads, ulocks and calls.
THEOREM QueuesStayTrue ==
  ASSUME ~Unlinked
  PROVE  Spec => []QueuesAgree
<1>1. Init => IInv
  BY InitStep
<1>2. IInv /\ [Next]_vars => IInv'
  BY NextStep
<1>3. IInv => QueuesAgree
  BY IInvImplies
<1> QED BY <1>1, <1>2, <1>3, PTL DEF Spec

\* Mutual exclusion of lock_acquire, lock_try, lock_handoff and
\* lock_handoff_accept, with the exception LockBelongs states.
THEOREM LocksBelong ==
  ASSUME ~Unlinked
  PROVE  Spec => []LockBelongs
<1>1. Init => IInv
  BY InitStep
<1>2. IInv /\ [Next]_vars => IInv'
  BY NextStep
<1>3. IInv => LockBelongs
  BY DEF IInv
<1> QED BY <1>1, <1>2, <1>3, PTL DEF Spec

\* lock_set_destroy finds every thread that waits in a call on the set.
THEOREM NobodyIsLeftWaiting ==
  ASSUME ~Unlinked
  PROVE  Spec => []DestroyWakesAll
<1>1. Init => IInv
  BY InitStep
<1>2. IInv /\ [Next]_vars => IInv'
  BY NextStep
<1>3. IInv => DestroyWakesAll
  BY DEF IInv
<1> QED BY <1>1, <1>2, <1>3, PTL DEF Spec

=============================================================================
