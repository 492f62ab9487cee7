--------------------------- MODULE LockSetLemmas ---------------------------
(***************************************************************************)
(* The inductive invariant of the lock sets, and that the calls on a set,  *)
(* their aborts and its destruction preserve it.                           *)
(***************************************************************************)
EXTENDS LockSet, ListsProofs

Results == {"none", "SUCCESS", "LOCK_UNSTABLE", "INTERRUPTED", "LOCK_SET_DESTROYED"}

ThreadState == [op : {"none", "acquire", "handoff", "accept"}, lock : Ulocks \cup {"none"},
                wait : BOOLEAN, link : BOOLEAN, result : Results, dead : BOOLEAN,
                missed : BOOLEAN]

UlockState == [owner : Threads \cup {NoThread}, stable : BOOLEAN, held : BOOLEAN,
               ho_thread : Threads \cup {NoThread}, blocked_threads : Seq(Threads)]

TypeOK ==
  /\ active \in BOOLEAN
  /\ ulock \in [Ulocks -> UlockState]
  /\ held_ulocks \in SUBSET Ulocks /\ handoff_ulocks \in SUBSET Ulocks
  /\ th \in [Threads -> ThreadState]
  /\ holds \in [Threads -> SUBSET Ulocks]

\* A thread that waits in lock_acquire is linked; one whose wait has ended and
\* that is still linked was interrupted.
ThreadsOK ==
  \A t \in Threads :
    /\ th[t].op = "acquire" /\ th[t].wait => th[t].link
    /\ th[t].op = "none" => ~th[t].wait
    /\ th[t].op # "none" => th[t].lock \in Ulocks
    /\ th[t].op # "none" /\ ~th[t].wait /\ th[t].link => th[t].result = "INTERRUPTED"

Queued(t, l) == th[t].op = "acquire" /\ th[t].lock = l /\ th[t].link

\* blocked_threads, held and held_ulocks
QueuesOK ==
  \A l \in Ulocks :
    /\ IsInjective(ulock[l].blocked_threads)
    /\ \A t \in Threads : t \in Range(ulock[l].blocked_threads) <=> Queued(t, l)
    /\ ulock[l].held <=> ulock[l].owner # NoThread
    /\ ulock[l].held <=> l \in held_ulocks
    /\ ulock[l].blocked_threads # <<>> => ulock[l].held

InHandoff(t, l) ==
  th[t].op \in {"handoff", "accept"} /\ th[t].lock = l /\ (th[t].wait \/ th[t].link)

\* ho_thread and handoff_ulocks
HandoffsOK ==
  \A l \in Ulocks :
    /\ \A t \in Threads : ulock[l].ho_thread = t <=> InHandoff(t, l)
    /\ ulock[l].ho_thread # NoThread <=> l \in handoff_ulocks

\* Who offers a lock owns it and who would accept it does not, until the
\* other side comes; whoever has been told a result is what it says.
OwnersOK ==
  \A t \in Threads, l \in Ulocks :
    /\ th[t].op = "handoff" /\ th[t].lock = l /\ th[t].wait => ulock[l].owner = t
    /\ th[t].op = "accept" /\ InHandoff(t, l) => ulock[l].owner # t
    /\ Told(t, l) /\ th[t].op = "handoff" =>
         \/ th[t].result = "INTERRUPTED"
         \/ th[t].result = "SUCCESS" /\ ulock[l].owner # t
    /\ Told(t, l) /\ th[t].op # "handoff" =>
         \/ th[t].result = "INTERRUPTED"
         \/ th[t].result \in Got /\ (~th[t].dead => ulock[l].owner = t)

IInv ==
  /\ TypeOK
  /\ ThreadsOK
  /\ DestroyWakesAll
  /\ active => QueuesOK /\ HandoffsOK /\ OwnersOK
  /\ LockBelongs

-----------------------------------------------------------------------------
(* The lists and records the actions are built from.                       *)

\* dequeue_head takes the first thread off and leaves the others.
LEMMA HeadTail ==
  ASSUME NEW X, NEW s \in Seq(X), s # <<>>, IsInjective(s)
  PROVE  /\ Head(s) \in X /\ Head(s) \in Range(s)
         /\ Tail(s) \in Seq(X) /\ IsInjective(Tail(s))
         /\ Range(Tail(s)) = Range(s) \ {Head(s)}
<1>1. /\ Head(s) \in X /\ Head(s) \in Range(s)
      /\ Tail(s) \in Seq(X) /\ IsInjective(Tail(s))
      /\ Range(Tail(s)) \subseteq Range(s) /\ Head(s) \notin Range(Tail(s))
  BY TailRange
<1>2. /\ Len(s) \in Nat \ {0} /\ Len(Tail(s)) = Len(s) - 1
      /\ \A i \in 1..Len(Tail(s)) : Tail(s)[i] = s[i + 1]
      /\ Head(s) = s[1]
      /\ DOMAIN s = 1..Len(s) /\ DOMAIN Tail(s) = 1..Len(Tail(s))
  BY HeadTailProperties, EmptySeq, LenProperties
<1>3. ASSUME NEW x \in Range(s), x # Head(s) PROVE x \in Range(Tail(s))
  <2>1. PICK i \in 1..Len(s) : x = s[i]
    BY <1>2 DEF Range
  <2>2. i - 1 \in 1..Len(Tail(s)) /\ Tail(s)[i - 1] = x
    BY <1>2, <1>3, <2>1
  <2> QED BY <1>2, <2>2 DEF Range
<1> QED BY <1>1, <1>3

\* queue_remove takes one thread off, wherever it is.
LEMMA WithoutLemma ==
  ASSUME NEW X, NEW s \in Seq(X), NEW x
  PROVE  /\ Without(s, x) \in Seq(X)
         /\ Range(Without(s, x)) = Range(s) \ {x}
         /\ IsInjective(s) => IsInjective(Without(s, x))
         /\ Without(s, x) # <<>> => s # <<>>
<1> DEFINE I == {i \in DOMAIN s : s[i] # x}
<1>1. I \in SUBSET DOMAIN s /\ Without(s, x) = At(s, I)
  BY DEF Without
<1>2. At(s, I) \in Seq(X) /\ Range(At(s, I)) = {s[i] : i \in I}
      /\ (IsInjective(s) => IsInjective(At(s, I))) /\ Len(At(s, I)) = Cardinality(I)
  BY <1>1, AtLemma, AtRange
<1>3. {s[i] : i \in I} = Range(s) \ {x}
  BY DEF Range
<1>4. s = <<>> => At(s, I) = <<>>
  <2> HAVE s = <<>>
  <2>1. I = {}
    BY EmptySeq
  <2>2. Len(At(s, I)) = 0
    BY <1>2, <2>1, FS_EmptySet
  <2> QED BY <1>2, <2>2, EmptySeq
<1> HIDE DEF I
<1> QED BY <1>1, <1>2, <1>3, <1>4

\* THREAD_NULL is no thread.
LEMMA NoThreadIsNone == NoThread \notin Threads
BY LockSetAssumption DEF NoThread

\* A held ulock after lock_release_internal: it has passed to one of the
\* threads that were blocked, or is free.
LEMMA ReleasedLemma ==
  ASSUME NEW u \in UlockState, u.held, IsInjective(u.blocked_threads)
  PROVE  LET r == Released(u)
         IN /\ r \in UlockState
            /\ r.stable = u.stable /\ r.ho_thread = u.ho_thread
            /\ IsInjective(r.blocked_threads)
            /\ r.held <=> r.owner # NoThread
            /\ r.blocked_threads # <<>> => r.held
            /\ Range(r.blocked_threads) = Range(u.blocked_threads) \ {r.owner}
            /\ r.held => r.owner \in Range(u.blocked_threads)
<1> DEFINE b == u.blocked_threads
<1>1. b \in Seq(Threads)
  BY DEF UlockState
<1>2. CASE b # <<>>
  <2>1. /\ Head(b) \in Threads /\ Head(b) \in Range(b)
        /\ Tail(b) \in Seq(Threads) /\ IsInjective(Tail(b))
        /\ Range(Tail(b)) = Range(b) \ {Head(b)}
    BY <1>1, <1>2, HeadTail
  <2>2. Released(u) = [u EXCEPT !.owner = Head(b), !.blocked_threads = Tail(b)]
    BY <1>2 DEF Released
  <2>3. Head(b) # NoThread
    BY <2>1, NoThreadIsNone
  <2> QED BY <2>1, <2>2, <2>3 DEF UlockState
<1>3. CASE b = <<>>
  <2>1. Released(u) = [u EXCEPT !.owner = NoThread, !.held = FALSE]
    BY <1>3 DEF Released
  <2>2. NoThread \notin Range(b)
    BY <1>3, EmptySeq DEF Range
  <2> QED BY <1>3, <2>1, <2>2, ZenonT(30) DEF UlockState
<1> QED BY <1>2, <1>3

\* LOCK_OPERATION_COMPLETE and clear_wait on a thread.
LEMMA CompleteLemma ==
  ASSUME NEW i \in ThreadState, NEW r \in Results
  PROVE  LET c == Complete(i, r)
         IN /\ c \in ThreadState
            /\ c.op = i.op /\ c.lock = i.lock /\ c.dead = i.dead /\ c.missed = i.missed
            /\ ~c.wait /\ ~c.link
            /\ c.result = IF i.wait THEN r ELSE i.result
BY DEF Complete, clear_wait, ThreadState

\* clear_wait alone leaves wait_link as it is.
LEMMA ClearLemma ==
  ASSUME NEW i \in ThreadState, NEW r \in Results
  PROVE  LET c == clear_wait(i, r)
         IN /\ c \in ThreadState
            /\ c.op = i.op /\ c.lock = i.lock /\ c.dead = i.dead /\ c.missed = i.missed
            /\ ~c.wait /\ c.link = i.link
            /\ c.result = IF i.wait THEN r ELSE i.result
BY DEF clear_wait, ThreadState

\* A thread that goes to wait in a call.
LEMMA WaitsInLemma ==
  ASSUME TypeOK, NEW t \in Threads, NEW l \in Ulocks, NEW link \in BOOLEAN,
         NEW op \in {"acquire", "handoff", "accept"}, WaitsIn(t, op, l, link)
  PROVE  /\ \A u \in Threads : u # t => th'[u] = th[u]
         /\ th'[t].op = op /\ th'[t].lock = l /\ th'[t].wait
         /\ th'[t].link <=> th[t].link \/ link
         /\ th'[t].dead = th[t].dead /\ th'[t].missed = th[t].missed
         /\ th' \in [Threads -> ThreadState]
<1> DEFINE i == th[t]
           w == [i EXCEPT !.wait = TRUE, !.op = op, !.lock = l, !.link = i.link \/ link]
<1>1. i \in ThreadState
  BY DEF TypeOK
<1>0. th' = [th EXCEPT ![t] = w]
  BY Zenon DEF WaitsIn
<1>2. (i.link \/ link) \in BOOLEAN
  OBVIOUS
<1>3. ASSUME NEW k \in BOOLEAN
      PROVE  [i EXCEPT !.wait = TRUE, !.op = op, !.lock = l, !.link = k] \in ThreadState
  BY <1>1 DEF ThreadState
<1>4. /\ w.op = op /\ w.lock = l /\ w.wait = TRUE
      /\ w.link = (i.link \/ link) /\ w.dead = i.dead /\ w.missed = i.missed
  BY <1>1 DEF ThreadState
<1>5. w \in ThreadState
  BY <1>2, <1>3
<1> HIDE DEF w
<1> QED BY <1>0, <1>4, <1>5 DEF TypeOK

\* A thread that is back from its call.
LEMMA IdleLemma ==
  ASSUME NEW i \in ThreadState
  PROVE  /\ Idle(i) \in ThreadState
         /\ Idle(i).op = "none" /\ ~Idle(i).wait
         /\ Idle(i).dead = i.dead /\ Idle(i).missed = i.missed
BY DEF Idle, Out, ThreadState, Results

-----------------------------------------------------------------------------
(* The actions, one by one.                                                *)

\* A lock that is free goes to the caller, who is told at once.
LEMMA TakeStep ==
  ASSUME IInv, NEW t \in Threads, NEW l \in Ulocks,
         active, th[t].op = "none", ~th[t].dead, ~ulock[l].held, Take(t, l), UNCHANGED th
  PROVE  IInv'
<1>1. /\ ulock' = [ulock EXCEPT ![l] = [ulock[l] EXCEPT !.owner = t, !.held = TRUE]]
      /\ held_ulocks' = held_ulocks \cup {l}
      /\ active' = active /\ handoff_ulocks' = handoff_ulocks /\ th' = th
  BY DEF Take
<1>2. /\ \A k \in Ulocks : k # l => ulock'[k] = ulock[k]
      /\ ulock'[l] \in UlockState
      /\ ulock'[l].owner = t /\ ulock'[l].held
      /\ ulock'[l].ho_thread = ulock[l].ho_thread
      /\ ulock'[l].blocked_threads = ulock[l].blocked_threads
  BY <1>1 DEF IInv, TypeOK, UlockState
<1>3. ulock' \in [Ulocks -> UlockState]
  BY <1>1, <1>2 DEF IInv, TypeOK
<1>4. holds' = [holds EXCEPT ![t] = @ \cup {l}]
  BY DEF Take, Learns, Status, Got
<1>5. NoThread \notin Threads /\ ulock[l].owner = NoThread
  BY NoThreadIsNone DEF IInv, QueuesOK
<1>6. TypeOK'
  BY <1>1, <1>3, <1>4 DEF IInv, TypeOK
<1>7. ThreadsOK' /\ DestroyWakesAll'
  BY <1>1 DEF IInv, ThreadsOK, DestroyWakesAll
<1>8. QueuesOK'
  BY <1>1, <1>2, <1>5 DEF IInv, QueuesOK, Queued
<1>9. HandoffsOK'
  BY <1>1, <1>2 DEF IInv, HandoffsOK, InHandoff
<1>10. OwnersOK'
  BY <1>1, <1>2, <1>5 DEF IInv, OwnersOK, ThreadsOK, InHandoff, Told
<1>11. LockBelongs'
  BY <1>1, <1>2, <1>4, <1>5 DEF IInv, TypeOK, LockBelongs, Told, ThreadsOK, OwnersOK
<1> QED BY <1>6, <1>7, <1>8, <1>9, <1>10, <1>11 DEF IInv

\* The caller of lock_acquire goes to the end of the queue.
LEMMA BlockStep ==
  ASSUME IInv, NEW t \in Threads, NEW l \in Ulocks,
         active, th[t].op = "none", ulock[l].held,
         ulock' = [ulock EXCEPT ![l].blocked_threads = Append(@, t)],
         WaitsIn(t, "acquire", l, TRUE), UNCHANGED <<setVars, holds>>
  PROVE  IInv'
<1> DEFINE b == ulock[l].blocked_threads
<1>1. /\ active' = active /\ held_ulocks' = held_ulocks /\ handoff_ulocks' = handoff_ulocks
      /\ holds' = holds
  BY DEF setVars
<1>2. b \in Seq(Threads) /\ IsInjective(b) /\ t \notin Range(b)
  BY DEF IInv, TypeOK, UlockState, QueuesOK, Queued
<1>3. /\ Append(b, t) \in Seq(Threads) /\ IsInjective(Append(b, t))
      /\ Range(Append(b, t)) = Range(b) \cup {t}
  BY <1>2, AppendRange
<1>4. /\ \A k \in Ulocks : k # l => ulock'[k] = ulock[k]
      /\ ulock'[l].owner = ulock[l].owner /\ ulock'[l].held = ulock[l].held
      /\ ulock'[l].ho_thread = ulock[l].ho_thread
      /\ ulock'[l].blocked_threads = Append(b, t)
      /\ ulock' \in [Ulocks -> UlockState]
  BY <1>3 DEF IInv, TypeOK, UlockState
<1>5. /\ \A u \in Threads : u # t => th'[u] = th[u]
      /\ th'[t].op = "acquire" /\ th'[t].lock = l /\ th'[t].wait /\ th'[t].link
      /\ th'[t].dead = th[t].dead /\ th'[t].missed = th[t].missed
      /\ th' \in [Threads -> ThreadState]
  BY WaitsInLemma DEF IInv
<1> HIDE DEF b
<1>6. TypeOK'
  BY <1>1, <1>4, <1>5 DEF IInv, TypeOK
<1>7. ThreadsOK' /\ DestroyWakesAll'
  BY <1>1, <1>5 DEF IInv, ThreadsOK, DestroyWakesAll
<1>8. QueuesOK'
  BY <1>1, <1>3, <1>4, <1>5 DEF IInv, QueuesOK, Queued, b
<1>9. HandoffsOK'
  BY <1>1, <1>4, <1>5 DEF IInv, HandoffsOK, InHandoff
<1>10. OwnersOK'
  BY <1>1, <1>4, <1>5 DEF IInv, OwnersOK, InHandoff, Told
<1>11. LockBelongs'
  BY <1>1, <1>4, <1>5 DEF IInv, LockBelongs, Told
<1> QED BY <1>6, <1>7, <1>8, <1>9, <1>10, <1>11 DEF IInv

\* lock_release: the first of the queue owns the lock and is told, unless it
\* was interrupted before.
LEMMA ReleaseStep ==
  ASSUME IInv, NEW t \in Threads, NEW l \in Ulocks, lock_release(t, l)
  PROVE  IInv'
<1> DEFINE r == Released(ulock[l])
           n == r.owner
<1>1. /\ active /\ active' = active /\ th[t].op = "none" /\ ~th[t].dead
      /\ handoff_ulocks' = handoff_ulocks /\ ulock[l].owner = t
      /\ held_ulocks' = IF r.held THEN held_ulocks ELSE held_ulocks \ {l}
      /\ ulock' = [ulock EXCEPT ![l] = r]
      /\ holds' = [holds EXCEPT ![t] = @ \ {l}]
      /\ IF r.held THEN th' = [th EXCEPT ![n] = Complete(@, Status(ulock[l]))] ELSE th' = th
  BY DEF lock_release, Calls, Wakes, Learns, Got, IInv, TypeOK
<1>2. ulock[l] \in UlockState /\ ulock[l].held /\ IsInjective(ulock[l].blocked_threads)
  BY <1>1, NoThreadIsNone DEF IInv, TypeOK, QueuesOK
<1>3. /\ r \in UlockState /\ r.ho_thread = ulock[l].ho_thread
      /\ IsInjective(r.blocked_threads)
      /\ r.held <=> n # NoThread
      /\ r.blocked_threads # <<>> => r.held
      /\ Range(r.blocked_threads) = Range(ulock[l].blocked_threads) \ {n}
      /\ r.held => n \in Range(ulock[l].blocked_threads)
  BY <1>2, ReleasedLemma
<1>4. Range(ulock[l].blocked_threads) \subseteq Threads
  BY <1>2 DEF UlockState, Range
<1>5. r.held => n \in Threads /\ Queued(n, l)
  BY <1>1, <1>3, <1>4 DEF IInv, QueuesOK
<1>6. /\ \A k \in Ulocks : k # l => ulock'[k] = ulock[k]
      /\ ulock'[l] = r
      /\ ulock' \in [Ulocks -> UlockState]
  BY <1>1, <1>3 DEF IInv, TypeOK
<1>7. /\ \A u \in Threads : u # n => th'[u] = th[u]
      /\ r.held => /\ th'[n].op = "acquire" /\ th'[n].lock = l /\ ~th'[n].wait /\ ~th'[n].link
                   /\ th'[n].dead = th[n].dead /\ th'[n].missed = th[n].missed
                   /\ th'[n].result \in Got \cup {"INTERRUPTED"}
      /\ th' \in [Threads -> ThreadState]
  <2>1. CASE ~r.held
    BY <1>1, <2>1 DEF IInv, TypeOK
  <2>2. CASE r.held
    <3>1. th[n] \in ThreadState /\ Status(ulock[l]) \in Got /\ Got \subseteq Results
      BY <1>5, <2>2 DEF IInv, TypeOK, Status, Got, Results
    <3>2. Complete(th[n], Status(ulock[l])) \in ThreadState
      BY <3>1, CompleteLemma
    <3>3. LET c == Complete(th[n], Status(ulock[l]))
          IN /\ c.op = th[n].op /\ c.lock = th[n].lock /\ c.dead = th[n].dead
             /\ c.missed = th[n].missed /\ ~c.wait /\ ~c.link
             /\ c.result \in Got \cup {"INTERRUPTED"}
      BY <3>1, <1>5, <2>2, CompleteLemma, SMTT(30) DEF Queued, IInv, ThreadsOK
    <3>4. th' = [th EXCEPT ![n] = Complete(th[n], Status(ulock[l]))]
      BY <1>1, <2>2
    <3> QED BY <1>5, <2>2, <3>2, <3>3, <3>4 DEF Queued, IInv, TypeOK
  <2> QED BY <2>1, <2>2
<1> HIDE DEF r, n
<1>8. TypeOK'
  BY <1>1, <1>6, <1>7 DEF IInv, TypeOK
<1>9. ThreadsOK' /\ DestroyWakesAll'
  BY <1>1, <1>3, <1>7, NoThreadIsNone DEF IInv, ThreadsOK, DestroyWakesAll
<1>10. QueuesOK'
  BY <1>1, <1>2, <1>3, <1>5, <1>6, <1>7, NoThreadIsNone DEF IInv, QueuesOK, Queued, TypeOK, n
<1>11. HandoffsOK'
  BY <1>1, <1>3, <1>5, <1>6, <1>7, NoThreadIsNone DEF IInv, HandoffsOK, InHandoff, Queued
<1>12. OwnersOK'
  BY <1>1, <1>3, <1>5, <1>6, <1>7, NoThreadIsNone, SMTT(30)
  DEF IInv, OwnersOK, InHandoff, Told, Queued, n
<1>13. LockBelongs'
  BY <1>1, <1>3, <1>5, <1>6, <1>7, NoThreadIsNone, SMTT(30)
  DEF IInv, TypeOK, LockBelongs, Told, Queued, OwnersOK, n
<1> QED BY <1>8, <1>9, <1>10, <1>11, <1>12, <1>13 DEF IInv

\* lock_make_stable changes nothing the invariant speaks of.
LEMMA StableStep ==
  ASSUME IInv, NEW t \in Threads, NEW l \in Ulocks, lock_make_stable(t, l)
  PROVE  IInv'
<1>1. /\ active' = active /\ held_ulocks' = held_ulocks /\ handoff_ulocks' = handoff_ulocks
      /\ holds' = holds /\ th' = th
      /\ ulock' = [ulock EXCEPT ![l] = [ulock[l] EXCEPT !.stable = TRUE]]
  BY DEF lock_make_stable, setVars
<1>2. /\ \A k \in Ulocks : /\ ulock'[k].owner = ulock[k].owner
                           /\ ulock'[k].held = ulock[k].held
                           /\ ulock'[k].ho_thread = ulock[k].ho_thread
                           /\ ulock'[k].blocked_threads = ulock[k].blocked_threads
      /\ ulock' \in [Ulocks -> UlockState]
  BY <1>1 DEF IInv, TypeOK, UlockState
<1>3. TypeOK' /\ ThreadsOK' /\ DestroyWakesAll'
  BY <1>1, <1>2 DEF IInv, TypeOK, ThreadsOK, DestroyWakesAll
<1>4. active' => QueuesOK' /\ HandoffsOK'
  BY <1>1, <1>2 DEF IInv, QueuesOK, Queued, HandoffsOK, InHandoff
<1>5. active' => OwnersOK'
  BY <1>1, <1>2 DEF IInv, OwnersOK, InHandoff, Told
<1>6. LockBelongs'
  BY <1>1, <1>2 DEF IInv, LockBelongs, Told
<1> QED BY <1>3, <1>4, <1>5, <1>6 DEF IInv

\* A thread that offers its lock, or asks for one, waits for the other side.
LEMMA OfferStep ==
  ASSUME IInv, NEW t \in Threads, NEW l \in Ulocks, NEW op \in {"handoff", "accept"},
         active, th[t].op = "none", ulock[l].ho_thread = NoThread, Offered(t, l, op),
         (op = "handoff") <=> (ulock[l].owner = t)
  PROVE  IInv'
<1>1. /\ active' = active /\ held_ulocks' = held_ulocks /\ holds' = holds
      /\ handoff_ulocks' = handoff_ulocks \cup {l}
      /\ ulock' = [ulock EXCEPT ![l] = [ulock[l] EXCEPT !.ho_thread = t]]
      /\ WaitsIn(t, op, l, FALSE)
  BY DEF Offered
<1>2. /\ \A k \in Ulocks : /\ ulock'[k].owner = ulock[k].owner
                           /\ ulock'[k].held = ulock[k].held
                           /\ k # l => ulock'[k].ho_thread = ulock[k].ho_thread
                           /\ ulock'[k].blocked_threads = ulock[k].blocked_threads
      /\ ulock'[l].ho_thread = t
      /\ ulock' \in [Ulocks -> UlockState]
  BY <1>1, SMTT(30) DEF IInv, TypeOK, UlockState
<1>3. /\ \A u \in Threads : u # t => th'[u] = th[u]
      /\ th'[t].op = op /\ th'[t].lock = l /\ th'[t].wait
      /\ th'[t].dead = th[t].dead /\ th'[t].missed = th[t].missed
      /\ th' \in [Threads -> ThreadState]
  BY <1>1, WaitsInLemma DEF IInv
<1>4. TypeOK'
  BY <1>1, <1>2, <1>3 DEF IInv, TypeOK
<1>5. ThreadsOK' /\ DestroyWakesAll'
  BY <1>1, <1>3 DEF IInv, ThreadsOK, DestroyWakesAll
<1>6. QueuesOK'
  BY <1>1, <1>2, <1>3 DEF IInv, QueuesOK, Queued
<1>7. HandoffsOK'
  BY <1>1, <1>2, <1>3, NoThreadIsNone DEF IInv, HandoffsOK, InHandoff
<1>8. OwnersOK'
  BY <1>1, <1>2, <1>3 DEF IInv, OwnersOK, InHandoff, Told
<1>9. LockBelongs'
  BY <1>1, <1>2, <1>3 DEF IInv, LockBelongs, Told
<1> QED BY <1>4, <1>5, <1>6, <1>7, <1>8, <1>9 DEF IInv

\* The other side is waking: thread a leaves its hand-off of l.
LEMMA WakesLemma ==
  ASSUME IInv, active, NEW a \in Threads, NEW l \in Ulocks, NEW r \in Got,
         InHandoff(a, l), Wakes(a, r)
  PROVE  /\ \A u \in Threads : u # a => th'[u] = th[u]
         /\ th'[a].op = th[a].op /\ th'[a].lock = l /\ ~th'[a].wait /\ ~th'[a].link
         /\ th'[a].dead = th[a].dead /\ th'[a].missed = th[a].missed
         /\ th'[a].result = IF th[a].wait THEN r ELSE "INTERRUPTED"
         /\ th' \in [Threads -> ThreadState]
<1>1. th[a] \in ThreadState /\ r \in Results
  BY DEF IInv, TypeOK, Got, Results
<1>2. th' = [th EXCEPT ![a] = Complete(th[a], r)]
  BY DEF Wakes
<1>3. Complete(th[a], r) \in ThreadState
  BY <1>1, CompleteLemma
<1>4. LET c == Complete(th[a], r)
      IN /\ c.op = th[a].op /\ c.lock = th[a].lock /\ c.dead = th[a].dead
         /\ c.missed = th[a].missed /\ ~c.wait /\ ~c.link
         /\ c.result = IF th[a].wait THEN r ELSE th[a].result
  BY <1>1, CompleteLemma
<1>5. th[a].lock = l /\ (~th[a].wait => th[a].result = "INTERRUPTED")
  BY DEF InHandoff, IInv, ThreadsOK
<1> QED BY <1>2, <1>3, <1>4, <1>5 DEF IInv, TypeOK

\* lock_handoff to a thread that waits to accept (or whose own hand-off was
\* broken off and is still noted).
LEMMA HandoffStep ==
  ASSUME IInv, NEW t \in Threads, NEW l \in Ulocks, lock_handoff(t, l)
  PROVE  IInv'
<1> DEFINE a == ulock[l].ho_thread
<1>1. active /\ th[t].op = "none" /\ ~th[t].dead /\ ulock[l].owner = t
  BY DEF lock_handoff, Calls
<1>2. CASE a = NoThread /\ Offered(t, l, "handoff")
  BY <1>1, <1>2, OfferStep
<1>3. CASE /\ a # NoThread /\ HandedTo(a, l) /\ Wakes(a, Status(ulock[l]))
           /\ Learns(t, l, "handoff", "SUCCESS")
  <2>1. a \in Threads /\ InHandoff(a, l) /\ Status(ulock[l]) \in Got
    BY <1>1, <1>3 DEF IInv, TypeOK, UlockState, HandoffsOK, Status, Got
  <2>2. /\ active' = active /\ held_ulocks' = held_ulocks
        /\ handoff_ulocks' = handoff_ulocks \ {l}
        /\ ulock' = [ulock EXCEPT ![l] = [ulock[l] EXCEPT !.owner = a, !.ho_thread = NoThread]]
        /\ holds' = [holds EXCEPT ![t] = @ \ {l}]
    BY <1>3 DEF HandedTo, Learns, Got, IInv, TypeOK
  <2>3. /\ \A k \in Ulocks : /\ k # l => ulock'[k] = ulock[k]
                             /\ ulock'[k].held = ulock[k].held
                             /\ ulock'[k].blocked_threads = ulock[k].blocked_threads
        /\ ulock'[l].owner = a /\ ulock'[l].ho_thread = NoThread
        /\ ulock' \in [Ulocks -> UlockState]
    BY <2>1, <2>2, ZenonT(30) DEF IInv, TypeOK, UlockState
  <2>4. /\ \A u \in Threads : u # a => th'[u] = th[u]
        /\ th'[a].op = th[a].op /\ th'[a].lock = l /\ ~th'[a].wait /\ ~th'[a].link
        /\ th'[a].dead = th[a].dead /\ th'[a].missed = th[a].missed
        /\ th'[a].result = IF th[a].wait THEN Status(ulock[l]) ELSE "INTERRUPTED"
        /\ th' \in [Threads -> ThreadState]
    BY <1>1, <1>3, <2>1, WakesLemma
  <2>5. a # t /\ (th[a].op = "handoff" => ~th[a].wait)
    BY <1>1, <2>1 DEF IInv, OwnersOK, InHandoff
  <2> HIDE DEF a
  <2>6. TypeOK'
    BY <2>2, <2>3, <2>4 DEF IInv, TypeOK
  <2>7. ThreadsOK' /\ DestroyWakesAll'
    BY <1>1, <2>2, <2>4 DEF IInv, ThreadsOK, DestroyWakesAll
  <2>8. QueuesOK'
    BY <1>1, <2>1, <2>2, <2>3, <2>4, NoThreadIsNone DEF IInv, QueuesOK, Queued, InHandoff
  <2>9. HandoffsOK'
    BY <1>1, <2>1, <2>2, <2>3, <2>4, NoThreadIsNone DEF IInv, HandoffsOK, InHandoff, a
  <2>10. OwnersOK'
    BY <1>1, <2>1, <2>2, <2>3, <2>4, <2>5 DEF IInv, OwnersOK, InHandoff, Told
  <2>11. LockBelongs'
    BY <1>1, <2>1, <2>2, <2>3, <2>4, <2>5 DEF IInv, TypeOK, LockBelongs, Told, InHandoff
  <2> QED BY <2>6, <2>7, <2>8, <2>9, <2>10, <2>11 DEF IInv
<1> QED BY <1>2, <1>3 DEF lock_handoff

\* lock_handoff_accept of a lock that its owner offers.
LEMMA AcceptStep ==
  ASSUME IInv, NEW t \in Threads, NEW l \in Ulocks, lock_handoff_accept(t, l)
  PROVE  IInv'
<1> DEFINE h == ulock[l].ho_thread
<1>1. active /\ th[t].op = "none" /\ ~th[t].dead /\ ulock[l].owner # t
  BY DEF lock_handoff_accept, Calls
<1>2. CASE h = NoThread /\ Offered(t, l, "accept")
  BY <1>1, <1>2, OfferStep
<1>3. CASE /\ h # NoThread /\ ulock[l].owner = h /\ HandedTo(t, l) /\ Wakes(h, "SUCCESS")
           /\ Learns(t, l, "accept", Status(ulock[l]))
  <2>1. h \in Threads /\ InHandoff(h, l) /\ "SUCCESS" \in Got /\ Status(ulock[l]) \in Got
    BY <1>1, <1>3 DEF IInv, TypeOK, UlockState, HandoffsOK, Got, Status
  <2>2. /\ active' = active /\ held_ulocks' = held_ulocks
        /\ handoff_ulocks' = handoff_ulocks \ {l}
        /\ ulock' = [ulock EXCEPT ![l] = [ulock[l] EXCEPT !.owner = t, !.ho_thread = NoThread]]
        /\ holds' = [holds EXCEPT ![t] = @ \cup {l}]
    BY <1>3, <2>1 DEF HandedTo, Learns, IInv, TypeOK
  <2>3. /\ \A k \in Ulocks : /\ k # l => ulock'[k] = ulock[k]
                             /\ ulock'[k].held = ulock[k].held
                             /\ ulock'[k].blocked_threads = ulock[k].blocked_threads
        /\ ulock'[l].owner = t /\ ulock'[l].ho_thread = NoThread
        /\ ulock' \in [Ulocks -> UlockState]
    BY <2>1, <2>2, ZenonT(30) DEF IInv, TypeOK, UlockState
  <2>4. /\ \A u \in Threads : u # h => th'[u] = th[u]
        /\ th'[h].op = th[h].op /\ th'[h].lock = l /\ ~th'[h].wait /\ ~th'[h].link
        /\ th'[h].dead = th[h].dead /\ th'[h].missed = th[h].missed
        /\ th'[h].result = IF th[h].wait THEN "SUCCESS" ELSE "INTERRUPTED"
        /\ th' \in [Threads -> ThreadState]
    BY <1>1, <1>3, <2>1, WakesLemma
  <2>5. h # t /\ th[h].op = "handoff" /\ ulock[l].owner = h
    BY <1>1, <1>3, <2>1 DEF IInv, OwnersOK, InHandoff
  <2> HIDE DEF h
  <2>6. TypeOK'
    <3>1. holds' \in [Threads -> SUBSET Ulocks]
      BY <2>2 DEF IInv, TypeOK
    <3> QED BY <3>1, <2>2, <2>3, <2>4 DEF IInv, TypeOK
  <2>7. ThreadsOK' /\ DestroyWakesAll'
    BY <1>1, <2>2, <2>4 DEF IInv, ThreadsOK, DestroyWakesAll
  <2>8. QueuesOK'
    BY <1>1, <2>1, <2>2, <2>3, <2>4, <2>5, NoThreadIsNone
    DEF IInv, QueuesOK, Queued, InHandoff
  <2>9. HandoffsOK'
    BY <1>1, <2>1, <2>2, <2>3, <2>4, NoThreadIsNone DEF IInv, HandoffsOK, InHandoff, h
  <2>10. OwnersOK'
    BY <1>1, <2>1, <2>2, <2>3, <2>4, <2>5 DEF IInv, OwnersOK, InHandoff, Told
  <2>11. LockBelongs'
    BY <1>1, <2>1, <2>2, <2>3, <2>4, <2>5
    DEF IInv, TypeOK, LockBelongs, Told, InHandoff, OwnersOK
  <2> QED BY <2>6, <2>7, <2>8, <2>9, <2>10, <2>11 DEF IInv
<1> QED BY <1>2, <1>3 DEF lock_handoff_accept

\* A call returns, and its caller believes the result.
LEMMA ReturnStep ==
  ASSUME IInv, NEW t \in Threads, Return(t)
  PROVE  IInv'
<1> DEFINE i == th[t]
           m == i.missed \/ i.result = "INTERRUPTED"
           l == i.lock
<1>1. /\ active' = active /\ held_ulocks' = held_ulocks /\ handoff_ulocks' = handoff_ulocks
      /\ ulock' = ulock
      /\ i.op # "none" /\ ~i.wait /\ ~i.link
      /\ th' = [th EXCEPT ![t] = [Idle(i) EXCEPT !.missed = m]]
  BY DEF Return, setVars
<1>2. i \in ThreadState /\ m \in BOOLEAN /\ l \in Ulocks
  BY <1>1 DEF IInv, TypeOK, ThreadsOK
<1>3. /\ \A u \in Threads : u # t => th'[u] = th[u]
      /\ th'[t].op = "none" /\ ~th'[t].wait /\ th'[t].dead = i.dead /\ th'[t].missed = m
      /\ th' \in [Threads -> ThreadState]
  <2> DEFINE j == [Idle(i) EXCEPT !.missed = m]
  <2> HIDE DEF i, m
  <2>1. Idle(i) \in ThreadState /\ Idle(i).op = "none" /\ ~Idle(i).wait /\ Idle(i).dead = i.dead
    BY <1>2, IdleLemma
  <2>2. /\ j \in ThreadState
        /\ j.op = "none" /\ ~j.wait /\ j.dead = i.dead /\ j.missed = m
    BY <1>2, <2>1 DEF ThreadState
  <2> HIDE DEF j
  <2> QED BY <1>1, <2>2 DEF IInv, TypeOK, j
<1>4. holds' = [holds EXCEPT ![t] =
        IF i.result \in Got /\ i.op \in {"acquire", "accept"} THEN holds[t] \cup {l}
        ELSE IF i.result = "SUCCESS" /\ i.op = "handoff" THEN holds[t] \ {l}
        ELSE holds[t]]
  <2>1. Learns(t, l, i.op, i.result)
    BY DEF Return
  <2>2. i.op \in {"acquire", "accept", "handoff"}
    BY <1>1, <1>2 DEF ThreadState
  <2> HIDE DEF i, l
  <2> QED BY <2>1, <2>2 DEF Learns, IInv, TypeOK
<1>5. Told(t, l)
  BY <1>1 DEF Told
<1>6. TypeOK'
  BY <1>1, <1>2, <1>3, <1>4 DEF IInv, TypeOK
<1>7. ThreadsOK' /\ DestroyWakesAll'
  BY <1>1, <1>3 DEF IInv, ThreadsOK, DestroyWakesAll
<1>8. active' => QueuesOK' /\ HandoffsOK'
  BY <1>1, <1>3 DEF IInv, QueuesOK, Queued, HandoffsOK, InHandoff
<1>9. active' => OwnersOK'
  BY <1>1, <1>3 DEF IInv, OwnersOK, InHandoff, Told
<1>10. LockBelongs'
  BY <1>1, <1>2, <1>3, <1>4, <1>5 DEF IInv, TypeOK, LockBelongs, OwnersOK, Told, ThreadState
<1> QED BY <1>6, <1>7, <1>8, <1>9, <1>10 DEF IInv

\* An interrupted lock_acquire takes its thread off the queue.
LEMMA AbortedAcquireStep ==
  ASSUME IInv, NEW t \in Threads, AbortedAcquire(t)
  PROVE  IInv'
<1> DEFINE l == th[t].lock
           b == ulock[l].blocked_threads
<1>1. /\ active' = active /\ held_ulocks' = held_ulocks /\ handoff_ulocks' = handoff_ulocks
      /\ holds' = holds
      /\ th[t].op = "acquire" /\ ~th[t].wait /\ th[t].link
      /\ th' = [th EXCEPT ![t] = Idle(th[t])]
      /\ ulock' = [ulock EXCEPT ![l] = [ulock[l] EXCEPT !.blocked_threads = Without(b, t)]]
  BY DEF AbortedAcquire, setVars
<1>2. l \in Ulocks /\ th[t] \in ThreadState
  BY <1>1 DEF IInv, ThreadsOK, TypeOK
<1>3. /\ Without(b, t) \in Seq(Threads) /\ Range(Without(b, t)) = Range(b) \ {t}
      /\ IsInjective(b) => IsInjective(Without(b, t))
      /\ Without(b, t) # <<>> => b # <<>>
  <2>1. b \in Seq(Threads)
    BY <1>2 DEF IInv, TypeOK, UlockState
  <2> QED BY <2>1, WithoutLemma
<1>4. /\ \A u \in Threads : u # t => th'[u] = th[u]
      /\ th'[t].op = "none" /\ ~th'[t].wait
      /\ th'[t].dead = th[t].dead /\ th'[t].missed = th[t].missed
      /\ th' \in [Threads -> ThreadState]
  <2>1. /\ Idle(th[t]) \in ThreadState
        /\ Idle(th[t]).op = "none" /\ ~Idle(th[t]).wait
        /\ Idle(th[t]).dead = th[t].dead /\ Idle(th[t]).missed = th[t].missed
    BY <1>2, IdleLemma
  <2> QED BY <1>1, <2>1 DEF IInv, TypeOK
<1>5. /\ \A k \in Ulocks : /\ k # l => ulock'[k] = ulock[k]
                           /\ ulock'[k].owner = ulock[k].owner
                           /\ ulock'[k].held = ulock[k].held
                           /\ ulock'[k].ho_thread = ulock[k].ho_thread
      /\ ulock'[l].blocked_threads = Without(b, t)
      /\ ulock' \in [Ulocks -> UlockState]
  <2> DEFINE v == [ulock[l] EXCEPT !.blocked_threads = Without(b, t)]
  <2> HIDE DEF l, b
  <2>1. ulock[l] \in UlockState
    BY <1>2 DEF IInv, TypeOK
  <2>2. /\ v \in UlockState /\ v.owner = ulock[l].owner /\ v.held = ulock[l].held
        /\ v.ho_thread = ulock[l].ho_thread /\ v.blocked_threads = Without(b, t)
    BY <1>3, <2>1 DEF UlockState
  <2>3. ulock' = [ulock EXCEPT ![l] = v]
    BY <1>1
  <2> HIDE DEF v
  <2> QED BY <1>2, <2>2, <2>3 DEF IInv, TypeOK
<1> HIDE DEF b
<1>6. TypeOK'
  BY <1>1, <1>4, <1>5 DEF IInv, TypeOK
<1>7. ThreadsOK' /\ DestroyWakesAll'
  BY <1>1, <1>4 DEF IInv, ThreadsOK, DestroyWakesAll
<1>8. active' => QueuesOK'
  <2> SUFFICES ASSUME active, NEW k \in Ulocks
               PROVE  /\ IsInjective(ulock'[k].blocked_threads)
                      /\ \A u \in Threads :
                           u \in Range(ulock'[k].blocked_threads) <=> Queued(u, k)'
                      /\ ulock'[k].held <=> ulock'[k].owner # NoThread
                      /\ ulock'[k].held <=> k \in held_ulocks'
                      /\ ulock'[k].blocked_threads # <<>> => ulock'[k].held
    BY <1>1 DEF QueuesOK
  <2>1. /\ IsInjective(ulock[k].blocked_threads)
        /\ \A u \in Threads : u \in Range(ulock[k].blocked_threads) <=> Queued(u, k)
        /\ ulock[k].held <=> ulock[k].owner # NoThread
        /\ ulock[k].held <=> k \in held_ulocks
        /\ ulock[k].blocked_threads # <<>> => ulock[k].held
    BY DEF IInv, QueuesOK
  <2>2. \A u \in Threads : Queued(u, k)' <=> Queued(u, k) /\ u # t
    BY <1>4 DEF Queued
  <2>3. CASE k # l
    <3>1. ~Queued(t, k)
      BY <2>3 DEF Queued
    <3> QED BY <1>1, <1>5, <2>1, <2>2, <2>3, <3>1
  <2>4. CASE k = l
    <3>1. ulock[k].blocked_threads = b /\ ulock'[k].blocked_threads = Without(b, t)
      BY <1>5, <2>4 DEF b
    <3>2. ulock'[k].held = ulock[k].held /\ ulock'[k].owner = ulock[k].owner
      BY <1>5
    <3> HIDE DEF l
    <3> QED BY <1>1, <1>3, <2>1, <2>2, <3>1, <3>2
  <2> QED BY <2>3, <2>4
<1>9. active' => HandoffsOK'
  BY <1>1, <1>4, <1>5 DEF IInv, HandoffsOK, InHandoff
<1>10. active' => OwnersOK'
  BY <1>1, <1>4, <1>5 DEF IInv, OwnersOK, InHandoff, Told
<1>11. LockBelongs'
  BY <1>1, <1>4, <1>5 DEF IInv, LockBelongs, Told
<1> QED BY <1>6, <1>7, <1>8, <1>9, <1>10, <1>11 DEF IInv

\* An interrupted hand-off takes back what it has noted in the ulock.
LEMMA AbortedHandoffStep ==
  ASSUME IInv, NEW t \in Threads, AbortedHandoff(t)
  PROVE  IInv'
<1> DEFINE l == th[t].lock
           v == [ulock[l] EXCEPT !.ho_thread = NoThread]
<1>1. /\ active' = active /\ held_ulocks' = held_ulocks /\ holds' = holds
      /\ th[t].op \in {"handoff", "accept"} /\ ~th[t].wait /\ th[t].link
      /\ th' = [th EXCEPT ![t] = Idle(th[t])]
      /\ IF active THEN handoff_ulocks' = handoff_ulocks \ {l} /\ ulock' = [ulock EXCEPT ![l] = v]
         ELSE handoff_ulocks' = handoff_ulocks /\ ulock' = ulock
  BY DEF AbortedHandoff
<1>2. l \in Ulocks /\ th[t] \in ThreadState
  BY <1>1 DEF IInv, ThreadsOK, TypeOK
<1>3. /\ \A u \in Threads : u # t => th'[u] = th[u]
      /\ th'[t].op = "none" /\ ~th'[t].wait
      /\ th'[t].dead = th[t].dead /\ th'[t].missed = th[t].missed
      /\ th' \in [Threads -> ThreadState]
  <2>1. /\ Idle(th[t]) \in ThreadState
        /\ Idle(th[t]).op = "none" /\ ~Idle(th[t]).wait
        /\ Idle(th[t]).dead = th[t].dead /\ Idle(th[t]).missed = th[t].missed
    BY <1>2, IdleLemma
  <2> QED BY <1>1, <2>1 DEF IInv, TypeOK
<1>4. /\ v \in UlockState /\ v.owner = ulock[l].owner /\ v.held = ulock[l].held
      /\ v.ho_thread = NoThread /\ v.blocked_threads = ulock[l].blocked_threads
  <2>1. ulock[l] \in UlockState
    BY <1>2 DEF IInv, TypeOK
  <2> HIDE DEF l
  <2> QED BY <2>1 DEF UlockState
<1> HIDE DEF v, l
<1>5. /\ \A k \in Ulocks : /\ k # l => ulock'[k] = ulock[k]
                           /\ ulock'[k].owner = ulock[k].owner
                           /\ ulock'[k].held = ulock[k].held
                           /\ ulock'[k].blocked_threads = ulock[k].blocked_threads
      /\ active => ulock'[l].ho_thread = NoThread
      /\ ulock' \in [Ulocks -> UlockState]
  BY <1>1, <1>2, <1>4 DEF IInv, TypeOK
<1>6. TypeOK'
  BY <1>1, <1>3, <1>5 DEF IInv, TypeOK
<1>7. ThreadsOK' /\ DestroyWakesAll'
  BY <1>1, <1>3 DEF IInv, ThreadsOK, DestroyWakesAll
<1>8. active' => QueuesOK'
  BY <1>1, <1>3, <1>5 DEF IInv, QueuesOK, Queued
<1>9. active' => HandoffsOK'
  BY <1>1, <1>2, <1>3, <1>5, NoThreadIsNone DEF IInv, HandoffsOK, InHandoff, l
<1>10. active' => OwnersOK'
  BY <1>1, <1>3, <1>5, SMTT(30) DEF IInv, OwnersOK, InHandoff, Told
<1>11. LockBelongs'
  BY <1>1, <1>3, <1>5 DEF IInv, LockBelongs, Told
<1> QED BY <1>6, <1>7, <1>8, <1>9, <1>10, <1>11 DEF IInv

\* thread_abort ends a wait and leaves the thread linked.
LEMMA AbortStep ==
  ASSUME IInv, ~Unlinked, NEW t \in Threads, Abort(t)
  PROVE  IInv'
<1>1. /\ active' = active /\ held_ulocks' = held_ulocks /\ handoff_ulocks' = handoff_ulocks
      /\ holds' = holds /\ ulock' = ulock
      /\ th[t].wait /\ th[t].link
      /\ th' = [th EXCEPT ![t] = clear_wait(th[t], "INTERRUPTED")]
  BY DEF Abort, MayAbort, setVars
<1>2. th[t] \in ThreadState /\ "INTERRUPTED" \in Results
  BY DEF IInv, TypeOK, Results
<1>3. LET c == clear_wait(th[t], "INTERRUPTED")
      IN /\ c \in ThreadState
         /\ c.op = th[t].op /\ c.lock = th[t].lock /\ c.dead = th[t].dead
         /\ c.missed = th[t].missed /\ ~c.wait /\ c.link = th[t].link
         /\ c.result = IF th[t].wait THEN "INTERRUPTED" ELSE th[t].result
  BY <1>2, ClearLemma
<1>4. /\ \A u \in Threads : u # t => th'[u] = th[u]
      /\ th'[t].op = th[t].op /\ th'[t].lock = th[t].lock /\ th'[t].dead = th[t].dead
      /\ th'[t].missed = th[t].missed /\ ~th'[t].wait /\ th'[t].link
      /\ th'[t].result = "INTERRUPTED"
      /\ th' \in [Threads -> ThreadState]
  BY <1>1, <1>3 DEF IInv, TypeOK
<1>5. TypeOK'
  BY <1>1, <1>4 DEF IInv, TypeOK
<1>6. ThreadsOK' /\ DestroyWakesAll'
  BY <1>1, <1>4 DEF IInv, ThreadsOK, DestroyWakesAll
<1>7. active' => QueuesOK'
  BY <1>1, <1>4 DEF IInv, QueuesOK, Queued
<1>8. active' => HandoffsOK'
  BY <1>1, <1>4 DEF IInv, HandoffsOK, InHandoff
<1>9. active' => OwnersOK'
  BY <1>1, <1>4, SMTT(30) DEF IInv, OwnersOK, InHandoff, Told
<1>10. LockBelongs'
  BY <1>1, <1>4 DEF IInv, LockBelongs, Told
<1> QED BY <1>5, <1>6, <1>7, <1>8, <1>9, <1>10 DEF IInv

\* lock_set_destroy: whoever waits is on a queue that is emptied, of a held
\* ulock or of a hand-off.
LEMMA DestroyStep ==
  ASSUME IInv, lock_set_destroy
  PROVE  IInv'
<1> DEFINE Woken(t) == \/ \E l \in held_ulocks : t \in Range(ulock[l].blocked_threads)
                       \/ \E l \in handoff_ulocks : t = ulock[l].ho_thread
<1>1. /\ active /\ ~active' /\ held_ulocks' = {} /\ handoff_ulocks' = {}
      /\ active' \in BOOLEAN
      /\ holds' = [t \in Threads |-> {}]
      /\ th' = [t \in Threads |-> IF Woken(t) THEN Complete(th[t], "LOCK_SET_DESTROYED")
                                  ELSE th[t]]
      /\ ulock' = [l \in Ulocks |->
                     IF l \in held_ulocks
                     THEN [ulock[l] EXCEPT !.owner = NoThread, !.blocked_threads = <<>>]
                     ELSE ulock[l]]
  BY DEF lock_set_destroy
<1>2. ASSUME NEW t \in Threads, th[t].wait PROVE Woken(t)
  <2>1. th[t].op \in {"acquire", "handoff", "accept"} /\ th[t].lock \in Ulocks
    BY <1>2 DEF IInv, ThreadsOK, TypeOK, ThreadState
  <2>2. CASE th[t].op = "acquire"
    <3>1. t \in Range(ulock[th[t].lock].blocked_threads)
      BY <1>1, <1>2, <2>1, <2>2 DEF IInv, ThreadsOK, QueuesOK, Queued
    <3>2. ulock[th[t].lock].blocked_threads # <<>>
      BY <3>1, EmptySeq DEF Range
    <3> QED BY <1>1, <2>1, <3>1, <3>2 DEF IInv, QueuesOK
  <2>3. CASE th[t].op # "acquire"
    <3>1. ulock[th[t].lock].ho_thread = t
      BY <1>1, <1>2, <2>1, <2>3, ZenonT(30) DEF IInv, HandoffsOK, InHandoff
    <3> QED BY <1>1, <2>1, <3>1, NoThreadIsNone DEF IInv, HandoffsOK
  <2> QED BY <2>2, <2>3
<1>3. ASSUME NEW t \in Threads
      PROVE  /\ th'[t] \in ThreadState /\ ~th'[t].wait
             /\ th'[t].op = th[t].op /\ th'[t].lock = th[t].lock
             /\ th'[t] = th[t] \/ ~th'[t].link
  <2>1. th[t] \in ThreadState /\ "LOCK_SET_DESTROYED" \in Results
    BY DEF IInv, TypeOK, Results
  <2>2. CASE Woken(t)
    <3>1. th'[t] = Complete(th[t], "LOCK_SET_DESTROYED")
      BY <1>1, <2>2
    <3> QED BY <2>1, <3>1, CompleteLemma
  <2>3. CASE ~Woken(t)
    <3>1. th'[t] = th[t]
      BY <1>1, <2>3
    <3> QED BY <1>2, <2>1, <2>3, <3>1
  <2> QED BY <2>2, <2>3
<1>4. ulock' \in [Ulocks -> UlockState]
  <2>1. ASSUME NEW l \in Ulocks
        PROVE  [ulock[l] EXCEPT !.owner = NoThread, !.blocked_threads = <<>>] \in UlockState
    <3>1. <<>> \in Seq(Threads) /\ ulock[l] \in UlockState
      BY EmptySeq DEF IInv, TypeOK
    <3> QED BY <3>1 DEF UlockState
  <2> QED BY <1>1, <2>1 DEF IInv, TypeOK
<1>5. th' \in [Threads -> ThreadState]
  BY <1>1, <1>3
<1> HIDE DEF Woken
<1>6. TypeOK'
  BY <1>1, <1>4, <1>5 DEF TypeOK
<1>7. ThreadsOK' /\ DestroyWakesAll'
  BY <1>1, <1>3 DEF IInv, ThreadsOK, DestroyWakesAll
<1> QED BY <1>1, <1>6, <1>7 DEF IInv, LockBelongs

=============================================================================
