---------------------------- MODULE RwLockProofs ----------------------------
(***************************************************************************)
(* The read/write lock for any finite set of threads: it implements        *)
(* RwSpec, and no wakeup is lost.                                          *)
(***************************************************************************)
EXTENDS RwLock, FiniteSetTheorems, TLAPS

Readers == {t \in Threads : pc[t] \in {"R", "wakeR"}}

\* Who stands behind want_write and want_upgrade.
Writing == {"drain", "W"}
Upgrading == {"upgrade", "U"}
Exclusive == {"W", "U"}

\* Each field of the lock counts the threads that stand behind it.
Counts ==
  /\ read_count = Cardinality(Readers)
  /\ want_write <=> \E t \in Threads : pc[t] \in Writing
  /\ want_upgrade <=> \E t \in Threads : pc[t] \in Upgrading

\* At most one thread has want_write, one want_upgrade; a thread that
\* writes is alone, and writes through want_write only if no upgrade is on.
Exclusion ==
  /\ \A t, u \in Threads : pc[t] \in Writing /\ pc[u] \in Writing => t = u
  /\ \A t, u \in Threads : pc[t] \in Upgrading /\ pc[u] \in Upgrading => t = u
  /\ \A t, u \in Threads : pc[t] \in Exclusive => pc[u] \notin {"R", "wakeR"}
  /\ \A t, u \in Threads : pc[t] = "W" => pc[u] \notin Upgrading

Pending == \E u \in Threads : pc[u] \in {"wake", "wakeR"}

\* Sleepers are in one of the loops, and the lock knows of them.
Sleepers ==
  \A t \in asleep : /\ pc[t] \in {"write", "drain", "read", "upgrade"}
                    /\ waiting \/ Pending

IInv == TypeOK /\ Counts /\ Exclusion /\ Sleepers /\ NoLostWakeup

-----------------------------------------------------------------------------
(* Counting readers.                                                       *)

\* The readers are finitely many, and none of them is the same as none
\* counted: what lock_done and the loops conclude from read_count = 0.
LEMMA ReadersFinite ==
  ASSUME TypeOK, Counts
  PROVE  /\ IsFiniteSet(Readers)
         /\ Cardinality(Readers) \in Nat
         /\ (read_count = 0) <=> (\A t \in Threads : pc[t] \notin {"R", "wakeR"})
<1>1. IsFiniteSet(Readers)
  BY RwLockAssumption, FS_Subset DEF Readers
<1>2. Cardinality(Readers) \in Nat
  BY <1>1, FS_CardinalityType
<1>3. (Cardinality(Readers) = 0) <=> (Readers = {})
  BY <1>1, FS_EmptySet
<1> QED BY <1>1, <1>2, <1>3 DEF Readers, Counts

\* lock_read and lock_write_to_read: one more reader.
LEMMA OneMore ==
  ASSUME TypeOK, Counts, NEW t \in Threads, NEW p \in {"R", "wakeR"},
         pc[t] \notin {"R", "wakeR"}, pc' = [pc EXCEPT ![t] = p]
  PROVE  Cardinality(Readers') = Cardinality(Readers) + 1
<1>1. Readers' = Readers \cup {t} /\ t \notin Readers
  BY DEF Readers, TypeOK
<1> QED BY <1>1, ReadersFinite, FS_AddElement

\* lock_done and lock_read_to_write: one reader less.
LEMMA OneLess ==
  ASSUME TypeOK, Counts, NEW t \in Threads, NEW p,
         p \notin {"R", "wakeR"}, pc[t] \in {"R", "wakeR"}, pc' = [pc EXCEPT ![t] = p]
  PROVE  Cardinality(Readers') = Cardinality(Readers) - 1 /\ read_count > 0
<1>1. Readers' = Readers \ {t} /\ t \in Readers
  BY DEF Readers, TypeOK
<1>2. Cardinality(Readers') = Cardinality(Readers) - 1
  BY <1>1, ReadersFinite, FS_RemoveElement
<1>3. Readers # {}
  BY <1>1
<1>4. read_count # 0
  BY <1>1, ReadersFinite DEF Readers
<1> QED BY <1>2, <1>4 DEF TypeOK

\* Any other step of a thread leaves the readers as they are.
LEMMA SameReaders ==
  ASSUME TypeOK, NEW t \in Threads, NEW p, pc' = [pc EXCEPT ![t] = p],
         (pc[t] \in {"R", "wakeR"}) <=> (p \in {"R", "wakeR"})
  PROVE  Cardinality(Readers') = Cardinality(Readers)
<1>1. Readers' = Readers
  BY DEF Readers, TypeOK
<1> QED BY <1>1

-----------------------------------------------------------------------------
(* The invariant is inductive.                                             *)

\* The lock starts free, with everybody idle.
LEMMA InitIInv == Init => IInv
<1> SUFFICES ASSUME Init PROVE IInv
  OBVIOUS
<1>1. TypeOK
  BY DEF Init, TypeOK, Pcs
<1>2. Readers = {}
  BY DEF Init, Readers
<1>3. Cardinality(Readers) = 0
  BY <1>2, FS_EmptySet
<1> QED
  BY <1>1, <1>3 DEF Init, IInv, Counts, Exclusion, Sleepers, NoLostWakeup, Writing, Upgrading, Exclusive

\* Every action of every thread keeps the invariant.
LEMMA StepIInv ==
  ASSUME IInv, NEW t \in Threads,
         Enter(t) \/ Step(t) \/ Change(t) \/ lock_done(t)
  PROVE  IInv'
<1> USE DEF IInv
<1>1. CASE EnterWrite(t)
  <2>1. TypeOK'
    BY <1>1, ReadersFinite DEF TypeOK, Pcs, EnterWrite, Goto, lockVars
  <2>2. Counts'
    BY <1>1, ReadersFinite, SameReaders DEF Counts, TypeOK, Writing, Upgrading, Exclusion, Exclusive, EnterWrite, Goto, lockVars, Blocked
  <2>3. Exclusion'
    BY <1>1, ReadersFinite DEF Exclusion, Exclusive, Counts, TypeOK, Writing, Upgrading, EnterWrite, Goto, lockVars, Blocked
  <2>4. Sleepers'
    BY <1>1 DEF Sleepers, Pending, TypeOK, EnterWrite, Goto, lockVars, Blocked
  <2>5. NoLostWakeup'
    BY <1>1, ReadersFinite DEF NoLostWakeup, Sleepers, Pending, Counts, Exclusion, Exclusive, TypeOK, Writing, Upgrading, EnterWrite, Goto, lockVars, Blocked
  <2> QED BY <2>1, <2>2, <2>3, <2>4, <2>5
<1>2. CASE EnterRead(t)
  <2>1. TypeOK'
    BY <1>2, ReadersFinite DEF TypeOK, Pcs, EnterRead, Goto, lockVars
  <2>2. Counts'
    BY <1>2, ReadersFinite, SameReaders DEF Counts, TypeOK, Writing, Upgrading, Exclusion, Exclusive, EnterRead, Goto, lockVars, Blocked
  <2>3. Exclusion'
    BY <1>2, ReadersFinite DEF Exclusion, Exclusive, Counts, TypeOK, Writing, Upgrading, EnterRead, Goto, lockVars, Blocked
  <2>4. Sleepers'
    BY <1>2 DEF Sleepers, Pending, TypeOK, EnterRead, Goto, lockVars, Blocked
  <2>5. NoLostWakeup'
    BY <1>2, ReadersFinite DEF NoLostWakeup, Sleepers, Pending, Counts, Exclusion, Exclusive, TypeOK, Writing, Upgrading, EnterRead, Goto, lockVars, Blocked
  <2> QED BY <2>1, <2>2, <2>3, <2>4, <2>5
<1>3. CASE Sleep(t)
  <2>0. Readers' = Readers
    BY <1>3 DEF Sleep, Readers
  <2>1. TypeOK'
    BY <1>3, ReadersFinite DEF TypeOK, Pcs, Sleep
  <2>2. Counts'
    BY <1>3, ReadersFinite, <2>0 DEF Counts, TypeOK, Writing, Upgrading, Exclusion, Exclusive, Sleep, Blocked
  <2>3. Exclusion'
    BY <1>3, ReadersFinite DEF Exclusion, Exclusive, Counts, TypeOK, Writing, Upgrading, Sleep, Blocked
  <2>4. Sleepers'
    BY <1>3 DEF Sleepers, Pending, TypeOK, Sleep, Blocked
  <2>5. NoLostWakeup'
    BY <1>3, ReadersFinite DEF NoLostWakeup, Sleepers, Pending, Counts, Exclusion, Exclusive, TypeOK, Writing, Upgrading, Sleep, Blocked
  <2> QED BY <2>1, <2>2, <2>3, <2>4, <2>5
<1>4. CASE WantWrite(t)
  <2>1. TypeOK'
    BY <1>4, ReadersFinite DEF TypeOK, Pcs, WantWrite, Awake, Goto
  <2>2. Counts'
    BY <1>4, ReadersFinite, SameReaders DEF Counts, TypeOK, Writing, Upgrading, Exclusion, Exclusive, WantWrite, Awake, Goto, Blocked
  <2>3. Exclusion'
    BY <1>4, ReadersFinite DEF Exclusion, Exclusive, Counts, TypeOK, Writing, Upgrading, WantWrite, Awake, Goto, Blocked
  <2>4. Sleepers'
    BY <1>4 DEF Sleepers, Pending, TypeOK, WantWrite, Awake, Goto, Blocked
  <2>5. NoLostWakeup'
    BY <1>4, ReadersFinite DEF NoLostWakeup, Sleepers, Pending, Counts, Exclusion, Exclusive, TypeOK, Writing, Upgrading, WantWrite, Awake, Goto, Blocked
  <2> QED BY <2>1, <2>2, <2>3, <2>4, <2>5
<1>5. CASE Drained(t)
  <2>1. TypeOK'
    BY <1>5, ReadersFinite DEF TypeOK, Pcs, Drained, Awake, Goto, lockVars
  <2>2. Counts'
    BY <1>5, ReadersFinite, SameReaders DEF Counts, TypeOK, Writing, Upgrading, Exclusion, Exclusive, Drained, Awake, Goto, lockVars, Blocked
  <2>3. Exclusion'
    BY <1>5, ReadersFinite DEF Exclusion, Exclusive, Counts, TypeOK, Writing, Upgrading, Drained, Awake, Goto, lockVars, Blocked
  <2>4. Sleepers'
    BY <1>5 DEF Sleepers, Pending, TypeOK, Drained, Awake, Goto, lockVars, Blocked
  <2>5. NoLostWakeup'
    BY <1>5, ReadersFinite DEF NoLostWakeup, Sleepers, Pending, Counts, Exclusion, Exclusive, TypeOK, Writing, Upgrading, Drained, Awake, Goto, lockVars, Blocked
  <2> QED BY <2>1, <2>2, <2>3, <2>4, <2>5
<1>6. CASE lock_read(t)
  <2>1. TypeOK'
    BY <1>6, ReadersFinite DEF TypeOK, Pcs, lock_read, Awake, Goto
  <2>2. Counts'
    BY <1>6, ReadersFinite, OneMore DEF Counts, TypeOK, Writing, Upgrading, Exclusion, Exclusive, lock_read, Awake, Goto, Blocked
  <2>3. Exclusion'
    BY <1>6, ReadersFinite DEF Exclusion, Exclusive, Counts, TypeOK, Writing, Upgrading, lock_read, Awake, Goto, Blocked
  <2>4. Sleepers'
    BY <1>6 DEF Sleepers, Pending, TypeOK, lock_read, Awake, Goto, Blocked
  <2>5. NoLostWakeup'
    BY <1>6, ReadersFinite DEF NoLostWakeup, Sleepers, Pending, Counts, Exclusion, Exclusive, TypeOK, Writing, Upgrading, lock_read, Awake, Goto, Blocked
  <2> QED BY <2>1, <2>2, <2>3, <2>4, <2>5
<1>7. CASE Upgraded(t)
  <2>1. TypeOK'
    BY <1>7, ReadersFinite DEF TypeOK, Pcs, Upgraded, Awake, Goto, lockVars
  <2>2. Counts'
    BY <1>7, ReadersFinite, SameReaders DEF Counts, TypeOK, Writing, Upgrading, Exclusion, Exclusive, Upgraded, Awake, Goto, lockVars, Blocked
  <2>3. Exclusion'
    BY <1>7, ReadersFinite DEF Exclusion, Exclusive, Counts, TypeOK, Writing, Upgrading, Upgraded, Awake, Goto, lockVars, Blocked
  <2>4. Sleepers'
    BY <1>7 DEF Sleepers, Pending, TypeOK, Upgraded, Awake, Goto, lockVars, Blocked
  <2>5. NoLostWakeup'
    BY <1>7, ReadersFinite DEF NoLostWakeup, Sleepers, Pending, Counts, Exclusion, Exclusive, TypeOK, Writing, Upgrading, Upgraded, Awake, Goto, lockVars, Blocked
  <2> QED BY <2>1, <2>2, <2>3, <2>4, <2>5
<1>8. CASE ReadToWriteFails(t)
  <2>1. TypeOK'
    BY <1>8, ReadersFinite, OneLess DEF TypeOK, Pcs, ReadToWriteFails, Goto, Wakes
  <2>2. Counts'
    BY <1>8, ReadersFinite, OneLess DEF Counts, TypeOK, Writing, Upgrading, Exclusion, Exclusive, ReadToWriteFails, Goto, Wakes, Blocked
  <2>3. Exclusion'
    BY <1>8, ReadersFinite DEF Exclusion, Exclusive, Counts, TypeOK, Writing, Upgrading, ReadToWriteFails, Goto, Wakes, Blocked
  <2>4. Sleepers'
    BY <1>8 DEF Sleepers, Pending, TypeOK, ReadToWriteFails, Goto, Wakes, Blocked
  <2>5. NoLostWakeup'
    BY <1>8, ReadersFinite DEF NoLostWakeup, Sleepers, Pending, Counts, Exclusion, Exclusive, TypeOK, Writing, Upgrading, ReadToWriteFails, Goto, Wakes, Blocked
  <2> QED BY <2>1, <2>2, <2>3, <2>4, <2>5
<1>9. CASE ReadToWrite(t)
  <2>1. TypeOK'
    BY <1>9, ReadersFinite, OneLess DEF TypeOK, Pcs, ReadToWrite, Goto
  <2>2. Counts'
    BY <1>9, ReadersFinite, OneLess DEF Counts, TypeOK, Writing, Upgrading, Exclusion, Exclusive, ReadToWrite, Goto, Blocked
  <2>3. Exclusion'
    BY <1>9, ReadersFinite DEF Exclusion, Exclusive, Counts, TypeOK, Writing, Upgrading, ReadToWrite, Goto, Blocked
  <2>4. Sleepers'
    BY <1>9 DEF Sleepers, Pending, TypeOK, ReadToWrite, Goto, Blocked
  <2>5. NoLostWakeup'
    BY <1>9, ReadersFinite DEF NoLostWakeup, Sleepers, Pending, Counts, Exclusion, Exclusive, TypeOK, Writing, Upgrading, ReadToWrite, Goto, Blocked
  <2> QED BY <2>1, <2>2, <2>3, <2>4, <2>5
<1>10. CASE lock_write_to_read(t)
  <2>0. pc' = [pc EXCEPT ![t] = IF waiting THEN "wakeR" ELSE "R"] /\ waiting' = FALSE
    BY <1>10 DEF TypeOK, lock_write_to_read, Goto, Wakes
  <2>a. /\ want_upgrade => want_upgrade' = FALSE /\ want_write' = want_write
        /\ ~want_upgrade => want_write' = FALSE /\ want_upgrade' = want_upgrade
    BY <1>10, Zenon DEF lock_write_to_read
  <2>b. want_write' \in BOOLEAN /\ want_upgrade' \in BOOLEAN
    BY <2>a DEF TypeOK
  <2>c. read_count' \in Nat /\ asleep' = asleep
    BY <1>10 DEF TypeOK, lock_write_to_read
  <2>d. pc' \in [Threads -> Pcs]
    BY <2>0 DEF TypeOK, Pcs
  <2>1. TypeOK'
    BY <2>0, <2>b, <2>c, <2>d DEF TypeOK
  <2>2. Counts'
    BY <1>10, ReadersFinite, OneMore DEF Counts, TypeOK, Writing, Upgrading, Exclusion, Exclusive, lock_write_to_read, Goto, Wakes, Blocked
  <2>3. Exclusion'
    BY <1>10, ReadersFinite DEF Exclusion, Exclusive, Counts, TypeOK, Writing, Upgrading, lock_write_to_read, Goto, Wakes, Blocked
  <2>4. Sleepers'
    BY <1>10 DEF Sleepers, Pending, TypeOK, lock_write_to_read, Goto, Wakes, Blocked
  <2>5. NoLostWakeup'
    BY <1>10, ReadersFinite DEF NoLostWakeup, Sleepers, Pending, Counts, Exclusion, Exclusive, TypeOK, Writing, Upgrading, lock_write_to_read, Goto, Wakes, Blocked
  <2> QED BY <2>1, <2>2, <2>3, <2>4, <2>5
<1>11. CASE lock_done(t)
  <2> USE <1>11
  <2> DEFINE next == IF waiting /\ read_count' = 0 THEN "wake" ELSE "idle"
  <2>0. pc' = [pc EXCEPT ![t] = next] /\ next \in {"wake", "idle"}
    BY DEF lock_done, Wakes, Goto
  <2>1. CASE pc[t] = "R"
    <3>0. read_count > 0 /\ Cardinality(Readers') = Cardinality(Readers) - 1
      BY <2>0, <2>1, ReadersFinite, OneLess DEF Exclusion, Exclusive, Upgrading, Counts
    <3>1. TypeOK'
      BY <2>0, <3>0, <2>1 DEF TypeOK, Pcs, lock_done, Wakes, Goto
    <3>2. Counts'
      BY <2>0, <3>0, <2>1 DEF Counts, TypeOK, Writing, Upgrading, Exclusion, Exclusive, lock_done, Wakes, Goto
    <3>3. Exclusion'
      BY <2>0, <2>1 DEF Exclusion, Exclusive, TypeOK, Writing, Upgrading
    <3>4. Sleepers'
      BY <2>0, <2>1 DEF Sleepers, Pending, TypeOK, lock_done, Wakes, Goto
    <3>5. NoLostWakeup'
      BY <2>0, <3>0, <2>1, ReadersFinite DEF NoLostWakeup, Sleepers, Pending, Counts, Exclusion, Exclusive, TypeOK, Writing, Upgrading, Blocked, lock_done, Wakes, Goto
    <3> QED BY <3>1, <3>2, <3>3, <3>4, <3>5
  <2>2. CASE pc[t] = "U"
    <3>0. read_count = 0 /\ want_upgrade /\ Cardinality(Readers') = Cardinality(Readers)
      BY <2>0, <2>2, ReadersFinite, SameReaders DEF Exclusion, Exclusive, Upgrading, Counts
    <3>1. TypeOK'
      BY <2>0, <3>0, <2>2 DEF TypeOK, Pcs, lock_done, Wakes, Goto
    <3>2. Counts'
      <4>1. read_count' = Cardinality(Readers')
        BY <3>0 DEF Counts, lock_done
      <4>2. want_upgrade' = FALSE /\ want_write' = want_write
        BY <3>0 DEF lock_done
      <4>3. want_write' <=> \E u \in Threads : pc'[u] \in Writing
        BY <2>0, <4>2, <2>2 DEF Counts, TypeOK, Writing, Exclusion
      <4>4. want_upgrade' <=> \E u \in Threads : pc'[u] \in Upgrading
        BY <2>0, <4>2, <2>2 DEF Counts, TypeOK, Upgrading, Exclusion
      <4> QED BY <4>1, <4>3, <4>4 DEF Counts
    <3>3. Exclusion'
      BY <2>0, <2>2 DEF Exclusion, Exclusive, TypeOK, Writing, Upgrading
    <3>4. Sleepers'
      BY <2>0, <2>2 DEF Sleepers, Pending, TypeOK, lock_done, Wakes, Goto
    <3>5. NoLostWakeup'
      BY <2>0, <3>0, <2>2, ReadersFinite DEF NoLostWakeup, Sleepers, Pending, Counts, Exclusion, Exclusive, TypeOK, Writing, Upgrading, Blocked, lock_done, Wakes, Goto
    <3> QED BY <3>1, <3>2, <3>3, <3>4, <3>5
  <2>3. CASE pc[t] = "W"
    <3>0. read_count = 0 /\ ~want_upgrade /\ Cardinality(Readers') = Cardinality(Readers)
      BY <2>0, <2>3, ReadersFinite, SameReaders DEF Exclusion, Exclusive, Upgrading, Counts
    <3>1. TypeOK'
      BY <2>0, <3>0, <2>3 DEF TypeOK, Pcs, lock_done, Wakes, Goto
    <3>2. Counts'
      <4>1. read_count' = Cardinality(Readers')
        BY <3>0 DEF Counts, lock_done
      <4>2. want_write' = FALSE /\ want_upgrade' = want_upgrade
        BY <3>0 DEF lock_done
      <4>3. want_write' <=> \E u \in Threads : pc'[u] \in Writing
        BY <2>0, <4>2, <2>3 DEF Counts, TypeOK, Writing, Exclusion
      <4>4. want_upgrade' <=> \E u \in Threads : pc'[u] \in Upgrading
        BY <2>0, <4>2, <2>3 DEF Counts, TypeOK, Upgrading, Exclusion
      <4> QED BY <4>1, <4>3, <4>4 DEF Counts
    <3>3. Exclusion'
      BY <2>0, <2>3 DEF Exclusion, Exclusive, TypeOK, Writing, Upgrading
    <3>4. Sleepers'
      BY <2>0, <2>3 DEF Sleepers, Pending, TypeOK, lock_done, Wakes, Goto
    <3>5. NoLostWakeup'
      BY <2>0, <3>0, <2>3, ReadersFinite DEF NoLostWakeup, Sleepers, Pending, Counts, Exclusion, Exclusive, TypeOK, Writing, Upgrading, Blocked, lock_done, Wakes, Goto
    <3> QED BY <3>1, <3>2, <3>3, <3>4, <3>5
  <2> QED BY <2>1, <2>2, <2>3 DEF lock_done
<1>12. CASE thread_wakeup(t)
  <2>1. TypeOK'
    BY <1>12, ReadersFinite DEF TypeOK, Pcs, thread_wakeup, Goto, lockVars
  <2>2. Counts'
    BY <1>12, ReadersFinite, SameReaders DEF Counts, TypeOK, Writing, Upgrading, Exclusion, Exclusive, thread_wakeup, Goto, lockVars, Blocked
  <2>3. Exclusion'
    BY <1>12, ReadersFinite DEF Exclusion, Exclusive, Counts, TypeOK, Writing, Upgrading, thread_wakeup, Goto, lockVars, Blocked
  <2>4. Sleepers'
    BY <1>12 DEF Sleepers, Pending, TypeOK, thread_wakeup, Goto, lockVars, Blocked
  <2>5. NoLostWakeup'
    BY <1>12, ReadersFinite DEF NoLostWakeup, Sleepers, Pending, Counts, Exclusion, Exclusive, TypeOK, Writing, Upgrading, thread_wakeup, Goto, lockVars, Blocked
  <2> QED BY <2>1, <2>2, <2>3, <2>4, <2>5
<1> QED
  BY <1>1, <1>2, <1>3, <1>4, <1>5, <1>6, <1>7, <1>8, <1>9, <1>10, <1>11, <1>12 DEF Enter, Step, Change

\* The inductive invariant holds in every state of every behaviour.
THEOREM Invariant == Spec => []IInv
<1>1. Init => IInv
  BY InitIInv
<1>2. IInv /\ [Next]_vars => IInv'
  <2> SUFFICES ASSUME IInv, [Next]_vars PROVE IInv'
    OBVIOUS
  <2>1. CASE Next
    BY <2>1, StepIInv DEF Next
  <2>2. CASE UNCHANGED vars
    BY <2>2 DEF vars, lockVars, IInv, TypeOK, Counts, Readers, Exclusion, Sleepers, Pending,
               NoLostWakeup, Blocked
  <2> QED BY <2>1, <2>2
<1> QED BY <1>1, <1>2, PTL DEF Spec

\* No thread sleeps on a lock that is free for it unless it is being woken:
\* lock_done rightly wakes nobody while there are readers.
THEOREM WakeupsAreKept == Spec => []NoLostWakeup
<1>1. IInv => NoLostWakeup
  BY DEF IInv
<1> QED BY <1>1, Invariant, PTL

-----------------------------------------------------------------------------
(* The refinement.                                                         *)

\* The abstract modes.
mode == [t \in Threads |-> Mode(pc[t])]

\* A step of one thread changes the mode of that thread only.
LEMMA ModeStep ==
  ASSUME TypeOK, NEW t \in Threads, NEW p, pc' = [pc EXCEPT ![t] = p]
  PROVE  mode' = [mode EXCEPT ![t] = Mode(p)]
BY DEF mode, TypeOK

\* Every action is a step of RwSpec or leaves the modes alone.
LEMMA StepRefines ==
  ASSUME IInv, NEW t \in Threads,
         Enter(t) \/ Step(t) \/ Change(t) \/ lock_done(t)
  PROVE  Abstract!Next \/ mode' = mode
<1> USE DEF IInv, Writing, Upgrading, Exclusive
<1>0. \A u \in Threads : pc[u] \in Pcs /\ mode[u] = Mode(pc[u])
  BY DEF mode, TypeOK
<1>1. CASE Enter(t) \/ Sleep(t) \/ WantWrite(t) \/ thread_wakeup(t)
  <2>1. CASE Sleep(t)
    BY <2>1 DEF Sleep, mode
  <2>2. CASE Enter(t)
    <3>1. PICK p \in {"write", "read"} : pc' = [pc EXCEPT ![t] = p]
      BY <2>2 DEF Enter, EnterRead, EnterWrite, Goto
    <3>2. Mode(p) = "none" /\ mode[t] = "none"
      BY <2>2, <1>0 DEF Enter, EnterRead, EnterWrite, Mode
    <3> QED BY <3>1, <3>2, ModeStep DEF mode
  <2>3. CASE WantWrite(t)
    <3>1. pc' = [pc EXCEPT ![t] = "drain"] /\ pc[t] = "write"
      BY <2>3 DEF WantWrite, Awake, Goto
    <3>2. Mode("drain") = "none" /\ mode[t] = "none"
      BY <3>1, <1>0 DEF Mode
    <3> QED BY <3>1, <3>2, ModeStep DEF mode
  <2>4. CASE thread_wakeup(t)
    <3>1. PICK p \in {"idle", "R"} :
            pc' = [pc EXCEPT ![t] = p] /\ p = IF pc[t] = "wake" THEN "idle" ELSE "R"
      BY <2>4 DEF thread_wakeup, Goto
    <3>2. Mode(p) = mode[t]
      BY <2>4, <3>1, <1>0 DEF thread_wakeup, Mode
    <3> QED BY <3>1, <3>2, ModeStep DEF mode
  <2> QED BY <1>1, <2>1, <2>2, <2>3, <2>4
<1>2. CASE Drained(t)
  <2>1. pc' = [pc EXCEPT ![t] = "W"] /\ pc[t] = "drain"
    BY <1>2 DEF Drained, Awake, Goto
  <2>2. \A u \in Threads \ {t} : pc[u] \notin {"R", "wakeR", "upgrade", "U", "W"}
    BY <1>2, ReadersFinite DEF Drained, Awake, Blocked, Counts, Exclusion
  <2>3. Abstract!Write(t)
    BY <2>1, <2>2, <1>0, ModeStep
       DEF Abstract!Write, Abstract!Nobody, Abstract!Becomes, mode, Mode
  <2> QED BY <2>3 DEF Abstract!Next
<1>3. CASE lock_read(t)
  <2>1. pc' = [pc EXCEPT ![t] = "R"] /\ pc[t] = "read"
    BY <1>3 DEF lock_read, Awake, Goto
  <2>2. \A u \in Threads : pc[u] \notin {"drain", "W", "upgrade", "U"}
    BY <1>3 DEF lock_read, Awake, Blocked, Counts
  <2>3. Abstract!Read(t)
    BY <2>1, <2>2, <1>0, ModeStep
       DEF Abstract!Read, Abstract!Nobody, Abstract!Becomes, mode, Mode
  <2> QED BY <2>3 DEF Abstract!Next
<1>4. CASE Upgraded(t)
  <2>1. pc' = [pc EXCEPT ![t] = "U"] /\ pc[t] = "upgrade"
    BY <1>4 DEF Upgraded, Awake, Goto
  <2>2. \A u \in Threads \ {t} : pc[u] \notin {"R", "wakeR", "upgrade", "U", "W"}
    BY <1>4, <2>1, ReadersFinite DEF Upgraded, Awake, Blocked, Exclusion
  <2>3. Abstract!Write(t)
    BY <2>1, <2>2, <1>0, ModeStep
       DEF Abstract!Write, Abstract!Nobody, Abstract!Becomes, mode, Mode
  <2> QED BY <2>3 DEF Abstract!Next
<1>5. CASE ReadToWrite(t)
  <2>1. pc' = [pc EXCEPT ![t] = "upgrade"] /\ pc[t] = "R"
    BY <1>5 DEF ReadToWrite, Goto
  <2>2. \A u \in Threads \ {t} : pc[u] \notin {"W", "upgrade", "U"}
    BY <1>5, <2>1 DEF ReadToWrite, Counts, Exclusion
  <2>3. Abstract!Upgrade(t)
    BY <2>1, <2>2, <1>0, ModeStep
       DEF Abstract!Upgrade, Abstract!Nobody, Abstract!Becomes, mode, Mode
  <2> QED BY <2>3 DEF Abstract!Next
<1>6. CASE ReadToWriteFails(t)
  <2>1. PICK p \in {"wake", "idle"} : pc' = [pc EXCEPT ![t] = p]
    BY <1>6 DEF ReadToWriteFails, Wakes, Goto
  <2>2. pc[t] = "R" /\ want_upgrade
    BY <1>6 DEF ReadToWriteFails
  <2>3. \E u \in Threads \ {t} : pc[u] = "upgrade"
    BY <2>2 DEF Counts, Exclusion
  <2>4. Abstract!UpgradeFails(t)
    BY <2>1, <2>2, <2>3, <1>0, ModeStep
       DEF Abstract!UpgradeFails, Abstract!Nobody, Abstract!Becomes, mode, Mode
  <2> QED BY <2>4 DEF Abstract!Next
<1>7. CASE lock_write_to_read(t)
  <2>1. PICK p \in {"wakeR", "R"} : pc' = [pc EXCEPT ![t] = p]
    BY <1>7 DEF lock_write_to_read, Wakes, Goto
  <2>2. pc[t] \in {"W", "U"}
    BY <1>7 DEF lock_write_to_read
  <2>3. Abstract!Downgrade(t)
    BY <2>1, <2>2, <1>0, ModeStep DEF Abstract!Downgrade, Abstract!Becomes, mode, Mode
  <2> QED BY <2>3 DEF Abstract!Next
<1>8. CASE lock_done(t)
  <2>1. PICK p \in {"wake", "idle"} : pc' = [pc EXCEPT ![t] = p]
    BY <1>8 DEF lock_done, Wakes, Goto
  <2>2. pc[t] \in {"R", "W", "U"}
    BY <1>8 DEF lock_done
  <2>3. Abstract!Release(t)
    BY <2>1, <2>2, <1>0, ModeStep DEF Abstract!Release, Abstract!Becomes, mode, Mode
  <2> QED BY <2>3 DEF Abstract!Next
<1> QED BY <1>1, <1>2, <1>3, <1>4, <1>5, <1>6, <1>7, <1>8 DEF Step, Change

\* lock_t implements RwSpec, for any number of threads, spinning or sleeping.
THEOREM Refinement == Spec => Implements
<1>1. Init => Abstract!Init
  BY DEF Init, Abstract!Init, Mode
<1>2. IInv /\ [Next]_vars => [Abstract!Next]_mode
  <2> SUFFICES ASSUME IInv, [Next]_vars PROVE Abstract!Next \/ mode' = mode
    OBVIOUS
  <2>1. CASE Next
    BY <2>1, StepRefines DEF Next
  <2>2. CASE UNCHANGED vars
    BY <2>2 DEF vars, mode
  <2> QED BY <2>1, <2>2
<1> QED BY <1>1, <1>2, Invariant, PTL DEF Spec, Implements, Abstract!Spec, mode

=============================================================================
