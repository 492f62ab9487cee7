-------------------------- MODULE IpcMqueueProofs --------------------------
(***************************************************************************)
(* Safety of IpcMqueue, for any number of ports, sets, threads and         *)
(* messages, any limits and options, one processor or several: one step    *)
(* per action, each from the lemmas on the queue functions it uses.        *)
(***************************************************************************)
EXTENDS IpcMqueueLoops

\* Threads are started or stop waiting; no queue changes.
LEMMA WakeOnly ==
  ASSUME IInv, ith' \in [Threads -> IthState],
         \A t \in Threads : ith'[t].kmsg = ith[t].kmsg,
         UNCHANGED <<imq_messages, imq_threads, ip_seqno, taken, ip_receiver, ip_pset>>,
         QOK(QState, Home, thr', kmsg')
  PROVE  QueuePart' /\ OnlyTaskPortsInSets'
<1> DEFINE T == [QState EXCEPT !.ith = ith']
<1>1. QState.ith = ith /\ Becomes(T)
  BY DEF QState, Becomes
<1>2. QOK(T, Home, thr', kmsg')
  BY <1>1, IthOK
<1>3. Home' = Home /\ OnlyTaskPortsInSets'
  BY PortsStay
<1> HIDE DEF T
<1> QED
  BY <1>1, <1>2, <1>3, InstallQ

\* The queue state changes to S, the rest of the kernel but the port's set
\* and receive right does not.
LEMMA QueuesOnly ==
  ASSUME IInv, NEW S, Becomes(S), QOK(S, Home', thr, kmsg),
         UNCHANGED <<thr, kmsg, panic, sent>>
  PROVE  QueuePart' /\ ThreadsOK' /\ MsgsOK' /\ PanicOK'
<1>1. QueuePart'
  BY InstallQ
<1> QED
  BY <1>1, Zenon DEF IInv, TypeOK, ThreadsOK, MsgsOK, PanicOK

\* The delayed thread_go of ipc_mqueue_deliver keeps the invariant.
LEMMA DeliverGoPreserves ==
  ASSUME IInv, NEW t \in Threads, DeliverGo(t)
  PROVE  IInv'
<1>0. /\ PortsOK /\ SetsOK /\ QueuesOK /\ ThreadsOK /\ MsgsOK /\ PanicOK
      /\ thr \in [Threads -> ThrState] /\ ith \in [Threads -> IthState] /\ thr[t].go \in Threads
  BY DEF IInv, TypeOK, ThreadsOK, QueuesOK, LocalsOK, DeliverGo
<1>1. /\ ith' = [ith EXCEPT ![thr[t].go] = Gone(@)] /\ thr' = [thr EXCEPT ![t] = Idle]
      /\ UNCHANGED <<portVars, setVars, imq_messages, imq_threads, ip_seqno, taken,
                     kmsg, panic, sent>>
  BY DEF DeliverGo
<1>2. ith' \in [Threads -> IthState] /\ \A u \in Threads : ith'[u].kmsg = ith[u].kmsg
  <2>1. ith[thr[t].go] \in IthState
    BY <1>0
  <2> QED
    BY <2>1, <1>0, <1>1, GoneType
<1>3. QOK(QState, Home, thr', kmsg')
  BY <1>0, <1>1, QStateOK, IdleOK, LetGo, Zenon
<1>4. QueuePart' /\ OnlyTaskPortsInSets'
  BY <1>1, <1>2, <1>3, WakeOnly DEF portVars
<1>5. PortsOK' /\ SetsOK' /\ MsgsOK' /\ PanicOK'
  BY <1>0, <1>1, Zenon DEF PortsOK, SetsOK, MsgsOK, PanicOK, portVars, setVars
<1>6. ThreadsOK'
  BY <1>0, <1>1, GoesIdle, Zenon
<1> QED
  BY <1>4, <1>5, <1>6, Parts

\* thread_timeout and thread_abort.
LEMMA ClearWaitPreserves ==
  ASSUME IInv, NEW t \in Threads, NEW result \in {"TIMED_OUT", "INTERRUPTED"},
         ClearWait(t, result)
  PROVE  IInv'
<1>0. /\ PortsOK /\ SetsOK /\ QueuesOK /\ ThreadsOK /\ MsgsOK /\ PanicOK
      /\ ith \in [Threads -> IthState]
  BY DEF IInv, TypeOK, QueuesOK
<1>1. /\ ith' = [ith EXCEPT ![t].wait = FALSE, ![t].result = result]
      /\ UNCHANGED <<portVars, setVars, imq_messages, imq_threads, ip_seqno, taken,
                     thr, kmsg, panic, sent>>
  BY DEF ClearWait
<1>2. ith' \in [Threads -> IthState] /\ \A u \in Threads : ith'[u].kmsg = ith[u].kmsg
  <2> DEFINE i == [ith[t] EXCEPT !.wait = FALSE, !.result = result]
  <2>1. ith[t] \in IthState
    BY <1>0
  <2>2. i \in IthState /\ i.kmsg = ith[t].kmsg
    BY <2>1, Zenon DEF IthState
  <2>3. ith' = [ith EXCEPT ![t] = i]
    BY <1>0, <1>1, Zenon
  <2> HIDE DEF i
  <2> QED
    BY <2>2, <2>3, <1>0
<1>3. QOK(QState, Home, thr', kmsg')
  BY <1>1, QStateOK
<1>4. QueuePart' /\ OnlyTaskPortsInSets'
  BY <1>1, <1>2, <1>3, WakeOnly DEF portVars
<1>5. PortsOK' /\ SetsOK' /\ ThreadsOK' /\ MsgsOK' /\ PanicOK'
  BY <1>0, <1>1, Zenon DEF PortsOK, SetsOK, ThreadsOK, MsgsOK, PanicOK, portVars, setVars
<1> QED
  BY <1>4, <1>5, Parts

-----------------------------------------------------------------------------
(* Receiving.                                                              *)

\* ipc_mqueue_copyin: a port in a dead set leaves the set.
LEMMA CopyinOK ==
  ASSUME IInv, NEW q \in Queues, CanCopyin(q), ip_pset' = psetAfterCopyin(q),
         UNCHANGED ip_receiver
  PROVE  /\ QOK(ipc_mqueue_copyin(q), Home', thr, kmsg)
         /\ ip_pset' \in [Ports -> Psets \cup {NULL}]
         /\ OnlyTaskPortsInSets'
<1>0. ip_pset \in [Ports -> Psets \cup {NULL}]
  BY DEF IInv, TypeOK, PortsOK
<1>1. CASE LeavesDeadSet(q)
  <2>1. q \in Ports /\ ip_pset[q] # NULL /\ ip_pset' = [ip_pset EXCEPT ![q] = NULL]
    BY <1>1 DEF LeavesDeadSet, psetAfterCopyin
  <2>2. Home' = [Home EXCEPT ![q] = q]
    BY <2>1, HomeMoves, Zenon
  <2>3. QOK(ipc_mqueue_copyin(q), Home', thr, kmsg)
    BY <1>1, <2>1, <2>2, RemoveOK, Zenon DEF ipc_mqueue_copyin
  <2>4. OnlyTaskPortsInSets' /\ ip_pset' \in [Ports -> Psets \cup {NULL}]
    BY <1>0, <2>1 DEF IInv, OnlyTaskPortsInSets
  <2> QED
    BY <2>3, <2>4
<1>2. CASE ~LeavesDeadSet(q)
  <2>1. ip_pset' = ip_pset /\ ipc_mqueue_copyin(q) = QState
    BY <1>2 DEF psetAfterCopyin, ipc_mqueue_copyin
  <2>2. Home' = Home /\ OnlyTaskPortsInSets'
    BY <2>1, PortsStay
  <2> QED
    BY <1>0, <2>1, <2>2, QStateOK
<1> QED
  BY <1>1, <1>2

\* mach_msg_receive up to its first block keeps the invariant.
LEMMA ReceivePreserves ==
  ASSUME IInv, NEW t \in Threads, NEW q \in Queues, NEW opt \in RcvOptions,
         mach_msg_receive(t, q, opt)
  PROVE  IInv'
<1>0. /\ PortsOK /\ SetsOK /\ QueuesOK /\ ThreadsOK /\ MsgsOK /\ PanicOK
      /\ opt \in {"block", "timeout", "poll", "always"}
  BY InputsAssumption DEF IInv, TypeOK
<1>1. /\ CanCopyin(q) /\ ip_pset' = psetAfterCopyin(q)
      /\ ReceiveLoop(t, q, opt, ipc_mqueue_copyin(q))
      /\ UNCHANGED <<ip_receiver, ip_msgcount, ip_qlimit, ip_blocked, setVars, kmsg, sent>>
  BY DEF mach_msg_receive
<1>2. /\ QOK(ipc_mqueue_copyin(q), Home', thr, kmsg)
      /\ ip_pset' \in [Ports -> Psets \cup {NULL}] /\ OnlyTaskPortsInSets'
  BY <1>1, CopyinOK
<1>3. ThreadsOK' /\ PanicOK' /\ QueuePart'
  BY <1>0, <1>1, <1>2, ReceiveLoopOK
<1>4. PortsOK' /\ SetsOK' /\ MsgsOK'
  BY <1>0, <1>1, <1>2 DEF PortsOK, SetsOK, MsgsOK, setVars
<1> QED
  BY <1>2, <1>3, <1>4, Parts

\* Dropping the queue lock for MACH_RCV_OVERWRITE keeps the invariant.
LEMMA OverwritePreserves ==
  ASSUME IInv, NEW t \in Threads, NEW q \in Queues, NEW opt \in RcvOptions,
         ReceiveOverwrite(t, q, opt)
  PROVE  IInv'
<1> DEFINE l == [Idle EXCEPT !.pc = "overwrite", !.obj = q, !.opt = opt]
<1>0. /\ PortsOK /\ SetsOK /\ QueuesOK /\ ThreadsOK /\ MsgsOK /\ PanicOK
      /\ opt \in {"block", "timeout", "poll", "always"} /\ thr \in [Threads -> ThrState]
  BY InputsAssumption DEF IInv, TypeOK, ThreadsOK
<1>1. /\ CanCopyin(q) /\ ip_pset' = psetAfterCopyin(q)
      /\ Becomes(ipc_mqueue_copyin(q)) /\ thr' = [thr EXCEPT ![t] = l]
      /\ UNCHANGED <<ip_receiver, ip_msgcount, ip_qlimit, ip_blocked, setVars, kmsg, panic, sent>>
  BY DEF ReceiveOverwrite
<1>2. /\ QOK(ipc_mqueue_copyin(q), Home', thr, kmsg)
      /\ ip_pset' \in [Ports -> Psets \cup {NULL}] /\ OnlyTaskPortsInSets'
  BY <1>1, CopyinOK
<1>3. l \in ThrState /\ LocalsOK(l) /\ l.kmsg = NULL /\ l.pc = "overwrite"
  BY <1>0, Zenon DEF Idle, ThrState, LocalsOK, MaybeMsg
<1> HIDE DEF l
<1>4. QOK(ipc_mqueue_copyin(q), Home', thr', kmsg')
  BY <1>0, <1>1, <1>2, <1>3, LetGo, Zenon
<1>5. QueuePart' /\ ThreadsOK'
  BY <1>0, <1>1, <1>3, <1>4, InstallQ, ThreadSet, Zenon
<1>6. PortsOK' /\ SetsOK' /\ MsgsOK' /\ PanicOK'
  BY <1>0, <1>1, <1>2, Zenon DEF PortsOK, SetsOK, MsgsOK, PanicOK, setVars
<1> QED
  BY <1>2, <1>5, <1>6, Parts

\* So does taking it again, whatever happened to the queue meanwhile.
LEMMA RelockedPreserves ==
  ASSUME IInv, NEW t \in Threads, ReceiveRelocked(t)
  PROVE  IInv'
<1>0. /\ PortsOK /\ SetsOK /\ QueuesOK /\ ThreadsOK /\ MsgsOK /\ PanicOK
      /\ thr[t].obj \in Queues /\ thr[t].opt \in {"block", "timeout", "poll", "always"}
  BY DEF IInv, TypeOK, ThreadsOK, ThrState, LocalsOK, ReceiveRelocked
<1>1. /\ ReceiveLoop(t, thr[t].obj, thr[t].opt, QState)
      /\ UNCHANGED <<portVars, setVars, kmsg, sent>>
  BY DEF ReceiveRelocked
<1>2. Home' = Home /\ OnlyTaskPortsInSets'
  BY <1>1, PortsStay DEF portVars
<1>3. ThreadsOK' /\ PanicOK' /\ QueuePart'
  BY <1>0, <1>1, <1>2, QStateOK, ReceiveLoopOK
<1>4. PortsOK' /\ SetsOK' /\ MsgsOK'
  BY <1>0, <1>1 DEF PortsOK, SetsOK, MsgsOK, portVars, setVars
<1> QED
  BY <1>2, <1>3, <1>4, Parts

\* A receiver that runs after thread_block keeps the invariant.
LEMMA ReceiveContinuePreserves ==
  ASSUME IInv, NEW t \in Threads, ReceiveContinue(t)
  PROVE  IInv'
<1> DEFINE q == thr[t].obj
           Off == [QState EXCEPT !.thrs[q] = Without(@, t)]
<1>0. /\ PortsOK /\ SetsOK /\ QueuesOK /\ ThreadsOK /\ MsgsOK /\ PanicOK
      /\ thr \in [Threads -> ThrState] /\ ith \in [Threads -> IthState] /\ q \in Queues
  BY Zenon DEF IInv, TypeOK, ThreadsOK, QueuesOK, LocalsOK, ReceiveContinue
<1>1. UNCHANGED <<portVars, setVars, kmsg, sent>>
  BY Zenon DEF ReceiveContinue
<1>2. Home' = Home /\ OnlyTaskPortsInSets' /\ PortsOK' /\ SetsOK' /\ MsgsOK'
  BY <1>0, <1>1, PortsStay DEF PortsOK, SetsOK, MsgsOK, portVars, setVars
<1>3. QOK(QState, Home', thr, kmsg) /\ QState.ith = ith
  BY <1>2, QStateOK DEF QState
<1>4. QOK(Off, Home', thr, kmsg)
  BY <1>0, <1>3, WithoutOK, Zenon
<1>5. SUFFICES ThreadsOK' /\ PanicOK' /\ QueuePart'
  BY <1>2, Parts
<1>6. CASE /\ ith[t].state = "SUCCESS" /\ Exists(ith[t].kmsg)
           /\ thr' = [thr EXCEPT ![t] = [Idle EXCEPT !.pc = "finish", !.kmsg = ith[t].kmsg,
                                                     !.seqno = ith[t].seqno]]
           /\ UNCHANGED <<qVars, panic>>
  <2> DEFINE l == [Idle EXCEPT !.pc = "finish", !.kmsg = ith[t].kmsg, !.seqno = ith[t].seqno]
  <2>1. ith[t].kmsg \in Msgs /\ ith[t].seqno \in Nat
    BY <1>0, <1>6 DEF IthState, MaybeMsg, Exists
  <2>2. l \in ThrState /\ LocalsOK(l) /\ l.kmsg = ith[t].kmsg /\ l.pc = "finish"
    BY <2>1, Zenon DEF Idle, ThrState, LocalsOK, MaybeMsg
  <2>3. Becomes(QState) /\ thr' = [thr EXCEPT ![t] = l] /\ UNCHANGED panic
    BY <1>6 DEF Becomes, QState, qVars
  <2> HIDE DEF l
  <2>4. QOK(QState, Home', thr', kmsg')
    <3>1. l.kmsg = QState.ith[t].kmsg
      BY <1>3, <2>2
    <3>2. QOK(QState, Home', [thr EXCEPT ![t] = l], kmsg)
      BY <1>0, <1>3, <2>2, <3>1, TakeUp, Zenon
    <3> QED
      BY <1>1, <2>3, <3>2
  <2> QED
    BY <1>0, <2>2, <2>3, <2>4, InstallQ, ThreadSet, Zenon DEF PanicOK
<1>7. CASE panic' = "receive: no kmsg" /\ UNCHANGED <<qVars, thr>>
  <2>1. Becomes(QState)
    BY <1>7, Zenon DEF Becomes, QState, qVars
  <2>2. QOK(QState, Home', thr', kmsg')
    BY <1>1, <1>3, <1>7, Zenon
  <2> QED
    BY <1>0, <1>7, <2>1, <2>2, InstallQ, Zenon DEF PanicOK, ThreadsOK
<1>8. CASE thr' = [thr EXCEPT ![t] = Idle] /\ UNCHANGED <<qVars, panic>>
  <2>1. Becomes(QState)
    BY <1>8 DEF Becomes, QState, qVars
  <2>2. QOK(QState, Home', thr', kmsg')
    BY <1>0, <1>1, <1>3, <1>8, IdleOK, LetGo, Zenon
  <2> QED
    BY <1>0, <1>8, <2>1, <2>2, InstallQ, GoesIdle, Zenon DEF PanicOK
<1> HIDE DEF Off
<1>9. CASE Becomes(Off) /\ thr' = [thr EXCEPT ![t] = Idle] /\ UNCHANGED panic
  <2>1. QOK(Off, Home', thr', kmsg')
    BY <1>0, <1>1, <1>4, <1>9, IdleOK, LetGo, Zenon
  <2> QED
    BY <1>0, <1>9, <2>1, InstallQ, GoesIdle, Zenon DEF PanicOK
<1>10. CASE ReceiveLoop(t, q, "poll", Off)
  BY <1>0, <1>1, <1>4, <1>10, ReceiveLoopOK
<1>11. CASE Becomes(Off) /\ panic' = "receive: bad wait_result" /\ UNCHANGED thr
  <2>1. QOK(Off, Home', thr', kmsg')
    BY <1>1, <1>4, <1>11, Zenon
  <2> QED
    BY <1>0, <1>11, <2>1, InstallQ, Zenon DEF PanicOK, ThreadsOK
<1> QED
  BY <1>6, <1>7, <1>8, <1>9, <1>10, <1>11, Zenon DEF ReceiveContinue, Off

\* ipc_mqueue_finish_receive keeps the invariant.
LEMMA FinishReceivePreserves ==
  ASSUME IInv, NEW t \in Threads, ipc_mqueue_finish_receive(t)
  PROVE  IInv'
<1> DEFINE m == thr[t].kmsg
           p == kmsg[m].dest
           n == ip_msgcount[p] - 1
           wake == WakesSender(p, n)
<1>0. /\ PortsOK /\ SetsOK /\ QueuesOK /\ ThreadsOK /\ MsgsOK /\ PanicOK
      /\ ith \in [Threads -> IthState] /\ m \in Msgs
  BY Zenon DEF IInv, TypeOK, ThreadsOK, QueuesOK, LocalsOK, ipc_mqueue_finish_receive
<1>1. p \in Ports
  <2>1. m \in Claims(t)
    BY <1>0, ObjectsAssumption DEF Claims
  <2>2. kmsg[m].st # "free"
    BY <1>0, <2>1 DEF IInv, Unshared
  <2> QED
    BY <1>0, <2>2 DEF MsgsOK
<1>2. /\ Dispose(m) /\ thr' = [thr EXCEPT ![t] = Idle]
      /\ UNCHANGED <<ip_receiver, ip_pset, ip_qlimit, setVars, imq_messages, imq_threads,
                     ip_seqno, taken, panic, sent>>
  BY Zenon DEF ipc_mqueue_finish_receive
<1>3. QOK(QState, Home, thr', kmsg') /\ MsgsOK' /\ ThreadsOK'
  BY <1>0, <1>2, DisposeOK, Zenon
<1>4. /\ ith' \in [Threads -> IthState] /\ \A u \in Threads : ith'[u].kmsg = ith[u].kmsg
      /\ ip_msgcount' \in [Ports -> Int] /\ ip_blocked' \in [Ports -> Seq(Threads)]
  <2>1. CASE ~IpActive(p)
    BY <1>0, <2>1 DEF ipc_mqueue_finish_receive, PortsOK
  <2>2. CASE IpActive(p)
    <3>1. /\ ip_msgcount' = [ip_msgcount EXCEPT ![p] = n]
          /\ ip_blocked' = [ip_blocked EXCEPT ![p] = IF wake THEN Tail(@) ELSE @]
          /\ ith' = Roused(ith, IF wake THEN {Head(ip_blocked[p])} ELSE {}, "SUCCESS")
      BY <2>2, Zenon DEF ipc_mqueue_finish_receive
    <3>2. ith' \in [Threads -> IthState] /\ \A u \in Threads : ith'[u].kmsg = ith[u].kmsg
      <4> DEFINE W == IF wake THEN {Head(ip_blocked[p])} ELSE {}
      <4>1. ith' = Roused(ith, W, "SUCCESS")
        BY <3>1, Zenon
      <4> HIDE DEF W
      <4> QED
        BY <1>0, <4>1, RousedType
    <3>3. n \in Int
      BY <1>0, <1>1 DEF PortsOK
    <3>4. ip_blocked[p] \in Seq(Threads)
      BY <1>0, <1>1 DEF PortsOK
    <3>5. ASSUME wake PROVE Tail(ip_blocked[p]) \in Seq(Threads)
      BY <3>4, <3>5, TailRange DEF WakesSender
    <3> HIDE DEF n, p, wake
    <3> QED
      BY <1>0, <3>1, <3>2, <3>3, <3>4, <3>5, Zenon DEF PortsOK
  <2> QED
    BY <2>1, <2>2
<1>5. QueuePart' /\ OnlyTaskPortsInSets'
  BY <1>2, <1>3, <1>4, WakeOnly
<1>6. PortsOK' /\ SetsOK' /\ PanicOK'
  BY <1>0, <1>2, <1>4, Zenon DEF PortsOK, SetsOK, PanicOK, setVars
<1> QED
  BY <1>3, <1>5, <1>6, Parts

-----------------------------------------------------------------------------
(* Ports, sets and receive rights.                                         *)

\* ipc_pset_move keeps the invariant: the messages follow their port.
LEMMA PsetMovePreserves ==
  ASSUME IInv, NEW p \in Ports, NEW n \in Psets \cup {NULL}, ipc_pset_move(p, n)
  PROVE  IInv'
<1> DEFINE o == ip_pset[p]
           R == IF o = NULL THEN QState ELSE ipc_pset_remove(QState, o, p)
           F == IF n = NULL THEN R ELSE ipc_pset_add(R, n, p)
           Home1 == [Home EXCEPT ![p] = p]
<1>0. PortsOK /\ SetsOK /\ Home \in [Ports -> Queues] /\ p \in Queues
  BY QStateOK DEF IInv, TypeOK, Queues
<1>1. /\ ip_receiver[p] = "task" /\ ip_pset' = [ip_pset EXCEPT ![p] = n] /\ Becomes(F)
      /\ UNCHANGED <<ip_receiver, ip_msgcount, ip_qlimit, ip_blocked, setVars, thr,
                     kmsg, panic, sent>>
  BY DEF ipc_pset_move
<1>2. Home' = [Home EXCEPT ![p] = IF n = NULL THEN p ELSE n]
  BY <1>1, HomeMoves, Zenon
<1>3. QOK(R, Home1, thr, kmsg) /\ Home1 \in [Ports -> Queues] /\ Home1[p] = p
  <2>1. CASE o = NULL
    <3>1. Home1 = Home
      BY <2>1 DEF Home, QueueOf
    <3> QED
      BY <2>1, <3>1, <1>0, QStateOK, Zenon
  <2>2. CASE o # NULL
    BY <2>2, <1>0, RemoveOK, Zenon
  <2> QED
    BY <2>1, <2>2
<1>4. QOK(F, Home', thr, kmsg)
  <2>1. CASE n = NULL
    BY <2>1, <1>2, <1>3
  <2>2. CASE n # NULL
    <3>1. n \in Queues /\ n # p
      BY <2>2, ObjectsAssumption DEF Queues
    <3>2. [Home1 EXCEPT ![p] = n] = Home'
      BY <2>2, <1>0, <1>2, Zenon
    <3> HIDE DEF R, Home1
    <3>3. QOK(ipc_mqueue_move(R, n, p, p), Home', thr, kmsg)
      BY <1>3, <3>1, <3>2, MoveOK
    <3> QED
      BY <2>2, <1>0, <3>3, ChangedOK DEF ipc_pset_add
  <2> QED
    BY <2>1, <2>2
<1> HIDE DEF F
<1>5. QueuePart' /\ ThreadsOK' /\ MsgsOK' /\ PanicOK'
  BY <1>1, <1>4, QueuesOnly
<1>6. PortsOK' /\ SetsOK' /\ OnlyTaskPortsInSets'
  BY <1>0, <1>1 DEF PortsOK, SetsOK, OnlyTaskPortsInSets, IInv, setVars
<1> QED
  BY <1>5, <1>6, Parts

\* ipc_pset_destroy keeps the invariant: the members stay members.
LEMMA PsetDestroyPreserves ==
  ASSUME IInv, NEW s \in Psets, ipc_pset_destroy(s)
  PROVE  IInv'
<1>0. PortsOK /\ SetsOK /\ s \in Queues
  BY DEF IInv, TypeOK, Queues
<1>1. /\ ips_active' = [ips_active EXCEPT ![s] = FALSE]
      /\ Becomes(ipc_mqueue_changed(QState, s, "PORT_DIED"))
      /\ UNCHANGED <<portVars, ips_locked, thr, kmsg, panic, sent>>
  BY DEF ipc_pset_destroy
<1>2. Home' = Home /\ OnlyTaskPortsInSets'
  BY <1>1, PortsStay DEF portVars
<1>3. QOK(ipc_mqueue_changed(QState, s, "PORT_DIED"), Home', thr, kmsg)
  BY <1>0, <1>2, QStateOK, ChangedOK
<1>4. QueuePart' /\ ThreadsOK' /\ MsgsOK' /\ PanicOK'
  BY <1>1, <1>3, QueuesOnly
<1>5. PortsOK' /\ SetsOK'
  BY <1>0, <1>1 DEF PortsOK, SetsOK, portVars
<1> QED
  BY <1>2, <1>4, <1>5, Parts

\* ipc_port_set_qlimit keeps the invariant.
LEMMA SetQlimitPreserves ==
  ASSUME IInv, NEW p \in Ports, NEW n \in Qlimits, ipc_port_set_qlimit(p, n)
  PROVE  IInv'
<1> DEFINE b == ip_blocked[p]
           k == IF n > ip_qlimit[p] THEN Smaller(n - ip_qlimit[p], Len(b)) ELSE 0
<1>0. /\ PortsOK /\ SetsOK /\ QueuesOK /\ ThreadsOK /\ MsgsOK /\ PanicOK
      /\ ith \in [Threads -> IthState] /\ n \in Nat /\ ip_qlimit[p] \in Nat
      /\ b \in Seq(Threads)
  BY InputsAssumption DEF IInv, TypeOK, QueuesOK, PortsOK
<1>1. /\ ip_qlimit' = [ip_qlimit EXCEPT ![p] = n]
      /\ ip_blocked' = [ip_blocked EXCEPT ![p] = SubSeq(b, k + 1, Len(b))]
      /\ ith' = Roused(ith, {b[i] : i \in 1..k}, "SUCCESS")
      /\ UNCHANGED <<ip_receiver, ip_pset, ip_msgcount, setVars, imq_messages,
                     imq_threads, ip_seqno, taken, thr, kmsg, panic, sent>>
  BY DEF ipc_port_set_qlimit
<1>2. k \in 0..Len(b)
  BY <1>0, LenProperties DEF Smaller
<1> HIDE DEF k, b
<1>3. SubSeq(b, k + 1, Len(b)) \in Seq(Threads)
  BY <1>0, <1>2, SuffixRange
<1>4. ith' \in [Threads -> IthState] /\ \A u \in Threads : ith'[u].kmsg = ith[u].kmsg
  <2> DEFINE T == {b[i] : i \in 1..k}
  <2>1. ith' = Roused(ith, T, "SUCCESS")
    BY <1>1, Zenon
  <2> HIDE DEF T
  <2> QED
    BY <1>0, <2>1, RousedType, Zenon
<1>5. QOK(QState, Home, thr', kmsg')
  BY <1>1, QStateOK
<1>6. QueuePart' /\ OnlyTaskPortsInSets'
  BY <1>1, <1>4, <1>5, WakeOnly
<1>7. PortsOK' /\ SetsOK' /\ ThreadsOK' /\ MsgsOK' /\ PanicOK'
  BY <1>0, <1>1, <1>3, Zenon DEF PortsOK, SetsOK, ThreadsOK, MsgsOK, PanicOK, setVars
<1> QED
  BY <1>6, <1>7, Parts

\* ipc_port_set_seqno keeps the invariant, in each of its three cases.
LEMMA SetSeqnoPreserves ==
  ASSUME IInv, NEW p \in Ports, NEW n \in Seqnos, ipc_port_set_seqno(p, n)
  PROVE  IInv'
<1> DEFINE s == ip_pset[p]
<1>0. PortsOK /\ SetsOK /\ n \in Nat /\ s \in Psets \cup {NULL}
  BY InputsAssumption DEF IInv, TypeOK, PortsOK
<1>1. /\ UNCHANGED <<ip_receiver, ip_msgcount, ip_qlimit, ip_blocked, ips_active, thr,
                     kmsg, panic, sent>>
      /\ ip_receiver[p] = "task"
  BY DEF ipc_port_set_seqno
<1>2. CASE /\ ip_seqno' = [ip_seqno EXCEPT ![p] = n]
           /\ \/ UNCHANGED ips_locked
              \/ s # NULL /\ ips_locked' = [ips_locked EXCEPT ![s] = TRUE]
           /\ UNCHANGED <<ip_pset, imq_messages, imq_threads, ith, taken>>
  <2>1. Home' = Home /\ OnlyTaskPortsInSets'
    BY <1>1, <1>2, PortsStay
  <2>2. Becomes([QState EXCEPT !.seqno[p] = n])
    BY <1>2 DEF Becomes, QState
  <2>3. QOK([QState EXCEPT !.seqno[p] = n], Home', thr, kmsg)
    BY <1>0, <2>1, QStateOK, SeqnoOK, Zenon
  <2>4. QueuePart' /\ ThreadsOK' /\ MsgsOK' /\ PanicOK'
    BY <1>1, <2>2, <2>3, QueuesOnly
  <2>5. PortsOK' /\ SetsOK'
    BY <1>0, <1>1, <1>2, Zenon DEF PortsOK, SetsOK
  <2> QED
    BY <2>1, <2>4, <2>5, Parts
<1>3. CASE /\ s # NULL
           /\ ip_pset' = [ip_pset EXCEPT ![p] = NULL]
           /\ Becomes([ipc_pset_remove(QState, s, p) EXCEPT !.seqno[p] = n])
           /\ UNCHANGED ips_locked
  <2> DEFINE R == ipc_pset_remove(QState, s, p)
  <2>1. Home' = [Home EXCEPT ![p] = p]
    BY <1>3, HomeMoves, Zenon
  <2>2. QOK(R, Home', thr, kmsg)
    BY <1>3, <2>1, RemoveOK, Zenon
  <2>3. Becomes([R EXCEPT !.seqno[p] = n])
    BY <1>3
  <2> HIDE DEF R
  <2>4. QOK([R EXCEPT !.seqno[p] = n], Home', thr, kmsg)
    BY <1>0, <2>2, SeqnoOK
  <2>5. QueuePart' /\ ThreadsOK' /\ MsgsOK' /\ PanicOK'
    BY <1>1, <2>3, <2>4, QueuesOnly
  <2>6. PortsOK' /\ SetsOK' /\ OnlyTaskPortsInSets'
    BY <1>0, <1>1, <1>3 DEF PortsOK, SetsOK, OnlyTaskPortsInSets, IInv
  <2> QED
    BY <2>5, <2>6, Parts
<1> QED
  BY <1>2, <1>3 DEF ipc_port_set_seqno

\* Taking a receive right into a message keeps the invariant.
LEMMA MoveReceivePreserves ==
  ASSUME IInv, NEW p \in Ports, MoveReceive(p)
  PROVE  IInv'
<1>0. PortsOK /\ SetsOK
  BY DEF IInv, TypeOK
<1>1. /\ ip_receiver' = [ip_receiver EXCEPT ![p] = "limbo"]
      /\ ip_pset' = [ip_pset EXCEPT ![p] = NULL]
      /\ Becomes(ipc_port_clear_receiver(QState, p))
      /\ UNCHANGED <<ip_msgcount, ip_qlimit, ip_blocked, setVars, thr, kmsg, panic, sent>>
  BY DEF MoveReceive
<1>2. Home' = [Home EXCEPT ![p] = p]
  BY <1>1, HomeMoves, Zenon
<1>3. QOK(ipc_port_clear_receiver(QState, p), Home', thr, kmsg)
  BY <1>2, ClearReceiverOK, Zenon
<1>4. QueuePart' /\ ThreadsOK' /\ MsgsOK' /\ PanicOK'
  BY <1>1, <1>3, QueuesOnly
<1>5. PortsOK' /\ SetsOK' /\ OnlyTaskPortsInSets'
  BY <1>0, <1>1 DEF PortsOK, SetsOK, OnlyTaskPortsInSets, IInv, setVars
<1> QED
  BY <1>4, <1>5, Parts

\* Giving a receive right to a task keeps the invariant.
LEMMA CopyoutReceivePreserves ==
  ASSUME IInv, NEW p \in Ports, CopyoutReceive(p)
  PROVE  IInv'
<1>0. PortsOK /\ SetsOK
  BY DEF IInv, TypeOK
<1>1. /\ ip_receiver' = [ip_receiver EXCEPT ![p] = "task"]
      /\ UNCHANGED <<ip_pset, ip_msgcount, ip_qlimit, ip_blocked, setVars, qVars, thr,
                     kmsg, panic, sent>>
  BY DEF CopyoutReceive
<1>2. Becomes(QState) /\ Home' = Home
  BY <1>1, HomeStays DEF Becomes, QState, qVars
<1>3. QueuePart' /\ ThreadsOK' /\ MsgsOK' /\ PanicOK'
  BY <1>1, <1>2, QStateOK, QueuesOnly
<1>4. PortsOK' /\ SetsOK' /\ OnlyTaskPortsInSets'
  BY <1>0, <1>1 DEF PortsOK, SetsOK, OnlyTaskPortsInSets, IInv, setVars
<1> QED
  BY <1>3, <1>4, Parts

\* ipc_port_destroy up to ip_unlock keeps the invariant.
LEMMA PortDestroyPreserves ==
  ASSUME IInv, NEW t \in Threads, NEW p \in Ports, ipc_port_destroy(t, p)
  PROVE  IInv'
<1> DEFINE S == IF ip_receiver[p] = "task" THEN ipc_port_clear_receiver(QState, p) ELSE QState
           i == Roused(S.ith, Range(ip_blocked[p]), "SUCCESS")
           l == [Idle EXCEPT !.pc = "drain", !.obj = p]
<1>0. /\ PortsOK /\ SetsOK /\ ThreadsOK /\ MsgsOK /\ PanicOK /\ thr \in [Threads -> ThrState]
  BY DEF IInv, TypeOK, ThreadsOK
<1>1. /\ ip_receiver' = [ip_receiver EXCEPT ![p] = "dead"]
      /\ ip_pset' = [ip_pset EXCEPT ![p] = NULL]
      /\ ip_blocked' = [ip_blocked EXCEPT ![p] = <<>>]
      /\ Becomes([S EXCEPT !.ith = i])
      /\ thr' = [thr EXCEPT ![t] = l]
      /\ UNCHANGED <<ip_msgcount, ip_qlimit, setVars, kmsg, panic, sent>>
  BY DEF ipc_port_destroy
<1>2. Home' = [Home EXCEPT ![p] = p]
  BY <1>1, HomeMoves, Zenon
<1>3. QOK(S, Home', thr, kmsg)
  <2>1. CASE ip_receiver[p] = "task"
    BY <2>1, <1>2, ClearReceiverOK, Zenon
  <2>2. CASE ip_receiver[p] # "task"
    <3>1. Home' = Home
      BY <2>2, <1>2, Zenon DEF Home, QueueOf, IInv, OnlyTaskPortsInSets
    <3> QED
      BY <2>2, <3>1, QStateOK
  <2> QED
    BY <2>1, <2>2
<1>4. l \in ThrState /\ LocalsOK(l) /\ l.kmsg = NULL /\ l.pc = "drain"
  BY Zenon DEF Idle, ThrState, LocalsOK, MaybeMsg, Queues
<1> HIDE DEF S, l
<1>5. i \in [Threads -> IthState] /\ \A u \in Threads : i[u].kmsg = S.ith[u].kmsg
  <2>1. S.ith \in [Threads -> IthState]
    BY <1>3 DEF QOK, QTyped
  <2> QED
    BY <2>1, RousedType
<1> HIDE DEF i
<1>6. QOK([S EXCEPT !.ith = i], Home', thr, kmsg)
  BY <1>3, <1>5, IthOK
<1>7. QOK([S EXCEPT !.ith = i], Home', thr', kmsg')
  BY <1>0, <1>1, <1>4, <1>6, LetGo, Zenon
<1>8. QueuePart' /\ ThreadsOK'
  BY <1>0, <1>1, <1>4, <1>7, InstallQ, ThreadSet, Zenon
<1>9. PortsOK' /\ SetsOK' /\ OnlyTaskPortsInSets' /\ MsgsOK' /\ PanicOK'
  <2>1. ip_blocked' \in [Ports -> Seq(Threads)]
    BY <1>0, <1>1 DEF PortsOK
  <2> QED
    BY <1>0, <1>1, <2>1, Zenon
       DEF PortsOK, SetsOK, OnlyTaskPortsInSets, IInv, MsgsOK, PanicOK, setVars
<1> QED
  BY <1>8, <1>9, Parts

\* Destroying one queued message of a dead port keeps the invariant.
LEMMA DrainPreserves ==
  ASSUME IInv, NEW t \in Threads, DrainQueue(t)
  PROVE  IInv'
<1> DEFINE p == thr[t].obj
           m == Head(imq_messages[p])
           T == [QState EXCEPT !.msgs[p] = Tail(@)]
<1>0. /\ PortsOK /\ SetsOK /\ QueuesOK /\ ThreadsOK /\ MsgsOK /\ PanicOK
      /\ thr \in [Threads -> ThrState] /\ p \in Ports /\ p \in Queues
      /\ thr[t].kmsg = NULL /\ thr[t].pc = "drain"
  BY DEF IInv, TypeOK, ThreadsOK, LocalsOK, DrainQueue, Queues
<1>1. UNCHANGED <<portVars, setVars, imq_threads, ith, ip_seqno, taken, panic, sent>>
  BY Zenon DEF DrainQueue
<1>2. Home' = Home /\ OnlyTaskPortsInSets' /\ PortsOK' /\ SetsOK' /\ PanicOK'
  BY <1>0, <1>1, PortsStay, Zenon DEF PortsOK, SetsOK, PanicOK, portVars, setVars
<1>3. QState.msgs = imq_messages /\ QOK(QState, Home', thr, kmsg)
  BY <1>2, QStateOK DEF QState
<1>4. CASE /\ imq_messages[p] # <<>> /\ Dispose(m)
           /\ imq_messages' = [imq_messages EXCEPT ![p] = Tail(@)]
           /\ UNCHANGED thr
  <2>1. [thr EXCEPT ![t] = thr[t]] = thr
    BY <1>0
  <2> HIDE DEF p
  <2>2. QOK(T, Home', thr, kmsg) /\ \A r \in Queues : m \notin Range(T.msgs[r])
    <3> DEFINE l == thr[t]
    <3>1. l.kmsg = NULL /\ l.pc \notin {"sendwait", "reply"} /\ QState.msgs[p] # <<>>
      BY <1>0, <1>3, <1>4
    <3> HIDE DEF l
    <3>2. /\ QOK(T, Home', [thr EXCEPT ![t] = l], kmsg)
          /\ \A r \in Queues : Head(QState.msgs[p]) \notin Range(T.msgs[r])
      BY <1>0, <1>3, <3>1, TakeHead, Zenon
    <3> QED
      BY <1>3, <2>1, <3>2 DEF l
  <2>3. m \in Msgs /\ kmsg[m].st = "live"
    <3>1. imq_messages[p] \in Seq(Msgs)
      BY <1>0 DEF QueuesOK
    <3>2. m \in Range(QState.msgs[p])
      BY <3>1, <1>3, <1>4, TailRange
    <3> QED
      BY <3>2, <1>0, <1>3, Queued, SMTT(30)
  <2>4. MsgsOK' /\ kmsg'[m].st = "gone" /\ \A x \in Msgs \ {m} : kmsg'[x] = kmsg[x]
    BY <1>0, <1>1, <1>4, <2>3 DEF MsgsOK, Dispose
  <2>5. Becomes(T)
    BY <1>1, <1>4 DEF Becomes, QState
  <2> HIDE DEF T, m
  <2>6. QOK(T, Home', thr', kmsg')
    BY <1>4, <2>2, <2>4, KmsgOK
  <2>7. QueuePart' /\ ThreadsOK'
    BY <1>0, <1>4, <2>5, <2>6, InstallQ DEF ThreadsOK
  <2> QED
    BY <1>2, <2>4, <2>7, Parts
<1>5. CASE thr' = [thr EXCEPT ![t] = Idle] /\ UNCHANGED <<imq_messages, kmsg>>
  <2>1. Becomes(QState)
    BY <1>1, <1>5 DEF Becomes, QState
  <2>2. QOK(QState, Home', thr', kmsg')
    BY <1>0, <1>3, <1>5, IdleOK, LetGo, Zenon
  <2>3. QueuePart' /\ ThreadsOK' /\ MsgsOK'
    BY <1>0, <1>1, <1>5, <2>1, <2>2, InstallQ, GoesIdle, Zenon DEF MsgsOK
  <2> QED
    BY <1>2, <2>3, Parts
<1> QED
  BY <1>4, <1>5 DEF DrainQueue

-----------------------------------------------------------------------------
(* The invariant holds initially, and every step preserves it.             *)

\* The invariant holds initially.
LEMMA InitEstablishes ==
  ASSUME Init
  PROVE  IInv
<1> USE DEF Init
<1>1. /\ PortsOK /\ SetsOK /\ PanicOK /\ MsgsOK
  BY InputsAssumption, SMTT(30) DEF PortsOK, SetsOK, PanicOK, MsgsOK
<1>2. QueuesOK
  BY DEF QueuesOK, IthState, MaybeMsg
<1>3. ThreadsOK
  BY IdleOK DEF ThreadsOK
<1>4. QueueDiscipline
  BY DEF QueueDiscipline
<1>5. \A q \in Queues : Range(imq_messages[q]) = {} /\ IsInjective(imq_messages[q])
  BY DEF Range, IsInjective
<1>6. RightQueue
  BY <1>5 DEF RightQueue
<1>7. \A t \in Threads : Claims(t) = {} /\ thr[t].pc = "idle"
  BY IdleOK DEF Claims
<1>8. Unshared
  BY <1>5, <1>7 DEF Unshared
<1>9. OnlyTaskPortsInSets
  BY DEF OnlyTaskPortsInSets
<1> QED
  BY <1>1, <1>2, <1>3, <1>4, <1>6, <1>8, <1>9 DEF IInv, TypeOK

\* A stuttering step keeps the invariant.
LEMMA Stutters ==
  ASSUME IInv, UNCHANGED vars
  PROVE  IInv'
<1>1. Becomes(QState) /\ UNCHANGED <<thr, kmsg, panic, sent, ip_receiver, ip_pset>>
      /\ UNCHANGED <<portVars, setVars>>
  BY DEF vars, qVars, portVars, Becomes, QState
<1>2. Home' = Home /\ OnlyTaskPortsInSets'
  BY <1>1, PortsStay
<1>3. QueuePart' /\ ThreadsOK' /\ MsgsOK' /\ PanicOK'
  BY <1>1, <1>2, QStateOK, QueuesOnly
<1>4. PortsOK' /\ SetsOK'
  BY <1>1 DEF IInv, TypeOK, PortsOK, SetsOK, portVars, setVars
<1> QED
  BY <1>2, <1>3, <1>4, Parts

\* Every step keeps the invariant: one case per action.
LEMMA NextPreserves ==
  ASSUME IInv, [Next]_vars
  PROVE  IInv'
<1>1. ASSUME NEW t \in Threads, Step(t) PROVE IInv'
  BY <1>1, SendReplyPreserves, DeliverGoPreserves, SendContinuePreserves, RelockedPreserves,
     ReceiveContinuePreserves, FinishReceivePreserves, DrainPreserves DEF Step
<1>2. ASSUME NEW t \in Threads, Call(t) PROVE IInv'
  BY <1>2, SendPreserves, ReceivePreserves, OverwritePreserves, PortDestroyPreserves DEF Call
<1>3. ASSUME NEW t \in Threads, thread_timeout(t) \/ thread_abort(t) PROVE IInv'
  BY <1>3, ClearWaitPreserves DEF thread_timeout, thread_abort
<1>4. CASE PortCall
  BY <1>4, PsetMovePreserves, PsetDestroyPreserves, SetQlimitPreserves, SetSeqnoPreserves,
     MoveReceivePreserves, CopyoutReceivePreserves DEF PortCall
<1>5. CASE UNCHANGED vars
  BY <1>5, Stutters
<1> QED
  BY <1>1, <1>2, <1>3, <1>4, <1>5 DEF Next

\* The inductive invariant of the message queues.
LEMMA Invariance == Spec => []IInv
<1>1. Init => IInv
  BY InitEstablishes
<1>2. IInv /\ [Next]_vars => IInv'
  BY NextPreserves
<1> QED
  BY <1>1, <1>2, PTL DEF Spec

-----------------------------------------------------------------------------
\* Every variable of the message queues keeps its type, and the locals of a
\* thread are what the code at its point of control expects, whatever the
\* interleaving of ipc_mqueue_send, ipc_mqueue_receive and the port calls.
THEOREM TypeCorrect == Spec => []TypeOK
<1>1. IInv => TypeOK
  BY DEF IInv
<1> QED
  BY <1>1, Invariance, PTL

\* No receiver ever waits on a queue that holds a message (the asserts of
\* ipc_mqueue_deliver and ipc_mqueue_move).
THEOREM Discipline == Spec => []QueueDiscipline
<1>1. IInv => QueueDiscipline
  BY DEF IInv
<1> QED
  BY <1>1, Invariance, PTL

\* Every queued message exists and is on the queue a receiver for its port
\* looks at, whatever ipc_pset_move, ipc_pset_destroy, ipc_mqueue_copyin and
\* ipc_port_clear_receiver did to the port's membership.
THEOREM MessagesAreReachable == Spec => []RightQueue
<1>1. IInv => RightQueue
  BY DEF IInv
<1> QED
  BY <1>1, Invariance, PTL

\* No message is ever on two queues, twice on one, or within reach of two
\* threads, so none is received twice and none is freed while another party
\* can reach it.
THEOREM NoSharing == Spec => []Unshared
<1>1. IInv => Unshared
  BY DEF IInv
<1> QED
  BY <1>1, Invariance, PTL

=============================================================================
