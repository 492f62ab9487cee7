-------------------------- MODULE IpcMqueueLoops ---------------------------
(***************************************************************************)
(* The loops of ipc_mqueue_receive and ipc_mqueue_send, and the actions    *)
(* that send, preserve the invariant of IpcMqueueLemmas.                   *)
(***************************************************************************)
EXTENDS IpcMqueueLemmas

\* The invariant after a step, from its parts.
QueuePart == QueuesOK /\ QueueDiscipline /\ RightQueue /\ Unshared

\* IInv put together from its queue part and the types of the rest.
LEMMA Parts ==
  ASSUME PortsOK', SetsOK', ThreadsOK', MsgsOK', PanicOK', QueuePart', OnlyTaskPortsInSets'
  PROVE  IInv'
BY DEF IInv, TypeOK, QueuePart

\* Install, with its conclusion as one fact.
LEMMA InstallQ ==
  ASSUME NEW S, Becomes(S), QOK(S, Home', thr', kmsg')
  PROVE  QueuePart'
BY Install DEF QueuePart

\* Steps that change no port, no set.
LEMMA PortsStay ==
  ASSUME IInv, UNCHANGED <<ip_receiver, ip_pset>>
  PROVE  OnlyTaskPortsInSets' /\ Home' = Home
BY HomeStays DEF IInv, OnlyTaskPortsInSets

-----------------------------------------------------------------------------
\* One turn of the receive loop, from any sound queue state.
LEMMA ReceiveLoopOK ==
  ASSUME NEW S, NEW t \in Threads, NEW q \in Queues,
         NEW opt \in {"block", "timeout", "poll", "always"},
         ThreadsOK, PanicOK, QOK(S, Home', thr, kmsg), UNCHANGED kmsg,
         ReceiveLoop(t, q, opt, S)
  PROVE  ThreadsOK' /\ PanicOK' /\ QueuePart'
<1>0. /\ QTyped(S) /\ S.msgs \in [Queues -> Seq(Msgs)] /\ S.thrs \in [Queues -> Seq(Threads)]
      /\ S.ith \in [Threads -> IthState]
      /\ S.seqno \in [Ports -> Nat] /\ S.taken \in [Ports -> Seq(Msgs)]
      /\ thr \in [Threads -> ThrState]
  BY DEF QOK, QTyped, ThreadsOK
<1>1. CASE S.msgs[q] # <<>>
  <2> DEFINE m == Head(S.msgs[q])
             p == kmsg[m].dest
             l == [Idle EXCEPT !.pc = "finish", !.kmsg = m, !.seqno = S.seqno[p]]
             T1 == [S EXCEPT !.msgs[q] = Tail(@)]
             T2 == [T1 EXCEPT !.seqno[p] = S.seqno[p] + 1]
             T3 == [T2 EXCEPT !.taken[p] = Append(@, m)]
  <2>1. m \in Range(S.msgs[q])
    BY <1>0, <1>1, TailRange
  <2>2. m \in Msgs /\ p \in Ports
    BY <2>1, Queued
  <2>3. Becomes([S EXCEPT !.msgs[q] = Tail(@), !.seqno[p] = @ + 1,
                          !.taken[p] = Append(@, m)])
        /\ thr' = [thr EXCEPT ![t] = l] /\ UNCHANGED panic
    BY <1>1 DEF ReceiveLoop
  <2>4. Becomes(T3)
    BY <2>3, <1>0, Zenon DEF QTyped, Becomes
  <2>5. l \in ThrState /\ LocalsOK(l) /\ l.kmsg = m /\ l.pc = "finish"
    <3>1. S.seqno[p] \in Nat
      BY <1>0, <2>2
    <3> QED
      BY <2>2, <3>1, Zenon DEF Idle, ThrState, LocalsOK, MaybeMsg
  <2>6. S.seqno[p] + 1 \in Nat
    <3>1. S.seqno[p] \in Nat
      BY <1>0, <2>2
    <3> HIDE DEF p
    <3> QED
      BY <3>1, SMTT(30)
  <2> HIDE DEF m, p, l
  <2>7. QOK(T1, Home', thr', kmsg')
    BY <1>0, <1>1, <2>3, <2>5, TakeHead, Zenon DEF m
  <2> HIDE DEF T1
  <2>8. QOK(T2, Home', thr', kmsg')
    BY <2>2, <2>6, <2>7, SeqnoOK, Zenon
  <2> HIDE DEF T2
  <2>9. QOK(T3, Home', thr', kmsg')
    BY <2>2, <2>8, TakenOK, Zenon
  <2> HIDE DEF T3
  <2>10. QueuePart'
    BY <2>4, <2>9, InstallQ
  <2>11. ThreadsOK'
    BY <2>3, <2>5, ThreadSet, Zenon
  <2> QED
    BY <2>3, <2>10, <2>11, Zenon DEF PanicOK
<1>2. CASE S.msgs[q] = <<>> /\ opt = "poll"
  <2>1. Becomes(S) /\ thr' = [thr EXCEPT ![t] = Idle] /\ UNCHANGED panic
    BY <1>2 DEF ReceiveLoop
  <2>2. QOK(S, Home', thr', kmsg')
    BY <1>0, <2>1, IdleOK, LetGo, Zenon
  <2> QED
    BY <2>1, <2>2, InstallQ, GoesIdle, Zenon DEF PanicOK
<1>3. CASE S.msgs[q] = <<>> /\ opt # "poll"
  <2>1. CASE Tangles(t, S.thrs[q], OtherThanReceivers(q, S))
    <3>1. panic' = "tangled" /\ Becomes(S) /\ UNCHANGED thr
      BY <1>3, <2>1 DEF ReceiveLoop
    <3>2. QOK(S, Home', thr', kmsg')
      BY <3>1
    <3> QED
      BY <3>1, <3>2, InstallQ, Zenon DEF PanicOK, ThreadsOK
  <2>2. CASE ~Tangles(t, S.thrs[q], OtherThanReceivers(q, S))
    <3> DEFINE st == IF opt = "timeout" THEN "RCV_IN_PROGRESS_TIMED" ELSE "RCV_IN_PROGRESS"
               l == [Idle EXCEPT !.pc = "rcvwait", !.obj = q, !.opt = opt]
               w == Enqueued(t, S.thrs[q])
               i == [S.ith EXCEPT ![t] = WillWait(@, st)]
               T1 == [S EXCEPT !.thrs[q] = w]
               T2 == [T1 EXCEPT !.ith = i]
    <3>1. /\ Becomes([S EXCEPT !.thrs[q] = Enqueued(t, @), !.ith[t] = WillWait(@, st)])
          /\ thr' = [thr EXCEPT ![t] = l] /\ UNCHANGED panic
      BY <1>3, <2>2 DEF ReceiveLoop
    <3>2. Becomes(T2) /\ T1.ith = S.ith
      BY <3>1, <1>0 DEF QTyped, Becomes
    <3>3. l \in ThrState /\ LocalsOK(l) /\ l.kmsg = NULL /\ l.pc = "rcvwait"
      BY Zenon DEF Idle, ThrState, LocalsOK, MaybeMsg
    <3>4. w \in Seq(Threads)
      <4>1. S.thrs[q] \in Seq(Threads)
        BY <1>0
      <4> QED
        BY <4>1, AppendProperties DEF Enqueued
    <3>5. i \in [Threads -> IthState] /\ \A u \in Threads : i[u].kmsg = S.ith[u].kmsg
      <4>1. S.ith[t] \in IthState
        BY <1>0
      <4>2. WillWait(S.ith[t], st) \in IthState /\ WillWait(S.ith[t], st).kmsg = S.ith[t].kmsg
        BY <4>1, Zenon DEF WillWait, IthState
      <4> HIDE DEF st
      <4> QED
        BY <1>0, <4>2
    <3> HIDE DEF l, w, i
    <3>6. QOK(T1, Home', thr, kmsg)
      BY <1>3, <3>4, ThrsOK, Zenon
    <3> HIDE DEF T1
    <3>7. QOK(T2, Home', thr, kmsg)
      BY <3>2, <3>5, <3>6, IthOK
    <3> HIDE DEF T2
    <3>8. QOK(T2, Home', thr', kmsg')
      BY <1>0, <3>1, <3>3, <3>7, LetGo, Zenon
    <3>9. QueuePart'
      BY <3>2, <3>8, InstallQ
    <3>10. ThreadsOK'
      BY <3>1, <3>3, ThreadSet, Zenon
    <3> QED
      BY <3>1, <3>9, <3>10, Zenon DEF PanicOK
  <2> QED
    BY <2>1, <2>2
<1> QED
  BY <1>1, <1>2, <1>3

-----------------------------------------------------------------------------
(* The send loop: m is the sender's own, or nobody's yet.                  *)

SendersOwn(t, m) ==
  /\ m \in Msgs
  /\ \A q \in Queues : m \notin Range(imq_messages[q])
  /\ \A u \in Threads : m # ith[u].kmsg
  /\ \A u \in Threads \ {t} : m # thr[u].kmsg

\* A message that is free, or that t is blocked with.
LEMMA OwnMessage ==
  ASSUME IInv, NEW t \in Threads, NEW m \in Msgs,
         \/ kmsg[m].st = "free"
         \/ thr[t].pc \in {"sendwait", "reply"} /\ m = thr[t].kmsg
  PROVE  SendersOwn(t, m)
<1>0. m # NULL
  BY ObjectsAssumption
<1>1. CASE kmsg[m].st = "free"
  BY <1>0, <1>1 DEF IInv, RightQueue, Unshared, Claims, SendersOwn
<1>2. CASE thr[t].pc \in {"sendwait", "reply"} /\ m = thr[t].kmsg
  <2>1. m \in Claims(t)
    BY <1>0, <1>2 DEF Claims
  <2>2. \A u \in Threads \ {t} : m \notin Claims(u)
    BY <2>1 DEF IInv, Unshared
  <2>3. m # ith[t].kmsg
    BY <1>2 DEF IInv, Unshared
  <2> QED
    BY <1>0, <2>1, <2>2, <2>3 DEF IInv, Unshared, Claims, SendersOwn
<1> QED
  BY <1>1, <1>2

\* A message gets a state and a destination.
LEMMA MsgSet ==
  ASSUME MsgsOK, NEW m \in Msgs, NEW p \in Ports, NEW st \in {"live", "gone"},
         kmsg' = [kmsg EXCEPT ![m] = [st |-> st, dest |-> p]],
         sent' \in [Ports -> Seq(Msgs)]
  PROVE  /\ MsgsOK'
         /\ kmsg'[m].st = st /\ kmsg'[m].dest = p
         /\ \A x \in Msgs \ {m} : kmsg'[x] = kmsg[x]
BY DEF MsgsOK

\* The sender of m lets go of it, and nobody has it.
LEMMA Released ==
  ASSUME IInv, NEW t \in Threads, NEW m, SendersOwn(t, m), NEW l,
         l.kmsg = NULL, l.pc \notin {"sendwait", "reply"},
         NEW km, \A x \in Msgs \ {m} : km[x] = kmsg[x], km[m].st # "free"
  PROVE  LET th == [thr EXCEPT ![t] = l]
         IN QOK(QState, Home, th, km) /\ Loose(QState, th, m)
<1> DEFINE th == [thr EXCEPT ![t] = l]
<1>1. QOK(QState, Home, thr, kmsg) /\ thr \in [Threads -> ThrState]
  BY QStateOK DEF IInv, TypeOK, ThreadsOK
<1>2. QOK(QState, Home, th, kmsg)
  BY <1>1, LetGo, Zenon
<1>3. th[t] = l /\ \A u \in Threads \ {t} : th[u] = thr[u]
  BY <1>1
<1> HIDE DEF th
<1>4. QState.msgs = imq_messages /\ QState.ith = ith
  BY DEF QState
<1>5. Loose(QState, th, m)
  BY <1>3, <1>4, ObjectsAssumption DEF Loose, ClaimsOf, SendersOwn
<1>6. \A q \in Queues : m \notin Range(QState.msgs[q])
  BY <1>4 DEF SendersOwn
<1>7. QOK(QState, Home, th, km)
  BY <1>2, <1>6, KmsgOK
<1> QED
  BY <1>5, <1>7 DEF th

\* The send fails and the message is destroyed.
LEMMA SendFails ==
  ASSUME IInv, NEW t \in Threads, NEW p \in Ports, NEW m, SendersOwn(t, m),
         kmsg' = [kmsg EXCEPT ![m] = [st |-> "gone", dest |-> p]],
         thr' = [thr EXCEPT ![t] = Idle],
         UNCHANGED <<portVars, setVars, qVars, panic, sent>>
  PROVE  IInv'
<1>1. /\ MsgsOK' /\ kmsg'[m].st = "gone" /\ \A x \in Msgs \ {m} : kmsg'[x] = kmsg[x]
  <2>1. MsgsOK /\ m \in Msgs /\ sent' \in [Ports -> Seq(Msgs)]
    BY DEF IInv, TypeOK, MsgsOK, SendersOwn
  <2> QED
    BY <2>1, MsgSet, Zenon
<1>2. QOK(QState, Home, thr', kmsg')
  BY <1>1, IdleOK, Released, Zenon
<1>3. Home' = Home /\ OnlyTaskPortsInSets'
  BY PortsStay DEF portVars
<1>4. Becomes(QState)
  BY DEF Becomes, QState, qVars
<1>5. QueuePart'
  BY <1>2, <1>3, <1>4, InstallQ, Zenon
<1>6. ThreadsOK'
  BY GoesIdle, Zenon DEF IInv, TypeOK
<1>7. PortsOK' /\ SetsOK' /\ PanicOK'
  BY Zenon DEF IInv, TypeOK, PortsOK, SetsOK, PanicOK, portVars, setVars
<1> QED
  BY <1>1, <1>3, <1>5, <1>6, <1>7, Parts

\* ipc_mqueue_deliver: the message is queued where nobody waits, or handed
\* to the first who does.
LEMMA DeliverOK ==
  ASSUME IInv, NEW t \in Threads, NEW p \in Ports, NEW m, SendersOwn(t, m),
         ipc_mqueue_deliver(t, p, m),
         kmsg' = [kmsg EXCEPT ![m] = [st |-> "live", dest |-> p]],
         UNCHANGED <<setVars, ip_receiver, ip_pset, ip_qlimit, ip_blocked, panic>>
  PROVE  IInv'
<1> DEFINE q == QueueOf(p)
           r == Head(imq_threads[q])
           n == ip_seqno[p]
<1>0. /\ PortsOK /\ SetsOK /\ QueuesOK /\ ThreadsOK /\ MsgsOK /\ PanicOK
      /\ m \in Msgs /\ q \in Queues /\ Home[p] = q
  BY DEF IInv, TypeOK, PortsOK, QueueOf, Queues, SendersOwn, Home
<1>1. /\ MsgsOK' /\ kmsg'[m].st = "live" /\ kmsg'[m].dest = p
      /\ \A x \in Msgs \ {m} : kmsg'[x] = kmsg[x]
  <2>1. sent[p] \in Seq(Msgs)
    BY <1>0 DEF MsgsOK
  <2>2. Append(sent[p], m) \in Seq(Msgs)
    BY <2>1, <1>0, AppendProperties
  <2>3. sent' \in [Ports -> Seq(Msgs)]
    BY <2>2, <1>0 DEF ipc_mqueue_deliver, MsgsOK
  <2> QED
    BY <2>3, <1>0, MsgSet, Zenon
<1>2. Home' = Home /\ OnlyTaskPortsInSets'
  BY PortsStay
<1>3. PortsOK' /\ SetsOK' /\ PanicOK'
  <2>1. ip_msgcount' \in [Ports -> Int]
    BY <1>0 DEF ipc_mqueue_deliver, CountAfterDeliver, PortsOK
  <2> QED
    BY <2>1, <1>0, Zenon DEF PortsOK, SetsOK, PanicOK, setVars
<1>4. QState.thrs = imq_threads /\ QState.ith = ith /\ QTyped(QState)
  BY <1>0 DEF QState, QTyped, QueuesOK
<1>5. CASE imq_threads[q] = <<>>
  <2>1. /\ imq_messages' = [imq_messages EXCEPT ![q] = Append(@, m)]
        /\ thr' = [thr EXCEPT ![t] = Idle]
        /\ UNCHANGED <<imq_threads, ith, ip_seqno, taken>>
    BY <1>5 DEF ipc_mqueue_deliver
  <2>2. QOK(QState, Home, thr', kmsg') /\ Loose(QState, thr', m)
    BY <1>1, <2>1, IdleOK, Released, Zenon
  <2>3. QOK([QState EXCEPT !.msgs[q] = Append(@, m)], Home, thr', kmsg')
    <3> HIDE DEF q
    <3> QED
      BY <1>0, <1>1, <1>4, <1>5, <2>2, PutLast, Zenon
  <2>4. Becomes([QState EXCEPT !.msgs[q] = Append(@, m)])
    BY <2>1 DEF Becomes, QState
  <2>5. QueuePart'
    BY <1>2, <2>3, <2>4, InstallQ, Zenon
  <2>6. ThreadsOK'
    BY <1>0, <2>1, GoesIdle, Zenon
  <2> QED
    BY <1>1, <1>2, <1>3, <2>5, <2>6, Parts
<1>6. CASE imq_threads[q] # <<>>
  <2> DEFINE l == IF MP THEN [Idle EXCEPT !.pc = "go", !.go = r] ELSE Idle
             x == IF MP THEN Handed(ith[r], m, n) ELSE Gone(Handed(ith[r], m, n))
             T1 == [QState EXCEPT !.ith[r] = x]
             T2 == [T1 EXCEPT !.thrs[q] = Tail(imq_threads[q])]
             T3 == [T2 EXCEPT !.seqno[p] = n + 1]
             T4 == [T3 EXCEPT !.taken[p] = Append(@, m)]
  <2>1. /\ imq_threads' = [imq_threads EXCEPT ![q] = Tail(@)]
        /\ ip_seqno' = [ip_seqno EXCEPT ![p] = n + 1]
        /\ taken' = [taken EXCEPT ![p] = Append(@, m)]
        /\ ith' = [ith EXCEPT ![r] = x]
        /\ thr' = [thr EXCEPT ![t] = l]
        /\ UNCHANGED imq_messages
    BY <1>6 DEF ipc_mqueue_deliver
  <2>2. Becomes(T4)
    BY <2>1 DEF Becomes, QState
  <2>3. r \in Threads /\ Tail(imq_threads[q]) \in Seq(Threads) /\ n \in Nat /\ n + 1 \in Nat
    <3>1. imq_threads[q] \in Seq(Threads)
      BY <1>0 DEF QueuesOK
    <3>2. n \in Nat
      BY <1>0 DEF QueuesOK
    <3> QED
      BY <3>1, <3>2, <1>6, TailRange
  <2>4. x \in IthState /\ x.kmsg = m
    <3>1. ith[r] \in IthState
      BY <2>3, <1>0 DEF QueuesOK
    <3> HIDE DEF r, n
    <3>2. Handed(ith[r], m, n) \in IthState /\ Handed(ith[r], m, n).kmsg = m
      BY <3>1, <2>3, <1>0, HandedType
    <3> QED
      BY <3>2, GoneType
  <2>5. l \in ThrState /\ LocalsOK(l) /\ l.kmsg = NULL /\ l.pc \notin {"sendwait", "reply"}
    <3> HIDE DEF r
    <3>1. CASE MP
      BY <3>1, <2>3, Zenon DEF Idle, ThrState, LocalsOK, MaybeMsg
    <3>2. CASE ~MP
      BY <3>2, IdleOK
    <3> QED
      BY <3>1, <3>2
  <2>6. imq_messages[q] = <<>>
    BY <1>0, <1>6 DEF IInv, QueueDiscipline
  <2>7. T1.msgs = imq_messages
    BY DEF QState
  <2> HIDE DEF l, x, r, n, q
  <2>8. QOK(QState, Home, thr', kmsg') /\ Loose(QState, thr', m)
    BY <1>1, <2>1, <2>5, Released, Zenon
  <2>9. QOK(T1, Home, thr', kmsg')
    BY <1>1, <2>3, <2>4, <2>8, HandOver, Zenon
  <2> HIDE DEF T1
  <2>10. QOK(T2, Home, thr', kmsg')
    BY <1>0, <2>3, <2>6, <2>7, <2>9, ThrsOK, Zenon
  <2> HIDE DEF T2
  <2>11. QOK(T3, Home, thr', kmsg')
    BY <2>3, <2>10, SeqnoOK, Zenon
  <2> HIDE DEF T3
  <2>12. QOK(T4, Home, thr', kmsg')
    BY <1>0, <2>11, TakenOK, Zenon
  <2> HIDE DEF T4
  <2>13. QueuePart'
    BY <1>2, <2>2, <2>12, InstallQ, Zenon
  <2>14. ThreadsOK'
    BY <1>0, <2>1, <2>5, ThreadSet, Zenon
  <2> QED
    BY <1>1, <1>2, <1>3, <2>13, <2>14, Parts
<1> QED
  BY <1>5, <1>6

\* A thread becomes the holder of a message nobody else has, and other
\* fields of its wait state change.
LEMMA HoldOK ==
  ASSUME IInv, NEW t \in Threads, NEW m, SendersOwn(t, m), NEW l, l.kmsg = m,
         NEW km, \A x \in Msgs \ {m} : km[x] = kmsg[x], km[m].st # "free"
  PROVE  QOK(QState, Home, [thr EXCEPT ![t] = l], km)
<1> DEFINE th == [thr EXCEPT ![t] = Idle]
           th2 == [th EXCEPT ![t] = l]
<1>1. QOK(QState, Home, th, km) /\ Loose(QState, th, m)
  BY IdleOK, Released
<1>2. thr \in [Threads -> ThrState] /\ Idle \in ThrState
  BY IdleOK DEF IInv, TypeOK, ThreadsOK
<1>3. th \in [Threads -> ThrState] /\ th2 = [thr EXCEPT ![t] = l]
  BY <1>2, Zenon
<1> HIDE DEF th
<1>4. QOK(QState, Home, th2, km)
  BY <1>1, <1>3, Hold, Zenon
<1> QED
  BY <1>3, <1>4

\* The loop of ipc_mqueue_send keeps the invariant, whoever runs it.
LEMMA SendLoopOK ==
  ASSUME IInv, NEW t \in Threads, NEW p \in Ports, NEW m, SendersOwn(t, m),
         NEW opt \in {"block", "timeout", "poll", "always"},
         SendLoop(t, p, m, opt), UNCHANGED setVars
  PROVE  IInv'
<1>0. m \in Msgs
  BY DEF SendersOwn
<1>1. CASE /\ kmsg' = [kmsg EXCEPT ![m] = [st |-> "gone", dest |-> p]]
           /\ thr' = [thr EXCEPT ![t] = Idle]
           /\ UNCHANGED <<portVars, qVars, panic, sent>>
  BY <1>1, SendFails, Zenon
<1>2. CASE /\ ipc_mqueue_deliver(t, p, m)
           /\ kmsg' = [kmsg EXCEPT ![m] = [st |-> "live", dest |-> p]]
           /\ UNCHANGED <<ip_receiver, ip_pset, ip_qlimit, ip_blocked, panic>>
  BY <1>2, DeliverOK, Zenon
<1>3. CASE /\ opt \in {"block", "timeout"}
           /\ kmsg' = [kmsg EXCEPT ![m] = [st |-> "live", dest |-> p]]
           /\ IF Tangles(t, ip_blocked[p], OtherThanSenders(p))
              THEN panic' = "tangled" /\ UNCHANGED <<ip_blocked, ith, thr>>
              ELSE /\ ip_blocked' = [ip_blocked EXCEPT ![p] = Enqueued(t, @)]
                   /\ ith' = [ith EXCEPT ![t] = WillWait(@, "SEND_IN_PROGRESS")]
                   /\ thr' = [thr EXCEPT ![t] = [Idle EXCEPT !.pc = "sendwait", !.obj = p,
                                                             !.kmsg = m, !.opt = opt]]
                   /\ UNCHANGED panic
           /\ UNCHANGED <<ip_receiver, ip_pset, ip_msgcount, ip_qlimit,
                          imq_messages, imq_threads, ip_seqno, taken, sent>>
  <2>0. /\ PortsOK /\ SetsOK /\ QueuesOK /\ ThreadsOK /\ MsgsOK /\ PanicOK
        /\ thr \in [Threads -> ThrState] /\ ith \in [Threads -> IthState]
    BY DEF IInv, TypeOK, ThreadsOK, QueuesOK
  <2>1. /\ MsgsOK' /\ kmsg'[m].st = "live" /\ \A x \in Msgs \ {m} : kmsg'[x] = kmsg[x]
    <3>1. sent' \in [Ports -> Seq(Msgs)]
      BY <1>3, <2>0 DEF MsgsOK
    <3> QED
      BY <1>0, <1>3, <2>0, <3>1, MsgSet, Zenon
  <2>2. Home' = Home /\ OnlyTaskPortsInSets'
    BY <1>3, PortsStay
  <2>3. SetsOK'
    BY <2>0 DEF SetsOK, setVars
  <2>4. CASE Tangles(t, ip_blocked[p], OtherThanSenders(p))
    <3>1. panic' = "tangled" /\ UNCHANGED <<ip_blocked, ith, thr>>
      BY <1>3, <2>4
    <3>2. QOK(QState, Home, thr', kmsg')
      <4>1. QOK(QState, Home, thr, kmsg)
        BY QStateOK
      <4>2. \A q \in Queues : m \notin Range(QState.msgs[q])
        BY DEF SendersOwn, QState
      <4>3. QOK(QState, Home, thr, kmsg')
        BY <2>1, <4>1, <4>2, KmsgOK
      <4> QED
        BY <4>3, <3>1
    <3>3. Becomes(QState)
      BY <1>3, <3>1 DEF Becomes, QState
    <3>4. QueuePart'
      BY <2>2, <3>2, <3>3, InstallQ
    <3>5. PortsOK' /\ ThreadsOK' /\ PanicOK'
      BY <1>3, <2>0, <3>1, Zenon DEF PortsOK, ThreadsOK, PanicOK
    <3> QED
      BY <2>1, <2>2, <2>3, <3>4, <3>5, Parts
  <2>5. CASE ~Tangles(t, ip_blocked[p], OtherThanSenders(p))
    <3> DEFINE l == [Idle EXCEPT !.pc = "sendwait", !.obj = p, !.kmsg = m, !.opt = opt]
               i == [ith EXCEPT ![t] = WillWait(@, "SEND_IN_PROGRESS")]
    <3>1. /\ ip_blocked' = [ip_blocked EXCEPT ![p] = Enqueued(t, @)]
          /\ ith' = i /\ thr' = [thr EXCEPT ![t] = l] /\ UNCHANGED panic
      BY <1>3, <2>5
    <3>2. l \in ThrState /\ LocalsOK(l) /\ l.kmsg = m
      BY <1>0, Zenon DEF Idle, ThrState, LocalsOK, MaybeMsg, Queues
    <3>3. i \in [Threads -> IthState] /\ \A u \in Threads : i[u].kmsg = ith[u].kmsg
      <4>1. ith[t] \in IthState
        BY <2>0
      <4>2. /\ WillWait(ith[t], "SEND_IN_PROGRESS") \in IthState
            /\ WillWait(ith[t], "SEND_IN_PROGRESS").kmsg = ith[t].kmsg
        BY <4>1, Zenon DEF WillWait, IthState
      <4> QED
        BY <2>0, <4>2
    <3> HIDE DEF l, i
    <3>4. QOK(QState, Home, thr', kmsg')
      BY <2>1, <3>1, <3>2, HoldOK, Zenon
    <3>5. QState.ith = ith
      BY DEF QState
    <3>6. QOK([QState EXCEPT !.ith = i], Home, thr', kmsg')
      BY <3>3, <3>4, <3>5, IthOK
    <3>7. Becomes([QState EXCEPT !.ith = i])
      BY <1>3, <3>1 DEF Becomes, QState
    <3>8. QueuePart'
      BY <2>2, <3>6, <3>7, InstallQ
    <3>9. ThreadsOK'
      BY <2>0, <3>1, <3>2, ThreadSet, Zenon
    <3>10. PortsOK' /\ PanicOK'
      <4>1. ip_blocked[p] \in Seq(Threads)
        BY <2>0 DEF PortsOK
      <4>2. Enqueued(t, ip_blocked[p]) \in Seq(Threads)
        BY <4>1, AppendProperties DEF Enqueued
      <4>3. ip_blocked' \in [Ports -> Seq(Threads)]
        BY <2>0, <3>1, <4>2 DEF PortsOK
      <4> QED
        BY <1>3, <2>0, <3>1, <4>3, Zenon DEF PortsOK, PanicOK
    <3> QED
      BY <2>1, <2>2, <2>3, <3>8, <3>9, <3>10, Parts
  <2> QED
    BY <2>4, <2>5
<1> QED
  BY <1>1, <1>2, <1>3 DEF SendLoop

-----------------------------------------------------------------------------
(* The actions that send.                                                  *)

\* ipc_mqueue_send by an idle thread keeps the invariant.
LEMMA SendPreserves ==
  ASSUME IInv, NEW t \in Threads, NEW m \in Msgs, NEW p \in Ports, NEW opt \in SendOptions,
         ipc_mqueue_send(t, m, p, opt)
  PROVE  IInv'
<1>0. /\ PortsOK /\ SetsOK /\ QueuesOK /\ ThreadsOK /\ MsgsOK /\ PanicOK
      /\ thr \in [Threads -> ThrState] /\ kmsg[m].st = "free" /\ thr[t].pc = "idle"
      /\ opt \in {"block", "timeout", "poll", "always"} /\ UNCHANGED setVars
  BY InputsAssumption, Zenon DEF IInv, TypeOK, ThreadsOK, ipc_mqueue_send
<1>1. SendersOwn(t, m)
  BY <1>0, OwnMessage
<1>2. CASE /\ kmsg' = [kmsg EXCEPT ![m] = [st |-> "gone", dest |-> p]]
           /\ UNCHANGED <<portVars, qVars, thr, panic, sent>>
  <2>1. MsgsOK' /\ kmsg'[m].st = "gone" /\ \A x \in Msgs \ {m} : kmsg'[x] = kmsg[x]
    <3>1. sent' \in [Ports -> Seq(Msgs)]
      BY <1>0, <1>2 DEF MsgsOK
    <3> QED
      BY <1>0, <1>2, <3>1, MsgSet, Zenon
  <2>2. QOK(QState, Home, thr, kmsg')
    <3>1. \A q \in Queues : m \notin Range(QState.msgs[q])
      BY <1>1, Zenon DEF SendersOwn, QState
    <3> QED
      BY <2>1, <3>1, QStateOK, KmsgOK
  <2>3. Becomes(QState) /\ Home' = Home /\ OnlyTaskPortsInSets'
    BY <1>2, PortsStay DEF Becomes, QState, qVars, portVars
  <2>4. QueuePart'
    BY <1>2, <2>2, <2>3, InstallQ, Zenon
  <2>5. PortsOK' /\ SetsOK' /\ ThreadsOK' /\ PanicOK'
    BY <1>0, <1>2, Zenon DEF PortsOK, SetsOK, ThreadsOK, PanicOK, portVars, setVars
  <2> QED
    BY <2>1, <2>3, <2>4, <2>5, Parts
<1>3. ASSUME NEW r \in Msgs \ {m}, NEW rp \in Ports \ KernelPorts,
             kmsg[r].st = "free",
             kmsg' = [kmsg EXCEPT ![m] = [st |-> "gone", dest |-> p],
                                  ![r] = [st |-> "live", dest |-> rp]],
             thr' = [thr EXCEPT ![t] = [Idle EXCEPT !.pc = "reply", !.obj = rp,
                                                    !.kmsg = r, !.opt = "always"]],
             UNCHANGED <<portVars, qVars, panic, sent>>
      PROVE  IInv'
  <2> DEFINE l == [Idle EXCEPT !.pc = "reply", !.obj = rp, !.kmsg = r, !.opt = "always"]
             km == [kmsg EXCEPT ![r] = [st |-> "live", dest |-> rp]]
  <2>1. SendersOwn(t, r)
    BY <1>3, OwnMessage
  <2>2. /\ MsgsOK' /\ kmsg'[m].st = "gone" /\ \A x \in Msgs \ {m} : kmsg'[x] = km[x]
        /\ km[r].st = "live" /\ \A x \in Msgs \ {r} : km[x] = kmsg[x]
    BY <1>0, <1>3, Zenon DEF MsgsOK
  <2>3. l \in ThrState /\ LocalsOK(l) /\ l.kmsg = r
    BY Zenon DEF Idle, ThrState, LocalsOK, MaybeMsg, Queues
  <2> HIDE DEF l, km
  <2>4. QOK(QState, Home, [thr EXCEPT ![t] = l], km)
    BY <2>1, <2>2, <2>3, HoldOK
  <2>5. QOK(QState, Home, thr', kmsg')
    <3>1. \A q \in Queues : m \notin Range(QState.msgs[q])
      BY <1>1 DEF SendersOwn, QState
    <3>2. QOK(QState, Home, [thr EXCEPT ![t] = l], kmsg')
      BY <2>2, <2>4, <3>1, KmsgOK
    <3> QED
      BY <1>3, <3>2 DEF l
  <2>6. Becomes(QState) /\ Home' = Home /\ OnlyTaskPortsInSets'
    BY <1>3, PortsStay DEF Becomes, QState, qVars, portVars
  <2>7. QueuePart'
    BY <2>5, <2>6, InstallQ
  <2>8. ThreadsOK'
    BY <1>0, <1>3, <2>3, ThreadSet, Zenon DEF l
  <2>9. PortsOK' /\ SetsOK' /\ PanicOK'
    BY <1>0, <1>3, Zenon DEF PortsOK, SetsOK, PanicOK, portVars, setVars
  <2> QED
    BY <2>2, <2>6, <2>7, <2>8, <2>9, Parts, Zenon
<1>4. CASE SendLoop(t, p, m, opt)
  BY <1>0, <1>1, <1>4, SendLoopOK
<1> QED
  BY <1>2, <1>3, <1>4, Zenon DEF ipc_mqueue_send

\* Sending the kernel's reply keeps the invariant.
LEMMA SendReplyPreserves ==
  ASSUME IInv, NEW t \in Threads, SendReply(t)
  PROVE  IInv'
<1>1. thr[t].obj \in Ports /\ thr[t].kmsg \in Msgs /\ thr[t].pc = "reply"
  BY DEF IInv, TypeOK, ThreadsOK, LocalsOK, SendReply
<1>2. SendersOwn(t, thr[t].kmsg)
  BY <1>1, OwnMessage
<1> QED
  BY <1>1, <1>2, SendLoopOK DEF SendReply

\* The message of a thread is destroyed and the thread goes on.
LEMMA DisposeOK ==
  ASSUME IInv, NEW t \in Threads, thr[t].kmsg \in Msgs,
         Dispose(thr[t].kmsg), thr' = [thr EXCEPT ![t] = Idle], UNCHANGED sent
  PROVE  QOK(QState, Home, thr', kmsg') /\ MsgsOK' /\ ThreadsOK'
<1> DEFINE m == thr[t].kmsg
<1>1. /\ MsgsOK /\ ThreadsOK /\ thr \in [Threads -> ThrState]
      /\ m # NULL
  BY ObjectsAssumption DEF IInv, TypeOK, ThreadsOK
<1>2. m \in Claims(t)
  BY <1>1 DEF Claims
<1>3. kmsg[m].st # "free" /\ \A q \in Queues : m \notin Range(imq_messages[q])
  BY <1>2 DEF IInv, Unshared
<1>4. MsgsOK' /\ kmsg'[m].st = "gone" /\ \A x \in Msgs \ {m} : kmsg'[x] = kmsg[x]
  BY <1>1, <1>3 DEF MsgsOK, Dispose
<1>5. ThreadsOK'
  BY <1>1, GoesIdle, Zenon
<1>6. QOK(QState, Home, thr, kmsg')
  <2>1. \A q \in Queues : m \notin Range(QState.msgs[q])
    BY <1>3 DEF QState
  <2> HIDE DEF m
  <2> QED
    BY <2>1, <1>4, QStateOK, KmsgOK
<1>7. QOK(QState, Home, thr', kmsg')
  BY <1>1, <1>6, IdleOK, LetGo, Zenon
<1> QED
  BY <1>4, <1>5, <1>7

\* A sender that runs after thread_block keeps the invariant.
LEMMA SendContinuePreserves ==
  ASSUME IInv, NEW t \in Threads, SendContinue(t)
  PROVE  IInv'
<1> DEFINE p == thr[t].obj
           m == thr[t].kmsg
<1>1. /\ p \in Ports /\ m \in Msgs /\ thr[t].pc = "sendwait"
      /\ thr[t].opt \in {"block", "timeout", "poll", "always"} /\ UNCHANGED setVars
      /\ PortsOK /\ SetsOK /\ QueuesOK /\ ThreadsOK /\ MsgsOK /\ PanicOK
  BY Zenon DEF IInv, TypeOK, ThreadsOK, LocalsOK, SendContinue, ThrState
<1>2. SendersOwn(t, m)
  BY <1>1, OwnMessage
<1>3. CASE SendLoop(t, p, m, thr[t].opt)
  BY <1>1, <1>2, <1>3, SendLoopOK
<1>4. CASE SendLoop(t, p, m, "poll")
  BY <1>1, <1>2, <1>4, SendLoopOK
<1>5. CASE Dispose(m) /\ thr' = [thr EXCEPT ![t] = Idle] /\ UNCHANGED <<portVars, qVars, panic, sent>>
  <2>1. QOK(QState, Home, thr', kmsg') /\ MsgsOK' /\ ThreadsOK'
    BY <1>1, <1>5, DisposeOK, Zenon
  <2>2. Becomes(QState) /\ Home' = Home /\ OnlyTaskPortsInSets'
    BY <1>5, PortsStay DEF Becomes, QState, qVars, portVars
  <2>3. QueuePart'
    BY <2>1, <2>2, InstallQ
  <2>4. PortsOK' /\ SetsOK' /\ PanicOK'
    BY <1>1, <1>5, Zenon DEF PortsOK, SetsOK, PanicOK, portVars, setVars
  <2> QED
    BY <2>1, <2>2, <2>3, <2>4, Parts
<1>6. CASE panic' = "send: bad wait_result" /\ UNCHANGED <<portVars, qVars, thr, kmsg, sent>>
  <2>1. Becomes(QState) /\ Home' = Home /\ OnlyTaskPortsInSets'
    BY <1>6, PortsStay, Zenon DEF Becomes, QState, qVars, portVars
  <2>2. QueuePart'
    BY <1>6, <2>1, QStateOK, InstallQ, Zenon
  <2>3. PortsOK' /\ SetsOK' /\ PanicOK' /\ ThreadsOK' /\ MsgsOK'
    BY <1>1, <1>6, Zenon DEF PortsOK, SetsOK, PanicOK, ThreadsOK, MsgsOK, portVars, setVars
  <2> QED
    BY <2>1, <2>2, <2>3, Parts
<1> QED
  BY <1>3, <1>4, <1>5, <1>6, Zenon DEF SendContinue

=============================================================================
