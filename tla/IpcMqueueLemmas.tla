-------------------------- MODULE IpcMqueueLemmas --------------------------
(***************************************************************************)
(* The inductive invariant of IpcMqueue, and what the queue functions of   *)
(* which its actions are made do to the part of it that concerns queues.   *)
(***************************************************************************)
EXTENDS IpcMqueue, ListsProofs

(***************************************************************************)
(* The parts of the invariant that concern the queues, as predicates on    *)
(* values, so that they can be carried through the functions on queue      *)
(* states of which the actions are made.                                   *)
(***************************************************************************)
QTyped(S) ==
  S \in [msgs : [Queues -> Seq(Msgs)], thrs : [Queues -> Seq(Threads)],
         ith : [Threads -> IthState], seqno : [Ports -> Nat], taken : [Ports -> Seq(Msgs)]]

QDisc(S) == \A q \in Queues : S.msgs[q] = <<>> \/ S.thrs[q] = <<>>

\* Every queued message is live and on its port's queue, home[port].
QHome(msgs, home, km) ==
  \A q \in Queues : \A m \in Range(msgs[q]) :
    km[m].st = "live" /\ km[m].dest \in Ports /\ home[km[m].dest] = q

\* No message is queued twice.
QOnce(msgs) ==
  /\ \A q \in Queues : IsInjective(msgs[q])
  /\ \A q, r \in Queues : q # r => Range(msgs[q]) \cap Range(msgs[r]) = {}

ClaimsOf(i, th, t) == {th[t].kmsg, i[t].kmsg} \ {NULL}

\* What threads can reach is on no queue and within no other thread's reach.
QApart(msgs, i, th, km) ==
  /\ \A t \in Threads, m \in Msgs : m \in ClaimsOf(i, th, t) =>
       km[m].st # "free" /\ \A q \in Queues : m \notin Range(msgs[q])
  /\ \A t, u \in Threads : t # u => ClaimsOf(i, th, t) \cap ClaimsOf(i, th, u) = {}
  /\ \A t \in Threads : th[t].pc \in {"sendwait", "reply"} => th[t].kmsg # i[t].kmsg

QOK(S, home, th, km) ==
  QTyped(S) /\ QDisc(S) /\ QHome(S.msgs, home, km) /\ QOnce(S.msgs)
    /\ QApart(S.msgs, S.ith, th, km)

Home == [p \in Ports |-> QueueOf(p)]

IInv == TypeOK /\ QueueDiscipline /\ RightQueue /\ Unshared /\ OnlyTaskPortsInSets

-----------------------------------------------------------------------------
\* Appending to queues of messages.
LEMMA MsgConcat == \A s, u \in Seq(Msgs) : Range(s \o u) = Range(s) \cup Range(u)
BY ConcatRange

LEMMA MsgAppend ==
  \A s \in Seq(Msgs), m \in Msgs :
    /\ Append(s, m) \in Seq(Msgs) /\ Range(Append(s, m)) = Range(s) \cup {m}
    /\ IsInjective(s) /\ m \notin Range(s) => IsInjective(Append(s, m))
BY AppendRange

-----------------------------------------------------------------------------
\* The current queues satisfy QOK, and a state in which they do satisfies
\* the invariant's queue part.
LEMMA QStateOK ==
  ASSUME IInv
  PROVE  QOK(QState, Home, thr, kmsg) /\ Home \in [Ports -> Queues]
<1> USE DEF IInv
<1>1. QTyped(QState)
  BY DEF TypeOK, QueuesOK, QTyped, QState
<1>2. QDisc(QState)
  BY DEF QueueDiscipline, QDisc, QState
<1>3. QHome(QState.msgs, Home, kmsg)
  BY DEF RightQueue, QHome, QState, Home
<1>4. QOnce(QState.msgs)
  BY DEF Unshared, QOnce, QState
<1>5. QApart(QState.msgs, QState.ith, thr, kmsg)
  BY DEF Unshared, QApart, QState, Claims, ClaimsOf
<1>6. Home \in [Ports -> Queues]
  BY DEF TypeOK, PortsOK, Home, QueueOf, Queues
<1> QED
  BY <1>1, <1>2, <1>3, <1>4, <1>5, <1>6 DEF QOK

\* A queue state that is OK, once installed, gives the queue part of IInv.
LEMMA Install ==
  ASSUME NEW S, Becomes(S), QOK(S, Home', thr', kmsg')
  PROVE  QueuesOK' /\ QueueDiscipline' /\ RightQueue' /\ Unshared'
<1>1. QueuesOK'
  BY DEF QOK, QTyped, Becomes, QueuesOK
<1>2. QueueDiscipline'
  BY DEF QOK, QDisc, Becomes, QueueDiscipline
<1>3. RightQueue'
  <2>1. \A p \in Ports : Home'[p] = QueueOf(p)'
    BY DEF Home
  <2> QED
    BY <2>1 DEF QOK, QHome, Becomes, RightQueue
<1>4. Unshared'
  BY Zenon DEF QOK, QOnce, QApart, ClaimsOf, Claims, Becomes, Unshared
<1> QED
  BY <1>1, <1>2, <1>3, <1>4

-----------------------------------------------------------------------------
\* Starting threads changes neither their messages nor the type.
LEMMA GoneType ==
  ASSUME NEW i \in IthState
  PROVE  Gone(i) \in IthState /\ Gone(i).kmsg = i.kmsg
BY Zenon DEF Gone, IthState

\* Handing a message over keeps the type of the record.
LEMMA HandedType ==
  ASSUME NEW i \in IthState, NEW m \in Msgs, NEW n \in Nat
  PROVE  Handed(i, m, n) \in IthState /\ Handed(i, m, n).kmsg = m
BY Zenon DEF Handed, IthState, MaybeMsg

\* Rousing a set of threads keeps the type of every record.
LEMMA RousedType ==
  ASSUME NEW i \in [Threads -> IthState], NEW T,
         NEW mr \in {"SUCCESS", "PORT_DIED", "PORT_CHANGED"}
  PROVE  /\ Roused(i, T, mr) \in [Threads -> IthState]
         /\ \A t \in Threads : Roused(i, T, mr)[t].kmsg = i[t].kmsg
<1>1. \A t \in Threads : [i[t] EXCEPT !.state = mr] \in IthState
                           /\ [i[t] EXCEPT !.state = mr].kmsg = i[t].kmsg
  BY DEF IthState
<1> QED
  BY <1>1, GoneType, Zenon DEF Roused

\* Claims depend on the messages of the threads only.
LEMMA SameClaims ==
  ASSUME NEW i, NEW j, NEW th, NEW km, NEW msgs, QApart(msgs, i, th, km),
         \A t \in Threads : j[t].kmsg = i[t].kmsg
  PROVE  QApart(msgs, j, th, km)
<1>1. \A t \in Threads : ClaimsOf(j, th, t) = ClaimsOf(i, th, t)
  BY DEF ClaimsOf
<1> QED
  BY <1>1 DEF QApart

\* One thread gains a message that nobody claims and that is on no queue.
LEMMA GainsClaim ==
  ASSUME NEW msgs, NEW msgs2, NEW i, NEW i2, NEW th, NEW th2, NEW km, NEW m,
         NEW t \in Threads, QApart(msgs, i, th, km), km[m].st # "free",
         \A q \in Queues : Range(msgs2[q]) \subseteq Range(msgs[q]) /\ m \notin Range(msgs2[q]),
         \A u \in Threads : m \notin ClaimsOf(i, th, u),
         ClaimsOf(i2, th2, t) \subseteq ClaimsOf(i, th, t) \cup {m},
         \A u \in Threads \ {t} : ClaimsOf(i2, th2, u) = ClaimsOf(i, th, u),
         \A u \in Threads : th2[u].pc \in {"sendwait", "reply"} => th2[u].kmsg # i2[u].kmsg
  PROVE  QApart(msgs2, i2, th2, km)
<1>1. /\ \A u \in Threads, x \in Msgs : x \in ClaimsOf(i, th, u) =>
           km[x].st # "free" /\ \A q \in Queues : x \notin Range(msgs[q])
      /\ \A u, v \in Threads : u # v => ClaimsOf(i, th, u) \cap ClaimsOf(i, th, v) = {}
  BY DEF QApart
<1>2. \A u \in Threads : \A x : x \in ClaimsOf(i2, th2, u) =>
        x \in ClaimsOf(i, th, u) \/ (x = m /\ u = t)
  OBVIOUS
<1>3. ASSUME NEW u \in Threads, NEW x \in Msgs, x \in ClaimsOf(i2, th2, u)
      PROVE  km[x].st # "free" /\ \A q \in Queues : x \notin Range(msgs2[q])
  <2>1. CASE x = m
    BY <2>1
  <2>2. CASE x \in ClaimsOf(i, th, u)
    BY <2>2, <1>1
  <2> QED
    BY <2>1, <2>2, <1>2, <1>3
<1>4. ASSUME NEW u \in Threads, NEW v \in Threads, u # v, NEW x,
             x \in ClaimsOf(i2, th2, u), x \in ClaimsOf(i2, th2, v)
      PROVE  FALSE
  <2>1. CASE x = m
    BY <2>1, <1>2, <1>4
  <2>2. CASE x # m
    <3>1. x \in ClaimsOf(i, th, u) /\ x \in ClaimsOf(i, th, v)
      BY <2>2, <1>2, <1>4
    <3>2. ClaimsOf(i, th, u) \cap ClaimsOf(i, th, v) = {}
      BY <1>1, <1>4
    <3> QED
      BY <3>1, <3>2
  <2> QED
    BY <2>1, <2>2
<1>5. \A u, v \in Threads : u # v => ClaimsOf(i2, th2, u) \cap ClaimsOf(i2, th2, v) = {}
  BY <1>4
<1> QED
  BY <1>3, <1>5 DEF QApart

\* ipc_mqueue_changed empties a list of receivers and moves no message.
LEMMA ChangedOK ==
  ASSUME NEW S, NEW home, NEW th, NEW km, NEW q \in Queues, NEW mr \in {"PORT_DIED", "PORT_CHANGED"},
         QOK(S, home, th, km)
  PROVE  QOK(ipc_mqueue_changed(S, q, mr), home, th, km)
<1> DEFINE C == ipc_mqueue_changed(S, q, mr)
           i == Roused(S.ith, Range(S.thrs[q]), mr)
<1>1. QTyped(S) /\ QDisc(S) /\ QHome(S.msgs, home, km) /\ QOnce(S.msgs)
        /\ QApart(S.msgs, S.ith, th, km)
  BY DEF QOK
<1>0. S.ith \in [Threads -> IthState] /\ S.thrs \in [Queues -> Seq(Threads)]
  BY <1>1 DEF QTyped
<1>2. i \in [Threads -> IthState] /\ \A t \in Threads : i[t].kmsg = S.ith[t].kmsg
  BY <1>0, RousedType
<1>3. /\ C.msgs = S.msgs /\ C.seqno = S.seqno /\ C.taken = S.taken
      /\ C.thrs = [S.thrs EXCEPT ![q] = <<>>]
      /\ C.ith = i
  BY <1>1 DEF ipc_mqueue_changed, QTyped
<1>4. QTyped(C)
  <2>1. C = [S EXCEPT !.thrs = [S.thrs EXCEPT ![q] = <<>>], !.ith = i]
    BY <1>1 DEF ipc_mqueue_changed, QTyped
  <2>2. [S.thrs EXCEPT ![q] = <<>>] \in [Queues -> Seq(Threads)]
    BY <1>0
  <2> HIDE DEF C, i
  <2> QED
    BY <1>1, <1>2, <2>1, <2>2, Zenon DEF QTyped
<1> HIDE DEF C, i
<1>5. QDisc(C)
  BY <1>1, <1>3 DEF QDisc, QTyped
<1>6. QApart(S.msgs, i, th, km)
  BY <1>1, <1>2, SameClaims
<1> QED
  BY <1>1, <1>3, <1>4, <1>5, <1>6 DEF QOK, C

(***************************************************************************)
(* ipc_mqueue_move takes the messages of one port, and no others, from the *)
(* port's queue to another; afterwards that queue is the port's.           *)
(***************************************************************************)
LEMMA MoveOK ==
  ASSUME NEW S, NEW home \in [Ports -> Queues], NEW th, NEW p \in Ports,
         NEW dst \in Queues, dst # home[p], QOK(S, home, th, kmsg)
  PROVE  QOK(ipc_mqueue_move(S, dst, home[p], p), [home EXCEPT ![p] = dst], th, kmsg)
<1> DEFINE src == home[p]
           sq == S.msgs[src]
           dq == S.msgs[dst]
           wt == S.thrs[dst]
           mine == SentTo(S, src, p)
           rest == DOMAIN sq \ mine
           mv == At(sq, mine)
           keep == At(sq, rest)
           n == Smaller(Cardinality(mine), Len(wt))
           tl == SubSeq(mv, n + 1, Len(mv))
           wl == SubSeq(wt, n + 1, Len(wt))
           M == ipc_mqueue_move(S, dst, src, p)
           home2 == [home EXCEPT ![p] = dst]
<1>1. /\ QTyped(S) /\ QDisc(S) /\ QHome(S.msgs, home, kmsg) /\ QOnce(S.msgs)
      /\ QApart(S.msgs, S.ith, th, kmsg)
  BY DEF QOK
<1>2. /\ src \in Queues
      /\ S.msgs \in [Queues -> Seq(Msgs)] /\ S.thrs \in [Queues -> Seq(Threads)]
      /\ S.ith \in [Threads -> IthState]
      /\ S.seqno \in [Ports -> Nat] /\ S.taken \in [Ports -> Seq(Msgs)]
      /\ sq \in Seq(Msgs) /\ dq \in Seq(Msgs) /\ wt \in Seq(Threads)
  BY <1>1 DEF QTyped
<1>3. mine \in SUBSET DOMAIN sq /\ rest \in SUBSET DOMAIN sq
  BY DEF SentTo
<1>4. /\ mv \in Seq(Msgs) /\ Len(mv) = Cardinality(mine) /\ Cardinality(mine) \in Nat
      /\ keep \in Seq(Msgs) /\ Len(keep) = Cardinality(rest)
  BY <1>2, <1>3, AtLemma
<1>5. /\ Range(mv) = {sq[i] : i \in mine} /\ Range(keep) = {sq[i] : i \in rest}
      /\ IsInjective(sq) /\ IsInjective(dq) /\ IsInjective(mv) /\ IsInjective(keep)
  BY <1>1, <1>2, <1>3, AtRange DEF QOnce
<1>6. Len(wt) \in Nat
  BY <1>2, LenProperties
<1>7. n \in Nat /\ n \in 0..Len(mv) /\ n \in 0..Len(wt) /\ (n = Len(mv) \/ n = Len(wt))
  BY <1>4, <1>6 DEF Smaller
<1>8. /\ tl \in Seq(Msgs) /\ Len(tl) = Len(mv) - n /\ Range(tl) \subseteq Range(mv)
      /\ IsInjective(tl)
      /\ \A i \in 1..Len(tl) : n + i \in DOMAIN mv /\ tl[i] = mv[n + i]
  BY <1>4, <1>5, <1>7, SuffixRange, Zenon
<1>9. wl \in Seq(Threads) /\ Len(wl) = Len(wt) - n
  <2> HIDE DEF n, mv, wt
  <2> QED
    BY <1>2, <1>7, SuffixRange, SMTT(30)
<1>24. \A k \in 1..n : mv[k] \in Msgs
  <2> HIDE DEF n, mv
  <2>1. \A k \in 1..n : k \in 1..Len(mv)
    BY <1>7
  <2> QED
    BY <2>1, <1>4, LenProperties
<1>10. M.msgs = [S.msgs EXCEPT ![src] = keep, ![dst] = dq \o tl]
  BY <1>2 DEF ipc_mqueue_move, MoveTo
<1>11. /\ M.thrs = [S.thrs EXCEPT ![dst] = wl]
       /\ M.seqno = [S.seqno EXCEPT ![p] = @ + n]
       /\ M.taken = [S.taken EXCEPT ![p] = @ \o SubSeq(mv, 1, n)]
  BY DEF ipc_mqueue_move, MoveTo
<1>12. \A t \in Threads :
         \/ M.ith[t] = S.ith[t]
         \/ \E k \in 1..n : wt[k] = t /\ M.ith[t] = Gone(Handed(S.ith[t], mv[k], S.seqno[p] + k - 1))
  <2> SUFFICES ASSUME NEW t \in Threads
               PROVE  \/ M.ith[t] = S.ith[t]
                      \/ \E k \in 1..n : wt[k] = t /\
                           M.ith[t] = Gone(Handed(S.ith[t], mv[k], S.seqno[p] + k - 1))
    OBVIOUS
  <2> DEFINE Got == {k \in 1..n : wt[k] = t}
  <2>1. M.ith[t] = IF Got = {} THEN S.ith[t]
                   ELSE LET k == CHOOSE k \in Got : TRUE
                        IN Gone(Handed(S.ith[t], mv[k], S.seqno[p] + k - 1))
    BY DEF ipc_mqueue_move, MoveTo
  <2>2. ASSUME Got # {} PROVE (CHOOSE k \in Got : TRUE) \in Got
    BY <2>2
  <2> HIDE DEF M, mv, n, wt
  <2> QED
    BY <2>1, <2>2, Zenon
<1>13. /\ M.ith \in [Threads -> IthState]
       /\ \A t \in Threads : \/ M.ith[t].kmsg = S.ith[t].kmsg
                             \/ \E k \in 1..n : wt[k] = t /\ M.ith[t].kmsg = mv[k]
  <2>1. \A k \in 1..n : mv[k] \in Msgs /\ S.seqno[p] + k - 1 \in Nat
    <3> HIDE DEF n, mv
    <3>1. S.seqno[p] \in Nat
      BY <1>2
    <3> QED
      BY <3>1, <1>7, <1>24
  <2>2. \A t \in Threads, k \in 1..n :
          LET g == Gone(Handed(S.ith[t], mv[k], S.seqno[p] + k - 1))
          IN g \in IthState /\ g.kmsg = mv[k]
    <3> SUFFICES ASSUME NEW t \in Threads, NEW k \in 1..n
                 PROVE  LET g == Gone(Handed(S.ith[t], mv[k], S.seqno[p] + k - 1))
                        IN g \in IthState /\ g.kmsg = mv[k]
      OBVIOUS
    <3>1. S.ith[t] \in IthState
      BY <1>2
    <3> HIDE DEF mv, n
    <3> QED
      BY <3>1, <2>1, HandedType, GoneType, Zenon
  <2>3. M.ith = [t \in Threads |-> M.ith[t]]
    BY SMTT(30) DEF ipc_mqueue_move, MoveTo
  <2> HIDE DEF M, mv, n, wt
  <2>4. ASSUME NEW t \in Threads PROVE M.ith[t] \in IthState
    <3>1. S.ith[t] \in IthState
      BY <1>2
    <3> QED
      BY <3>1, <1>12, <2>2
  <2> QED
    BY <1>12, <2>2, <2>3, <2>4
<1>14. QTyped(M)
  <2>1. dq \o tl \in Seq(Msgs)
    BY <1>2, <1>8, ConcatProperties
  <2>2. SubSeq(mv, 1, n) \in Seq(Msgs)
    <3> HIDE DEF n, mv
    <3>1. 1 \in Int /\ n \in Int
      BY <1>7
    <3> QED
      BY <3>1, <1>24, SubSeqProperties
  <2>3. S.taken[p] \o SubSeq(mv, 1, n) \in Seq(Msgs)
    BY <1>2, <2>2, ConcatProperties
  <2>4. S.seqno[p] + n \in Nat
    <3> HIDE DEF n
    <3>1. S.seqno[p] \in Nat
      BY <1>2
    <3> QED
      BY <3>1, <1>7
  <2>5. M = [msgs |-> M.msgs, thrs |-> M.thrs, ith |-> M.ith, seqno |-> M.seqno,
             taken |-> M.taken]
    BY Zenon DEF ipc_mqueue_move, MoveTo
  <2> HIDE DEF M, mv, n, wt, wl, tl, keep, dq, src
  <2>6. M.msgs \in [Queues -> Seq(Msgs)]
    BY <1>2, <1>4, <1>10, <2>1, Zenon
  <2>7. M.thrs \in [Queues -> Seq(Threads)]
    BY <1>2, <1>9, <1>11
  <2>8. M.seqno \in [Ports -> Nat]
    BY <1>2, <1>11, <2>4
  <2>9. M.taken \in [Ports -> Seq(Msgs)]
    <3> DEFINE tk == S.taken[p] \o SubSeq(mv, 1, n)
    <3>1. M.taken = [S.taken EXCEPT ![p] = tk] /\ tk \in Seq(Msgs)
      BY <1>11, <2>3
    <3> HIDE DEF tk
    <3> QED
      BY <3>1, <1>2
  <2> QED
    BY <1>13, <2>5, <2>6, <2>7, <2>8, <2>9 DEF QTyped
<1>15. QDisc(M)
  <2>1. ASSUME sq = <<>> PROVE keep = <<>>
    <3>1. rest = {}
      BY <2>1
    <3>2. Cardinality(rest) = 0
      BY <3>1, FS_EmptySet
    <3> QED
      BY <3>2, <1>4, EmptySeq
  <2>2. ASSUME wt = <<>> PROVE wl = <<>>
    <3>1. Len(wt) = 0
      BY <2>2
    <3>2. n = 0
      BY <3>1, <1>7
    <3>3. Len(wl) = 0
      BY <3>1, <3>2, <1>9
    <3> QED
      BY <3>3, <1>9, EmptySeq
  <2>3. ASSUME dq = <<>> PROVE dq \o tl = <<>> \/ wl = <<>>
    <3>1. CASE n = Len(mv)
      <4> HIDE DEF n, mv, tl
      <4>1. Len(tl) = 0
        BY <3>1, <1>7, <1>8
      <4>2. tl = <<>>
        BY <4>1, <1>8, EmptySeq
      <4> HIDE DEF dq
      <4> QED
        BY <4>2, <2>3
    <3>2. CASE n = Len(wt)
      <4>1. Len(wl) = 0
        BY <3>2, <1>7, <1>9
      <4> QED
        BY <4>1, <1>9, EmptySeq
    <3> QED
      BY <3>1, <3>2, <1>7
  <2> HIDE DEF M, wl, tl, keep
  <2>4. M.msgs[src] = keep /\ M.thrs[src] = S.thrs[src]
    BY <1>2, <1>10, <1>11
  <2>5. M.msgs[dst] = dq \o tl /\ M.thrs[dst] = wl
    BY <1>2, <1>10, <1>11, Zenon
  <2>6. \A q \in Queues \ {src, dst} : M.msgs[q] = S.msgs[q] /\ M.thrs[q] = S.thrs[q]
    BY <1>2, <1>10, <1>11
  <2>7. \A q \in Queues : S.msgs[q] = <<>> \/ S.thrs[q] = <<>>
    BY <1>1 DEF QDisc
  <2> SUFFICES ASSUME NEW q \in Queues PROVE M.msgs[q] = <<>> \/ M.thrs[q] = <<>>
    BY DEF QDisc
  <2>8. CASE q = src
    BY <2>1, <2>4, <2>7, <2>8
  <2>9. CASE q = dst
    BY <2>2, <2>3, <2>5, <2>7, <2>9
  <2>10. CASE q \notin {src, dst}
    BY <2>6, <2>7, <2>10
  <2> QED
    BY <2>8, <2>9, <2>10
<1>16. /\ M.msgs[src] = keep /\ M.msgs[dst] = dq \o tl
       /\ \A q \in Queues \ {src, dst} : M.msgs[q] = S.msgs[q]
       /\ Range(dq \o tl) = Range(dq) \cup Range(tl)
  <2> HIDE DEF M, tl, keep
  <2>1. Range(dq \o tl) = Range(dq) \cup Range(tl)
    <3>1. dq \in Seq(Msgs) /\ tl \in Seq(Msgs)
      BY <1>2, <1>8, Zenon
    <3> HIDE DEF dq
    <3> QED
      BY <3>1, MsgConcat, Zenon
  <2> QED
    BY <1>2, <1>10, <2>1
<1>17. /\ \A m \in Range(keep) : m \in Range(sq) /\ kmsg[m].dest # p
       /\ \A m \in Range(mv) : m \in Range(sq) /\ kmsg[m].dest = p
  BY <1>3, <1>5, Zenon DEF SentTo, Range
<1>18. QHome(M.msgs, home2, kmsg)
  <2> HIDE DEF M, tl, keep, mv, sq, dq
  <2> SUFFICES ASSUME NEW q \in Queues, NEW m \in Range(M.msgs[q])
               PROVE  kmsg[m].st = "live" /\ kmsg[m].dest \in Ports /\ home2[kmsg[m].dest] = q
    BY DEF QHome
  <2>1. \A r \in Queues : \A x \in Range(S.msgs[r]) :
          kmsg[x].st = "live" /\ kmsg[x].dest \in Ports /\ home[kmsg[x].dest] = r
    BY <1>1 DEF QHome
  <2>2. CASE q = src
    BY <2>1, <2>2, <1>2, <1>16, <1>17 DEF sq
  <2>3. CASE q = dst
    <3>1. CASE m \in Range(dq)
      BY <2>1, <2>3, <3>1 DEF dq
    <3>2. CASE m \in Range(tl)
      BY <2>1, <2>3, <3>2, <1>2, <1>8, <1>17, Zenon DEF sq
    <3> QED
      BY <2>3, <3>1, <3>2, <1>16
  <2>4. CASE q \notin {src, dst}
    BY <2>1, <2>4, <1>16
  <2> QED
    BY <2>2, <2>3, <2>4
<1>19. /\ Range(sq) \cap Range(dq) = {}
       /\ \A q \in Queues \ {src, dst} :
            Range(S.msgs[q]) \cap Range(sq) = {} /\ Range(S.msgs[q]) \cap Range(dq) = {}
  BY <1>1, <1>2, Zenon DEF QOnce
<1>20. Range(keep) \cap Range(mv) = {}
  BY <1>17, Zenon
<1>21. QOnce(M.msgs)
  <2> HIDE DEF M, tl, keep, mv, sq, dq
  <2>1. Range(dq) \cap Range(tl) = {}
    BY <1>8, <1>17, <1>19
  <2>2. IsInjective(dq \o tl)
    BY <2>1, <1>2, <1>5, <1>8, ConcatRange, Zenon DEF dq
  <2>3. \A q \in Queues : IsInjective(M.msgs[q])
    BY <2>2, <1>1, <1>5, <1>16, Zenon DEF QOnce
  <2>4. \A q, r \in Queues : q # r => Range(M.msgs[q]) \cap Range(M.msgs[r]) = {}
    <3>1. Range(M.msgs[src]) \cap Range(M.msgs[dst]) = {}
      BY <1>8, <1>16, <1>17, <1>19, <1>20, Zenon
    <3>2. \A q \in Queues \ {src, dst} :
            Range(M.msgs[q]) \cap Range(M.msgs[src]) = {}
      BY <1>16, <1>17, <1>19
    <3>3. \A q \in Queues \ {src, dst} :
            Range(M.msgs[q]) \cap Range(M.msgs[dst]) = {}
      BY <1>8, <1>16, <1>17, <1>19, Zenon
    <3>4. \A q, r \in Queues \ {src, dst} : q # r => Range(M.msgs[q]) \cap Range(M.msgs[r]) = {}
      BY <1>1, <1>16, Zenon DEF QOnce
    <3> QED
      BY <3>1, <3>2, <3>3, <3>4
  <2> QED
    BY <2>3, <2>4 DEF QOnce
\* A message handed over was queued, and is no longer.
<1>22. /\ \A k \in 1..n : mv[k] \in Range(sq) /\ \A q \in Queues : mv[k] \notin Range(M.msgs[q])
       /\ \A j, k \in 1..n : mv[j] = mv[k] => j = k
  <2>0. DOMAIN mv = 1..Len(mv) /\ 1..n \subseteq DOMAIN mv
    <3> HIDE DEF n, mv, wt
    <3>1. DOMAIN mv = 1..Len(mv) /\ Len(mv) \in Nat
      BY <1>4, LenProperties
    <3>2. n \in 0..Len(mv)
      BY <1>7
    <3>3. \A k \in 1..n : k \in 1..Len(mv)
      BY <3>1, <3>2
    <3> QED
      BY <3>1, <3>3
  <2>1. \A k \in 1..n : mv[k] \in Range(mv) /\ mv[k] \notin Range(tl)
    <3> SUFFICES ASSUME NEW k \in 1..n, mv[k] \in Range(tl)
                 PROVE  FALSE
      BY <2>0, Zenon DEF Range
    <3>1. DOMAIN tl = 1..Len(tl)
      BY <1>8, LenProperties
    <3> HIDE DEF tl, mv, n
    <3>2. PICK i \in 1..Len(tl) : tl[i] = mv[k]
      BY <3>1 DEF Range
    <3>3. n + i \in DOMAIN mv /\ mv[n + i] = mv[k]
      BY <3>2, <1>8
    <3>4. n + i = k
      BY <3>3, <2>0, <1>5, Zenon DEF IsInjective
    <3> QED
      BY <3>4, <1>7, <1>8, LenProperties
  <2> HIDE DEF M, tl, keep, mv, sq, dq, n
  <2>2. ASSUME NEW k \in 1..n, NEW q \in Queues PROVE mv[k] \notin Range(M.msgs[q])
    <3>1. mv[k] \in Range(sq) /\ mv[k] \notin Range(keep)
      BY <2>1, <1>17, <1>20
    <3>2. mv[k] \notin Range(dq)
      BY <3>1, <1>19
    <3> QED
      BY <3>1, <3>2, <2>1, <1>16, <1>19, Zenon
  <2>3. \A j, k \in 1..n : mv[j] = mv[k] => j = k
    BY <2>0, <1>5 DEF IsInjective
  <2> QED
    BY <2>1, <2>2, <2>3, <1>17
<1>23. QApart(M.msgs, M.ith, th, kmsg)
  <2> HIDE DEF M, tl, keep, mv, sq, dq, n, wt, src
  <2>1. \A q \in Queues : \A m \in Range(M.msgs[q]) : \E r \in Queues : m \in Range(S.msgs[r])
    BY <1>2, <1>8, <1>16, <1>17, Zenon DEF sq, dq
  <2>2. /\ \A t \in Threads, m \in Msgs : m \in ClaimsOf(S.ith, th, t) =>
             kmsg[m].st # "free" /\ \A q \in Queues : m \notin Range(S.msgs[q])
        /\ \A t, u \in Threads : t # u =>
             ClaimsOf(S.ith, th, t) \cap ClaimsOf(S.ith, th, u) = {}
        /\ \A t \in Threads : th[t].pc \in {"sendwait", "reply"} => th[t].kmsg # S.ith[t].kmsg
    BY <1>1 DEF QApart
  <2> DEFINE New(t, m) == m \in Msgs /\ \E k \in 1..n : wt[k] = t /\ m = mv[k]
  <2>3. \A t \in Threads : \A m : m \in ClaimsOf(M.ith, th, t) =>
          m \in ClaimsOf(S.ith, th, t) \/ New(t, m)
    <3> SUFFICES ASSUME NEW t \in Threads, NEW m, m \in ClaimsOf(M.ith, th, t)
                 PROVE  m \in ClaimsOf(S.ith, th, t) \/ New(t, m)
      BY Zenon
    <3>1. m # NULL /\ (m = th[t].kmsg \/ m = M.ith[t].kmsg)
      BY DEF ClaimsOf
    <3>2. CASE m = th[t].kmsg \/ M.ith[t].kmsg = S.ith[t].kmsg
      BY <3>1, <3>2 DEF ClaimsOf
    <3>3. CASE m = M.ith[t].kmsg /\ \E k \in 1..n : wt[k] = t /\ M.ith[t].kmsg = mv[k]
      BY <3>3, <1>24
    <3> QED
      BY <3>1, <3>2, <3>3, <1>13, Zenon
  <2>4. \A t \in Threads : \A m : New(t, m) =>
          /\ kmsg[m].st = "live" /\ m \in Range(sq)
          /\ \A q \in Queues : m \notin Range(M.msgs[q])
    <3>1. \A x \in Range(sq) : kmsg[x].st = "live"
      BY <1>1, <1>2 DEF QHome, sq
    <3> QED
      BY <3>1, <1>22
  <2>5. \A t, u \in Threads : \A m : New(t, m) /\ New(u, m) => t = u
    BY <1>22, Zenon
  <2>6. \A t, u \in Threads : \A m : New(t, m) => m \notin ClaimsOf(S.ith, th, u)
    BY <1>2, <2>2, <2>4, Zenon DEF sq
  <2> HIDE DEF New
  <2>7. \A t \in Threads, m \in Msgs : m \in ClaimsOf(M.ith, th, t) =>
          kmsg[m].st # "free" /\ \A q \in Queues : m \notin Range(M.msgs[q])
    BY <2>1, <2>2, <2>3, <2>4
  <2>8. \A t, u \in Threads : t # u => ClaimsOf(M.ith, th, t) \cap ClaimsOf(M.ith, th, u) = {}
    BY <2>2, <2>3, <2>5, <2>6
  <2>9. ASSUME NEW t \in Threads, th[t].pc \in {"sendwait", "reply"}
        PROVE  th[t].kmsg # M.ith[t].kmsg
    <3>1. CASE M.ith[t].kmsg = S.ith[t].kmsg
      BY <2>2, <2>9, <3>1
    <3>2. CASE \E k \in 1..n : wt[k] = t /\ M.ith[t].kmsg = mv[k]
      <4>1. New(t, M.ith[t].kmsg)
        BY <3>2, <1>24 DEF New
      <4>2. M.ith[t].kmsg # NULL
        BY <4>1, ObjectsAssumption DEF New
      <4> QED
        BY <4>1, <4>2, <2>6 DEF ClaimsOf
    <3> QED
      BY <3>1, <3>2, <1>13, Zenon
  <2> QED
    BY <2>7, <2>8, <2>9 DEF QApart
<1> QED
  BY <1>14, <1>15, <1>18, <1>21, <1>23 DEF QOK

-----------------------------------------------------------------------------
(* What leaves the queue invariant alone.                                  *)

\* ip_seqno is not part of it.
LEMMA SeqnoOK ==
  ASSUME NEW S, NEW home, NEW th, NEW km, NEW p \in Ports, NEW n \in Nat,
         QOK(S, home, th, km)
  PROVE  QOK([S EXCEPT !.seqno[p] = n], home, th, km)
<1> DEFINE T == [S EXCEPT !.seqno[p] = n]
<1>1. QTyped(S) /\ S.seqno \in [Ports -> Nat]
  BY DEF QOK, QTyped
<1>2. T.msgs = S.msgs /\ T.thrs = S.thrs /\ T.ith = S.ith
  BY <1>1 DEF QTyped
<1>3. QTyped(T)
  <2>1. [S.seqno EXCEPT ![p] = n] \in [Ports -> Nat]
    BY <1>1
  <2>2. T = [S EXCEPT !.seqno = [S.seqno EXCEPT ![p] = n]]
    OBVIOUS
  <2> HIDE DEF T
  <2> QED
    BY <1>1, <2>1, <2>2, Zenon DEF QTyped
<1> HIDE DEF T
<1>4. QOK(T, home, th, km)
  BY <1>2, <1>3 DEF QOK, QDisc
<1> QED
  BY <1>4 DEF T

\* Waking threads does not hand them messages.
LEMMA IthOK ==
  ASSUME NEW S, NEW home, NEW th, NEW km, NEW i \in [Threads -> IthState],
         \A t \in Threads : i[t].kmsg = S.ith[t].kmsg,
         QOK(S, home, th, km)
  PROVE  QOK([S EXCEPT !.ith = i], home, th, km)
<1> DEFINE T == [S EXCEPT !.ith = i]
<1>1. QTyped(S) /\ QApart(S.msgs, S.ith, th, km)
  BY DEF QOK
<1>2. T.msgs = S.msgs /\ T.thrs = S.thrs /\ T.ith = i
  BY <1>1 DEF QTyped
<1>3. QTyped(T)
  BY <1>1, Zenon DEF QTyped
<1>4. QApart(S.msgs, i, th, km)
  BY <1>1, SameClaims
<1> HIDE DEF T
<1>5. QOK(T, home, th, km)
  BY <1>2, <1>3, <1>4 DEF QOK, QDisc
<1> QED
  BY <1>5 DEF T

\* A thread lets go of its message, or takes up the one handed to it.
LEMMA TakeUp ==
  ASSUME NEW S, NEW home, NEW th \in [Threads -> ThrState], NEW km, NEW t \in Threads, NEW l,
         l.kmsg = NULL \/ l.kmsg = S.ith[t].kmsg, l.pc \notin {"sendwait", "reply"},
         QOK(S, home, th, km)
  PROVE  QOK(S, home, [th EXCEPT ![t] = l], km)
<1> DEFINE th2 == [th EXCEPT ![t] = l]
<1>1. th2[t] = l /\ \A u \in Threads \ {t} : th2[u] = th[u]
  OBVIOUS
<1> HIDE DEF th2
<1>2. \A u \in Threads : ClaimsOf(S.ith, th2, u) \subseteq ClaimsOf(S.ith, th, u)
  BY <1>1 DEF ClaimsOf
<1>3. QApart(S.msgs, S.ith, th, km)
  BY DEF QOK
<1>4. QApart(S.msgs, S.ith, th2, km)
  <2>1. \A u \in Threads, m \in Msgs : m \in ClaimsOf(S.ith, th2, u) =>
          km[m].st # "free" /\ \A q \in Queues : m \notin Range(S.msgs[q])
    BY <1>2, <1>3 DEF QApart
  <2>2. \A u, v \in Threads : u # v => ClaimsOf(S.ith, th2, u) \cap ClaimsOf(S.ith, th2, v) = {}
    BY <1>2, <1>3 DEF QApart
  <2>3. \A u \in Threads : th2[u].pc \in {"sendwait", "reply"} => th2[u].kmsg # S.ith[u].kmsg
    BY <1>1, <1>3 DEF QApart
  <2> QED
    BY <2>1, <2>2, <2>3 DEF QApart
<1>5. QOK(S, home, th2, km)
  BY <1>4 DEF QOK
<1> QED
  BY <1>5 DEF th2

\* A thread that forgets its message claims no more than before.
LEMMA LetGo ==
  ASSUME NEW S, NEW home, NEW th \in [Threads -> ThrState], NEW km, NEW t \in Threads, NEW l,
         l.kmsg = NULL, l.pc \notin {"sendwait", "reply"},
         QOK(S, home, th, km)
  PROVE  QOK(S, home, [th EXCEPT ![t] = l], km)
BY TakeUp, Zenon

\* A message that is on no queue gets a destination, or is destroyed.
LEMMA KmsgOK ==
  ASSUME NEW S, NEW home, NEW th, NEW km, NEW km2, NEW m,
         \A x \in Msgs \ {m} : km2[x] = km[x],
         km2[m].st # "free",
         \A q \in Queues : m \notin Range(S.msgs[q]),
         QOK(S, home, th, km)
  PROVE  QOK(S, home, th, km2)
<1>1. QTyped(S) /\ QHome(S.msgs, home, km) /\ QApart(S.msgs, S.ith, th, km)
  BY DEF QOK
<1>2. \A q \in Queues : \A x \in Range(S.msgs[q]) : x \in Msgs
  <2> SUFFICES ASSUME NEW q \in Queues PROVE \A x \in Range(S.msgs[q]) : x \in Msgs
    OBVIOUS
  <2> DEFINE w == S.msgs[q]
  <2>1. w \in Seq(Msgs)
    BY <1>1 DEF QTyped
  <2> HIDE DEF w
  <2>2. \A x \in Range(w) : x \in Msgs
    BY <2>1, LenProperties DEF Range
  <2> QED
    BY <2>2 DEF w
<1>3. QHome(S.msgs, home, km2)
  <2> SUFFICES ASSUME NEW q \in Queues, NEW x \in Range(S.msgs[q])
               PROVE  km2[x].st = "live" /\ km2[x].dest \in Ports /\ home[km2[x].dest] = q
    BY DEF QHome
  <2>1. km2[x] = km[x]
    BY <1>2
  <2>2. km[x].st = "live" /\ km[x].dest \in Ports /\ home[km[x].dest] = q
    BY <1>1 DEF QHome
  <2> QED
    BY <2>1, <2>2
<1>4. QApart(S.msgs, S.ith, th, km2)
  <2>1. \A u \in Threads, x \in Msgs : x \in ClaimsOf(S.ith, th, u) =>
          km2[x].st # "free" /\ \A q \in Queues : x \notin Range(S.msgs[q])
    BY <1>1, Zenon DEF QApart
  <2> QED
    BY <2>1, <1>1, Zenon DEF QApart
<1> QED
  BY <1>3, <1>4 DEF QOK

-----------------------------------------------------------------------------
(* Ports and sets.                                                         *)

\* Where the messages of a port belong when the port enters set n or none.
LEMMA HomeMoves ==
  ASSUME IInv, NEW p \in Ports, NEW n \in Psets \cup {NULL},
         ip_pset' = [ip_pset EXCEPT ![p] = n]
  PROVE  Home' = [Home EXCEPT ![p] = IF n = NULL THEN p ELSE n]
BY Zenon DEF Home, QueueOf, IInv, TypeOK, PortsOK

\* Messages belong where they did while no port changes its set.
LEMMA HomeStays ==
  ASSUME ip_pset' = ip_pset
  PROVE  Home' = Home
BY DEF Home, QueueOf

\* ipc_pset_remove of a port from its set.
LEMMA RemoveOK ==
  ASSUME IInv, NEW p \in Ports, ip_pset[p] # NULL
  PROVE  QOK(ipc_pset_remove(QState, ip_pset[p], p), [Home EXCEPT ![p] = p], thr, kmsg)
<1>1. QOK(QState, Home, thr, kmsg) /\ Home \in [Ports -> Queues]
  BY QStateOK
<1>2. ip_pset[p] \in Psets /\ Home[p] = ip_pset[p] /\ p \in Queues
  BY DEF IInv, TypeOK, PortsOK, Home, QueueOf, Queues
<1>3. p # Home[p]
  BY <1>2, ObjectsAssumption
<1> QED
  BY <1>1, <1>2, <1>3, MoveOK, Zenon DEF ipc_pset_remove

\* ipc_port_clear_receiver leaves an OK queue state, the port in no set.
LEMMA ClearReceiverOK ==
  ASSUME IInv, NEW p \in Ports
  PROVE  QOK(ipc_port_clear_receiver(QState, p), [Home EXCEPT ![p] = p], thr, kmsg)
<1> DEFINE C == IF ip_pset[p] # NULL THEN ipc_pset_remove(QState, ip_pset[p], p)
                ELSE ipc_mqueue_changed(QState, p, "PORT_DIED")
<1>1. QOK(C, [Home EXCEPT ![p] = p], thr, kmsg)
  <2>1. CASE ip_pset[p] # NULL
    BY <2>1, RemoveOK
  <2>2. CASE ip_pset[p] = NULL
    <3>1. [Home EXCEPT ![p] = p] = Home
      BY <2>2 DEF Home, QueueOf
    <3> QED
      BY <3>1, <2>2, QStateOK, ChangedOK, Zenon DEF Queues
  <2> QED
    BY <2>1, <2>2
<1>2. ipc_port_clear_receiver(QState, p) = [C EXCEPT !.seqno[p] = 0]
  BY DEF ipc_port_clear_receiver
<1> HIDE DEF C
<1>3. 0 \in Nat
  OBVIOUS
<1>4. QOK([C EXCEPT !.seqno[p] = 0], [Home EXCEPT ![p] = p], thr, kmsg)
  BY <1>1, <1>3, SeqnoOK
<1> QED
  BY <1>2, <1>4

-----------------------------------------------------------------------------
(* Threads.                                                                *)

\* The locals of an idle thread have their type.
LEMMA IdleOK ==
  Idle \in ThrState /\ LocalsOK(Idle) /\ Idle.kmsg = NULL /\ Idle.pc = "idle"
BY DEF Idle, ThrState, LocalsOK, MaybeMsg

\* Replacing the locals of one thread by typed ones keeps the types.
LEMMA ThreadSet ==
  ASSUME ThreadsOK, NEW t \in Threads, NEW l \in ThrState, LocalsOK(l),
         thr' = [thr EXCEPT ![t] = l]
  PROVE  ThreadsOK'
BY DEF ThreadsOK

\* A thread that goes idle keeps the types.
LEMMA GoesIdle ==
  ASSUME ThreadsOK, NEW t \in Threads, thr' = [thr EXCEPT ![t] = Idle]
  PROVE  ThreadsOK'
BY IdleOK, ThreadSet, Zenon

\* Only pointers to the messages of the queue keep others out: a queued
\* message is a message, and nobody has a claim to it.
LEMMA Queued ==
  ASSUME NEW S, NEW home, NEW th, NEW km, QOK(S, home, th, km), NEW q \in Queues,
         NEW m \in Range(S.msgs[q])
  PROVE  /\ m \in Msgs /\ m # NULL
         /\ \A t \in Threads : m \notin ClaimsOf(S.ith, th, t)
         /\ km[m].st = "live" /\ km[m].dest \in Ports /\ home[km[m].dest] = q
<1>1. S.msgs[q] \in Seq(Msgs)
  BY DEF QOK, QTyped
<1>2. m \in Msgs
  BY <1>1, LenProperties DEF Range
<1> QED
  BY <1>2, ObjectsAssumption DEF QOK, QApart, QHome

\* The head of a queue goes to thread t.
LEMMA TakeHead ==
  ASSUME NEW S, NEW home, NEW th \in [Threads -> ThrState], NEW km, NEW q \in Queues,
         NEW t \in Threads, NEW l, S.msgs[q] # <<>>,
         l.kmsg = Head(S.msgs[q]) \/ l.kmsg = NULL, l.pc \notin {"sendwait", "reply"},
         QOK(S, home, th, km)
  PROVE  LET T == [S EXCEPT !.msgs[q] = Tail(@)]
         IN /\ QOK(T, home, [th EXCEPT ![t] = l], km)
            /\ \A r \in Queues : Head(S.msgs[q]) \notin Range(T.msgs[r])
<1> DEFINE m == Head(S.msgs[q])
           ms == [S.msgs EXCEPT ![q] = Tail(@)]
           T == [S EXCEPT !.msgs[q] = Tail(@)]
           th2 == [th EXCEPT ![t] = l]
<1>1. /\ QTyped(S) /\ QDisc(S) /\ QHome(S.msgs, home, km) /\ QOnce(S.msgs)
      /\ QApart(S.msgs, S.ith, th, km)
      /\ S.msgs \in [Queues -> Seq(Msgs)] /\ S.msgs[q] \in Seq(Msgs)
  BY DEF QOK, QTyped
<1>2. IsInjective(S.msgs[q])
  BY <1>1 DEF QOnce
<1>3. /\ m \in Range(S.msgs[q]) /\ Tail(S.msgs[q]) \in Seq(Msgs)
      /\ Range(Tail(S.msgs[q])) \subseteq Range(S.msgs[q])
      /\ IsInjective(Tail(S.msgs[q])) /\ m \notin Range(Tail(S.msgs[q]))
  BY <1>1, <1>2, TailRange
<1>4. /\ ms \in [Queues -> Seq(Msgs)] /\ ms[q] = Tail(S.msgs[q])
      /\ \A r \in Queues \ {q} : ms[r] = S.msgs[r]
      /\ \A r \in Queues : Range(ms[r]) \subseteq Range(S.msgs[r])
  BY <1>1, <1>3, Zenon
<1>5. th2[t] = l /\ \A u \in Threads \ {t} : th2[u] = th[u]
  OBVIOUS
<1>6. T = [S EXCEPT !.msgs = ms] /\ T.msgs = ms /\ T.thrs = S.thrs /\ T.ith = S.ith
  BY <1>1 DEF QTyped
<1> HIDE DEF m, ms, T, th2
<1>7. ASSUME NEW r \in Queues PROVE m \notin Range(ms[r])
  <2>1. CASE r = q
    BY <2>1, <1>3, <1>4
  <2>2. CASE r # q
    <3>1. Range(S.msgs[q]) \cap Range(S.msgs[r]) = {}
      BY <2>2, <1>1, Zenon DEF QOnce
    <3> QED
      BY <3>1, <2>2, <1>3, <1>4
  <2> QED
    BY <2>1, <2>2
<1>8. QTyped(T)
  BY <1>1, <1>4, <1>6, Zenon DEF QTyped
<1>9. QDisc(T)
  BY <1>1, <1>4, <1>6 DEF QDisc
<1>10. QHome(T.msgs, home, km)
  BY <1>1, <1>4, <1>6 DEF QHome
<1>11. QOnce(T.msgs)
  <2>1. \A r \in Queues : IsInjective(ms[r])
    BY <1>1, <1>3, <1>4, Zenon DEF QOnce
  <2>2. \A r, s \in Queues : r # s => Range(ms[r]) \cap Range(ms[s]) = {}
    BY <1>1, <1>4, Zenon DEF QOnce
  <2> QED
    BY <2>1, <2>2, <1>6, Zenon DEF QOnce
<1>12. QApart(T.msgs, T.ith, th2, km)
  <2>1. /\ \A u \in Threads : m \notin ClaimsOf(S.ith, th, u)
        /\ km[m].st = "live"
    BY <1>3, Queued, SMTT(30)
  <2>2. /\ ClaimsOf(S.ith, th2, t) \subseteq ClaimsOf(S.ith, th, t) \cup {m}
        /\ \A u \in Threads \ {t} : ClaimsOf(S.ith, th2, u) = ClaimsOf(S.ith, th, u)
    BY <1>5 DEF ClaimsOf, m
  <2>3. \A u \in Threads : th2[u].pc \in {"sendwait", "reply"} => th2[u].kmsg # S.ith[u].kmsg
    BY <1>1, <1>5, Zenon DEF QApart
  <2>4. QApart(ms, S.ith, th2, km)
    <3>1. km[m].st # "free"
      BY <2>1
    <3>2. \A r \in Queues : Range(ms[r]) \subseteq Range(S.msgs[r]) /\ m \notin Range(ms[r])
      BY <1>4, <1>7, Zenon
    <3>3. QApart(S.msgs, S.ith, th, km)
      BY <1>1
    <3>4. \A u \in Threads : m \notin ClaimsOf(S.ith, th, u)
      BY <2>1
    <3>5. ClaimsOf(S.ith, th2, t) \subseteq ClaimsOf(S.ith, th, t) \cup {m}
      BY <2>2
    <3>6. \A u \in Threads \ {t} : ClaimsOf(S.ith, th2, u) = ClaimsOf(S.ith, th, u)
      BY <2>2
    <3> QED
      BY <3>1, <3>2, <3>3, <3>4, <3>5, <3>6, <2>3, GainsClaim, Zenon
  <2> QED
    BY <2>4, <1>6
<1>13. QOK(T, home, th2, km)
  BY <1>8, <1>9, <1>10, <1>11, <1>12 DEF QOK
<1> QED
  BY <1>6, <1>7, <1>13, Zenon DEF T, th2, m

\* taken is a history.
LEMMA TakenOK ==
  ASSUME NEW S, NEW home, NEW th, NEW km, NEW p \in Ports, NEW m \in Msgs,
         QOK(S, home, th, km)
  PROVE  QOK([S EXCEPT !.taken[p] = Append(@, m)], home, th, km)
<1> DEFINE T == [S EXCEPT !.taken[p] = Append(@, m)]
           tk == [S.taken EXCEPT ![p] = Append(@, m)]
<1>1. QTyped(S) /\ S.taken \in [Ports -> Seq(Msgs)]
  BY DEF QOK, QTyped
<1>2. T.msgs = S.msgs /\ T.thrs = S.thrs /\ T.ith = S.ith /\ T = [S EXCEPT !.taken = tk]
  BY <1>1 DEF QTyped
<1>3. tk \in [Ports -> Seq(Msgs)]
  <2>1. S.taken[p] \in Seq(Msgs)
    BY <1>1
  <2>2. Append(S.taken[p], m) \in Seq(Msgs)
    BY <2>1, AppendProperties
  <2> QED
    BY <1>1, <2>2
<1> HIDE DEF T, tk
<1>4. QTyped(T)
  BY <1>1, <1>2, <1>3, Zenon DEF QTyped
<1>5. QOK(T, home, th, km)
  BY <1>2, <1>4 DEF QOK, QDisc
<1> QED
  BY <1>5 DEF T

\* Lists of receivers change on queues without messages only.
LEMMA ThrsOK ==
  ASSUME NEW S, NEW home, NEW th, NEW km, NEW q \in Queues, NEW w \in Seq(Threads),
         S.msgs[q] = <<>> \/ w = <<>>,
         QOK(S, home, th, km)
  PROVE  QOK([S EXCEPT !.thrs[q] = w], home, th, km)
<1> DEFINE T == [S EXCEPT !.thrs[q] = w]
           ts == [S.thrs EXCEPT ![q] = w]
<1>1. QTyped(S) /\ QDisc(S) /\ S.thrs \in [Queues -> Seq(Threads)]
  BY Zenon DEF QOK, QTyped
<1>2. T.msgs = S.msgs /\ T.thrs = ts /\ T.ith = S.ith /\ T = [S EXCEPT !.thrs = ts]
  BY <1>1 DEF QTyped
<1>3. ts \in [Queues -> Seq(Threads)] /\ ts[q] = w /\ \A r \in Queues \ {q} : ts[r] = S.thrs[r]
  BY <1>1
<1> HIDE DEF T, ts
<1>4. QTyped(T)
  BY <1>1, <1>2, <1>3, Zenon DEF QTyped
<1>5. QDisc(T)
  BY <1>1, <1>2, <1>3 DEF QDisc
<1>6. QOK(T, home, th, km)
  BY <1>2, <1>4, <1>5 DEF QOK
<1> QED
  BY <1>6 DEF T

\* ipc_thread_rmqueue takes a receiver off the list.
LEMMA WithoutOK ==
  ASSUME NEW S, NEW home, NEW th, NEW km, NEW q \in Queues, NEW t, QOK(S, home, th, km)
  PROVE  QOK([S EXCEPT !.thrs[q] = Without(@, t)], home, th, km)
<1> DEFINE w == S.thrs[q]
           I == {i \in DOMAIN w : w[i] # t}
<1>1. w \in Seq(Threads) /\ (S.msgs[q] = <<>> \/ w = <<>>)
  BY DEF QOK, QTyped, QDisc
<1>2. I \in SUBSET DOMAIN w
  OBVIOUS
<1>3. Without(w, t) \in Seq(Threads) /\ Len(Without(w, t)) = Cardinality(I)
  BY <1>1, <1>2, AtLemma DEF Without
<1>4. ASSUME w = <<>> PROVE Without(w, t) = <<>>
  <2>1. I = {}
    BY <1>4
  <2>2. Cardinality(I) = 0
    BY <2>1, FS_EmptySet
  <2> QED
    BY <2>2, <1>3, EmptySeq
<1> QED
  BY <1>1, <1>3, <1>4, ThrsOK, Zenon

-----------------------------------------------------------------------------
(* Messages that nobody has: one about to be sent.                         *)

Loose(S, th, m) ==
  /\ m \in Msgs
  /\ \A q \in Queues : m \notin Range(S.msgs[q])
  /\ \A t \in Threads : m \notin ClaimsOf(S.ith, th, t)

\* It is queued on its port's queue, where nobody waits.
LEMMA PutLast ==
  ASSUME NEW S, NEW home, NEW th, NEW km, NEW m, NEW q \in Queues,
         Loose(S, th, m), S.thrs[q] = <<>>,
         km[m].st = "live", km[m].dest \in Ports, home[km[m].dest] = q,
         QOK(S, home, th, km)
  PROVE  QOK([S EXCEPT !.msgs[q] = Append(@, m)], home, th, km)
<1> DEFINE T == [S EXCEPT !.msgs[q] = Append(@, m)]
           ms == [S.msgs EXCEPT ![q] = Append(@, m)]
<1>1. /\ QTyped(S) /\ QDisc(S) /\ QHome(S.msgs, home, km) /\ QOnce(S.msgs)
      /\ QApart(S.msgs, S.ith, th, km)
      /\ S.msgs \in [Queues -> Seq(Msgs)] /\ S.msgs[q] \in Seq(Msgs)
  BY Zenon DEF QOK, QTyped
<1>2. m \in Msgs /\ m \notin Range(S.msgs[q]) /\ IsInjective(S.msgs[q])
  BY <1>1, Zenon DEF Loose, QOnce
<1>3. /\ Append(S.msgs[q], m) \in Seq(Msgs)
      /\ Range(Append(S.msgs[q], m)) = Range(S.msgs[q]) \cup {m}
      /\ IsInjective(Append(S.msgs[q], m))
  <2> DEFINE w == S.msgs[q]
  <2> HIDE DEF w
  <2>1. w \in Seq(Msgs) /\ m \in Msgs /\ m \notin Range(w) /\ IsInjective(w)
    BY <1>1, <1>2, Zenon DEF w
  <2>2. /\ Append(w, m) \in Seq(Msgs) /\ Range(Append(w, m)) = Range(w) \cup {m}
        /\ IsInjective(Append(w, m))
    BY <2>1, MsgAppend, Zenon
  <2> QED
    BY <2>2, Zenon DEF w
<1>4. /\ ms \in [Queues -> Seq(Msgs)] /\ ms[q] = Append(S.msgs[q], m)
      /\ \A r \in Queues \ {q} : ms[r] = S.msgs[r]
  BY <1>1, <1>3, Zenon
<1>5. T = [S EXCEPT !.msgs = ms] /\ T.msgs = ms /\ T.thrs = S.thrs /\ T.ith = S.ith
  BY <1>1 DEF QTyped
<1> HIDE DEF ms, T
<1>12. /\ Range(ms[q]) = Range(S.msgs[q]) \cup {m}
       /\ \A r \in Queues \ {q} : Range(ms[r]) = Range(S.msgs[r])
       /\ \A r \in Queues : m \notin Range(S.msgs[r])
  BY <1>3, <1>4 DEF Loose
<1>6. QTyped(T)
  BY <1>1, <1>4, <1>5, Zenon DEF QTyped
<1>7. QDisc(T)
  BY <1>1, <1>4, <1>5 DEF QDisc
<1>8. QHome(T.msgs, home, km)
  <2> SUFFICES ASSUME NEW r \in Queues, NEW x \in Range(ms[r])
               PROVE  km[x].st = "live" /\ km[x].dest \in Ports /\ home[km[x].dest] = r
    BY <1>5 DEF QHome
  <2>1. x \in Range(S.msgs[r]) \/ (x = m /\ r = q)
    BY <1>12
  <2> QED
    BY <2>1, <1>1, Zenon DEF QHome
<1>9. QOnce(T.msgs)
  <2>1. \A r \in Queues : IsInjective(ms[r])
    BY <1>1, <1>3, <1>4, Zenon DEF QOnce
  <2>2. \A r, s \in Queues : r # s => Range(ms[r]) \cap Range(ms[s]) = {}
    <3>1. \A r, s \in Queues : r # s => Range(S.msgs[r]) \cap Range(S.msgs[s]) = {}
      BY <1>1, Zenon DEF QOnce
    <3>2. ASSUME NEW r \in Queues \ {q} PROVE Range(ms[q]) \cap Range(ms[r]) = {}
      <4>1. Range(S.msgs[q]) \cap Range(S.msgs[r]) = {}
        BY <3>1, Zenon
      <4>2. m \notin Range(S.msgs[r]) /\ Range(ms[r]) = Range(S.msgs[r])
        BY <1>12
      <4> QED
        BY <4>1, <4>2, <1>12, Zenon
    <3>3. \A r, s \in Queues \ {q} : r # s => Range(ms[r]) \cap Range(ms[s]) = {}
      BY <3>1, <1>12
    <3> QED
      BY <3>2, <3>3, Zenon
  <2> QED
    BY <2>1, <2>2, <1>5, Zenon DEF QOnce
<1>10. QApart(T.msgs, T.ith, th, km)
  <2>1. \A u \in Threads, y \in Msgs : y \in ClaimsOf(S.ith, th, u) =>
          km[y].st # "free" /\ \A r \in Queues : y \notin Range(ms[r])
    <3>1. \A u \in Threads : m \notin ClaimsOf(S.ith, th, u)
      BY DEF Loose
    <3>2. \A r \in Queues : \A y : y \in Range(ms[r]) => y \in Range(S.msgs[r]) \/ y = m
      BY <1>12
    <3>3. \A u \in Threads, y \in Msgs : y \in ClaimsOf(S.ith, th, u) =>
            km[y].st # "free" /\ \A r \in Queues : y \notin Range(S.msgs[r])
      BY <1>1, Zenon DEF QApart
    <3> QED
      BY <3>1, <3>2, <3>3, Zenon
  <2> QED
    BY <2>1, <1>1, <1>5 DEF QApart
<1>11. QOK(T, home, th, km)
  BY <1>6, <1>7, <1>8, <1>9, <1>10, Zenon DEF QOK
<1> QED
  BY <1>11 DEF T

\* It is handed to a waiting receiver r.
LEMMA HandOver ==
  ASSUME NEW S, NEW home, NEW th, NEW km, NEW m, NEW r \in Threads, NEW x \in IthState,
         Loose(S, th, m), x.kmsg = m, km[m].st # "free",
         QOK(S, home, th, km)
  PROVE  QOK([S EXCEPT !.ith[r] = x], home, th, km)
<1> DEFINE T == [S EXCEPT !.ith[r] = x]
           i == [S.ith EXCEPT ![r] = x]
<1>1. QTyped(S) /\ QApart(S.msgs, S.ith, th, km) /\ S.ith \in [Threads -> IthState]
  BY Zenon DEF QOK, QTyped
<1>2. i \in [Threads -> IthState] /\ i[r] = x /\ \A u \in Threads \ {r} : i[u] = S.ith[u]
  BY <1>1
<1>3. T = [S EXCEPT !.ith = i] /\ T.msgs = S.msgs /\ T.thrs = S.thrs /\ T.ith = i
  BY <1>1 DEF QTyped
<1> HIDE DEF i, T
<1>4. QTyped(T)
  BY <1>1, <1>2, <1>3, Zenon DEF QTyped
<1>5. /\ ClaimsOf(i, th, r) \subseteq ClaimsOf(S.ith, th, r) \cup {m}
      /\ \A u \in Threads \ {r} : ClaimsOf(i, th, u) = ClaimsOf(S.ith, th, u)
      /\ m # NULL
  BY <1>2, ObjectsAssumption DEF ClaimsOf, Loose
<1>6. QApart(S.msgs, i, th, km)
  <2>1. \A q \in Queues : m \notin Range(S.msgs[q])
    BY DEF Loose
  <2>2. \A u \in Threads : m \notin ClaimsOf(S.ith, th, u)
    BY Zenon DEF Loose
  <2>3. ASSUME NEW u \in Threads, th[u].pc \in {"sendwait", "reply"}
        PROVE  th[u].kmsg # i[u].kmsg
    <3>1. CASE u = r
      BY <3>1, <2>2, <1>2, <1>5 DEF ClaimsOf
    <3>2. CASE u # r
      BY <3>2, <2>3, <1>1, <1>2, Zenon DEF QApart
    <3> QED
      BY <3>1, <3>2, Zenon
  <2> QED
    BY <2>1, <2>2, <2>3, <1>1, <1>5, GainsClaim, Zenon
<1>7. QOK(T, home, th, km)
  BY <1>3, <1>4, <1>6 DEF QOK, QDisc
<1> QED
  BY <1>7 DEF T

\* Its sender t keeps it while it waits.
LEMMA Hold ==
  ASSUME NEW S, NEW home, NEW th \in [Threads -> ThrState], NEW km, NEW m,
         NEW t \in Threads, NEW l,
         Loose(S, th, m), l.kmsg = m, km[m].st # "free",
         QOK(S, home, th, km)
  PROVE  QOK(S, home, [th EXCEPT ![t] = l], km)
<1> DEFINE th2 == [th EXCEPT ![t] = l]
<1>1. th2[t] = l /\ \A u \in Threads \ {t} : th2[u] = th[u]
  OBVIOUS
<1> HIDE DEF th2
<1>2. /\ ClaimsOf(S.ith, th2, t) \subseteq ClaimsOf(S.ith, th, t) \cup {m}
      /\ \A u \in Threads \ {t} : ClaimsOf(S.ith, th2, u) = ClaimsOf(S.ith, th, u)
      /\ m # NULL
  BY <1>1, ObjectsAssumption DEF ClaimsOf, Loose
<1>3. QApart(S.msgs, S.ith, th, km)
  BY Zenon DEF QOK
<1>4. QApart(S.msgs, S.ith, th2, km)
  <2>1. \A q \in Queues : m \notin Range(S.msgs[q])
    BY DEF Loose
  <2>2. \A u \in Threads : m \notin ClaimsOf(S.ith, th, u)
    BY Zenon DEF Loose
  <2>3. ASSUME NEW u \in Threads, th2[u].pc \in {"sendwait", "reply"}
        PROVE  th2[u].kmsg # S.ith[u].kmsg
    <3>1. CASE u = t
      BY <3>1, <2>2, <1>1, <1>2 DEF ClaimsOf
    <3>2. CASE u # t
      BY <3>2, <2>3, <1>1, <1>3 DEF QApart
    <3> QED
      BY <3>1, <3>2, Zenon
  <2> QED
    BY <2>1, <2>2, <2>3, <1>2, <1>3, GainsClaim, Zenon
<1>5. QOK(S, home, th2, km)
  BY <1>4, Zenon DEF QOK
<1> QED
  BY <1>5 DEF th2

=============================================================================
