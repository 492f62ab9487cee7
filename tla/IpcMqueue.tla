----------------------------- MODULE IpcMqueue -----------------------------
(***************************************************************************)
(* Mach message queues: sending to a port, receiving from a port or a port *)
(* set, and everything that moves messages and waiting threads about while *)
(* that goes on (ipc_mqueue.c, ipc_pset.c, the queue half of ipc_port.c,   *)
(* ipc_thread.[ch] and the wait/wake part of sched_prim.c).                *)
(*                                                                         *)
(* One action is one stretch of code under the locks that serialise it:    *)
(* from ip_lock(port) or imq_lock(mqueue) to the matching unlock.  A thread*)
(* that blocks does so in one action and goes on in a later one, so every  *)
(* timeout, abort, wakeup or port death can fall in between.               *)
(***************************************************************************)
EXTENDS Lists

CONSTANTS
  Ports, Psets, Threads, Msgs,   \* the objects of the instance
  KernelPorts,                   \* ports whose receiver is ipc_space_kernel
  Circular,                      \* messages with MACH_MSGH_BITS_CIRCULAR set
  NULL,                          \* IPS_NULL, IKM_NULL, ITH_NULL
  QlimitDefault,                 \* MACH_PORT_QLIMIT_DEFAULT
  Qlimits,                       \* limits a task may ask for
  Seqnos,                        \* sequence numbers a task may set
  SendOptions, RcvOptions,       \* how threads call mach_msg
  Overwrite,                     \* may a receive ask for MACH_RCV_OVERWRITE
  Aborts,                        \* the waits thread_abort may hit
  Calls,                         \* the other kernel calls the tasks make
  MP                             \* NCPUS > 1

Queues == Ports \cup Psets

ASSUME ObjectsAssumption ==
  /\ Ports \cap Psets = {}
  /\ KernelPorts \subseteq Ports
  /\ Circular \subseteq Msgs
  /\ NULL \notin Queues \cup Threads \cup Msgs

ASSUME InputsAssumption ==
  /\ QlimitDefault \in Nat
  /\ Qlimits \subseteq Nat
  /\ Seqnos \subseteq Nat
  /\ SendOptions \subseteq {"block", "timeout", "poll", "always"}
  /\ RcvOptions \subseteq {"block", "timeout", "poll"}
  /\ Overwrite \in BOOLEAN
  /\ Aborts \subseteq {"sendwait", "rcvwait"}
  /\ MP \in BOOLEAN

VARIABLES
  ip_receiver,   \* who holds the receive right; "dead" once inactive
  ip_pset,       \* the set a port is a member of
  ip_msgcount, ip_qlimit, ip_seqno,
  ip_blocked,    \* senders waiting for room, per port
  ips_active,    \* port sets not yet destroyed
  ips_locked,    \* sets whose lock a finished call still holds
  imq_messages,  \* kmsgs, per message queue
  imq_threads,   \* waiting receivers, per message queue
  ith,           \* the part of a thread other threads write
  thr,           \* the part of a thread only it writes: control and locals
  kmsg,          \* a message's destination and whether it still exists
  panic,         \* why the kernel stopped, if it did
  sent,          \* history: messages accepted for a port, in order
  taken          \* history: messages given a sequence number, in order

portVars == <<ip_receiver, ip_pset, ip_msgcount, ip_qlimit, ip_blocked>>
setVars  == <<ips_active, ips_locked>>
qVars    == <<imq_messages, imq_threads, ith, ip_seqno, taken>>
vars     == <<portVars, setVars, qVars, thr, kmsg, panic, sent>>

-----------------------------------------------------------------------------
(* The lists a thread may be on besides the one it is put on.              *)

OtherThanReceivers(q, S) ==
  {S.thrs[r] : r \in Queues \ {q}} \cup {ip_blocked[p] : p \in Ports}

OtherThanSenders(p) ==
  {imq_threads[q] : q \in Queues} \cup {ip_blocked[o] : o \in Ports \ {p}}

-----------------------------------------------------------------------------
(* The queue operations, as functions of the state they work on.           *)

QState == [msgs |-> imq_messages, thrs |-> imq_threads, ith |-> ith,
           seqno |-> ip_seqno, taken |-> taken]

Becomes(S) ==
  /\ imq_messages' = S.msgs
  /\ imq_threads' = S.thrs
  /\ ith' = S.ith
  /\ ip_seqno' = S.seqno
  /\ taken' = S.taken

IpActive(p) == ip_receiver[p] # "dead"

QueueOf(p) == IF ip_pset[p] = NULL THEN p ELSE ip_pset[p]

\* Mutant: the thread is not started.
GoneNot(i) == i

\* thread_go: start a waiting thread; nothing happens to one that runs.
Gone(i) == IF i.wait THEN [i EXCEPT !.wait = FALSE, !.result = "AWAKENED"]
                     ELSE i

\* Mutant: the threads are told, but not started.
RousedNot(i, T, mr) ==
  [t \in Threads |-> IF t \in T THEN [i[t] EXCEPT !.state = mr] ELSE i[t]]

\* thread_go after ith_state = mr, for every thread of the set T.
Roused(i, T, mr) ==
  [t \in Threads |-> IF t \in T THEN Gone([i[t] EXCEPT !.state = mr]) ELSE i[t]]

\* ith_state, ith_kmsg, ith_seqno as a receiver is handed message m.
Handed(i, m, n) ==
  [i EXCEPT !.state = "SUCCESS", !.kmsg = m, !.seqno = n]

(***************************************************************************)
(* The messages of port p at the positions mine leave queue src; the first *)
(* n go to the first n receivers waiting on dst, the others queue there.   *)
(***************************************************************************)
MoveTo(S, dst, src, p, mine, n) ==
  LET mv == At(S.msgs[src], mine)
      wt == S.thrs[dst]
      Got(t) == {k \in 1..n : wt[k] = t}
  IN [msgs  |-> [S.msgs EXCEPT
                   ![src] = At(@, DOMAIN @ \ mine),
                   ![dst] = @ \o SubSeq(mv, n + 1, Len(mv))],
      thrs  |-> [S.thrs EXCEPT ![dst] = SubSeq(@, n + 1, Len(@))],
      ith   |-> [t \in Threads |->
                   IF Got(t) = {} THEN S.ith[t]
                   ELSE LET k == CHOOSE k \in Got(t) : TRUE
                        IN Gone(Handed(S.ith[t], mv[k], S.seqno[p] + k - 1))],
      seqno |-> [S.seqno EXCEPT ![p] = @ + n],
      taken |-> [S.taken EXCEPT ![p] = @ \o SubSeq(mv, 1, n)]]

\* Positions of the messages sent to p in queue q.
SentTo(S, q, p) == {i \in DOMAIN S.msgs[q] : kmsg[S.msgs[q][i]].dest = p}

\* Mutants: only the first message moves; waiting receivers are overlooked; the
\* sequence number is not advanced; the messages that move stay on the old
\* queue as well.
MoveFirstOnly(S, dst, src, p) ==
  LET mine == {i \in SentTo(S, src, p) : \A j \in SentTo(S, src, p) : i <= j}
  IN MoveTo(S, dst, src, p, mine, Smaller(Cardinality(mine), Len(S.thrs[dst])))

MoveBesideReceivers(S, dst, src, p) == MoveTo(S, dst, src, p, SentTo(S, src, p), 0)

MoveSameSeqno(S, dst, src, p) ==
  LET mine == SentTo(S, src, p)
  IN [MoveTo(S, dst, src, p, mine, Smaller(Cardinality(mine), Len(S.thrs[dst])))
        EXCEPT !.seqno = S.seqno]

MoveCopies(S, dst, src, p) ==
  LET mine == SentTo(S, src, p)
  IN [MoveTo(S, dst, src, p, mine, Smaller(Cardinality(mine), Len(S.thrs[dst])))
        EXCEPT !.msgs[src] = S.msgs[src]]

ipc_mqueue_move(S, dst, src, p) ==
  LET mine == SentTo(S, src, p)
  IN MoveTo(S, dst, src, p, mine, Smaller(Cardinality(mine), Len(S.thrs[dst])))

\* ipc_mqueue_changed: every waiting receiver is woken with mr.
ipc_mqueue_changed(S, q, mr) ==
  [S EXCEPT !.thrs[q] = <<>>,
            !.ith = Roused(@, Range(S.thrs[q]), mr)]

\* Mutant: the receivers waiting on the port are not told.
PsetAddQuietly(S, s, p) == ipc_mqueue_move(S, s, p, p)

ipc_pset_add(S, s, p) ==
  ipc_mqueue_changed(ipc_mqueue_move(S, s, p, p), p, "PORT_CHANGED")

ipc_pset_remove(S, s, p) == ipc_mqueue_move(S, p, s, p)

\* ipc_port_clear_receiver: the port leaves its set, or its receivers are
\* told that it died; the sequence number starts again.
ipc_port_clear_receiver(S, p) ==
  LET C == IF ip_pset[p] # NULL THEN ipc_pset_remove(S, ip_pset[p], p)
           ELSE ipc_mqueue_changed(S, p, "PORT_DIED")
  IN [C EXCEPT !.seqno[p] = 0]

-----------------------------------------------------------------------------
(* Threads.                                                                *)

Idle == [pc |-> "idle", obj |-> NULL, kmsg |-> NULL, seqno |-> 0,
         opt |-> "block", go |-> NULL]

Running == panic = "none"

\* thread_will_wait with ith_state = st.
WillWait(i, st) == [i EXCEPT !.state = st, !.wait = TRUE]

Exists(m) == m # NULL /\ kmsg[m].st = "live"

\* Mutant: the message is forgotten, not destroyed.
DisposeNot(m) == UNCHANGED kmsg

Dispose(m) == kmsg' = [kmsg EXCEPT ![m].st = "gone"]

\* Mutant: a message that is handed over at once is not counted.
CountQueuedOnly(p) == ip_msgcount[p] + (IF imq_threads[QueueOf(p)] = <<>> THEN 1 ELSE 0)

CountAfterDeliver(p) == ip_msgcount[p] + 1

(***************************************************************************)
(* ipc_mqueue_deliver: count the message, then hand it to the first        *)
(* receiver waiting on the port's queue, or queue it.  The receiver is     *)
(* started after imq_unlock, with preemption off: on one processor nothing *)
(* can come between, on several anything can (pc "go").                    *)
(***************************************************************************)
ipc_mqueue_deliver(t, p, m) ==
  LET q == QueueOf(p)
      r == Head(imq_threads[q])
      n == ip_seqno[p]
  IN /\ ip_msgcount' = [ip_msgcount EXCEPT ![p] = CountAfterDeliver(p)]
     /\ sent' = [sent EXCEPT ![p] = Append(@, m)]
     /\ \/ /\ imq_threads[q] = <<>>
           /\ imq_messages' = [imq_messages EXCEPT ![q] = Append(@, m)]
           /\ thr' = [thr EXCEPT ![t] = Idle]
           /\ UNCHANGED <<imq_threads, ith, ip_seqno, taken>>
        \/ /\ imq_threads[q] # <<>>
           /\ imq_threads' = [imq_threads EXCEPT ![q] = Tail(@)]
           /\ ip_seqno' = [ip_seqno EXCEPT ![p] = n + 1]
           /\ taken' = [taken EXCEPT ![p] = Append(@, m)]
           /\ ith' = [ith EXCEPT ![r] = IF MP THEN Handed(@, m, n)
                                              ELSE Gone(Handed(@, m, n))]
           /\ thr' = [thr EXCEPT ![t] = IF MP THEN [Idle EXCEPT !.pc = "go", !.go = r]
                                              ELSE Idle]
           /\ UNCHANGED imq_messages

(***************************************************************************)
(* The loop of ipc_mqueue_send, from ip_lock(port) to the return or to     *)
(* thread_block.  Option "always" stands for MACH_SEND_ALWAYS and for a    *)
(* send-once right, "poll" for a timeout of zero.                          *)
(***************************************************************************)
SendLoop(t, p, m, opt) ==
  \/ /\ ~IpActive(p)
     /\ kmsg' = [kmsg EXCEPT ![m] = [st |-> "gone", dest |-> p]]
     /\ thr' = [thr EXCEPT ![t] = Idle]
     /\ UNCHANGED <<portVars, qVars, panic, sent>>
  \/ /\ IpActive(p)
     /\ ip_msgcount[p] < ip_qlimit[p] \/ opt = "always"
     /\ ipc_mqueue_deliver(t, p, m)
     /\ kmsg' = [kmsg EXCEPT ![m] = [st |-> "live", dest |-> p]]
     /\ UNCHANGED <<ip_receiver, ip_pset, ip_qlimit, ip_blocked, panic>>
  \/ /\ IpActive(p)
     /\ ip_msgcount[p] >= ip_qlimit[p]
     /\ opt = "poll"
     /\ kmsg' = [kmsg EXCEPT ![m] = [st |-> "gone", dest |-> p]]
     /\ thr' = [thr EXCEPT ![t] = Idle]
     /\ UNCHANGED <<portVars, qVars, panic, sent>>
  \/ /\ IpActive(p)
     /\ ip_msgcount[p] >= ip_qlimit[p]
     /\ opt \in {"block", "timeout"}
     /\ kmsg' = [kmsg EXCEPT ![m] = [st |-> "live", dest |-> p]]
     /\ IF Tangles(t, ip_blocked[p], OtherThanSenders(p))
        THEN panic' = "tangled" /\ UNCHANGED <<ip_blocked, ith, thr>>
        ELSE /\ ip_blocked' = [ip_blocked EXCEPT ![p] = Enqueued(t, @)]
             /\ ith' = [ith EXCEPT ![t] = WillWait(@, "SEND_IN_PROGRESS")]
             /\ thr' = [thr EXCEPT ![t] = [Idle EXCEPT !.pc = "sendwait", !.obj = p,
                                                       !.kmsg = m, !.opt = opt]]
             /\ UNCHANGED panic
     /\ UNCHANGED <<ip_receiver, ip_pset, ip_msgcount, ip_qlimit,
                    imq_messages, imq_threads, ip_seqno, taken, sent>>

(***************************************************************************)
(* ipc_mqueue_send by an idle thread.  A message to a kernel port is given *)
(* to ipc_kobject_server, whose reply, if any, is sent by the same thread  *)
(* with ipc_mqueue_send_always (pc "reply").                               *)
(***************************************************************************)
ipc_mqueue_send(t, m, p, opt) ==
  /\ Running
  /\ thr[t].pc = "idle"
  /\ kmsg[m].st = "free"
  /\ UNCHANGED setVars
  /\ \/ /\ ip_receiver[p] = "kernel"
        /\ \/ /\ kmsg' = [kmsg EXCEPT ![m] = [st |-> "gone", dest |-> p]]
              /\ UNCHANGED thr
           \/ \E r \in Msgs \ {m}, rp \in Ports \ KernelPorts :
                /\ kmsg[r].st = "free"
                /\ kmsg' = [kmsg EXCEPT ![m] = [st |-> "gone", dest |-> p],
                                        ![r] = [st |-> "live", dest |-> rp]]
                /\ thr' = [thr EXCEPT ![t] = [Idle EXCEPT !.pc = "reply", !.obj = rp,
                                                          !.kmsg = r, !.opt = "always"]]
        /\ UNCHANGED <<portVars, qVars, panic, sent>>
     \/ /\ ip_receiver[p] # "kernel"
        /\ m \in Circular
        /\ kmsg' = [kmsg EXCEPT ![m] = [st |-> "gone", dest |-> p]]
        /\ UNCHANGED <<portVars, qVars, thr, panic, sent>>
     \/ /\ ip_receiver[p] # "kernel"
        /\ m \notin Circular
        /\ SendLoop(t, p, m, opt)

\* ipc_mqueue_send_always of the kernel's reply.
SendReply(t) ==
  /\ Running
  /\ thr[t].pc = "reply"
  /\ SendLoop(t, thr[t].obj, thr[t].kmsg, "always")
  /\ UNCHANGED setVars

\* The delayed thread_go at the end of ipc_mqueue_deliver.
DeliverGo(t) ==
  /\ Running
  /\ thr[t].pc = "go"
  /\ ith' = [ith EXCEPT ![thr[t].go] = Gone(@)]
  /\ thr' = [thr EXCEPT ![t] = Idle]
  /\ UNCHANGED <<portVars, setVars, imq_messages, imq_threads, ip_seqno, taken,
                 kmsg, panic, sent>>

(***************************************************************************)
(* A sender runs again after thread_block and takes the port lock.  Woken  *)
(* by the queue (SUCCESS) it tries again; otherwise the wait result says   *)
(* why it woke.  The code leaves ip_blocked as it is on every path.        *)
(***************************************************************************)
SendContinue(t) ==
  LET p == thr[t].obj
      m == thr[t].kmsg
  IN /\ Running
     /\ thr[t].pc = "sendwait"
     /\ ~ith[t].wait
     /\ UNCHANGED setVars
     /\ \/ /\ ith[t].state = "SUCCESS"
           /\ SendLoop(t, p, m, thr[t].opt)
        \/ /\ ith[t].state # "SUCCESS"
           /\ ith[t].result = "INTERRUPTED"
           /\ Dispose(m)
           /\ thr' = [thr EXCEPT ![t] = Idle]
           /\ UNCHANGED <<portVars, qVars, panic, sent>>
        \/ /\ ith[t].state # "SUCCESS"
           /\ ith[t].result = "TIMED_OUT"
           /\ SendLoop(t, p, m, "poll")
        \/ /\ ith[t].state # "SUCCESS"
           /\ ith[t].result = "AWAKENED"
           /\ panic' = "send: bad wait_result"
           /\ UNCHANGED <<portVars, qVars, thr, kmsg, sent>>

-----------------------------------------------------------------------------
(* Receiving.                                                              *)

(***************************************************************************)
(* One turn of the loop of ipc_mqueue_receive with mqueue q locked, from   *)
(* the queue state S.                                                      *)
(***************************************************************************)
ReceiveLoop(t, q, opt, S) ==
  \/ /\ S.msgs[q] # <<>>
     /\ LET m == Head(S.msgs[q])
            p == kmsg[m].dest
        IN /\ Becomes([S EXCEPT !.msgs[q] = Tail(@),
                                !.seqno[p] = @ + 1,
                                !.taken[p] = Append(@, m)])
           /\ thr' = [thr EXCEPT ![t] = [Idle EXCEPT !.pc = "finish", !.kmsg = m,
                                                     !.seqno = S.seqno[p]]]
     /\ UNCHANGED panic
  \/ /\ S.msgs[q] = <<>>
     /\ opt = "poll"
     /\ Becomes(S)
     /\ thr' = [thr EXCEPT ![t] = Idle]
     /\ UNCHANGED panic
  \/ /\ S.msgs[q] = <<>>
     /\ opt # "poll"
     /\ IF Tangles(t, S.thrs[q], OtherThanReceivers(q, S))
        THEN panic' = "tangled" /\ Becomes(S) /\ UNCHANGED thr
        ELSE /\ Becomes([S EXCEPT
                  !.thrs[q] = Enqueued(t, @),
                  !.ith[t] = WillWait(@, IF opt = "timeout" THEN "RCV_IN_PROGRESS_TIMED"
                                                            ELSE "RCV_IN_PROGRESS")])
             /\ thr' = [thr EXCEPT ![t] = [Idle EXCEPT !.pc = "rcvwait", !.obj = q,
                                                       !.opt = opt]]
             /\ UNCHANGED panic

(***************************************************************************)
(* ipc_mqueue_copyin: the name denotes the receive right of a port that is *)
(* in no live set (else MACH_RCV_IN_SET, without effect), or a port set.   *)
(* A port in a dead set leaves the set first.                              *)
(***************************************************************************)
CanCopyin(q) ==
  \/ /\ q \in Ports
     /\ ip_receiver[q] = "task"
     /\ ip_pset[q] # NULL => ~ips_active[ip_pset[q]] /\ ~ips_locked[ip_pset[q]]
  \/ /\ q \in Psets
     /\ ips_active[q]
     /\ ~ips_locked[q]

LeavesDeadSet(q) == q \in Ports /\ ip_pset[q] # NULL

ipc_mqueue_copyin(q) ==
  IF LeavesDeadSet(q) THEN ipc_pset_remove(QState, ip_pset[q], q) ELSE QState

psetAfterCopyin(q) ==
  IF LeavesDeadSet(q) THEN [ip_pset EXCEPT ![q] = NULL] ELSE ip_pset

\* mach_msg_receive up to the first block: copyin and receive, the queue
\* locked all along.
mach_msg_receive(t, q, opt) ==
  /\ Running
  /\ thr[t].pc = "idle"
  /\ CanCopyin(q)
  /\ ip_pset' = psetAfterCopyin(q)
  /\ ReceiveLoop(t, q, opt, ipc_mqueue_copyin(q))
  /\ UNCHANGED <<ip_receiver, ip_msgcount, ip_qlimit, ip_blocked, setVars, kmsg, sent>>

\* The same with MACH_RCV_OVERWRITE: the queue is unlocked while the scatter
\* list is allocated and copied in, and locked again afterwards.
ReceiveOverwrite(t, q, opt) ==
  /\ Overwrite
  /\ Running
  /\ thr[t].pc = "idle"
  /\ CanCopyin(q)
  /\ ip_pset' = psetAfterCopyin(q)
  /\ Becomes(ipc_mqueue_copyin(q))
  /\ thr' = [thr EXCEPT ![t] = [Idle EXCEPT !.pc = "overwrite", !.obj = q, !.opt = opt]]
  /\ UNCHANGED <<ip_receiver, ip_msgcount, ip_qlimit, ip_blocked, setVars, kmsg, panic, sent>>

ReceiveRelocked(t) ==
  /\ Running
  /\ thr[t].pc = "overwrite"
  /\ ReceiveLoop(t, thr[t].obj, thr[t].opt, QState)
  /\ UNCHANGED <<portVars, setVars, kmsg, sent>>

(***************************************************************************)
(* A receiver runs again after thread_block and takes the queue lock.  One *)
(* that was told SUCCESS without a message being handed to it reads a      *)
(* kmsg that no longer exists; the model stops there.                      *)
(***************************************************************************)
ReceiveContinue(t) ==
  LET q == thr[t].obj
      Off == [QState EXCEPT !.thrs[q] = Without(@, t)]   \* ipc_thread_rmqueue
  IN /\ Running
     /\ thr[t].pc = "rcvwait"
     /\ ~ith[t].wait
     /\ UNCHANGED <<portVars, setVars, kmsg, sent>>
     /\ \/ /\ ith[t].state = "SUCCESS"
           /\ Exists(ith[t].kmsg)
           /\ thr' = [thr EXCEPT ![t] = [Idle EXCEPT !.pc = "finish",
                                                     !.kmsg = ith[t].kmsg,
                                                     !.seqno = ith[t].seqno]]
           /\ UNCHANGED <<qVars, panic>>
        \/ /\ ith[t].state = "SUCCESS"
           /\ ~Exists(ith[t].kmsg)
           /\ panic' = "receive: no kmsg"
           /\ UNCHANGED <<qVars, thr>>
        \/ /\ ith[t].state \in {"PORT_DIED", "PORT_CHANGED"}
           /\ thr' = [thr EXCEPT ![t] = Idle]
           /\ UNCHANGED <<qVars, panic>>
        \/ /\ ith[t].state \in {"RCV_IN_PROGRESS", "RCV_IN_PROGRESS_TIMED"}
           /\ ith[t].result = "INTERRUPTED"
           /\ Becomes(Off)
           /\ thr' = [thr EXCEPT ![t] = Idle]
           /\ UNCHANGED panic
        \/ /\ ith[t].state \in {"RCV_IN_PROGRESS", "RCV_IN_PROGRESS_TIMED"}
           /\ ith[t].result = "TIMED_OUT"
           /\ ReceiveLoop(t, q, "poll", Off)
        \/ /\ ith[t].state \in {"RCV_IN_PROGRESS", "RCV_IN_PROGRESS_TIMED"}
           /\ ith[t].result = "AWAKENED"
           /\ Becomes(Off)
           /\ panic' = "receive: bad wait_result"
           /\ UNCHANGED thr

\* Mutant: a sender is woken only when the queue has become empty.
WakesWhenEmpty(p, n) == ip_blocked[p] # <<>> /\ n = 0

WakesSender(p, n) == ip_blocked[p] # <<>> /\ n < ip_qlimit[p]

(***************************************************************************)
(* ipc_mqueue_finish_receive: give the message's slot back and let one     *)
(* blocked sender try again if there is room.                              *)
(***************************************************************************)
ipc_mqueue_finish_receive(t) ==
  LET m == thr[t].kmsg
      p == kmsg[m].dest
      n == ip_msgcount[p] - 1
      wake == WakesSender(p, n)
  IN /\ Running
     /\ thr[t].pc = "finish"
     /\ IF IpActive(p)
        THEN /\ ip_msgcount' = [ip_msgcount EXCEPT ![p] = n]
             /\ ip_blocked' = [ip_blocked EXCEPT ![p] = IF wake THEN Tail(@) ELSE @]
             /\ ith' = Roused(ith, IF wake THEN {Head(ip_blocked[p])} ELSE {}, "SUCCESS")
        ELSE UNCHANGED <<ip_msgcount, ip_blocked, ith>>
     /\ Dispose(m)
     /\ thr' = [thr EXCEPT ![t] = Idle]
     /\ UNCHANGED <<ip_receiver, ip_pset, ip_qlimit, setVars, imq_messages, imq_threads,
                    ip_seqno, taken, panic, sent>>

-----------------------------------------------------------------------------
(* The wait ends for a reason other than IPC: clear_wait.                  *)

ClearWait(t, result) ==
  /\ Running
  /\ ith[t].wait
  /\ ith' = [ith EXCEPT ![t].wait = FALSE, ![t].result = result]
  /\ UNCHANGED <<portVars, setVars, imq_messages, imq_threads, ip_seqno, taken,
                 thr, kmsg, panic, sent>>

\* thread_timeout, armed by thread_will_wait_with_timeout only.
thread_timeout(t) == thr[t].opt = "timeout" /\ ClearWait(t, "TIMED_OUT")

\* thread_abort and thread_terminate reach clear_wait through thread_act.c.
thread_abort(t) == thr[t].pc \in Aborts /\ ClearWait(t, "INTERRUPTED")

-----------------------------------------------------------------------------
(* Port sets, queue limits, sequence numbers, receive rights.  A call that *)
(* needs a set's lock waits while ips_locked holds.                        *)

Unlocked(s) == s # NULL => ~ips_locked[s]

(***************************************************************************)
(* ipc_pset_move: take a port out of its set (n = NULL), put it into one,  *)
(* or both in one step.  The space lock keeps port and new set alive.      *)
(***************************************************************************)
ipc_pset_move(p, n) ==
  LET o == ip_pset[p]
      R == IF o = NULL THEN QState ELSE ipc_pset_remove(QState, o, p)
  IN /\ "pset_move" \in Calls
     /\ Running
     /\ ip_receiver[p] = "task"
     /\ n # NULL => ips_active[n]
     /\ o # n
     /\ Unlocked(o) /\ Unlocked(n)
     /\ ip_pset' = [ip_pset EXCEPT ![p] = n]
     /\ Becomes(IF n = NULL THEN R ELSE ipc_pset_add(R, n, p))
     /\ UNCHANGED <<ip_receiver, ip_msgcount, ip_qlimit, ip_blocked, setVars, thr,
                    kmsg, panic, sent>>

\* ipc_pset_destroy: the members stay, the waiting receivers are told.
ipc_pset_destroy(s) ==
  /\ "pset_destroy" \in Calls
  /\ Running
  /\ ips_active[s]
  /\ ~ips_locked[s]
  /\ ips_active' = [ips_active EXCEPT ![s] = FALSE]
  /\ Becomes(ipc_mqueue_changed(QState, s, "PORT_DIED"))
  /\ UNCHANGED <<portVars, ips_locked, thr, kmsg, panic, sent>>

\* ipc_port_set_qlimit: as many senders as the limit grows are woken.
ipc_port_set_qlimit(p, n) ==
  LET k == IF n > ip_qlimit[p] THEN Smaller(n - ip_qlimit[p], Len(ip_blocked[p])) ELSE 0
  IN /\ "set_qlimit" \in Calls
     /\ Running
     /\ ip_receiver[p] = "task"
     /\ n # ip_qlimit[p]
     /\ ip_qlimit' = [ip_qlimit EXCEPT ![p] = n]
     /\ ip_blocked' = [ip_blocked EXCEPT ![p] = SubSeq(@, k + 1, Len(@))]
     /\ ith' = Roused(ith, {ip_blocked[p][i] : i \in 1..k}, "SUCCESS")
     /\ UNCHANGED <<ip_receiver, ip_pset, ip_msgcount, setVars, imq_messages,
                    imq_threads, ip_seqno, taken, thr, kmsg, panic, sent>>

(***************************************************************************)
(* ipc_port_set_seqno.  In a live set the code takes the set's lock and    *)
(* returns without giving it back.                                         *)
(***************************************************************************)
ipc_port_set_seqno(p, n) ==
  LET s == ip_pset[p]
  IN /\ "set_seqno" \in Calls
     /\ Running
     /\ ip_receiver[p] = "task"
     /\ Unlocked(s)
     /\ \/ /\ s # NULL
           /\ ips_active[s]
           /\ ip_seqno' = [ip_seqno EXCEPT ![p] = n]
           /\ ips_locked' = [ips_locked EXCEPT ![s] = TRUE]
           /\ UNCHANGED <<ip_pset, imq_messages, imq_threads, ith, taken>>
        \/ /\ s # NULL
           /\ ~ips_active[s]
           /\ ip_pset' = [ip_pset EXCEPT ![p] = NULL]
           /\ Becomes([ipc_pset_remove(QState, s, p) EXCEPT !.seqno[p] = n])
           /\ UNCHANGED ips_locked
        \/ /\ s = NULL
           /\ ip_seqno' = [ip_seqno EXCEPT ![p] = n]
           /\ UNCHANGED <<ip_pset, ips_locked, imq_messages, imq_threads, ith, taken>>
     /\ UNCHANGED <<ip_receiver, ip_msgcount, ip_qlimit, ip_blocked, ips_active, thr,
                    kmsg, panic, sent>>

\* ipc_right_copyin of a receive right (MOVE_RECEIVE): the right goes into a
\* message and the port is in limbo.
MoveReceive(p) ==
  /\ "move_receive" \in Calls
  /\ Running
  /\ ip_receiver[p] = "task"
  /\ Unlocked(ip_pset[p])
  /\ ip_receiver' = [ip_receiver EXCEPT ![p] = "limbo"]
  /\ ip_pset' = [ip_pset EXCEPT ![p] = NULL]
  /\ Becomes(ipc_port_clear_receiver(QState, p))
  /\ UNCHANGED <<ip_msgcount, ip_qlimit, ip_blocked, setVars, thr, kmsg, panic, sent>>

\* ipc_right_copyout of a receive right: some task has it again.
CopyoutReceive(p) ==
  /\ "move_receive" \in Calls
  /\ Running
  /\ ip_receiver[p] = "limbo"
  /\ ip_receiver' = [ip_receiver EXCEPT ![p] = "task"]
  /\ UNCHANGED <<ip_pset, ip_msgcount, ip_qlimit, ip_blocked, setVars, qVars, thr,
                 kmsg, panic, sent>>

(***************************************************************************)
(* ipc_port_destroy by thread t, up to ip_unlock: the receive right is     *)
(* cleared (unless it was in limbo), every blocked sender is roused, the   *)
(* port is dead.  The queued messages are destroyed one by one afterwards, *)
(* the queue lock being dropped for each (pc "drain").                     *)
(***************************************************************************)
ipc_port_destroy(t, p) ==
  LET S == IF ip_receiver[p] = "task" THEN ipc_port_clear_receiver(QState, p) ELSE QState
  IN /\ "port_destroy" \in Calls
     /\ Running
     /\ thr[t].pc = "idle"
     /\ ip_receiver[p] \in {"task", "limbo"}
     /\ Unlocked(ip_pset[p])
     /\ ip_receiver' = [ip_receiver EXCEPT ![p] = "dead"]
     /\ ip_pset' = [ip_pset EXCEPT ![p] = NULL]
     /\ ip_blocked' = [ip_blocked EXCEPT ![p] = <<>>]
     /\ Becomes([S EXCEPT !.ith = Roused(@, Range(ip_blocked[p]), "SUCCESS")])
     /\ thr' = [thr EXCEPT ![t] = [Idle EXCEPT !.pc = "drain", !.obj = p]]
     /\ UNCHANGED <<ip_msgcount, ip_qlimit, setVars, kmsg, panic, sent>>

\* Mutant: one message is destroyed, then the thread goes on.
DrainFirstOnly(t) ==
  LET p == thr[t].obj
  IN /\ Running
     /\ thr[t].pc = "drain"
     /\ thr' = [thr EXCEPT ![t] = Idle]
     /\ imq_messages[p] # <<>>
     /\ Dispose(Head(imq_messages[p]))
     /\ imq_messages' = [imq_messages EXCEPT ![p] = Tail(@)]
     /\ UNCHANGED <<portVars, setVars, imq_threads, ith, ip_seqno, taken, panic, sent>>

DrainQueue(t) ==
  LET p == thr[t].obj
  IN /\ Running
     /\ thr[t].pc = "drain"
     /\ \/ /\ imq_messages[p] # <<>>
           /\ Dispose(Head(imq_messages[p]))
           /\ imq_messages' = [imq_messages EXCEPT ![p] = Tail(@)]
           /\ UNCHANGED thr
        \/ /\ imq_messages[p] = <<>>
           /\ thr' = [thr EXCEPT ![t] = Idle]
           /\ UNCHANGED <<imq_messages, kmsg>>
     /\ UNCHANGED <<portVars, setVars, imq_threads, ith, ip_seqno, taken, panic, sent>>

-----------------------------------------------------------------------------
Init ==
  /\ ip_receiver = [p \in Ports |-> IF p \in KernelPorts THEN "kernel" ELSE "task"]
  /\ ip_pset = [p \in Ports |-> NULL]
  /\ ip_msgcount = [p \in Ports |-> 0]
  /\ ip_qlimit = [p \in Ports |-> QlimitDefault]
  /\ ip_seqno = [p \in Ports |-> 0]
  /\ ip_blocked = [p \in Ports |-> <<>>]
  /\ ips_active = [s \in Psets |-> TRUE]
  /\ ips_locked = [s \in Psets |-> FALSE]
  /\ imq_messages = [q \in Queues |-> <<>>]
  /\ imq_threads = [q \in Queues |-> <<>>]
  /\ ith = [t \in Threads |-> [state |-> "SUCCESS", kmsg |-> NULL, seqno |-> 0,
                               wait |-> FALSE, result |-> "AWAKENED"]]
  /\ thr = [t \in Threads |-> Idle]
  /\ kmsg = [m \in Msgs |-> [st |-> "free", dest |-> NULL]]
  /\ panic = "none"
  /\ sent = [p \in Ports |-> <<>>]
  /\ taken = [p \in Ports |-> <<>>]

\* What a thread does when it is next on a processor.
Step(t) ==
  \/ SendReply(t) \/ DeliverGo(t) \/ SendContinue(t)
  \/ ReceiveRelocked(t) \/ ReceiveContinue(t) \/ ipc_mqueue_finish_receive(t)
  \/ DrainQueue(t)

\* Calls a thread makes of its own accord, and wakeups by clock and abort.
Call(t) ==
  \/ \E m \in Msgs, p \in Ports, opt \in SendOptions : ipc_mqueue_send(t, m, p, opt)
  \/ \E q \in Queues, opt \in RcvOptions :
       mach_msg_receive(t, q, opt) \/ ReceiveOverwrite(t, q, opt)
  \/ \E p \in Ports : ipc_port_destroy(t, p)

PortCall ==
  \/ \E p \in Ports, n \in Psets \cup {NULL} : ipc_pset_move(p, n)
  \/ \E s \in Psets : ipc_pset_destroy(s)
  \/ \E p \in Ports, n \in Qlimits : ipc_port_set_qlimit(p, n)
  \/ \E p \in Ports, n \in Seqnos : ipc_port_set_seqno(p, n)
  \/ \E p \in Ports : MoveReceive(p) \/ CopyoutReceive(p)

Next ==
  \/ \E t \in Threads : Step(t) \/ Call(t) \/ thread_timeout(t) \/ thread_abort(t)
  \/ PortCall

\* Weak fairness of Step: a runnable thread is eventually run.
Fairness == \A t \in Threads : WF_vars(Step(t))

Spec == Init /\ [][Next]_vars

FairSpec == Spec /\ Fairness

-----------------------------------------------------------------------------
(* Properties.                                                             *)

MaybeMsg == Msgs \cup {NULL}

IthState ==
  [state : {"SUCCESS", "SEND_IN_PROGRESS", "RCV_IN_PROGRESS", "RCV_IN_PROGRESS_TIMED",
            "PORT_DIED", "PORT_CHANGED"},
   kmsg : MaybeMsg, seqno : Nat, wait : BOOLEAN,
   result : {"AWAKENED", "TIMED_OUT", "INTERRUPTED"}]

ThrState ==
  [pc : {"idle", "sendwait", "reply", "go", "overwrite", "rcvwait", "finish", "drain"},
   obj : Queues \cup {NULL}, kmsg : MaybeMsg, seqno : Nat,
   opt : {"block", "timeout", "poll", "always"}, go : Threads \cup {NULL}]

\* What the locals l of a thread are at each point of its code.
LocalsOK(l) ==
  /\ l.pc \in {"sendwait", "reply"} => l.obj \in Ports /\ l.kmsg \in Msgs
  /\ l.pc = "finish" => l.kmsg \in Msgs
  /\ l.pc \in {"overwrite", "rcvwait"} => l.obj \in Queues
  /\ l.pc = "drain" => l.obj \in Ports
  /\ l.pc = "go" => l.go \in Threads
  /\ l.pc \notin {"sendwait", "reply", "finish"} => l.kmsg = NULL

PortsOK ==
  /\ ip_receiver \in [Ports -> {"task", "kernel", "limbo", "dead"}]
  /\ ip_pset \in [Ports -> Psets \cup {NULL}]
  /\ ip_msgcount \in [Ports -> Int]
  /\ ip_qlimit \in [Ports -> Nat]
  /\ ip_blocked \in [Ports -> Seq(Threads)]

SetsOK == ips_active \in [Psets -> BOOLEAN] /\ ips_locked \in [Psets -> BOOLEAN]

QueuesOK ==
  /\ imq_messages \in [Queues -> Seq(Msgs)]
  /\ imq_threads \in [Queues -> Seq(Threads)]
  /\ ith \in [Threads -> IthState]
  /\ ip_seqno \in [Ports -> Nat]
  /\ taken \in [Ports -> Seq(Msgs)]

ThreadsOK == thr \in [Threads -> ThrState] /\ \A t \in Threads : LocalsOK(thr[t])

MsgsOK ==
  /\ kmsg \in [Msgs -> [st : {"free", "live", "gone"}, dest : Ports \cup {NULL}]]
  /\ \A m \in Msgs : kmsg[m].st # "free" => kmsg[m].dest \in Ports
  /\ sent \in [Ports -> Seq(Msgs)]

PanicOK ==
  panic \in {"none", "tangled", "send: bad wait_result", "receive: bad wait_result",
            "receive: no kmsg"}

\* The type invariant.  ip_msgcount is an Int because only MsgCount says
\* that it is never decremented below zero.
TypeOK == PortsOK /\ SetsOK /\ QueuesOK /\ ThreadsOK /\ MsgsOK /\ PanicOK

\* No queue ever holds a message while a receiver waits on it: what
\* ipc_mqueue_move and ipc_mqueue_deliver assert, and without which a
\* receiver sleeps beside a message.
QueueDiscipline ==
  \A q \in Queues : imq_messages[q] = <<>> \/ imq_threads[q] = <<>>

\* Every queued message exists and is on the one queue a receiver for its
\* port would look at: the set's if the port is in a set, the port's own
\* otherwise, whatever ipc_pset_move did meanwhile.
RightQueue ==
  \A q \in Queues : \A m \in Range(imq_messages[q]) :
    kmsg[m].st = "live" /\ kmsg[m].dest \in Ports /\ QueueOf(kmsg[m].dest) = q

\* A receiver waits only where messages can still arrive: on a live set, or
\* on a port that has its receive right in a task and is in no set (the
\* asserts of ipc_pset_add and ipc_port_destroy, and why they call
\* ipc_mqueue_changed).
WaitersAreServable ==
  \A q \in Queues : imq_threads[q] # <<>> =>
    IF q \in Ports THEN ip_receiver[q] = "task" /\ ip_pset[q] = NULL
                   ELSE ips_active[q]

\* The messages of port p on its current queue, in order.
Pending(p) ==
  LET s == imq_messages[QueueOf(p)]
  IN At(s, {i \in DOMAIN s : kmsg[s[i]].dest = p})

\* Messages of one port are received in the order in which they were sent
\* and none is lost: those taken so far followed by those still queued are
\* those sent, across every move of the port between sets.
OrderKept ==
  \A p \in Ports :
    /\ IpActive(p) => sent[p] = taken[p] \o Pending(p)
    /\ taken[p] = SubSeq(sent[p], 1, Len(taken[p]))

\* Has t been handed message m without having run since?
HandedTo(t, m) == thr[t].pc = "rcvwait" /\ ith[t].state = "SUCCESS" /\ ith[t].kmsg = m

\* Where message m is.
Places(m) ==
  {<<"queued", x>> : x \in {y \in Queues \X (1..Cardinality(Msgs)) :
       y[2] \in DOMAIN imq_messages[y[1]] /\ imq_messages[y[1]][y[2]] = m}}
    \cup {<<"held", t>> : t \in {u \in Threads : thr[u].kmsg = m}}
    \cup {<<"handed", t>> : t \in {u \in Threads : HandedTo(u, m)}}

\* A message that exists is in exactly one place (one queue slot, one
\* thread's hands), and one that does not is nowhere: no step drops,
\* duplicates or frees a message that another thread can still reach.
OnePlace ==
  \A m \in Msgs : Cardinality(Places(m)) = IF kmsg[m].st = "live" THEN 1 ELSE 0

\* The messages thread t can reach: the one in its hands and the last one
\* handed to it.
Claims(t) == {thr[t].kmsg, ith[t].kmsg} \ {NULL}

\* No message is within reach of two parties: queues hold a message at most
\* once between them, what a thread can reach is on no queue and within no
\* other thread's reach, and a sender's message is not one handed to it
\* before.  Unlike OnePlace this is inductive.
Unshared ==
  /\ \A q \in Queues : IsInjective(imq_messages[q])
  /\ \A q, r \in Queues : q # r => Range(imq_messages[q]) \cap Range(imq_messages[r]) = {}
  /\ \A t \in Threads, m \in Msgs : m \in Claims(t) =>
       kmsg[m].st # "free" /\ \A q \in Queues : m \notin Range(imq_messages[q])
  /\ \A t, u \in Threads : t # u => Claims(t) \cap Claims(u) = {}
  /\ \A t \in Threads : thr[t].pc \in {"sendwait", "reply"} => thr[t].kmsg # ith[t].kmsg

\* Only a port whose receive right is in a task is in a set.
OnlyTaskPortsInSets == \A p \in Ports : ip_receiver[p] # "task" => ip_pset[p] = NULL

\* Messages of p that occupy a slot: queued, handed over, or being received.
Slots(p) ==
  {m \in Msgs : kmsg[m].dest = p /\ kmsg[m].st = "live"
     /\ \A t \in Threads : thr[t].kmsg = m => thr[t].pc = "finish"}

\* ip_msgcount counts exactly the messages between deliver and
\* finish_receive, so it never goes below zero (the assert in
\* ipc_mqueue_finish_receive) and no slot of the queue limit leaks.
MsgCount == \A p \in Ports : IpActive(p) => ip_msgcount[p] = Cardinality(Slots(p))

\* Senders woken to try again that have not run yet.
Retrying(p) ==
  {t \in Threads : thr[t].pc = "sendwait" /\ thr[t].obj = p /\ ith[t].state = "SUCCESS"}

\* While senders stay blocked on a live port, the queue is full once every
\* sender already woken has taken its slot: no wakeup of
\* ipc_mqueue_finish_receive or ipc_port_set_qlimit is lost.
NoLostSendWakeup ==
  \A p \in Ports :
    IpActive(p) /\ ip_blocked[p] # <<>> =>
      ip_msgcount[p] + Cardinality(Retrying(p)) >= ip_qlimit[p]

\* Once the thread that destroyed a port has drained it, its queue is empty
\* and nobody is blocked on it: the last look of ipc_port_destroy at the
\* queue really is the last.
DeadPortsEmpty ==
  \A p \in Ports : ~IpActive(p) =>
    /\ ip_blocked[p] = <<>>
    /\ \/ imq_messages[p] = <<>>
       \/ \E t \in Threads : thr[t].pc = "drain" /\ thr[t].obj = p

\* A receive right in transit starts again at sequence number 0, as
\* ipc_port_destroy asserts: nobody receives from the port meanwhile.
LimboSeqno == \A p \in Ports : ip_receiver[p] \in {"limbo", "dead"} => ip_seqno[p] = 0

\* The sequence number a receiver gets is the message's place in the order
\* of receipt, also when several receivers race and messages move with
\* their port (if no task resets the number).
SeqnoIsRank ==
  \A t \in Threads : thr[t].pc = "finish" =>
    LET p == kmsg[thr[t].kmsg].dest
        n == thr[t].seqno + 1
    IN n <= Len(taken[p]) /\ taken[p][n] = thr[t].kmsg

\* Messages are numbered in the order in which they were sent (OrderKept) and
\* received (SeqnoIsRank), across the moves of their port between sets.
InOrder == OrderKept /\ SeqnoIsRank

\* No message and no slot is lost: messages come in order (OrderKept) and
\* exactly those between deliver and finish_receive are counted (MsgCount).
NothingLost == OrderKept /\ MsgCount

\* A port that left its task is clean: no sequence number (LimboSeqno) and,
\* once dead, no message and no blocked sender stays behind (DeadPortsEmpty).
GonePortsAreClean == LimboSeqno /\ DeadPortsEmpty

\* The kernel never panics, never follows links of a tangled list and never
\* receives a message that was not handed over.
NoPanic == panic = "none"

\* A thread is put on a list only while it is on no other: the asserts of
\* ipc_thread_enqueue_macro on the thread's links.
ListsIntact == panic # "tangled"

\* A receiver woken for another reason than IPC timed out or was aborted:
\* any other wait result is a panic in ipc_mqueue_receive.
KnownWaitResult == panic # "receive: bad wait_result"

\* A kernel call gives back the set locks it takes (mach_port_set_seqno runs
\* with "Nothing locked").
NothingLocked == \A s \in Psets : ~ips_locked[s]

\* A sender blocked on a port that dies gives up its message and goes on
\* (ipc_port_destroy rouses every blocked sender).
SendersOfDeadPortsReturn ==
  \A t \in Threads, p \in Ports :
    (thr[t].pc = "sendwait" /\ thr[t].obj = p /\ ~IpActive(p)) ~> (thr[t].pc = "idle")

\* If from some time on a port has room, no sender stays blocked on it:
\* receives and new limits wake senders (ipc_mqueue_finish_receive,
\* ipc_port_set_qlimit), and a woken sender looks at the port again.
RoomUnblocks ==
  \A t \in Threads, p \in Ports :
    <>[](ip_msgcount[p] < ip_qlimit[p]) =>
      []<>~(thr[t].pc = "sendwait" /\ thr[t].obj = p)

\* A message handed to a waiting receiver is received, even if the receiver
\* times out or is aborted at the same moment, and the slot is freed.
HandedIsReceived ==
  \A t \in Threads, m \in Msgs : HandedTo(t, m) ~> (kmsg[m].st = "gone")

=============================================================================
