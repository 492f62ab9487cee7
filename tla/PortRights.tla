----------------------------- MODULE PortRights -----------------------------
(***************************************************************************)
(* The calls of ipc/mach_port.c, messages that carry rights                *)
(* (ipc/ipc_kmsg.c), the notifications the kernel sends when rights and    *)
(* ports go (ipc/ipc_notify.c) and the death of ports and name spaces, as  *)
(* steps of threads on the state of IpcRight.                              *)
(*                                                                         *)
(* A step is what the code does under one hold of the space lock and of    *)
(* the port lock; chores are done in order and interleave with the steps   *)
(* of the other threads.  Each task has one thread.  The queue limit, the  *)
(* receivers' waits and port sets are in IpcMqueue; the reply port of a    *)
(* message header, mach_port_set_mscount, mach_port_extract_right and the  *)
(* DIPC code are left out.                                                 *)
(***************************************************************************)
EXTENDS IpcRight

CONSTANTS Calls,       \* the calls each task makes
          Dests,       \* dispositions of the destination of a message,
          Bodies,      \* of the right in its body,
          Inserts,     \* and of an inserted right
          Starts,      \* the rights and requests the tasks may start with
          RtPorts,     \* ports with IP_RT: notifications to them may find no
                       \* buffer in the pool
          MaxMsgs,     \* bound: messages a task may leave waiting in a queue
          MaxMscount,  \* bound: rights made from one receive right
          MaxSonce,    \* bound: send-once rights of one port
          MaxCalls     \* bound: calls made in all

vars == <<port, entry, alive, queue, chores, dying, told, lost, calls>>

-----------------------------------------------------------------------------
(* Messages.                                                               *)

\* ipc_object_destroy: a send-once right ends in a notification.
Destroy(r) == IF r \in {NULL, DEAD} THEN <<>>
              ELSE IF r.right = "sonce" THEN Notify(r.port, NULL)
              ELSE Chore("destroy", r)

\* A right that did not get in is destroyed.
OrDestroy(k, r) == IF k.got = NULL THEN First(k, Destroy(r)) ELSE k

\* The rights of the message go; it stays in ith_messages meanwhile.
ipc_kmsg_clean(k, m) ==
    First([k EXCEPT !.dying = <<[m EXCEPT !.dest = NULL, !.body = NULL]>> \o @],
          Destroy(m.dest) \o Destroy(m.body) \o Chore("cleaned", NULL))

\* ith_messages curtails recursion: only the first message starts the loop.
ipc_kmsg_destroy(k, m) ==
    IF k.dying = <<>> THEN ipc_kmsg_clean(k, m)
    ELSE [k EXCEPT !.dying = Append(@, m)]

\* Mutant: the right of a dead destination is left to ipc_kmsg_destroy.
SendKeepsRight(k, m) ==
    LET p == m.dest.port IN
    IF m.circular THEN ipc_kmsg_destroy(k, m)
    ELSE IF k.port[p].active THEN [k EXCEPT !.queue[p] = Append(@, m)]
    ELSE ipc_kmsg_destroy(k, m)

\* ipc_mqueue_send with MACH_SEND_ALWAYS or room in the queue; the right of a
\* dead destination is given back here.
ipc_mqueue_send(k, m) ==
    LET p == m.dest.port IN
    IF m.circular THEN ipc_kmsg_destroy(k, m)
    ELSE IF k.port[p].active THEN [k EXCEPT !.queue[p] = Append(@, m)]
    ELSE ipc_kmsg_destroy(Refer(k, p, -1), [m EXCEPT !.dest = NULL])

\* The right of the destination is used up when the message is received.
ipc_object_copyout_dest(k, t, r) ==
    LET p == r.port IN
    IF ~k.port[p].active THEN Refer(k, p, -1)
    ELSE IF r.right = "send" THEN DropSend(Refer(k, p, -1), p)
    ELSE IF \E n \in Names : k.port[p].at = <<t, n>>
    THEN ipc_port_release_sonce(k, p)
    ELSE First(k, Notify(p, NULL))

-----------------------------------------------------------------------------
(* The chores.                                                             *)

Doing(t, do) == chores[t] # <<>> /\ Head(chores[t]).do = do

Item(t) == Head(chores[t])

Rest(t) == K(t, Tail(chores[t]))

Does(t, k) == Becomes(t, k) /\ UNCHANGED <<alive, calls>>

\* ipc_notify_port_deleted, _port_destroyed, _no_senders, _send_once and
\* _dead_name: the right carries the message, or is dropped for want of memory.
ipc_notify(t) ==
    /\ Doing(t, "notify")
    /\ LET q == Item(t).to
           b == Item(t).body
           m == [dest |-> Right("sonce", q), body |-> b, circular |-> FALSE]
           drop == First(Rest(t), Destroy(b))
       IN  \/ Does(t, ipc_mqueue_send(Rest(t), m))
           \/ q \in RtPorts /\ Does(t, ipc_port_release_sonce(drop, q))

\* ipc_port_destroy: offer the port to its backup, or let it die.
PortBackup(t) ==
    /\ Doing(t, "backup")
    /\ LET p == Item(t).port
           q == Item(t).to
           k == ipc_port_check_circularity(Rest(t), p, q)
       IN  Does(t, IF k.got THEN PortDies(ipc_port_release_sonce(k, q), p)
                   ELSE First(k, Notify(q, Right("receive", p))))

\* ipc_port_destroy: give back the no-senders request of the dead port,
\* destroy its messages, then send the dead-name notifications.
PortDead(t) ==
    /\ Doing(t, "dead")
    /\ LET p == Item(t).port
           dn == Item(t).dn
           Asked == SetToSortSeq({s \in Slots : dn[s].soright # NULL}, <)
           note == [i \in DOMAIN Asked |-> [do |-> "notify", body |-> NULL,
                                            to |-> dn[Asked[i]].soright]]
       IN  Does(t, First([Rest(t) EXCEPT !.port[p].nsrequest = NULL],
                         Notify(port[p].nsrequest, NULL) \o Chore("drain", p)
                           \o note \o Chore("release", p)))

PortDrain(t) ==
    /\ Doing(t, "drain")
    /\ LET p == Item(t).arg
           k == Refer([K(t, chores[t]) EXCEPT !.queue[p] = Tail(@)], p, -1)
       IN  Does(t, IF queue[p] = <<>> THEN Rest(t)
                   ELSE ipc_kmsg_destroy(k, [Head(queue[p]) EXCEPT !.dest = NULL]))

ipc_port_release(t) ==
    /\ Doing(t, "release")
    /\ Does(t, Refer(Rest(t), Item(t).arg, -1))

ipc_object_destroy(t) ==
    /\ Doing(t, "destroy")
    /\ LET r == Item(t).arg IN
       Does(t, IF r.right = "send" THEN ipc_port_release_send(Rest(t), r.port)
               ELSE ipc_port_release_receive(Rest(t), r.port))

\* The loop of ipc_kmsg_destroy goes on to the next message.
ipc_kmsg_rmqueue(t) ==
    /\ Doing(t, "cleaned")
    /\ LET rest == Tail(dying[t])
           k == [Rest(t) EXCEPT !.dying = rest]
       IN  Does(t, IF rest = <<>> THEN k
                   ELSE ipc_kmsg_clean([k EXCEPT !.dying = Tail(rest)], Head(rest)))

\* ipc_kmsg_copyout_object
CopyoutObject(t) ==
    /\ Doing(t, "copyout")
    /\ LET r == Item(t).arg IN
       Does(t, OrDestroy(ipc_object_copyout(Rest(t), t, r), r))

\* mach_port_insert_right; a failure destroys the request and the right in it
InsertRight(t) ==
    /\ Doing(t, "insert")
    /\ LET i == Item(t) IN
       Does(t, OrDestroy(ipc_object_copyout_name(Rest(t), i.task, i.name, i.right),
                         i.right))

\* ipc_kmsg_copyin_body: a right that cannot be had fails the send.
CopyinBody(t) ==
    /\ Doing(t, "body")
    /\ LET m == Item(t).msg
           k == ipc_object_copyin(Rest(t), t, Item(t).name, Item(t).disp)
           next == IF Item(t).disp = "move_receive" THEN "circle" ELSE "enqueue"
       IN  Does(t, IF k.got = NULL THEN First(k, Destroy(m.dest))
                   ELSE Then(k, Chore(next, [m EXCEPT !.body = k.got])))

\* ipc_kmsg_copyin_body: a receive right must not go to itself.
CopyinCircle(t) ==
    /\ Doing(t, "circle")
    /\ LET m == Item(t).arg
           k == ipc_port_check_circularity(Rest(t), m.body.port, m.dest.port)
       IN  Does(t, First(k, Chore("enqueue", [m EXCEPT !.circular = k.got])))

Enqueue(t) ==
    /\ Doing(t, "enqueue")
    /\ Does(t, ipc_mqueue_send(Rest(t), Item(t).arg))

\* ipc_kmsg_copyout: the header, then the right in the body
ipc_kmsg_copyout(t) ==
    /\ Doing(t, "received")
    /\ LET m == Item(t).arg
           b == IF m.body \in {NULL, DEAD} THEN <<>> ELSE Chore("copyout", m.body)
       IN  Does(t, ipc_object_copyout_dest(First(Rest(t), b), t, m.dest))

\* ipc_space_destroy: clean the entries one after the other.
SpaceClean(t) ==
    /\ Doing(t, "space")
    /\ LET u == Item(t).arg
           used == Names \ Free(Rest(t), u)
       IN  Does(t, IF used = {} THEN Rest(t)
                   ELSE ipc_right_destroy(K(t, chores[t]), u, Least(used)))

-----------------------------------------------------------------------------
(* The requests for notifications: got tells whether the call succeeded,   *)
(* soright the request that was there before.                              *)

ipc_port_nsrequest(k, p, sync, q) ==
    LET r == k.port[p]
        j == [k EXCEPT !.got = TRUE, !.soright = r.nsrequest]
    IN  IF r.srights = 0 /\ sync <= r.mscount /\ q # NULL
        THEN First([j EXCEPT !.port[p].nsrequest = NULL,
                             !.told[p] = @ \union {r.mscount}], Notify(q, NULL))
        ELSE [j EXCEPT !.port[p].nsrequest = q]

ipc_port_pdrequest(k, p, q) ==
    [k EXCEPT !.got = TRUE, !.soright = k.port[p].pdrequest,
              !.port[p].pdrequest = q]

ipc_right_dnrequest(k, t, n, immediate, q) ==
    LET c == ipc_right_check(k, t, n)
        e == c.entry[t][n]
        d == [ipc_right_dncancel(c, t, n) EXCEPT !.got = TRUE]
        free == {s \in Slots : d.port[e.object].dnrequests[s] = NoSlot}
    IN  IF e.object # NULL
        THEN IF q = NULL THEN d
             ELSE IF free = {} THEN c
             ELSE LET s == Least(free) IN
                  [d EXCEPT !.entry[t][n].request = s,
                            !.port[e.object].dnrequests[s] =
                                [name |-> n, soright |-> q]]
        ELSE IF "dead" \in e.type /\ immediate /\ q # NULL /\ e.urefs < UrefsMax
        THEN First([c EXCEPT !.entry[t][n].urefs = @ + 1, !.got = TRUE],
                   Notify(q, NULL))
        ELSE c

\* mach_port_request_notification, in the kernel: the previous right goes
\* back to the caller, the right of a request that failed is destroyed.
Request(t) ==
    /\ Doing(t, "request")
    /\ LET i == Item(t)
           e == entry[t][i.name]
           k == IF ~alive[t] THEN Rest(t)
                ELSE IF i.id = "dead_name"
                THEN ipc_right_dnrequest(Rest(t), t, i.name, i.sync # 0, i.notify)
                ELSE IF "receive" \notin e.type THEN Rest(t)
                ELSE IF i.id = "no_senders"
                THEN ipc_port_nsrequest(Rest(t), e.object, i.sync, i.notify)
                ELSE ipc_port_pdrequest(Rest(t), e.object, i.notify)
           q == i.notify
       IN  Does(t, IF k.got = NULL
                   THEN First(k, Notify(q, NULL))
                   ELSE [k EXCEPT !.todo = @ \o
                           IF k.soright = NULL THEN <<>>
                           ELSE Chore("copyout", Right("sonce", k.soright))])

-----------------------------------------------------------------------------
(* The calls.  The kernel is entered with a request message whose rights   *)
(* are copied in first; a call that changes nothing is no step.            *)

Own(t) == K(t, <<>>)

Ready(t, c) ==
    /\ c \in Calls[t]
    /\ alive[t] /\ chores[t] = <<>>
    /\ calls < MaxCalls

Call(t, k) ==
    /\ k # Own(t)
    /\ Becomes(t, k)
    /\ calls' = calls + 1

\* The copyin of a right for a request or a message, within the bounds
Copyin(k, t, n, disp, deadok) ==
    LET p == k.entry[t][n].object
        full == \/ disp = "make_send" /\ port[p].mscount >= MaxMscount
                \/ disp = "make_sonce" /\ port[p].sorights >= MaxSonce
    IN  IF ~alive[t] \/ (p # NULL /\ full) THEN k
        ELSE ipc_right_copyin(k, t, n, disp, deadok)

mach_port_allocate(t) ==
    /\ Ready(t, "allocate")
    /\ \E p \in {q \in Ports : port[q].references = 0} :
         LET n == Least(Free(Own(t), t))
             new == [NoPort EXCEPT !.active = TRUE, !.at = <<t, n>>, !.references = 1]
         IN  /\ Free(Own(t), t) # {}
             /\ Call(t,
                     [Put(Own(t), t, n, [NoEntry EXCEPT !.type = {"receive"},
                                                        !.object = p])
                        EXCEPT !.port[p] = new, !.told[p] = {}, !.lost[p] = 0])
             /\ UNCHANGED alive

mach_port_insert_right(t) ==
    /\ Ready(t, "insert_right")
    /\ \E n \in Names, disp \in Inserts, u \in Tasks, m \in Names :
         LET k == Copyin(Own(t), t, n, disp, TRUE)
             insert == [do |-> "insert", task |-> u, name |-> m, right |-> k.got]
         IN  /\ Call(t,
                     IF k.got \in {NULL, DEAD} THEN k ELSE Then(k, <<insert>>))
             /\ UNCHANGED alive

Used(t) == Names \ Free(Own(t), t)

mach_port_deallocate(t) ==
    /\ Ready(t, "deallocate")
    /\ \E n \in Used(t) : /\ Call(t, ipc_right_dealloc(Own(t), t, n))
                          /\ UNCHANGED alive

mach_port_destroy(t) ==
    /\ Ready(t, "destroy")
    /\ \E n \in Used(t) : /\ Call(t, ipc_right_destroy(Own(t), t, n))
                          /\ UNCHANGED alive

mach_port_mod_refs(t) ==
    /\ Ready(t, "mod_refs")
    /\ \E n \in Used(t), right \in {"send", "receive", "sonce", "dead"}, d \in {-1, 1} :
         /\ Call(t, ipc_right_delta(Own(t), t, n, right, d))
         /\ UNCHANGED alive

\* mach_port_rename: a dead-name request follows the entry to its new name.
mach_port_rename(t) ==
    /\ Ready(t, "rename")
    /\ \E n \in Used(t), m \in Names \ Used(t) :
         LET asked == entry[t][n].request # 0
             c == IF asked THEN ipc_right_check(Own(t), t, n) ELSE Own(t)
             e == c.entry[t][n]
             d == Put(Put(c, t, m, e), t, n, NoEntry)
             r == IF e.request = 0 THEN d
                  ELSE [d EXCEPT !.port[e.object].dnrequests[e.request].name = m]
         IN  /\ Call(t, IF "receive" \in e.type
                        THEN [r EXCEPT !.port[e.object].at = <<t, m>>]
                        ELSE r)
             /\ UNCHANGED alive

mach_port_request_notification(t) ==
    /\ Ready(t, "request_notification")
    /\ \E n \in Used(t), id \in {"no_senders", "port_destroyed", "dead_name"},
          sync \in {0, MaxMscount}, m \in {0} \union Used(t) :
         LET k == IF m = 0 THEN Own(t) ELSE Copyin(Own(t), t, m, "make_sonce", TRUE)
             q == IF m = 0 THEN NULL ELSE k.got.port
         IN  /\ id = "port_destroyed" => sync = 0
             /\ m = 0 \/ k.got # NULL
             /\ Call(t,
                     First(k, <<[do |-> "request", id |-> id, name |-> n,
                                 sync |-> sync, notify |-> q]>>))
             /\ UNCHANGED alive

\* mach_msg with MACH_SEND_MSG: the destination, then the right in the body
mach_msg_send(t) ==
    /\ Ready(t, "send")
    /\ \E n \in Used(t), disp \in Dests,
          b \in {NULL} \union (Used(t) \X Bodies) :
         LET k == Copyin(Own(t), t, n, disp, FALSE)
             m == [dest |-> k.got, body |-> NULL, circular |-> FALSE]
             rest == IF b = NULL THEN Chore("enqueue", m)
                     ELSE <<[do |-> "body", msg |-> m, name |-> b[1], disp |-> b[2]]>>
         IN  /\ IF k.got = NULL THEN TRUE ELSE Len(queue[k.got.port]) < MaxMsgs
             /\ Call(t, IF k.got = NULL THEN k ELSE Then(k, rest))
             /\ UNCHANGED alive

mach_msg_receive(t) ==
    /\ Ready(t, "receive")
    /\ \E n \in Used(t) :
         LET p == entry[t][n].object IN
         /\ "receive" \in entry[t][n].type
         /\ queue[p] # <<>>
         /\ Call(t, First([Own(t) EXCEPT !.queue[p] = Tail(@)],
                          Chore("received", Head(queue[p]))))
         /\ UNCHANGED alive

\* task_terminate: ipc_space_destroy of an active space
task_terminate(t) ==
    /\ Ready(t, "terminate")
    /\ \E u \in {v \in Tasks : alive[v]} :
         /\ Call(t, First(Own(t), Chore("space", u)))
         /\ alive' = [alive EXCEPT ![u] = FALSE]

-----------------------------------------------------------------------------
\* The tasks have allocated ports, passed on send rights and asked for
\* notifications to start.told, as start says: mach_port_allocate,
\* mach_port_insert_right and mach_port_request_notification lead there.
Started(start) ==
    LET Of(p) == {x \in Tasks \X Names : start.entry[x[1]][x[2]].object = p}
        Has(p, r) == {x \in Of(p) : r \in start.entry[x[1]][x[2]].type}
        Sends(p) == Cardinality(Has(p, "send"))
        Asks(p) == {x \in Of(p) : start.entry[x[1]][x[2]].request # 0}
        Told(Q) == IF Q THEN start.told ELSE NULL
        asked == {<<"ns", p>> : p \in start.ns} \union {<<"pd", p>> : p \in start.pd}
                   \union UNION {Asks(p) : p \in Ports}
        Sonces(p) == IF p = start.told THEN Cardinality(asked) ELSE 0
        Slot(p, s) == {x \in Asks(p) : start.entry[x[1]][x[2]].request = s}
    IN  /\ entry = start.entry
        /\ port = [p \in Ports |->
             IF Has(p, "receive") = {} THEN NoPort
             ELSE [active |-> TRUE, destination |-> NULL,
                   at |-> CHOOSE x \in Has(p, "receive") : TRUE,
                   references |-> Cardinality(Of(p)) + Sonces(p),
                   srights |-> Sends(p), sorights |-> Sonces(p),
                   mscount |-> Sends(p),
                   nsrequest |-> Told(p \in start.ns),
                   pdrequest |-> Told(p \in start.pd),
                   dnrequests |-> [s \in Slots |->
                     IF Slot(p, s) = {} THEN NoSlot
                     ELSE [name |-> (CHOOSE x \in Slot(p, s) : TRUE)[2],
                           soright |-> start.told]]]]

Init ==
    /\ \E start \in Starts : Started(start)
    /\ alive = [t \in Tasks |-> TRUE]
    /\ queue = [p \in Ports |-> <<>>]
    /\ chores = [t \in Tasks |-> <<>>]
    /\ dying = [t \in Tasks |-> <<>>]
    /\ told = [p \in Ports |-> {}]
    /\ lost = [p \in Ports |-> 0]
    /\ calls = 0

Enter(t) ==
    \/ mach_port_allocate(t)
    \/ mach_port_insert_right(t)
    \/ mach_port_deallocate(t)
    \/ mach_port_destroy(t)
    \/ mach_port_mod_refs(t)
    \/ mach_port_rename(t)
    \/ mach_port_request_notification(t)
    \/ mach_msg_send(t)
    \/ mach_msg_receive(t)
    \/ task_terminate(t)

Work(t) ==
    \/ ipc_notify(t)
    \/ PortBackup(t)
    \/ PortDead(t)
    \/ PortDrain(t)
    \/ ipc_port_release(t)
    \/ ipc_object_destroy(t)
    \/ ipc_kmsg_rmqueue(t)
    \/ CopyoutObject(t)
    \/ InsertRight(t)
    \/ CopyinBody(t)
    \/ CopyinCircle(t)
    \/ Enqueue(t)
    \/ ipc_kmsg_copyout(t)
    \/ SpaceClean(t)
    \/ Request(t)

Next == \E t \in Tasks : Enter(t) \/ Work(t)

Spec == Init /\ [][Next]_vars

-----------------------------------------------------------------------------
(* Properties.                                                             *)

\* The rights outside the name spaces: in messages, in the hands of a thread,
\* and in the requests of ports.
MsgRights(m) == <<m.dest, m.body>>

DnRights(dn) == [s \in Slots |-> Right("sonce", dn[s].soright)]

ChoreRights(c) ==
    CASE c.do = "notify" -> <<Right("sonce", c.to), c.body>>
      [] c.do = "backup" -> <<Right("sonce", c.to), Right("receive", c.port)>>
      [] c.do = "dead" -> DnRights(c.dn)
      [] c.do = "insert" -> <<c.right>>
      [] c.do = "body" -> <<c.msg.dest>>
      [] c.do = "request" -> <<Right("sonce", c.notify)>>
      [] c.do \in {"destroy", "copyout"} -> <<c.arg>>
      [] c.do \in {"circle", "enqueue", "received"} -> MsgRights(c.arg)
      [] OTHER -> <<>>

PortRequests(q) == <<Right("sonce", q.nsrequest), Right("sonce", q.pdrequest)>>
                   \o DnRights(q.dnrequests)

Gather(Op(_), s) == FlattenSeq([i \in DOMAIN s |-> Op(s[i])])

Flying ==
    LET OfPort(p) == Gather(MsgRights, queue[p]) \o PortRequests(port[p])
        OfTask(t) == Gather(MsgRights, dying[t]) \o Gather(ChoreRights, chores[t])
    IN  Gather(OfPort, SetToSeq(Ports)) \o Gather(OfTask, SetToSeq(Tasks))

Entries(P(_)) == Cardinality({x \in Tasks \X Names : P(entry[x[1]][x[2]])})

Count(s, P(_)) == Len(SelectSeq(s, P))

Holders(flying, r, p) == Entries(LAMBDA e : r \in e.type /\ e.object = p)
                         + Count(flying, LAMBDA x : x = Right(r, p))

\* ip_srights and ip_sorights of an active port count the send and send-once
\* rights that exist for it, in entries, messages, requests and in the hands
\* of threads, through every call, notification and failure; and there is one
\* receive right.  (A send right that mod_refs turned into a dead name of a
\* port with a backup is in lost.)
RightsCounted ==
    LET flying == Flying IN
    \A p \in Ports : port[p].active =>
      /\ port[p].srights = Holders(flying, "send", p) + lost[p]
      /\ port[p].sorights = Holders(flying, "sonce", p)
      /\ Holders(flying, "receive", p) = 1

\* io_references counts the entries, rights, ports in transit and threads that
\* still refer to a port, so a port is freed with the last and never before.
ReferencesCounted ==
    LET flying == Flying
        todo == Gather(LAMBDA t : chores[t], SetToSeq(Tasks))
    IN  \A p \in Ports :
          port[p].references =
            Entries(LAMBDA e : e.object = p)
            + Count(flying, LAMBDA x : x \notin {NULL, DEAD} /\ x.port = p)
            + Cardinality({q \in Ports : port[q].destination = p})
            + Count(todo, LAMBDA c : \/ c.do = "release" /\ c.arg = p
                                     \/ c.do = "dead" /\ c.port = p)

\* A dead-name request in an entry is the one request a port's table holds
\* under that name, and ip_receiver_name names the entry with the receive
\* right: rename, copyin, copyout and destruction keep both sides together.
EntriesAgree ==
    \A p \in Ports : port[p].active =>
      /\ \A s \in Slots :
           LET d == port[p].dnrequests[s] IN
           d.soright # NULL /\ lost[p] = 0 =>
             Cardinality({t \in Tasks : /\ entry[t][d.name].object = p
                                        /\ entry[t][d.name].request = s}) = 1
      /\ \A t \in Tasks, n \in Names :
           LET e == entry[t][n] IN
           /\ port[p].at = <<t, n>> <=> e.object = p /\ "receive" \in e.type
           /\ e.object = p /\ e.request # 0
                => port[p].dnrequests[e.request].name = n

\* Entries, ports and requests refer to one another as EntriesAgree says, and
\* each reference is counted (ReferencesCounted), through every rename, move,
\* notification and destruction.
ReferencesAgree == ReferencesCounted /\ EntriesAgree

\* What a no-senders notification says stays true as long as the count in it
\* is the port's make-send count: a server that compares the two, and finds
\* them equal, has no client left.
NoSendersIsTrue ==
    \A p \in Ports : port[p].active /\ port[p].mscount \in told[p]
                       => port[p].srights = 0

\* From every port the chain of ports in transit ends (at a port that some
\* task can receive from, that is in limbo, or that is dead): a circle of ports
\* in transit to one another could never be received or destroyed.  What
\* ipc_port_check_circularity guarantees against two concurrent sends.
NoCircle ==
    LET k == [port |-> port] IN
    \A p \in Ports : ~InTransit(k, Base(k, p))

\* What there is left to do in the kernel: every chore weighs more than what
\* it can become, and so does every reference, port, entry and request that
\* can turn into chores.
Weight(c) ==
    CASE c.do \in {"cleaned", "drain", "release", "space"} -> 1
      [] c.do = "notify" -> 10
      [] c.do = "destroy" -> 11
      [] c.do = "enqueue" -> 60
      [] c.do = "received" -> 55
      [] c.do = "dead" -> 15 + 10 * NumSlots
      [] c.do \in {"insert", "copyout"} -> 40
      [] c.do = "backup" -> 45
      [] c.do = "circle" -> 95
      [] c.do = "body" -> 150
      [] c.do = "request" -> 120

WorkLeft ==
    LET Sum(f(_), S) == FoldSet(LAMBDA x, y : f(x) + y, 0, S)
        OfPort(p) == 30 * port[p].references + 8 * Len(queue[p])
                     + (IF port[p].active THEN 40 + 10 * NumSlots ELSE 0)
                     + (IF port[p].pdrequest = NULL THEN 0 ELSE 50)
        OfTask(t) == FoldSeq(LAMBDA c, y : Weight(c) + y, 0, chores[t])
                     + 25 * Len(dying[t]) + 25 * Cardinality(Used(t))
    IN  Sum(OfPort, Ports) + Sum(OfTask, Tasks)

\* Every step of the work that a call causes leaves less work: destroying
\* messages and rights and sending the notifications that follow, each of
\* which may cause more of the same, comes to an end in every interleaving.
WorkEnds == [][calls' = calls => WorkLeft' < WorkLeft]_vars

\* The send right that mach_port_mod_refs turns into a dead name together with
\* its receive right is taken to die with the port, so ip_srights of a port
\* that lives counts only rights that exist.
SendersExist ==
    LET flying == Flying IN
    \A p \in Ports : port[p].active => port[p].srights = Holders(flying, "send", p)

=============================================================================
