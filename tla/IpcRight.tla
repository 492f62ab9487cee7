------------------------------ MODULE IpcRight ------------------------------
(***************************************************************************)
(* Port rights as the kernel keeps them: the entries of the tasks' name    *)
(* spaces (ipc/ipc_right.c, ipc/ipc_object.c) and the counts and requests  *)
(* a port keeps about them (ipc/ipc_port.c).  The operators are the        *)
(* routines of these files, each from one state of the kernel to the next; *)
(* PortRights lets threads call them.                                      *)
(*                                                                         *)
(* What a routine still has to do after it unlocks (send a notification,   *)
(* destroy a message, drop a right) goes to the list of chores of the      *)
(* calling thread.                                                         *)
(***************************************************************************)
EXTENDS Integers, Sequences, FiniteSets, SequencesExt

CONSTANTS Tasks, Ports, NULL, DEAD,
          NumNames,    \* room in a name space
          NumSlots,    \* room for dead-name requests in a port
          UrefsMax     \* MACH_PORT_UREFS_MAX

Names == 1..NumNames
Slots == 1..NumSlots

VARIABLES port,     \* [Ports -> the port object]
          entry,    \* [Tasks -> [Names -> the entry of the name]]
          alive,    \* is_active of each task's space
          queue,    \* [Ports -> Seq(messages)]
          chores,   \* [Tasks -> what the thread still does in the kernel]
          dying,    \* ith_messages: the messages the thread is destroying
          told,     \* history: counts of the no-senders notifications sent
          lost,     \* history: send rights that died before their port
          calls     \* history: number of calls made

NoEntry == [type |-> {}, urefs |-> 0, object |-> NULL, request |-> 0]

NoSlot == [name |-> 0, soright |-> NULL]

\* at: the space and name of the receive right, or NULL in limbo and transit
NoPort == [active |-> FALSE, at |-> NULL, destination |-> NULL,
           references |-> 0, srights |-> 0, sorights |-> 0, mscount |-> 0,
           nsrequest |-> NULL, pdrequest |-> NULL,
           dnrequests |-> [s \in Slots |-> NoSlot]]

Right(r, p) == [right |-> r, port |-> p]

-----------------------------------------------------------------------------
(* What a thread works on: the kernel's state, the chores left, and the    *)
(* results of the routine that was called last.                            *)

K(t, todo) == [port |-> port, entry |-> entry, queue |-> queue, todo |-> todo,
               dying |-> dying[t], told |-> told, lost |-> lost,
               got |-> NULL, soright |-> NULL]

\* io_free: a port with no reference left is gone.
Becomes(t, k) ==
    /\ port' = [p \in Ports |-> IF k.port[p].references = 0 THEN NoPort
                                ELSE k.port[p]]
    /\ entry' = k.entry
    /\ queue' = k.queue
    /\ chores' = [chores EXCEPT ![t] = k.todo]
    /\ dying' = [dying EXCEPT ![t] = k.dying]
    /\ told' = k.told
    /\ lost' = k.lost

First(k, items) == [k EXCEPT !.todo = items \o @]

Refer(k, p, d) == [k EXCEPT !.port[p].references = @ + d]

\* A notification to the send-once right of q, with the receive right in it.
Notify(q, body) == IF q = NULL THEN <<>>
                   ELSE <<[do |-> "notify", to |-> q, body |-> body]>>

Chore(do, x) == <<[do |-> do, arg |-> x]>>

-----------------------------------------------------------------------------
(* The port's side: counts, requests, death.                               *)

\* The common end of a send right: the last one takes the no-senders request.
DropSend(k, p) ==
    LET j == [k EXCEPT !.port[p].srights = @ - 1]
        q == j.port[p]
    IN  IF q.srights = 0 /\ q.nsrequest # NULL
        THEN [First(j, Notify(q.nsrequest, NULL))
                EXCEPT !.port[p].nsrequest = NULL,
                       !.told[p] = @ \union {q.mscount}]
        ELSE j

ipc_port_release_send(k, p) ==
    IF k.port[p].active THEN DropSend(Refer(k, p, -1), p) ELSE Refer(k, p, -1)

ipc_port_release_sonce(k, p) ==
    [Refer(k, p, -1) EXCEPT !.port[p].sorights = @ - 1]

ipc_port_clear_receiver(k, p) ==
    [k EXCEPT !.port[p].mscount = 0, !.told[p] = {}]

InTransit(k, p) == /\ k.port[p].active
                   /\ k.port[p].at = NULL
                   /\ k.port[p].destination # NULL

\* The end of the chain of ports in transit that starts at p.
Base(k, p) ==
    LET chain[i \in 0..Cardinality(Ports)] ==
          IF i = 0 THEN p
          ELSE IF InTransit(k, chain[i-1])
               THEN k.port[chain[i-1]].destination ELSE chain[i-1]
    IN  chain[Cardinality(Ports)]

\* Mutant: only the port itself is looked for, not the chain.
CircularDirectly(k, p, dest) == p = dest

Circular(k, p, dest) == p = dest \/ Base(k, dest) = p

\* The port, in limbo, goes in transit to dest unless that closes a circle.
ipc_port_check_circularity(k, p, dest) ==
    IF Circular(k, p, dest) THEN [k EXCEPT !.got = TRUE]
    ELSE [Refer(k, dest, 1) EXCEPT !.port[p].destination = dest, !.got = FALSE]

\* ipc_port_destroy from where the port dies; the dead-name requests are
\* taken with the port locked, the rest is done unlocked.
PortDies(k, p) ==
    First([k EXCEPT !.port[p].active = FALSE, !.port[p].at = NULL,
                    !.port[p].destination = NULL,
                    !.port[p].dnrequests = [s \in Slots |-> NoSlot]],
          <<[do |-> "dead", port |-> p, dn |-> k.port[p].dnrequests]>>)

\* A backup port gets the receive right instead.
ipc_port_destroy(k, p) ==
    LET q == k.port[p].pdrequest IN
    IF q = NULL THEN PortDies(k, p)
    ELSE First([k EXCEPT !.port[p].pdrequest = NULL, !.port[p].at = NULL,
                         !.port[p].destination = NULL],
               <<[do |-> "backup", port |-> p, to |-> q]>>)

ipc_port_release_receive(k, p) ==
    LET d == k.port[p].destination IN
    ipc_port_destroy(IF d = NULL THEN k ELSE First(k, Chore("release", d)), p)

-----------------------------------------------------------------------------
(* The entry's side.                                                       *)

Put(k, t, n, e) == [k EXCEPT !.entry[t][n] = e]

\* ipc_right_check: the entry of a dead port turns into a dead name.
ipc_right_check(k, t, n) ==
    LET e == k.entry[t][n] IN
    IF e.object = NULL \/ k.port[e.object].active THEN k
    ELSE Refer(Put(k, t, n, [type |-> {"dead"}, object |-> NULL, request |-> 0,
                             urefs |-> e.urefs + IF e.request = 0 THEN 0 ELSE 1]),
               e.object, -1)

\* The dead-name request of the entry is cancelled; its right is in soright.
ipc_right_dncancel(k, t, n) ==
    LET e == k.entry[t][n] IN
    IF e.request = 0 THEN [k EXCEPT !.soright = NULL]
    ELSE [k EXCEPT !.soright = k.port[e.object].dnrequests[e.request].soright,
                   !.port[e.object].dnrequests[e.request] = NoSlot,
                   !.entry[t][n].request = 0]

\* The entry loses right r, and goes with its last right.
Without(k, t, n, r) ==
    LET e == k.entry[t][n] IN
    Put(k, t, n, IF e.type = {r} THEN NoEntry
                 ELSE [e EXCEPT !.type = @ \ {r},
                                !.urefs = IF r = "send" THEN 0 ELSE @])

\* A user reference goes, and the dead name with the last one.
DeadUref(k, t, n) ==
    IF k.entry[t][n].urefs = 1 THEN Put(k, t, n, NoEntry)
    ELSE [k EXCEPT !.entry[t][n].urefs = @ - 1]

\* The whole entry goes, with all its rights, while its port is active.  The
\* port or the send-once right is dealt with first, then the two requests.
Gone(k, t, n) ==
    LET e == k.entry[t][n]
        p == e.object
        c == ipc_right_dncancel(k, t, n)
        d == First(Put(c, t, n, NoEntry), Notify(c.soright, NULL))
        s == IF "send" \in e.type THEN DropSend(d, p) ELSE d
    IN  IF "receive" \in e.type
        THEN ipc_port_destroy(ipc_port_clear_receiver(s, p), p)
        ELSE IF "sonce" \in e.type THEN First(s, Notify(p, NULL))
        ELSE Refer(s, p, -1)

\* ipc_right_clean and ipc_right_destroy
ipc_right_destroy(k, t, n) ==
    LET p == k.entry[t][n].object IN
    IF p = NULL THEN Put(k, t, n, NoEntry)
    ELSE IF k.port[p].active THEN Gone(k, t, n)
    ELSE Refer(Put(k, t, n, NoEntry), p, -1)

\* One user reference of a send right less.
SendUref(k, t, n) ==
    LET e == k.entry[t][n] IN
    IF e.urefs > 1 THEN [k EXCEPT !.entry[t][n].urefs = @ - 1]
    ELSE IF "receive" \in e.type
    THEN DropSend(Without(k, t, n, "send"), e.object)
    ELSE Gone(k, t, n)

ipc_right_dealloc(k, t, n) ==
    LET c == ipc_right_check(k, t, n)
        e == c.entry[t][n]
    IN  IF "dead" \in e.type THEN DeadUref(c, t, n)
        ELSE IF "sonce" \in e.type THEN Gone(c, t, n)
        ELSE IF "send" \in e.type THEN SendUref(c, t, n)
        ELSE c

\* The receive right is given up.  A send right in the same entry becomes a
\* dead name, uncounted: the port is taken to be destroyed first.
ReceiveUref(k, t, n) ==
    LET e == k.entry[t][n]
        p == e.object
        c == ipc_right_dncancel(k, t, n)
        d == IF "send" \in e.type
             THEN [Put(k, t, n, [type |-> {"dead"}, object |-> NULL,
                                 request |-> 0,
                                 urefs |-> e.urefs
                                     + IF e.request = 0 THEN 0 ELSE 1])
                     EXCEPT !.lost[p] = @ + IF k.port[p].pdrequest = NULL
                                            THEN 0 ELSE 1]
             ELSE First(Put(c, t, n, NoEntry), Notify(c.soright, NULL))
    IN  ipc_port_destroy(ipc_port_clear_receiver(d, p), p)

\* mach_port_mod_refs with a delta of 1 or -1
ipc_right_delta(k, t, n, right, delta) ==
    LET c == IF right = "dead" \/ right \in k.entry[t][n].type
             THEN ipc_right_check(k, t, n) ELSE k
        e == c.entry[t][n]
        limit == IF right = "send" THEN UrefsMax - 1 ELSE UrefsMax
        more == [c EXCEPT !.entry[t][n].urefs = @ + 1]
    IN  IF right \notin e.type THEN c
        ELSE IF delta = 1
        THEN IF right \in {"send", "dead"} /\ e.urefs < limit THEN more ELSE c
        ELSE CASE right = "receive" -> ReceiveUref(c, t, n)
               [] right = "sonce" -> Gone(c, t, n)
               [] right = "dead" -> DeadUref(c, t, n)
               [] right = "send" -> SendUref(c, t, n)

-----------------------------------------------------------------------------
(* Rights leave a space and enter one.                                     *)

Result(k, r, p) == [k EXCEPT !.got = Right(r, p)]

\* The copyin of a dead name, where the caller takes one.
CopyinDead(k, t, n, disp, deadok) ==
    IF ~deadok THEN k
    ELSE [(IF disp = "copy_send" THEN k ELSE DeadUref(k, t, n))
            EXCEPT !.got = DEAD]

\* Mutant: the send right that stays shares the reference that leaves.
MoveReceiveSharing(k, t, n) ==
    LET p == k.entry[t][n].object
        c == IF k.entry[t][n].type = {"receive"}
             THEN ipc_right_dncancel(k, t, n) ELSE k
        d == ipc_port_clear_receiver(Without(c, t, n, "receive"), p)
    IN  [d EXCEPT !.port[p].at = NULL, !.port[p].destination = NULL]

\* The receive right goes to limbo; a send right of the entry stays.
MoveReceive(k, t, n) ==
    LET p == k.entry[t][n].object
        c == IF k.entry[t][n].type = {"receive"}
             THEN ipc_right_dncancel(k, t, n) ELSE Refer(k, p, 1)
        d == ipc_port_clear_receiver(Without(c, t, n, "receive"), p)
    IN  [d EXCEPT !.port[p].at = NULL, !.port[p].destination = NULL]

\* Mutant: the right that stays in the entry is not counted.
MoveSendUncounted(k, t, n) ==
    LET e == k.entry[t][n]
        p == e.object
    IN  IF e.urefs > 1
        THEN [Refer(k, p, 1) EXCEPT !.entry[t][n].urefs = @ - 1]
        ELSE Without(IF "receive" \in e.type THEN Refer(k, p, 1)
                     ELSE ipc_right_dncancel(k, t, n), t, n, "send")

\* One of several user references leaves as a right of its own; the last one
\* takes the right with it.
MoveSend(k, t, n) ==
    LET e == k.entry[t][n]
        p == e.object
    IN  IF e.urefs > 1
        THEN [Refer(k, p, 1) EXCEPT !.port[p].srights = @ + 1,
                                    !.entry[t][n].urefs = @ - 1]
        ELSE Without(IF "receive" \in e.type THEN Refer(k, p, 1)
                     ELSE ipc_right_dncancel(k, t, n), t, n, "send")

\* Mutant: the make-send count is not incremented.
MakeSendUncounted(k, p) == [k EXCEPT !.port[p].srights = @ + 1]

MakeSend(k, p) == [k EXCEPT !.port[p].mscount = @ + 1,
                            !.port[p].srights = @ + 1]

\* got is the right that was copied in, DEAD, or NULL if the copyin failed;
\* soright the dead-name request that went with the entry.
ipc_right_copyin(k, t, n, disp, deadok) ==
    LET c == IF disp \in {"make_send", "make_sonce", "move_receive"} THEN k
             ELSE ipc_right_check(k, t, n)
        e == c.entry[t][n]
        p == e.object
        r == Refer(c, p, 1)
    IN  CASE disp = "make_send" /\ "receive" \in e.type ->
               Result(MakeSend(r, p), "send", p)
          [] disp = "make_sonce" /\ "receive" \in e.type ->
               Result([r EXCEPT !.port[p].sorights = @ + 1], "sonce", p)
          [] disp = "move_receive" /\ "receive" \in e.type ->
               Result(MoveReceive(c, t, n), "receive", p)
          [] disp = "copy_send" /\ "send" \in e.type ->
               Result([r EXCEPT !.port[p].srights = @ + 1], "send", p)
          [] disp = "move_send" /\ "send" \in e.type ->
               Result(MoveSend(c, t, n), "send", p)
          [] disp = "move_sonce" /\ "sonce" \in e.type ->
               Result(Without(ipc_right_dncancel(c, t, n), t, n, "sonce"),
                      "sonce", p)
          [] "dead" \in e.type /\ disp \in {"copy_send", "move_send", "move_sonce"} ->
               CopyinDead(c, t, n, disp, deadok)
          [] OTHER -> c

ipc_object_copyin(k, t, n, disp) ==
    IF alive[t] THEN ipc_right_copyin(k, t, n, disp, TRUE) ELSE k

\* The port-deleted notification that a copyin owes, then the rest of the call
Then(k, items) == First(k, Notify(k.soright, NULL) \o items)

\* The name a space has for the port, 0 if it has none.
ipc_right_reverse(k, t, p) ==
    LET held == {n \in Names : \/ k.port[p].at = <<t, n>>
                               \/ /\ k.entry[t][n].type = {"send"}
                                  /\ k.entry[t][n].object = p}
    IN  IF k.port[p].active /\ held # {} THEN CHOOSE n \in held : TRUE ELSE 0

\* The right r enters the entry; got says whether it did.
ipc_right_copyout(k, t, n, r, overflow) ==
    LET e == k.entry[t][n]
        p == r.port
        d == k.port[p].destination
        In(j) == [j EXCEPT !.entry[t][n].type = @ \union {r.right},
                           !.entry[t][n].object = p, !.got = TRUE]
        merged == [Refer(k, p, -1) EXCEPT !.port[p].srights = @ - 1, !.got = TRUE]
    IN  CASE r.right = "sonce" -> [In(k) EXCEPT !.entry[t][n].urefs = 1]
          [] r.right = "receive" ->
               LET j == IF "send" \in e.type THEN Refer(k, p, -1) ELSE k
               IN  In([(IF d = NULL THEN j ELSE Refer(j, d, -1))
                         EXCEPT !.port[p].at = <<t, n>>,
                                !.port[p].destination = NULL])
          [] r.right = "send" /\ "send" \in e.type ->
               IF e.urefs + 1 < UrefsMax
               THEN [merged EXCEPT !.entry[t][n].urefs = @ + 1]
               ELSE IF overflow THEN merged ELSE k
          [] r.right = "send" /\ "send" \notin e.type ->
               [In(IF "receive" \in e.type THEN Refer(k, p, -1) ELSE k)
                  EXCEPT !.entry[t][n].urefs = 1]

Free(k, t) == {n \in Names : k.entry[t][n].type = {}}

Least(S) == CHOOSE n \in S : \A m \in S : n <= m

\* got stays NULL when the space or the port is dead or no name is free.
ipc_object_copyout(k, t, r) ==
    LET n == IF r.right = "sonce" THEN 0 ELSE ipc_right_reverse(k, t, r.port) IN
    IF ~alive[t] \/ ~k.port[r.port].active THEN k
    ELSE IF n # 0 THEN ipc_right_copyout(k, t, n, r, TRUE)
    ELSE IF Free(k, t) = {} THEN k
    ELSE ipc_right_copyout(k, t, Least(Free(k, t)), r, TRUE)

\* got stays NULL when the name is taken or the right has another name.
ipc_object_copyout_name(k, t, n, r) ==
    LET o == IF r.right = "sonce" THEN 0 ELSE ipc_right_reverse(k, t, r.port) IN
    IF ~alive[t] \/ ~k.port[r.port].active THEN k
    ELSE IF o = n \/ (o = 0 /\ n \in Free(k, t))
    THEN ipc_right_copyout(k, t, n, r, FALSE)
    ELSE k

=============================================================================
