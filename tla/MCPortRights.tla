---------------------------- MODULE MCPortRights ----------------------------
(* Two tasks, each with a port of its own and a send right for the other's. *)
EXTENDS PortRights

CONSTANTS t1, t2, p1, p2

Held(type, p) == [NoEntry EXCEPT !.type = type, !.object = p,
                                 !.urefs = IF "send" \in type THEN 1 ELSE 0]

Peers == [entry |-> [t \in Tasks |->
                       IF t = t1 THEN <<Held({"receive"}, p1), Held({"send"}, p2)>>
                       ELSE <<Held({"receive"}, p2), Held({"send"}, p1)>>],
          told |-> p1, ns |-> {}, pd |-> {}]

\* A server with a port to be told on, and a client that watches the server
Server == [entry |-> [t \in Tasks |->
             IF t = t1 THEN <<Held({"receive", "send"}, p1), Held({"receive"}, p2)>>
             ELSE <<[Held({"send"}, p1) EXCEPT !.request = 1], NoEntry>>],
           told |-> p2, ns |-> {p1}, pd |-> {p1}]

MCStarts == {Peers, Server}

MCCalls == [t \in Tasks |->
              IF t = t1 THEN {"insert_right", "mod_refs", "request_notification",
                              "rename", "send"}
              ELSE {"allocate", "deallocate", "destroy", "send", "receive",
                    "terminate"}]

=============================================================================
