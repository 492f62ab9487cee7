---------------------------- MODULE MCIpcMqueue ----------------------------
(* Instances of IpcMqueue for TLC.                                         *)
EXTENDS IpcMqueue, TLC

\* Threads are interchangeable, and so are messages.
Symmetry == Permutations(Threads) \cup Permutations(Msgs)

(***************************************************************************)
(* A view that drops what no step reads before writing it: the wait fields *)
(* of a thread that does not wait, the wait result of one that still does, *)
(* and the message fields of one that has been handed nothing.  Only for   *)
(* instances in which sends do not time out and are not aborted: a stale   *)
(* sender does read old fields.                                            *)
(***************************************************************************)
LiveFields(t) ==
  LET i == ith[t]
  IN IF thr[t].pc \notin {"sendwait", "rcvwait"} THEN <<>>
     ELSE <<i.wait, i.state,
            IF i.state = "SUCCESS" /\ thr[t].pc = "rcvwait" THEN <<i.kmsg, i.seqno>>
            ELSE IF i.wait \/ i.state \in {"SUCCESS", "PORT_DIED", "PORT_CHANGED"} THEN <<>>
            ELSE <<i.result>> >>

View == <<portVars, setVars, imq_messages, imq_threads, ip_seqno, taken,
          [t \in Threads |-> LiveFields(t)], thr, kmsg, panic, sent>>

=============================================================================
