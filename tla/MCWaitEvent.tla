---------------------------- MODULE MCWaitEvent ----------------------------
(* The thread with the longer timeout may be overtaken in the chain.       *)
EXTENDS WaitEvent

CONSTANTS t1, t2

MCIntervals == [t \in Threads |-> IF t = t1 THEN {2} ELSE {1}]

AllIntervals == [t \in Threads |-> {1, 2}]

=============================================================================
