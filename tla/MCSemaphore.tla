---------------------------- MODULE MCSemaphore ----------------------------
(* Instances of Semaphore for TLC.                                         *)
EXTENDS Semaphore

CONSTANT Urgent   \* the threads of the better priority

\* Two priorities; a smaller number is better.
MCPriority == [t \in Threads |-> IF t \in Urgent THEN 1 ELSE 2]

=============================================================================
