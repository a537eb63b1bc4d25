---------------------------- MODULE MCSemaphore ----------------------------
(* Values of the constants of module Semaphore for TLC. *)
EXTENDS Semaphore

CONSTANTS s1, s2, a, b, c, idle

Threads2 == {a, b, idle}
Threads3 == {a, b, c, idle}

\* a and b share the highest priority.
SamePrio  == [t \in Thread |-> IF t = idle THEN 2 ELSE IF t = c THEN 1 ELSE 0]
\* Every application thread has a priority of its own.
EachPrio == [t \in Thread |-> IF t = idle THEN 3 ELSE IF t = c THEN 2
                              ELSE IF t = b THEN 1 ELSE 0]

Fifo == [s \in List |-> "FIFO"]
ByPrio == [s \in List |-> "PRIO"]
\* One of each.
FifoAndPrio == [s \in List |-> IF s = s1 THEN "FIFO" ELSE "PRIO"]
=============================================================================
