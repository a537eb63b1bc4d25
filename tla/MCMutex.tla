------------------------------ MODULE MCMutex ------------------------------
(* Values of the constants of module Mutex for TLC. *)
EXTENDS Mutex

CONSTANTS m1, m2, a, b, c, idle

Threads2 == {a, b, idle}
Threads3 == {a, b, c, idle}

\* Every application thread has a priority of its own, a the highest.
EachPrio == [t \in Thread |-> IF t = idle THEN 3 ELSE IF t = c THEN 2
                              ELSE IF t = b THEN 1 ELSE 0]
TwoPrios == [t \in Thread |-> IF t = idle THEN 2 ELSE IF t = b THEN 1 ELSE 0]

Fifo   == [m \in List |-> "FIFO"]
ByPrio == [m \in List |-> "PRIO"]
=============================================================================
