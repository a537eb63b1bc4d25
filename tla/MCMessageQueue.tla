--------------------------- MODULE MCMessageQueue ---------------------------
(* Values of the constants of module MessageQueue for TLC. *)
EXTENDS MessageQueue, TLC

CONSTANTS mq, v1, v2, u, a, b, idle

Threads2 == {a, b, idle}

TwoPrios == [t \in Thread |-> IF t = idle THEN 2 ELSE IF t = a THEN 0 ELSE 1]

Fifo == [m \in List |-> "FIFO"]

\* The messages that are not urgent are interchangeable.
Symmetry == Permutations(Message \ Urgent)
=============================================================================
