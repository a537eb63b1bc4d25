------------------------------ MODULE MCEvent ------------------------------
(* Values of the constants of module Event for TLC. *)
EXTENDS Event, TLC

CONSTANTS ev, x, y, z, a, b, idle

Threads2 == {a, b, idle}

TwoPrios == [t \in Thread |-> IF t = idle THEN 2 ELSE IF t = a THEN 0 ELSE 1]

Fifo == [e \in List |-> "FIFO"]

\* The bits are interchangeable.
Symmetry == Permutations(Bit)
=============================================================================
