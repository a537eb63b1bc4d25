----------------------------- MODULE MCMailbox -----------------------------
(* Values of the constants of module Mailbox for TLC. *)
EXTENDS Mailbox, TLC

CONSTANTS mb, mbs, v1, v2, a, b, c, idle

Threads3 == {a, b, c, idle}

\* b and c share a priority, above that of a.
TwoPrios == [t \in Thread |-> IF t = idle THEN 2 ELSE IF t = a THEN 1 ELSE 0]

Fifo == [l \in List |-> "FIFO"]

\* b and c, and the mails, are interchangeable.
Symmetry == Permutations({b, c}) \cup Permutations(Mail)

\* thread->error is set before each wait and read only after it: what is left in
\* it outside a wait makes no difference.
View ==
    <<[k EXCEPT !.error =
         [t \in Thread |-> IF pc[t] \in {"wait_sched", "wait_ret"} THEN @[t] ELSE "EOK"]],
      open, pc, on, corrupt, ring, call, got>>

SendersOf == [m \in {mb} |-> mbs]
=============================================================================
