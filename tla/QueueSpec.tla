----------------------------- MODULE QueueSpec -----------------------------
(***************************************************************************)
(* What mailboxes and message queues promise: bounded queues that deliver  *)
(* every message once and in the order in which they were sent, except     *)
(* that an urgent message goes to the front.                               *)
(***************************************************************************)
EXTENDS Naturals, Sequences

CONSTANTS Queue, Message, SIZE,
    NoMessage,   \* what was received last when nothing was received yet
    Urgent       \* the messages that are sent as urgent ones

VARIABLES
    queue,       \* [Queue -> Seq(Message)]
    got          \* [Queue -> Message], the message received last

Init ==
    /\ queue = [q \in Queue |-> <<>>]
    /\ got = [q \in Queue |-> NoMessage]

Send(q, v) ==
    /\ Len(queue[q]) < SIZE
    /\ queue' = [queue EXCEPT ![q] = IF v \in Urgent THEN <<v>> \o @ ELSE Append(@, v)]
    /\ UNCHANGED got

Receive(q) ==
    /\ queue[q] # <<>>
    /\ queue' = [queue EXCEPT ![q] = Tail(@)]
    /\ got' = [got EXCEPT ![q] = Head(queue[q])]

\* A reset, or a deletion followed by a new creation.
Clear(q) ==
    /\ queue' = [queue EXCEPT ![q] = <<>>]
    /\ UNCHANGED got

Next ==
    \E q \in Queue :
        \/ Receive(q) \/ Clear(q)
        \/ \E v \in Message : Send(q, v)

Spec == Init /\ [][Next]_<<queue, got>>
=============================================================================
