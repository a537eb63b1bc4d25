----------------------------- MODULE WaitQueue ------------------------------
(***************************************************************************)
(* The wait queues of components/drivers/src/waitqueue.c, as operators on  *)
(* a queue: the list of its nodes, each named by the thread that owns it   *)
(* and all with the default wake-up function, and a flag.  A thread that   *)
(* waits is suspended and in none of the lists of the kernel; its node     *)
(* tells who is to be woken.                                               *)
(***************************************************************************)
EXTENDS Kernel

\* rt_wqueue_init
EmptyQueue == [head |-> <<>>, flag |-> 0]

rt_wqueue_add(q, t) == [q EXCEPT !.head = Append(@, t)]

\* A node that is in no list is linked to itself: to remove it changes nothing.
rt_wqueue_remove(q, t) == [q EXCEPT !.head = RemoveFirst(@, t)]

Linked(q, t) == t \in ToSet(q.head)

\* The kernel and the queue after rt_wqueue_wakeup, up to its call of
\* rt_schedule.  With an empty list only the flag is raised; otherwise the first
\* thread is resumed, which does nothing if it has not suspended itself yet, and
\* its node leaves the list.
rt_wqueue_wakeup(kk, q) ==
    IF q.head = <<>> THEN [k |-> kk, q |-> [q EXCEPT !.flag = 1]]
    ELSE [k |-> rt_thread_resume(kk, Head(q.head)),
          q |-> [head |-> Tail(q.head), flag |-> 0]]
=============================================================================
