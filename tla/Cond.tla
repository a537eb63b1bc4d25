-------------------------------- MODULE Cond --------------------------------
(***************************************************************************)
(* The condition variables of components/libc/pthreads/pthread_cond.c: a   *)
(* condition is a FIFO semaphore, [value, queue].  It implements           *)
(* SemaphoreSpec, so its operations are used here as single steps.         *)
(*                                                                         *)
(* A wait unlocks the mutex, takes the semaphore and locks the mutex again *)
(* in three steps: a signal that comes before the second finds nobody and  *)
(* leaves a token.                                                         *)
(***************************************************************************)
EXTENDS Naturals, Sequences, SequencesExt

\* pthread_cond_init
NewCond == [value |-> 0, queue |-> <<>>]

\* The threads that pthread_cond_signal wakes, and the condition after it.
Signalled(c) == IF c.queue = <<>> THEN {} ELSE {Head(c.queue)}

pthread_cond_signal(c) ==
    IF c.queue = <<>> THEN [c EXCEPT !.value = @ + 1] ELSE [c EXCEPT !.queue = Tail(@)]

\* pthread_cond_broadcast releases the semaphore until it can take it, and then
\* once more, with the scheduler locked: the queue is empty and a token stays.
pthread_cond_broadcast(c) ==
    [value |-> IF c.value = 0 THEN 1 ELSE c.value, queue |-> <<>>]

\* rt_sem_take of thread t: it has a token, or is queued; rt_thread_timeout
Takes(c) == [c EXCEPT !.value = @ - 1]
Queues(c, t) == [c EXCEPT !.queue = Append(@, t)]
TimesOut(c, t) == [c EXCEPT !.queue = RemoveFirst(@, t)]
=============================================================================
