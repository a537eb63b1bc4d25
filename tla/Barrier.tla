------------------------------- MODULE Barrier ------------------------------
(***************************************************************************)
(* The barrier of components/libc/pthreads/pthread_barrier.c: the last of  *)
(* count threads to arrive broadcasts a condition, the others wait for it. *)
(* count is used under the mutex only, so a section under the mutex is one *)
(* action; pc is as in module Rwlock, and "passed" after the call.  The    *)
(* count is not set again: a barrier serves once, and later calls return   *)
(* EINVAL.                                                                 *)
(*                                                                         *)
(* The broadcast wakes the threads in the queue and leaves one token: of   *)
(* the threads that are between the unlock of the mutex and the semaphore  *)
(* then, late of them, one passes and the others sleep for good.           *)
(***************************************************************************)
EXTENDS Cond, FiniteSets

CONSTANTS
    Threads,       \* those that call pthread_barrier_wait
    COUNT          \* the most threads a barrier waits for

VARIABLES
    count, cond, pc,
    total,         \* the count of pthread_barrier_init
    late           \* threads on their way to sleep when the last one arrived

barrierVars == <<count, cond, pc, total, late>>

At(labels) == {t \in Threads : pc[t] \in labels}

\* pthread_barrier_init
Init ==
    /\ total \in 1 .. COUNT /\ count = total /\ cond = NewCond /\ late = 0
    /\ pc = [t \in Threads |-> "run"]

\* pthread_barrier_wait up to the wait; a thread that is late gets EINVAL.
Arrive(t) ==
    /\ pc[t] = "run"
    /\ \/ /\ count = 0
          /\ pc' = [pc EXCEPT ![t] = "refused"]
          /\ UNCHANGED <<count, cond, late>>
       \/ /\ count = 1
          /\ count' = 0 /\ late' = Cardinality(At({"wait"}))
          /\ cond' = pthread_cond_broadcast(cond)
          /\ pc' = [u \in Threads |->
                IF u = t THEN "passed" ELSE IF u \in ToSet(cond.queue) THEN "woken" ELSE pc[u]]
       \/ /\ count > 1
          /\ count' = count - 1
          /\ pc' = [pc EXCEPT ![t] = "wait"]
          /\ UNCHANGED <<cond, late>>
    /\ UNCHANGED total

\* rt_sem_take in _pthread_cond_timedwait
Take(t) ==
    /\ pc[t] = "wait"
    /\ \/ /\ cond.value > 0
          /\ cond' = Takes(cond) /\ pc' = [pc EXCEPT ![t] = "woken"]
       \/ /\ cond.value = 0
          /\ cond' = Queues(cond, t) /\ pc' = [pc EXCEPT ![t] = "asleep"]
    /\ UNCHANGED <<count, total, late>>

\* A woken thread locks the mutex, unlocks it and returns.
Pass(t) ==
    /\ pc[t] = "woken"
    /\ pc' = [pc EXCEPT ![t] = "passed"]
    /\ UNCHANGED <<count, cond, total, late>>

Next == \E t \in Threads : Arrive(t) \/ Take(t) \/ Pass(t)

Spec == Init /\ [][Next]_barrierVars

-----------------------------------------------------------------------------
\* Nobody passes before all have arrived.  When they have, the threads that have not
\* passed and were not woken are latecomers, and one of them has passed or will find
\* the token: nobody stays behind when at most one was late.
TogetherOrNotAtAll ==
    /\ At({"woken", "passed"}) # {} =>
          Cardinality(Threads \ At({"run", "refused"})) = total
    /\ count = 0 =>
          /\ Cardinality(At({"wait", "asleep"})) <= IF late = 0 THEN 0 ELSE late - 1 + cond.value
          /\ late <= 1 => At({"asleep"}) = {}
          /\ At({"asleep"}) # {} => cond.value = 0
=============================================================================
