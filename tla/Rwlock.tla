------------------------------- MODULE Rwlock -------------------------------
(***************************************************************************)
(* The reader-writer lock of components/libc/pthreads/pthread_rwlock.c.    *)
(* Its fields are used under rw_mutex only, so a section under the mutex   *)
(* is one action; the threads run in any order.  pc of a thread:           *)
(*   "run"      in no call                                                 *)
(*   "wait"     has unlocked rw_mutex in pthread_cond_wait and not yet     *)
(*              taken the semaphore of the condition                       *)
(*   "asleep"   in the queue of the condition                              *)
(*   "woken"    was given the semaphore, has not locked rw_mutex again     *)
(*   "expired"  the same after its time was over                           *)
(* A thread holds the lock once.  pthread_rwlock_destroy is left out.      *)
(***************************************************************************)
EXTENDS Cond, Integers, FiniteSets

CONSTANTS
    Threads,
    TOKEN_MAX      \* bounds the tokens of a condition

VARIABLES
    rw_refcount, rw_nwait,      \* rw_nwaitreaders and rw_nwaitwriters, by mode
    rw_cond,                    \* rw_condreaders and rw_condwriters, by mode
    pc,
    mode, timed,                \* of the call a thread is in
    holds,                      \* "read", "write" or "none"
    missed                      \* an unlock woke a writer whose time was over

rwVars == <<rw_refcount, rw_nwait, rw_cond, pc, mode, timed, holds, missed>>

Mode == {"read", "write"}

\* pthread_rwlock_init
Init ==
    /\ rw_refcount = 0
    /\ rw_nwait = [m \in Mode |-> 0]
    /\ rw_cond = [m \in Mode |-> NewCond]
    /\ pc = [t \in Threads |-> "run"] /\ holds = [t \in Threads |-> "none"]
    /\ mode = [t \in Threads |-> "read"] /\ timed = [t \in Threads |-> FALSE]
    /\ missed = FALSE

Holders(m) == {t \in Threads : holds[t] = m}
At(labels, m) == {t \in Threads : pc[t] \in labels /\ mode[t] = m}

Goes(t, label) == pc' = [pc EXCEPT ![t] = label]

\* The conditions of the loops of rdlock and wrlock, n being the waiting threads.
MustWait(m, n) ==
    IF m = "read" THEN rw_refcount < 0 \/ n["write"] > 0 ELSE rw_refcount # 0

\* With rw_mutex, and n threads waiting: thread t has the lock, or waits for it.
Acquires(t, m, n) ==
    /\ ~MustWait(m, n)
    /\ rw_refcount' = IF m = "read" THEN rw_refcount + 1 ELSE -1
    /\ holds' = [holds EXCEPT ![t] = m]
    /\ rw_nwait' = n
    /\ Goes(t, "run")

Waits(t, m, n) ==
    /\ MustWait(m, n)
    /\ rw_nwait' = [n EXCEPT ![m] = @ + 1]
    /\ Goes(t, "wait")
    /\ UNCHANGED <<rw_refcount, holds>>

-----------------------------------------------------------------------------
\* rdlock, wrlock and their timed forms up to the wait; tryrdlock and trywrlock,
\* which do nothing when the lock is not to be had.
Lock(t, m, tm) ==
    /\ pc[t] = "run" /\ holds[t] = "none"
    /\ (Acquires(t, m, rw_nwait) \/ Waits(t, m, rw_nwait))
    /\ mode' = [mode EXCEPT ![t] = m] /\ timed' = [timed EXCEPT ![t] = tm]
    /\ UNCHANGED <<rw_cond, missed>>

\* rt_sem_take in _pthread_cond_timedwait; the time may be over at once.
Take(t) ==
    LET cnd == rw_cond[mode[t]]
    IN  /\ pc[t] = "wait"
        /\ \/ /\ cnd.value > 0
              /\ rw_cond' = [rw_cond EXCEPT ![mode[t]] = Takes(cnd)]
              /\ Goes(t, "woken")
           \/ /\ cnd.value = 0
              /\ rw_cond' = [rw_cond EXCEPT ![mode[t]] = Queues(cnd, t)]
              /\ Goes(t, "asleep")
           \/ /\ cnd.value = 0 /\ timed[t]
              /\ Goes(t, "expired") /\ UNCHANGED rw_cond
    /\ UNCHANGED <<rw_refcount, rw_nwait, mode, timed, holds, missed>>

Timeout(t) ==
    /\ pc[t] = "asleep" /\ timed[t]
    /\ rw_cond' = [rw_cond EXCEPT ![mode[t]] = TimesOut(@, t)]
    /\ Goes(t, "expired")
    /\ UNCHANGED <<rw_refcount, rw_nwait, mode, timed, holds, missed>>

\* A thread that was woken locks rw_mutex and tests again.
Relock(t) ==
    LET n == [rw_nwait EXCEPT ![mode[t]] = @ - 1]
    IN  /\ pc[t] = "woken"
        /\ (Acquires(t, mode[t], n) \/ Waits(t, mode[t], n))
        /\ UNCHANGED <<rw_cond, mode, timed, missed>>

\* The call returns ETIMEDOUT.
Expire(t) ==
    /\ pc[t] = "expired"
    /\ rw_nwait' = [rw_nwait EXCEPT ![mode[t]] = @ - 1]
    /\ Goes(t, "run")
    /\ UNCHANGED <<rw_refcount, rw_cond, mode, timed, holds, missed>>

-----------------------------------------------------------------------------
\* Slip: writers are signalled only when no reader waits.
WakesReadersFirst(r) ==
    IF rw_nwait["read"] > 0 THEN {"read"}
    ELSE IF rw_nwait["write"] > 0 /\ r = 0 THEN {"write"} ELSE {}

\* Whom an unlock that leaves the count r wakes: a writer, all readers, or nobody.
Wakes(r) ==
    IF rw_nwait["write"] > 0 THEN IF r = 0 THEN {"write"} ELSE {}
    ELSE IF rw_nwait["read"] > 0 THEN {"read"} ELSE {}

pthread_rwlock_unlock(t) ==
    LET r == IF rw_refcount > 0 THEN rw_refcount - 1 ELSE 0
        W == Wakes(r)
        woken == IF "write" \in W THEN Signalled(rw_cond["write"])
                 ELSE IF "read" \in W THEN ToSet(rw_cond["read"].queue) ELSE {}
    IN  /\ pc[t] = "run" /\ holds[t] # "none"
        /\ rw_cond["write"].value < TOKEN_MAX
        /\ rw_refcount' = r
        /\ rw_cond' = [m \in Mode |->
              IF m \notin W THEN rw_cond[m]
              ELSE IF m = "write" THEN pthread_cond_signal(rw_cond[m])
              ELSE pthread_cond_broadcast(rw_cond[m])]
        /\ pc' = [u \in Threads |-> IF u \in woken THEN "woken" ELSE pc[u]]
        /\ holds' = [holds EXCEPT ![t] = "none"]
        /\ missed' = (missed \/ ("write" \in W /\ At({"wait", "asleep", "woken"}, "write") = {}))
        /\ UNCHANGED <<rw_nwait, mode, timed>>

Next ==
    \E t \in Threads :
        \/ \E m \in Mode, tm \in BOOLEAN : Lock(t, m, tm)
        \/ Take(t) \/ Timeout(t) \/ Relock(t) \/ Expire(t)
        \/ pthread_rwlock_unlock(t)

Spec == Init /\ [][Next]_rwVars

-----------------------------------------------------------------------------

\* A writer is alone, and the counters say who holds the lock and who waits.
Exclusion ==
    /\ Holders("write") # {} => Cardinality(Holders("write") \cup Holders("read")) = 1
    /\ rw_refcount = IF Holders("write") # {} THEN -1 ELSE Cardinality(Holders("read"))
    /\ \A m \in Mode :
          rw_nwait[m] = Cardinality(At({"wait", "asleep", "woken", "expired"}, m))

\* While the lock is free nobody sleeps unless another thread was woken for the
\* lock, or is about to find a token: its unlock will wake the next.  It ends when
\* an unlock signals a writer and every writer it counts has timed out in
\* pthread_rwlock_timedwrlock and not yet left: nobody takes the signal, and the
\* writers that leave wake no reader (pthread_rwlock.c:231).
NobodyForgotten ==
    ~missed /\ rw_refcount = 0 /\ At({"asleep"}, "read") \cup At({"asleep"}, "write") # {} =>
        \E m \in Mode : \/ At({"woken"}, m) # {}
                        \/ At({"wait"}, m) # {} /\ rw_cond[m].value > 0
=============================================================================
