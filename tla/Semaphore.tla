----------------------------- MODULE Semaphore -----------------------------
(***************************************************************************)
(* The counting semaphores of src/ipc.c: threads that call rt_sem_take,    *)
(* rt_sem_release, rt_sem_control, rt_sem_delete (or rt_sem_detach, which  *)
(* does the same) and rt_sem_init, and interrupt handlers that release.    *)
(***************************************************************************)
EXTENDS Ipc

CONSTANTS
    VALUE_MAX,   \* bound on the value, at most RT_UINT16_MAX
    InitValue,   \* the value a semaphore is created with
    Resets       \* the values rt_sem_control resets a semaphore to

Sem == Object

ASSUME SemaphoreAssumption ==
    /\ VALUE_MAX \in 0 .. 65535
    /\ InitValue \in 0 .. VALUE_MAX
    /\ Resets \subseteq 0 .. VALUE_MAX

VARIABLE value   \* sem->value

vars == <<ipcVars, value>>

Init == IpcInit /\ value = [s \in Sem |-> InitValue]

-----------------------------------------------------------------------------
(* rt_sem_take *)

\* Slip: a token is taken without a test that there is one.
TakeUnchecked(t, s) ==
    /\ Runs(t, "run") /\ Usable(s)
    /\ value' = [value EXCEPT ![s] = @ - 1]
    /\ UNCHANGED ipcVars

TakeAvailable(t, s) ==
    /\ Runs(t, "run") /\ Usable(s)
    /\ value[s] > 0
    /\ value' = [value EXCEPT ![s] = @ - 1]
    /\ UNCHANGED ipcVars

\* A take with waiting time 0 of an empty semaphore returns -RT_ETIMEOUT and
\* changes nothing; timed tells a finite waiting time from RT_WAITING_FOREVER.
TakeBlock(t, s, timed) ==
    /\ Runs(t, "run") /\ Usable(s)
    /\ value[s] = 0
    /\ k' = Wait([k EXCEPT !.error[t] = "EOK"], t, s, timed)
    /\ Goes(t, "wait_sched", s)
    /\ UNCHANGED <<value, open, corrupt>>

\* The thread runs again and returns thread->error, RT_EOK if it was given a
\* token.
TakeReturn(t) ==
    /\ Runs(t, "wait_ret")
    /\ Returns(t)
    /\ UNCHANGED <<k, value, open, corrupt>>

-----------------------------------------------------------------------------
(* rt_sem_release *)

\* Slip: need_schedule is not set when a thread was resumed.
ReleaseNoSchedule(t, s) ==
    /\ Runs(t, "run") /\ Usable(s)
    /\ IF k.list[s] # <<>>
       THEN k' = rt_ipc_list_resume(k, s) /\ UNCHANGED value
       ELSE /\ value[s] < VALUE_MAX
            /\ value' = [value EXCEPT ![s] = @ + 1]
            /\ UNCHANGED k
    /\ UNCHANGED <<open, pc, on, corrupt>>

Release(t, s) ==
    /\ Runs(t, "run") /\ Usable(s)
    /\ IF k.list[s] # <<>>
       THEN k' = rt_ipc_list_resume(k, s) /\ Goes(t, "sched", NoObject) /\ UNCHANGED value
       ELSE /\ value[s] < VALUE_MAX
            /\ value' = [value EXCEPT ![s] = @ + 1]
            /\ UNCHANGED <<k, pc, on>>
    /\ UNCHANGED <<open, corrupt>>

\* The whole call in an interrupt handler, which no thread interrupts.
ReleaseIsr(s) ==
    /\ Interruptible /\ Usable(s)
    /\ IF k.list[s] # <<>>
       THEN Rescheduled(rt_ipc_list_resume(k, s)) /\ UNCHANGED value
       ELSE /\ value[s] < VALUE_MAX
            /\ value' = [value EXCEPT ![s] = @ + 1]
            /\ UNCHANGED k
    /\ UNCHANGED <<open, pc, on, corrupt>>

-----------------------------------------------------------------------------
(* rt_sem_control with RT_IPC_CMD_RESET: rt_ipc_list_resume_all and the new *)
(* value in one interrupt-disabled section, then rt_schedule.               *)

Control(t, s) ==
    /\ Runs(t, "run") /\ Usable(s) /\ Resets # {}
    /\ Goes(t, "irq_off", s)
    /\ UNCHANGED <<k, value, open, corrupt>>

\* Slip: the value is set without waking the threads that wait.
ControlNoResume(t) ==
    /\ Runs(t, "irq_off")
    /\ \E v \in Resets : value' = [value EXCEPT ![on[t]] = v]
    /\ Goes(t, "sched", NoObject)
    /\ UNCHANGED <<k, open, corrupt>>

ControlLoop(t) ==
    /\ Runs(t, "irq_off")
    /\ LET s == on[t]
       IN  IF k.list[s] # <<>>
           THEN k' = ResumeFirst(s) /\ UNCHANGED <<value, pc, on>>
           ELSE /\ \E v \in Resets : value' = [value EXCEPT ![s] = v]
                /\ Goes(t, "sched", NoObject)
                /\ UNCHANGED k
    /\ UNCHANGED <<open, corrupt>>

\* rt_sem_init or rt_sem_create
SemCreate(t, s) == Create(t, s) /\ value' = [value EXCEPT ![s] = InitValue]

-----------------------------------------------------------------------------
\* The steps of a call that has begun.
InCall(t) == TakeReturn(t) \/ ControlLoop(t) \/ (IpcInCall(t) /\ UNCHANGED value)

Call(t) ==
    \/ \E s \in Sem :
          \/ TakeAvailable(t, s)
          \/ \E timed \in BOOLEAN : TakeBlock(t, s, timed)
          \/ Release(t, s)
          \/ Control(t, s)
          \/ SemCreate(t, s)
    \/ IpcCall(t) /\ UNCHANGED value

Interrupt == (\E s \in Sem : ReleaseIsr(s)) \/ (Tick /\ UNCHANGED value)

Next == Interrupt \/ \E t \in App : InCall(t) \/ Call(t)

Spec == Init /\ [][Next]_vars

(***************************************************************************)
(* Fairness.  A thread that is given the processor again and again gets on *)
(* with the call it is in (it need not make another one), ticks keep       *)
(* coming, so that time slices and waiting times end, and in the           *)
(* environment considered every semaphore keeps being released by its      *)
(* interrupt handler.                                                      *)
(***************************************************************************)
Fairness ==
    /\ \A t \in App : SF_vars(InCall(t))
    /\ WF_vars(SliceEnd /\ UNCHANGED value)
    /\ \A t \in App : WF_vars(Timeout(t) /\ UNCHANGED value)
    /\ \A s \in Sem : WF_vars(ReleaseIsr(s))

FairSpec == Spec /\ Fairness

-----------------------------------------------------------------------------
TypeOK == IpcTypeOK /\ value \in [Sem -> 0 .. VALUE_MAX]

\* rt_sem_release never leaves a token in a semaphore that a thread waits for,
\* and rt_sem_take never lets a thread wait for a token that is there.
NoIdleTokens == \A s \in Sem : value[s] > 0 => Waiting(s) = {}

\* A thread that waits on a RT_IPC_FLAG_FIFO semaphore leaves the queue when
\* the semaphore keeps being released, whoever else takes it meanwhile.
FifoServed ==
    \A s \in Sem, t \in App : Flag[s] = "FIFO" =>
        (t \in Waiting(s) ~> t \notin Waiting(s))

\* A timed wait ends: a thread with the highest priority returns from it.
TimedWaitEnds ==
    \A t \in App : (t \in k.timer /\ k.prio[t] = 0) ~> pc[t] = "run"

-----------------------------------------------------------------------------
(* The refinement of SemaphoreSpec *)

\* The threads out of the queue of s that have not returned from their take;
\* ok tells those with a token.
Leaving(s, ok) ==
    {t \in Thread : /\ on[t] = s /\ pc[t] \in {"wait_sched", "wait_ret"}
                    /\ t \notin Waiting(s)
                    /\ ok = (k.error[t] = "EOK")}

\* How many threads of list f have a higher priority than p, and the line of
\* those of priority p.  The list of a RT_IPC_FLAG_PRIO semaphore is sorted, so
\* the line is a section of it.
Above(f, p) == Cardinality({i \in DOMAIN f : InitPrio[f[i]] < p})
Line(f, flag, p) ==
    IF flag = "FIFO" THEN IF p = 0 THEN f ELSE <<>>
    ELSE SubSeq(f, Above(f, p) + 1, Above(f, p + 1))

Promise == INSTANCE SemaphoreSpec WITH
    PrioOf  <- InitPrio,
    Resets  <- Resets \cup (IF Deletable = {} THEN {} ELSE {InitValue}),
    avail   <- value,
    line    <- [s \in Sem |-> [p \in Prio |-> Line(k.list[s], Flag[s], p)]],
    given   <- [s \in Sem |-> Leaving(s, TRUE)],
    refused <- [s \in Sem |-> Leaving(s, FALSE)]

\* The kernel code implements the promise: no interleaving of takes, releases
\* and timeouts forges a token, loses one, gives it to a thread that is not
\* next in line or lets a refused thread return with one.
KeepsPromise == Promise!Spec
=============================================================================
