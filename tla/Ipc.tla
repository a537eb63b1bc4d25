-------------------------------- MODULE Ipc --------------------------------
(***************************************************************************)
(* What the IPC services of src/ipc.c have in common, over the kernel of   *)
(* module Kernel: objects with one list of suspended threads, the calls of *)
(* rt_schedule that end a call, the deletion of an object, and the tick    *)
(* interrupt that ends a wait or a time slice.  The modules of the         *)
(* services extend this one; they share its variables and add their own.   *)
(*                                                                         *)
(* An action is one section of the code that no interrupt can split.  A    *)
(* thread is between two sections of a call when its pc is not "run":      *)
(*   "wait_sched"  suspended itself, has not yet called rt_schedule        *)
(*   "wait_ret"    called rt_schedule, has not yet read thread->error      *)
(*   "sleep_sched" and "sleep_ret": the same in rt_thread_sleep            *)
(*   "sched"       enabled interrupts, has not yet called rt_schedule      *)
(*   "irq_off"     in the loop of rt_ipc_list_resume_all, interrupts off   *)
(*   "del"         at the test of the loop of rt_ipc_list_resume_all       *)
(*   "del_one"     in that loop, has not yet disabled interrupts           *)
(*   "put_copy" and "get_copy": copies a message to or from a block of a   *)
(*                 message queue, interrupts enabled                       *)
(*   "done_set"    found a completion lowered, has not yet disabled        *)
(*                 interrupts                                              *)
(***************************************************************************)
EXTENDS Kernel

CONSTANTS
    Flag,        \* [List -> {"FIFO", "PRIO"}], the flag an object is created with
    Deletable,   \* the objects that are deleted and created again
    NewPrio,     \* the priorities rt_thread_control gives a thread
    NoObject     \* what a thread works on when it is in no call

\* An object is named by its list.
Object == List
App == Thread \ {Idle}

ASSUME IpcAssumption ==
    /\ Flag \in [Object -> {"FIFO", "PRIO"}]
    /\ Deletable \subseteq Object
    /\ NewPrio \subseteq Prio
    /\ NoObject \notin Object

VARIABLES
    k,        \* the kernel
    open,     \* the objects that exist
    pc, on,   \* where a thread is in a call, and the object it is called on
    corrupt   \* a list head was taken for a thread

ipcVars == <<k, open, pc, on, corrupt>>

PC == {"run", "wait_sched", "wait_ret", "sleep_sched", "sleep_ret", "sched",
       "irq_off", "del", "del_one", "put_copy", "get_copy", "done_set"}

IpcInit ==
    /\ k \in KernelInits(Thread)
    /\ open = Object
    /\ pc = [t \in Thread |-> "run"]
    /\ on = [t \in Thread |-> NoObject]
    /\ corrupt = FALSE

-----------------------------------------------------------------------------
\* The processor executes t, which is at the given place.
Runs(t, label) == ~corrupt /\ k.cur = t /\ pc[t] = label

\* An interrupt can be taken.
Interruptible == ~corrupt /\ pc[k.cur] # "irq_off"

\* The application may call a function on o: it exists and nobody deletes it.
Usable(o) ==
    o \in open /\ \A t \in Thread : on[t] = o => pc[t] \notin {"del", "del_one"}

Waiting(o) == ToSet(k.list[o])

\* The thread goes on in its call, or returns from it.
Goes(t, label, o) == pc' = [pc EXCEPT ![t] = label] /\ on' = [on EXCEPT ![t] = o]
Returns(t) == Goes(t, "run", NoObject)

\* The kernel after t was put to wait on o, with or without a time limit.
Wait(kk, t, o, timed) ==
    LET r == rt_ipc_list_suspend(kk, o, t, Flag[o])
    IN  IF timed THEN rt_timer_start(r, t) ELSE r

\* An interrupt handler left the kernel in state r and called rt_schedule.
Rescheduled(r) == \E kk \in {r} : k' = rt_schedule(kk)

\* The end of a call of t, or of an interrupt handler, that resumes the first
\* thread of a list if there is one.
ResumesOne(t, l) ==
    IF k.list[l] # <<>>
    THEN k' = rt_ipc_list_resume(k, l) /\ Goes(t, "sched", NoObject)
    ELSE Returns(t) /\ UNCHANGED k

ResumesOneIsr(l) ==
    IF k.list[l] # <<>> THEN Rescheduled(rt_ipc_list_resume(k, l)) ELSE UNCHANGED k

WaitSchedule(t) ==
    /\ Runs(t, "wait_sched")
    /\ k' = rt_schedule(k)
    /\ Goes(t, "wait_ret", on[t])
    /\ UNCHANGED <<open, corrupt>>

\* rt_schedule as the last thing a call does.
Schedule(t) ==
    /\ Runs(t, "sched")
    /\ k' = rt_schedule(k)
    /\ Returns(t)
    /\ UNCHANGED <<open, corrupt>>

-----------------------------------------------------------------------------
(* rt_ipc_list_resume_all and the calls that delete an object *)

\* One turn of the loop: the first thread of the list returns with -RT_ERROR.
ResumeFirst(o) ==
    LET t == Head(k.list[o])
    IN  rt_thread_resume([k EXCEPT !.error[t] = "ERROR"], t)

\* rt_sem_delete, rt_mutex_delete and the like, and their detach twins, run
\* the loop with interrupts enabled and then remove the object.
Delete(t, o) ==
    /\ Runs(t, "run") /\ Usable(o) /\ o \in Deletable
    /\ Goes(t, "del", o)
    /\ UNCHANGED <<k, open, corrupt>>

\* Slip: the object is removed without waking the threads that wait for it.
DeleteAtOnce(t) ==
    /\ Runs(t, "del")
    /\ Returns(t) /\ open' = open \ {on[t]}
    /\ UNCHANGED <<k, corrupt>>

DeleteTest(t) ==
    /\ Runs(t, "del")
    /\ IF Waiting(on[t]) # {}
       THEN Goes(t, "del_one", on[t]) /\ UNCHANGED open
       ELSE Returns(t) /\ open' = open \ {on[t]}
    /\ UNCHANGED <<k, corrupt>>

\* The list may have become empty since the test: its head then stands for
\* its first thread.
DeleteOne(t) ==
    /\ Runs(t, "del_one")
    /\ IF k.list[on[t]] # <<>>
       THEN k' = ResumeFirst(on[t]) /\ Goes(t, "del", on[t]) /\ UNCHANGED corrupt
       ELSE corrupt' = TRUE /\ UNCHANGED <<k, pc, on>>
    /\ UNCHANGED open

\* The part of rt_sem_init, rt_mutex_init, ... that the services share.  The
\* application uses the memory again only when no thread is still in a call on
\* the old object.
Create(t, o) ==
    /\ Runs(t, "run") /\ o \notin open /\ \A u \in Thread : on[u] # o
    /\ open' = open \cup {o}
    /\ UNCHANGED <<k, pc, on, corrupt>>

-----------------------------------------------------------------------------
(* rt_thread_sleep *)

\* Slip: the timer that ends the sleep is not started.
SleepForever(t) ==
    /\ Runs(t, "run")
    /\ k' = rt_thread_suspend(k, t)
    /\ Goes(t, "sleep_sched", NoObject)
    /\ UNCHANGED <<open, corrupt>>

Sleep(t) ==
    /\ Runs(t, "run")
    /\ k' = rt_timer_start(rt_thread_suspend(k, t), t)
    /\ Goes(t, "sleep_sched", NoObject)
    /\ UNCHANGED <<open, corrupt>>

SleepSchedule(t) ==
    /\ Runs(t, "sleep_sched")
    /\ k' = rt_schedule(k)
    /\ Goes(t, "sleep_ret", NoObject)
    /\ UNCHANGED <<open, corrupt>>

SleepReturn(t) ==
    /\ Runs(t, "sleep_ret")
    /\ k' = [k EXCEPT !.error[t] = IF @ = "ETIMEOUT" THEN "EOK" ELSE @]
    /\ Returns(t)
    /\ UNCHANGED <<open, corrupt>>

-----------------------------------------------------------------------------
(* The tick interrupt, rt_tick_increase, and rt_thread_control *)

Timeout(t) ==
    /\ Interruptible /\ t \in k.timer
    /\ Rescheduled(rt_thread_timeout(k, t))
    /\ UNCHANGED <<open, pc, on, corrupt>>

\* The time slice of the running thread is over.
SliceEnd ==
    /\ Interruptible
    /\ k' = rt_schedule(k)
    /\ UNCHANGED <<open, pc, on, corrupt>>

ChangePriority(t, u, p) ==
    /\ Runs(t, "run")
    /\ k' = rt_thread_change_priority(k, u, p)
    /\ UNCHANGED <<open, pc, on, corrupt>>

-----------------------------------------------------------------------------
\* The steps the services share: inside a call, and the start of one.
IpcInCall(t) ==
    \/ WaitSchedule(t) \/ Schedule(t)
    \/ DeleteTest(t) \/ DeleteOne(t)
    \/ SleepSchedule(t) \/ SleepReturn(t)

IpcCall(t) ==
    \/ \E o \in Object : Delete(t, o)
    \/ Sleep(t)
    \/ \E u \in App, p \in NewPrio : ChangePriority(t, u, p)

Tick == SliceEnd \/ \E t \in Thread : Timeout(t)

-----------------------------------------------------------------------------
IpcTypeOK ==
    /\ k \in KernelState
    /\ open \subseteq Object
    /\ pc \in [Thread -> PC]
    /\ on \in [Thread -> Object \cup {NoObject}]
    /\ corrupt \in BOOLEAN

\* The kernel stays coherent whatever calls, interrupts and timeouts
\* interleave: every ready thread is in the ready list of its priority and no
\* other thread is, the priority bitmap is that of the lists, a queued thread
\* is suspended and queued once, and a thread timer only runs for a suspended
\* thread (the assertion of rt_thread_timeout).
Coherent == KernelCoherent(k)

\* A thread is suspended exactly while it is queued on the object it waits for
\* or sleeps with its timer running: no wait is lost, no sleeper forgotten, and
\* a thread that left its queue can run.
NobodyStranded ==
    /\ \A t \in Thread, o \in Object : t \in Waiting(o) =>
          on[t] = o /\ pc[t] \in {"wait_sched", "wait_ret"}
    /\ \A t \in Thread : k.stat[t] = "SUSPEND" =>
          \/ \E o \in Object : t \in Waiting(o)
          \/ pc[t] \in {"sleep_sched", "sleep_ret"} /\ t \in k.timer

\* rt_sem_delete and the like wake every waiting thread: an object is gone
\* only when nobody waits for it.
DeletedIsDrained == \A o \in Object \ open : Waiting(o) = {}

\* Outside the calls that are about to invoke rt_schedule, the running thread
\* is one of the highest priority ("full preemptive priority-based
\* scheduling", documentation/doxygen/kernel.h).
Preemptive == pc[k.cur] = "run" => HighestRuns(k)

\* The list of a RT_IPC_FLAG_PRIO object is sorted: its first thread, the one
\* rt_ipc_list_resume resumes, has the highest priority of those that wait.
HighestPrioFirst ==
    \A o \in Object : Flag[o] = "PRIO" =>
        \A i, j \in 1 .. Len(k.list[o]) :
            i < j => k.prio[k.list[o][i]] <= k.prio[k.list[o][j]]

\* The threads resumed from list o by a call that served them which have not
\* yet gone on in their own call.
Resumed(o) ==
    {t \in Thread : /\ on[t] = o /\ pc[t] \in {"wait_sched", "wait_ret"}
                    /\ t \notin Waiting(o) /\ k.error[t] = "EOK"}

\* rt_ipc_list_resume_all never takes a list head for a thread (rt_thread_resume
\* asserts that its argument is a thread).
NoCorruption == ~corrupt
=============================================================================
