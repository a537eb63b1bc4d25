------------------------------- MODULE Kernel -------------------------------
(***************************************************************************)
(* The scheduler, the thread states and the thread timers of RT-Thread     *)
(* (src/scheduler.c, src/thread.c), uniprocessor build, at most 32         *)
(* priorities, no RT_USING_SIGNALS.                                        *)
(*                                                                         *)
(* The kernel state is one record, because the C functions call each       *)
(* other inside one interrupt-disabled section: a section is then the      *)
(* composition of the operators of the functions it calls, for example     *)
(* rt_schedule(rt_thread_resume(k, t)).  Every operator has the name of    *)
(* the C function it models and maps the kernel state before the call to   *)
(* the one after it.  The modules of the kernel services (Semaphore,       *)
(* Mutex, ...) hold such a record in a variable and cut their handlers     *)
(* into actions where the code enables interrupts.                         *)
(*                                                                         *)
(* A thread has one list node, tlist, so it is in at most one list: a      *)
(* ready list of rt_thread_priority_table or another list (the suspend     *)
(* list of an IPC object).                                                 *)
(***************************************************************************)
EXTENDS Integers, Sequences, FiniteSets, SequencesExt

CONSTANTS
    Thread,      \* the threads, the idle thread included
    Idle,        \* the idle thread
    PRIO_MAX,    \* RT_THREAD_PRIORITY_MAX; 0 is the highest priority
    InitPrio,    \* [Thread -> Prio], the priority a thread is created with
    List         \* list heads other than the ready table

Prio == 0 .. PRIO_MAX - 1

\* The idle thread has the lowest priority; an application thread may share it.
ASSUME KernelAssumption ==
    /\ PRIO_MAX \in Nat \ {0}
    /\ IsFiniteSet(Thread)
    /\ Idle \in Thread
    /\ InitPrio \in [Thread -> Prio]
    /\ InitPrio[Idle] = PRIO_MAX - 1

Stat  == {"INIT", "READY", "SUSPEND", "CLOSE"}
Error == {"EOK", "ETIMEOUT", "ERROR"}

(***************************************************************************)
(* stat    thread->stat & RT_THREAD_STAT_MASK                              *)
(* prio    thread->current_priority                                        *)
(* ready   rt_thread_priority_table                                        *)
(* group   rt_thread_ready_priority_group, as the set of its bits          *)
(* list    the other lists a tlist node can be in                          *)
(* cur     rt_current_thread                                               *)
(* lock    rt_scheduler_lock_nest                                          *)
(* error   thread->error                                                   *)
(* timer   the threads whose thread_timer is in rt_timer_list; how long it *)
(*         still has to run is abstracted away                             *)
(***************************************************************************)
KernelState ==
    [stat  : [Thread -> Stat],
     prio  : [Thread -> Prio],
     ready : [Prio -> Seq(Thread)],
     group : SUBSET Prio,
     list  : [List -> Seq(Thread)],
     cur   : Thread,
     lock  : Nat,
     error : [Thread -> Error],
     timer : SUBSET Thread]

(***************************************************************************)
(* The states after rt_system_scheduler_start when the threads in started  *)
(* were started before it, in some order: one of the highest priority      *)
(* runs, the others are in their ready lists.                              *)
(***************************************************************************)
InitialKernel(started, first, order) ==
    [stat  |-> [t \in Thread |-> IF t \in started THEN "READY" ELSE "INIT"],
     prio  |-> InitPrio,
     ready |-> order,
     group |-> {p \in Prio : order[p] # <<>>},
     list  |-> [l \in List |-> <<>>],
     cur   |-> first,
     lock  |-> 0,
     error |-> [t \in Thread |-> "EOK"],
     timer |-> {}]

\* The orders in which a ready list can hold the threads in S.
Orders(S) == {s \in SetToSeqs(S) : ToSet(s) = S}

ReadyOrders(started, first) ==
    LET At(p) == {t \in started \ {first} : InitPrio[t] = p}
    IN  {o \in [Prio -> UNION {Orders(At(p)) : p \in Prio}] :
            \A p \in Prio : o[p] \in Orders(At(p))}

KernelInits(started) ==
    UNION {{InitialKernel(started, first, order) :
               order \in ReadyOrders(started, first)} :
           first \in {t \in started : \A u \in started : InitPrio[t] <= InitPrio[u]}}

-----------------------------------------------------------------------------
(* include/rtservice.h: unlink a node from whichever list it is in. *)
rt_list_remove(k, t) ==
    [k EXCEPT !.ready = [p \in Prio |-> RemoveFirst(@[p], t)],
              !.list  = [l \in List |-> RemoveFirst(@[l], t)]]

(* src/scheduler.c *)
rt_schedule_insert_thread(k, t) ==
    IF t = k.cur
    THEN [k EXCEPT !.stat[t] = "READY"]
    ELSE [k EXCEPT !.stat[t] = "READY",
                   !.ready[k.prio[t]] = Append(@, t),
                   !.group = @ \cup {k.prio[t]}]

\* Slip: the bit of a priority whose list became empty is not cleared.
StaleBitmap(k, t) == rt_list_remove(k, t)

rt_schedule_remove_thread(k, t) ==
    LET p == k.prio[t]
    IN  [rt_list_remove(k, t) EXCEPT
            !.group = IF RemoveFirst(k.ready[p], t) = <<>> THEN @ \ {p} ELSE @]

\* __rt_ffs(rt_thread_ready_priority_group) - 1
highest_ready_priority(k) == Min(k.group)

get_highest_priority_thread(k) == Head(k.ready[highest_ready_priority(k)])

\* The current thread keeps the processor: it is runnable and above every
\* ready thread.
KeepsProcessor(k) ==
    /\ k.stat[k.cur] = "READY"
    /\ k.prio[k.cur] < highest_ready_priority(k)

rt_schedule(k) ==
    IF k.lock # 0 \/ k.group = {} THEN k
    ELSE LET from == k.cur
             to   == IF KeepsProcessor(k) THEN from
                     ELSE get_highest_priority_thread(k)
             moved == [k EXCEPT !.cur = to]
         IN  IF to = from THEN rt_schedule_remove_thread(k, from)
             ELSE rt_schedule_remove_thread(
                      IF k.stat[from] = "READY"
                      THEN rt_schedule_insert_thread(moved, from)
                      ELSE moved,
                      to)

-----------------------------------------------------------------------------
(* src/thread.c; src/timer.c for the thread timer *)
rt_timer_start(k, t) == [k EXCEPT !.timer = @ \cup {t}]

rt_timer_stop(k, t) == [k EXCEPT !.timer = @ \ {t}]

\* Returns -RT_ERROR and does nothing unless the thread is ready.
rt_thread_suspend(k, t) ==
    IF k.stat[t] # "READY" THEN k
    ELSE rt_timer_stop(
             rt_schedule_remove_thread([k EXCEPT !.stat[t] = "SUSPEND"], t), t)

\* Returns -RT_ERROR and does nothing unless the thread is suspended.
rt_thread_resume(k, t) ==
    IF k.stat[t] # "SUSPEND" THEN k
    ELSE rt_schedule_insert_thread(rt_timer_stop(rt_list_remove(k, t), t), t)

\* Slip: the error of a thread that timed out is not set.
SilentTimeout(k, t) ==
    rt_schedule_insert_thread(rt_list_remove(rt_timer_stop(k, t), t), t)

\* Slip: the thread that timed out is not made ready.
TimeoutForgets(k, t) ==
    rt_list_remove([rt_timer_stop(k, t) EXCEPT !.error[t] = "ETIMEOUT"], t)

\* The timeout function of the thread timer, called by rt_timer_check after
\* it removed the timer from the timer list, up to its call of rt_schedule.
rt_thread_timeout(k, t) ==
    LET expired == [rt_timer_stop(k, t) EXCEPT !.error[t] = "ETIMEOUT"]
    IN  rt_schedule_insert_thread(rt_list_remove(expired, t), t)

\* Slip: the priority of a ready thread is changed in place.
PriorityInPlace(k, t, p) == [k EXCEPT !.prio[t] = p]

\* RT_THREAD_CTRL_CHANGE_PRIORITY
rt_thread_change_priority(k, t, p) ==
    IF k.stat[t] = "READY"
    THEN rt_schedule_insert_thread(
             [rt_schedule_remove_thread(k, t) EXCEPT !.prio[t] = p], t)
    ELSE [k EXCEPT !.prio[t] = p]

-----------------------------------------------------------------------------
(* src/ipc.c: the lists of threads suspended on an IPC object *)

\* Slip: the comparison of the priorities is the wrong way round.
PrioInsertReversed(prio, s, t) ==
    LET i == SelectInSeq(s, LAMBDA u : prio[u] < prio[t])
    IN  IF i = 0 THEN Append(s, t) ELSE InsertAt(s, i, t)

\* The place of t in a list sorted by priority: before the first thread with a
\* lower priority.
PrioInsert(prio, s, t) ==
    LET i == SelectInSeq(s, LAMBDA u : prio[t] < prio[u])
    IN  IF i = 0 THEN Append(s, t) ELSE InsertAt(s, i, t)

\* Slip: rt_list_insert_after in place of rt_list_insert_before.
SuspendAtFront(k, l, t, flag) ==
    [rt_thread_suspend(k, t) EXCEPT !.list[l] = <<t>> \o @]

\* flag is RT_IPC_FLAG_FIFO or RT_IPC_FLAG_PRIO
rt_ipc_list_suspend(k, l, t, flag) ==
    LET r == rt_thread_suspend(k, t)
    IN  [r EXCEPT !.list[l] = IF flag = "FIFO" THEN Append(@, t)
                              ELSE PrioInsert(r.prio, @, t)]

rt_ipc_list_resume(k, l) == rt_thread_resume(k, Head(k.list[l]))

-----------------------------------------------------------------------------
(***************************************************************************)
(* Properties of a kernel state                                            *)
(***************************************************************************)

\* A thread is in the ready list of its priority exactly when it is ready and
\* not running: no ready thread is lost, none is queued that cannot run.
ReadyListsCoherent(k) ==
    /\ \A p \in Prio :
         /\ IsInjective(k.ready[p])
         /\ \A t \in Thread :
              t \in ToSet(k.ready[p]) <=>
                 k.stat[t] = "READY" /\ t # k.cur /\ k.prio[t] = p
    /\ k.group = {p \in Prio : k.ready[p] # <<>>}

\* A thread queued on a list is suspended and queued there only.
SuspendListsCoherent(k) ==
    /\ \A l \in List :
         /\ IsInjective(k.list[l])
         /\ \A t \in ToSet(k.list[l]) : k.stat[t] = "SUSPEND"
    /\ \A l, m \in List : l # m => ToSet(k.list[l]) \cap ToSet(k.list[m]) = {}

\* Only a suspended thread's timer runs, so a timeout never hits a thread that
\* has already been resumed (the assertion of rt_thread_timeout).
TimersCoherent(k) == \A t \in k.timer : k.stat[t] = "SUSPEND"

\* The idle thread never leaves the ready state: there is always a thread to
\* switch to.
IdleReady(k) == k.stat[Idle] = "READY"

KernelCoherent(k) ==
    /\ ReadyListsCoherent(k)
    /\ SuspendListsCoherent(k)
    /\ TimersCoherent(k)
    /\ IdleReady(k)

\* The running thread is runnable and no ready thread has a higher priority.
HighestRuns(k) ==
    /\ k.stat[k.cur] = "READY"
    /\ \A p \in k.group : k.prio[k.cur] <= p
=============================================================================
