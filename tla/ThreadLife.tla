----------------------------- MODULE ThreadLife -----------------------------
(***************************************************************************)
(* The life of a thread (src/thread.c, src/idle.c): created or initialised,*)
(* started, ended by returning (rt_thread_exit) or by another thread       *)
(* (rt_thread_delete, rt_thread_detach), put on the list of defunct        *)
(* threads and reclaimed by the idle thread; and the scheduler lock        *)
(* (rt_enter_critical).  The services a thread may be waiting for are one  *)
(* list, WaitList.                                                         *)
(*                                                                         *)
(* rt_thread_exit is one interrupt-disabled section.  rt_thread_delete and *)
(* rt_thread_detach are not: the victim is taken off its list, its timer   *)
(* is detached, its state set and it is put on the defunct list in         *)
(* separate steps, and interrupts and other threads come in between.       *)
(* The victim may be the calling thread itself.                            *)
(* pc has these values besides those of Ipc, with target the victim:       *)
(*   "kill_timer", "kill_close", "kill_detach", "kill_defunct": before     *)
(*                 that step                                               *)
(*   "exit_sched"  in rt_thread_exit, before rt_schedule                   *)
(*   "dead"        rt_schedule was called for the last time                *)
(*   "reap"        the idle thread, before it frees the target             *)
(***************************************************************************)
EXTENDS Ipc

CONSTANTS
    WaitList, Defunct,    \* the two lists: waiting threads, rt_thread_defunct
    Static,               \* the threads that are static objects
    HasCleanup,           \* the threads with a cleanup function
    Kills,                \* <<t, u>> when t may delete or detach u
    NoThread,
    LOCK_MAX              \* bound on rt_scheduler_lock_nest

VARIABLES
    type,       \* parent.type: "Static", "Dynamic", or "None" when not registered
    freed,      \* the threads whose stack and object were freed
    target,     \* the victim of a thread in a call, and of the idle thread
    detached,   \* no part of the code: the threads rt_thread_detach was called for
    botched     \* no part of the code: the victims that were made ready again by
                \* their timer, which expired before it was detached, and those whose
                \* killer was killed before it had finished

threadVars == <<type, freed, target, detached, botched>>
vars == <<ipcVars, threadVars>>

Made(t) == IF t \in Static THEN "Static" ELSE "Dynamic"

LifeInit ==
    /\ type = [t \in Thread |-> Made(t)]
    /\ freed = {}
    /\ target = [t \in Thread |-> NoThread]
    /\ detached = {} /\ botched = {}

\* Some threads were started before the scheduler, the others exist.
Init ==
    /\ \E S \in SUBSET App : k \in KernelInits(S \cup {Idle})
    /\ open = Object
    /\ pc = [t \in Thread |-> "run"]
    /\ on = [t \in Thread |-> NoObject]
    /\ corrupt = FALSE
    /\ LifeInit

-----------------------------------------------------------------------------
(* rt_thread_init or rt_thread_create, and rt_thread_startup *)

\* The memory is used again: a dynamic thread was freed, a static one detached
\* and left alone by the idle thread.
Reusable(u) ==
    /\ k.stat[u] = "CLOSE" /\ type[u] = "None"
    /\ u \notin Static => u \in freed
    /\ u \notin ToSet(k.list[Defunct]) /\ \A t \in Thread : target[t] # u
    /\ u # k.cur /\ u \notin botched

ThreadInit(t, u) ==
    /\ Runs(t, "run") /\ Reusable(u)
    /\ k' = [k EXCEPT !.stat[u] = "INIT", !.prio[u] = InitPrio[u],
                      !.error[u] = "EOK", !.timer = @ \ {u}]
    /\ type' = [type EXCEPT ![u] = Made(u)]
    /\ freed' = freed \ {u} /\ detached' = detached \ {u}
    /\ target' = [target EXCEPT ![u] = NoThread]
    /\ pc' = [pc EXCEPT ![u] = "run"] /\ on' = [on EXCEPT ![u] = NoObject]
    /\ UNCHANGED <<open, corrupt, botched>>

Startup(t, u) ==
    /\ Runs(t, "run") /\ k.stat[u] = "INIT" /\ \A v \in Thread : target[v] # u
    /\ k' = rt_thread_resume([k EXCEPT !.stat[u] = "SUSPEND", !.prio[u] = InitPrio[u]], u)
    /\ Goes(t, "sched", NoObject)
    /\ UNCHANGED <<open, corrupt, threadVars>>

-----------------------------------------------------------------------------
(* rt_thread_exit *)

\* rt_list_insert_after(&rt_thread_defunct, ...)
MakeDefunct(kk, u) == [kk EXCEPT !.list[Defunct] = <<u>> \o @]

Closed(kk, u) ==
    rt_timer_stop([rt_schedule_remove_thread(kk, u) EXCEPT !.stat[u] = "CLOSE"], u)

Exit(t) ==
    /\ Runs(t, "run") /\ k.lock = 0
    /\ IF type[t] = "Static" /\ t \notin HasCleanup
       THEN k' = Closed(k, t) /\ type' = [type EXCEPT ![t] = "None"]
       ELSE k' = MakeDefunct(Closed(k, t), t) /\ UNCHANGED type
    /\ Goes(t, "exit_sched", NoObject)
    /\ UNCHANGED <<open, corrupt, freed, target, detached, botched>>

ExitSchedule(t) ==
    /\ Runs(t, "exit_sched")
    /\ k' = rt_schedule(k)
    /\ Goes(t, "dead", NoObject)
    /\ UNCHANGED <<open, corrupt, threadVars>>

-----------------------------------------------------------------------------
(* rt_thread_delete of a dynamic thread, rt_thread_detach of a static one *)

Kill(t, u) ==
    /\ Runs(t, "run") /\ <<t, u>> \in Kills /\ (t = u => k.lock = 0)
    /\ type[u] # "None" /\ k.stat[u] # "CLOSE" /\ \A v \in Thread : target[v] # u
    /\ k' = IF k.stat[u] # "INIT" THEN rt_schedule_remove_thread(k, u) ELSE k
    /\ target' = [target EXCEPT ![t] = u]
    /\ Goes(t, "kill_timer", NoObject)
    /\ botched' = IF t = u THEN botched ELSE botched \cup ({target[u]} \cap App)
    /\ UNCHANGED <<open, corrupt, type, freed, detached>>

\* Slip: the timer of the victim is not detached.
KillTimerRuns(t) ==
    /\ Runs(t, "kill_timer")
    /\ Goes(t, "kill_close", NoObject)
    /\ UNCHANGED <<k, open, corrupt, threadVars>>

KillTimer(t) ==
    /\ Runs(t, "kill_timer")
    /\ k' = rt_timer_stop(k, target[t])
    /\ Goes(t, "kill_close", NoObject)
    /\ UNCHANGED <<open, corrupt, threadVars>>

\* The end of the call; a thread that killed itself calls rt_schedule next.
KillReturns(t) ==
    /\ IF target[t] = t THEN Goes(t, "exit_sched", NoObject) ELSE Returns(t)
    /\ target' = [target EXCEPT ![t] = NoThread]

KillClose(t) ==
    /\ Runs(t, "kill_close")
    /\ k' = [k EXCEPT !.stat[target[t]] = "CLOSE"]
    /\ Goes(t, IF target[t] \in Static THEN "kill_detach" ELSE "kill_defunct", NoObject)
    /\ UNCHANGED <<open, corrupt, threadVars>>

\* rt_object_detach clears the type of a static thread.
KillDetach(t) ==
    /\ Runs(t, "kill_detach")
    /\ type' = [type EXCEPT ![target[t]] = "None"]
    /\ detached' = detached \cup {target[t]}
    /\ IF target[t] \in HasCleanup
       THEN Goes(t, "kill_defunct", NoObject) /\ UNCHANGED target
       ELSE KillReturns(t)
    /\ UNCHANGED <<k, open, corrupt, freed, botched>>

\* The lists a thread's node is in.
Queued(u) == u \in UNION {ToSet(k.ready[p]) : p \in Prio}
                    \cup UNION {ToSet(k.list[l]) : l \in List}

\* Slip: rt_thread_delete does not put the thread on the defunct list.
KillForgets(t) ==
    /\ Runs(t, "kill_defunct")
    /\ KillReturns(t)
    /\ UNCHANGED <<k, corrupt, open, type, freed, detached, botched>>

\* A node that is still in another list breaks both lists.
KillDefunct(t) ==
    /\ Runs(t, "kill_defunct")
    /\ k' = MakeDefunct(k, target[t])
    /\ corrupt' = Queued(target[t])
    /\ KillReturns(t)
    /\ UNCHANGED <<open, type, freed, detached, botched>>

-----------------------------------------------------------------------------
(* rt_thread_idle_excute.  The test of the list is repeated with interrupts *)
(* disabled; the cleanup function runs with the scheduler locked, and       *)
(* unlocking it calls rt_schedule.                                          *)

IdleTake ==
    /\ Runs(Idle, "run") /\ k.list[Defunct] # <<>>
    /\ LET u == Head(k.list[Defunct])
       IN  /\ k' = rt_schedule(rt_list_remove(k, u))
           /\ IF type[u] = "Static" THEN UNCHANGED <<pc, target>>
              ELSE /\ pc' = [pc EXCEPT ![Idle] = "reap"]
                   /\ target' = [target EXCEPT ![Idle] = u]
    /\ UNCHANGED <<open, on, corrupt, type, freed, detached, botched>>

IdleFree ==
    /\ Runs(Idle, "reap")
    /\ freed' = freed \cup {target[Idle]}
    /\ type' = [type EXCEPT ![target[Idle]] = "None"]
    /\ pc' = [pc EXCEPT ![Idle] = "run"]
    /\ target' = [target EXCEPT ![Idle] = NoThread]
    /\ UNCHANGED <<k, open, on, corrupt, detached, botched>>

-----------------------------------------------------------------------------
(* rt_enter_critical, rt_exit_critical *)

EnterCritical(t) ==
    /\ Runs(t, "run") /\ k.lock < LOCK_MAX
    /\ k' = [k EXCEPT !.lock = @ + 1]
    /\ UNCHANGED <<open, pc, on, corrupt, threadVars>>

\* Slip: unlocking does not call rt_schedule.
ExitNoSchedule(t) ==
    /\ Runs(t, "run") /\ k.lock > 0
    /\ k' = [k EXCEPT !.lock = @ - 1]
    /\ UNCHANGED <<open, pc, on, corrupt, threadVars>>

ExitCritical(t) ==
    /\ Runs(t, "run") /\ k.lock > 0
    /\ k' = [k EXCEPT !.lock = @ - 1]
    /\ IF k.lock = 1 THEN Goes(t, "sched", NoObject) ELSE UNCHANGED <<pc, on>>
    /\ UNCHANGED <<open, corrupt, threadVars>>

-----------------------------------------------------------------------------
(* Waiting for some service, and being served by a thread or a handler.  A   *)
(* thread does not wait while it has the scheduler locked.                   *)

WaitFor(t, timed) ==
    /\ Runs(t, "run") /\ k.lock = 0
    /\ k' = Wait([k EXCEPT !.error[t] = "EOK"], t, WaitList, timed)
    /\ Goes(t, "wait_sched", WaitList)
    /\ UNCHANGED <<open, corrupt, threadVars>>

WaitReturn(t) ==
    /\ Runs(t, "wait_ret")
    /\ Returns(t)
    /\ UNCHANGED <<k, open, corrupt, threadVars>>

Wake(t) ==
    /\ Runs(t, "run") /\ k.list[WaitList] # <<>>
    /\ ResumesOne(t, WaitList)
    /\ UNCHANGED <<open, corrupt, threadVars>>

WakeIsr ==
    /\ Interruptible /\ k.list[WaitList] # <<>>
    /\ ResumesOneIsr(WaitList)
    /\ UNCHANGED <<open, pc, on, corrupt, threadVars>>

\* A victim's timer runs until KillTimer.
KilledTimer(u) == \E t \in Thread : target[t] = u /\ pc[t] = "kill_timer"

TickThread ==
    \/ SliceEnd /\ UNCHANGED threadVars
    \/ \E u \in Thread :
         /\ Timeout(u)
         /\ botched' = IF KilledTimer(u) THEN botched \cup {u} ELSE botched
         /\ UNCHANGED <<type, freed, target, detached>>

-----------------------------------------------------------------------------
InCall(t) ==
    \/ ExitSchedule(t) \/ KillTimer(t) \/ KillClose(t) \/ KillDetach(t)
    \/ KillDefunct(t) \/ WaitReturn(t)
    \/ (WaitSchedule(t) \/ Schedule(t)) /\ UNCHANGED threadVars

Call(t) ==
    \/ \E u \in App : ThreadInit(t, u) \/ Startup(t, u) \/ Kill(t, u)
    \/ Exit(t) \/ EnterCritical(t) \/ ExitCritical(t) \/ Wake(t)
    \/ \E timed \in BOOLEAN : WaitFor(t, timed)

Next ==
    \/ TickThread \/ WakeIsr \/ IdleTake \/ IdleFree
    \/ \E t \in App : InCall(t) \/ Call(t)

Spec == Init /\ [][Next]_vars

-----------------------------------------------------------------------------
\* The threads that somebody is taking apart, before their state is set.
Dying == {target[t] : t \in {v \in App : pc[v] \in {"kill_timer", "kill_close"}}}

\* Once a thread is closed nothing brings it back, although its list, timer and
\* state are dismantled in separate steps: it is in no ready list and waits for
\* nothing, its timer does not run, and it runs only the end of rt_thread_exit or of
\* its own deletion.  Only a timeout that comes after rt_schedule_remove_thread and
\* before rt_timer_detach does (thread.c:341-345, 441-445); a thread it hit, or whose
\* killer was killed on the way, is botched.
DeadStaysDead ==
    \A t \in App \ botched : k.stat[t] = "CLOSE" =>
        /\ \A p \in Prio : t \notin ToSet(k.ready[p])
        /\ t \notin Waiting(WaitList) /\ t \notin k.timer
        /\ t = k.cur => pc[t] = "exit_sched" \/ target[t] = t

\* No memory is leaked: a dynamic thread that is closed is on the list of
\* defunct threads, in the hands of its killer or of the idle thread, or freed;
\* and it is in one of these places only, so it is freed once.  The killer may be
\* dead: one that deletes itself and is interrupted after it set its state never
\* comes to put itself on the list (thread.c:448-454).  Only a botched thread is put on
\* that list while it is in another, or twice.
NoLeak ==
    /\ corrupt => botched # {}
    /\ IsInjective(SelectSeq(k.list[Defunct], LAMBDA t : t \notin botched))
    /\ \A t \in App \ (Static \cup botched) :
         /\ k.stat[t] = "CLOSE" <=>
              \/ t \in ToSet(k.list[Defunct]) \/ t \in freed \/ target[Idle] = t
              \/ \E u \in App : target[u] = t /\ pc[u] = "kill_defunct"
         /\ ~(t \in ToSet(k.list[Defunct]) /\ (t \in freed \/ target[Idle] = t))

\* "if it's a system object, not delete it" (idle.c:193): the idle thread frees the
\* memory of a static thread only when it has a cleanup function and was detached:
\* rt_thread_detach has then cleared the type that idle.c:194 tests.
StaticNeverFreed ==
    (freed \cup {target[Idle]}) \cap Static \subseteq (detached \cap HasCleanup) \cup botched

\* Apart from a thread that is being killed, the ready lists hold exactly the
\* ready threads that do not run, and the bitmap is that of the lists: killing
\* a ready thread leaves neither a stale bit nor a lost thread behind.
ReadyComplete ==
    /\ k.group = {p \in Prio : k.ready[p] # <<>>}
    /\ \A t \in Thread \ (Dying \cup botched), p \in Prio :
         t \in ToSet(k.ready[p]) <=> k.stat[t] = "READY" /\ t # k.cur /\ k.prio[t] = p

\* With the scheduler unlocked, and outside calls that are about to schedule,
\* the highest priority runs: the switches that were held back while it was
\* locked are made up for.
PreemptiveUnlocked ==
    pc[k.cur] = "run" /\ k.lock = 0 /\ k.cur \notin botched => HighestRuns(k)

\* While the scheduler is locked no interrupt, timeout or wake-up takes the
\* processor from the thread that locked it.
LockHolds == [][k.lock > 0 /\ k'.lock > 0 => k'.cur = k.cur]_vars
=============================================================================
