----------------------------- MODULE WorkQueue ------------------------------
(***************************************************************************)
(* The work queue of components/drivers/src/workqueue.c: threads submit    *)
(* work items to a list, one work thread takes them off and runs them, and *)
(* suspends itself when the list is empty.                                 *)
(*                                                                         *)
(* The lists are protected by the scheduler lock, the test of the list and *)
(* the suspension of the work thread by nothing.  rt_thread_resume is      *)
(* called with interrupts enabled here, and is three steps.  pc of a       *)
(* submitter, that of Ipc apart:                                           *)
(*   "do_insert"   holds the scheduler lock, has not inserted the work     *)
(*   "do_exit"     has inserted it and tested the state of the work thread *)
(*   "do_test", "do_unlink", "do_ready"   in rt_thread_resume: before the  *)
(*                 test of the state, taking the thread off its list and   *)
(*                 stopping its timer, inserting it in the ready list      *)
(* and of the work thread:                                                 *)
(*   "run"         before the test of the list                             *)
(*   "wk_suspend", "wk_sched"   found it empty; before rt_thread_suspend   *)
(*                 and before rt_schedule                                  *)
(*   "wk_take"     before it takes the first work off the list             *)
(*   "wk_work"     runs a work function                                    *)
(*   "wk_sleep"    a work function sleeps, before rt_schedule              *)
(***************************************************************************)
EXTENDS Ipc

CONSTANTS
    Worker,      \* the work thread
    Work,        \* the work items
    NoWork,
    Cancels      \* the threads that cancel work

VARIABLES
    work_list,   \* [items in the list, in order]
    item,        \* [App -> Work], what a submitter submits
    running,     \* the item the work thread runs
    wakes        \* the submitters that found the work thread not ready

workVars == <<work_list, item, running, wakes>>
vars == <<ipcVars, workVars>>

Submitters == App \ {Worker}

\* rt_workqueue_create; the work thread has been started.
WorkInit ==
    /\ work_list = <<>> /\ running = NoWork
    /\ item = [t \in Submitters |-> NoWork] /\ wakes = {}

Init == IpcInit /\ WorkInit

-----------------------------------------------------------------------------
(* rt_workqueue_dowork, rt_workqueue_critical_work (they are the same) *)

Dowork(t, w) ==
    /\ Runs(t, "run") /\ t \in Submitters
    /\ k' = [k EXCEPT !.lock = @ + 1]
    /\ item' = [item EXCEPT ![t] = w]
    /\ Goes(t, "do_insert", NoObject)
    /\ UNCHANGED <<open, corrupt, work_list, running, wakes>>

\* A work that is already in the list moves to its end.
DoworkInsert(t) ==
    /\ Runs(t, "do_insert")
    /\ work_list' = Append(RemoveFirst(work_list, item[t]), item[t])
    /\ wakes' = IF k.stat[Worker] # "READY" THEN wakes \cup {t} ELSE wakes
    /\ Goes(t, "do_exit", NoObject)
    /\ UNCHANGED <<k, open, corrupt, item, running>>

\* rt_exit_critical calls rt_schedule.
DoworkExit(t) ==
    /\ Runs(t, "do_exit")
    /\ k' = rt_schedule([k EXCEPT !.lock = @ - 1])
    /\ item' = [item EXCEPT ![t] = NoWork]
    /\ wakes' = wakes \ {t}
    /\ IF t \in wakes THEN Goes(t, "do_test", NoObject) ELSE Returns(t)
    /\ UNCHANGED <<open, corrupt, work_list, running>>

\* Slip: the work thread is resumed only when it has not been started.
ResumeWrongState(t) ==
    /\ Runs(t, "do_test")
    /\ Goes(t, IF k.stat[Worker] = "INIT" THEN "do_unlink" ELSE "sched", NoObject)
    /\ UNCHANGED <<k, open, corrupt, workVars>>

\* rt_thread_resume and rt_schedule
ResumeTest(t) ==
    /\ Runs(t, "do_test")
    /\ Goes(t, IF k.stat[Worker] = "SUSPEND" THEN "do_unlink" ELSE "sched", NoObject)
    /\ UNCHANGED <<k, open, corrupt, workVars>>

ResumeUnlink(t) ==
    /\ Runs(t, "do_unlink")
    /\ k' = rt_timer_stop(rt_list_remove(k, Worker), Worker)
    /\ Goes(t, "do_ready", NoObject)
    /\ UNCHANGED <<open, corrupt, workVars>>

\* Corrupt: the work thread was made ready in the meantime, and its node is
\* inserted a second time.
ResumeReady(t) ==
    /\ Runs(t, "do_ready")
    /\ k' = rt_schedule_insert_thread(k, Worker)
    /\ corrupt' = (k.stat[Worker] = "READY")
    /\ Goes(t, "sched", NoObject)
    /\ UNCHANGED <<open, workVars>>

\* rt_workqueue_cancel_work and rt_workqueue_cancel_all_work; the unlocking of
\* the scheduler calls rt_schedule.
Cancel(t, W) ==
    /\ Runs(t, "run") /\ t \in Cancels
    /\ work_list' = SelectSeq(work_list, LAMBDA w : w \notin W)
    /\ Goes(t, "sched", NoObject)
    /\ UNCHANGED <<k, open, corrupt, item, running, wakes>>

-----------------------------------------------------------------------------
(* _workqueue_thread_entry *)

WorkTest ==
    /\ Runs(Worker, "run")
    /\ Goes(Worker, IF work_list = <<>> THEN "wk_suspend" ELSE "wk_take", NoObject)
    /\ UNCHANGED <<k, open, corrupt, workVars>>

WorkSuspend ==
    /\ Runs(Worker, "wk_suspend")
    /\ k' = rt_thread_suspend(k, Worker)
    /\ Goes(Worker, "wk_sched", NoObject)
    /\ UNCHANGED <<open, corrupt, workVars>>

WorkSchedule ==
    /\ Runs(Worker, "wk_sched") \/ Runs(Worker, "wk_sleep")
    /\ k' = rt_schedule(k)
    /\ Goes(Worker, IF pc[Worker] = "wk_sched" THEN "wk_take" ELSE "wk_work", NoObject)
    /\ UNCHANGED <<open, corrupt, workVars>>

\* Corrupt: the work was cancelled, and the head of the list is taken for one.
WorkTake ==
    /\ Runs(Worker, "wk_take")
    /\ IF work_list = <<>> THEN corrupt' = TRUE /\ UNCHANGED <<work_list, running>>
       ELSE /\ running' = Head(work_list) /\ work_list' = Tail(work_list)
            /\ UNCHANGED corrupt
    /\ Goes(Worker, "wk_work", NoObject)
    /\ UNCHANGED <<k, open, item, wakes>>

WorkSleep ==
    /\ Runs(Worker, "wk_work")
    /\ k' = rt_timer_start(rt_thread_suspend(k, Worker), Worker)
    /\ Goes(Worker, "wk_sleep", NoObject)
    /\ UNCHANGED <<open, corrupt, workVars>>

WorkDone ==
    /\ Runs(Worker, "wk_work")
    /\ running' = NoWork
    /\ Returns(Worker)
    /\ UNCHANGED <<k, open, corrupt, work_list, item, wakes>>

-----------------------------------------------------------------------------
Work_thread == WorkTest \/ WorkSuspend \/ WorkSchedule \/ WorkTake \/ WorkSleep \/ WorkDone

InCall(t) ==
    \/ DoworkInsert(t) \/ DoworkExit(t)
    \/ ResumeTest(t) \/ ResumeUnlink(t) \/ ResumeReady(t)
    \/ (Schedule(t) \/ SleepSchedule(t) \/ SleepReturn(t)) /\ UNCHANGED workVars

Call(t) ==
    \/ \E w \in Work : Dowork(t, w) \/ Cancel(t, {w})
    \/ Cancel(t, Work)
    \/ Sleep(t) /\ UNCHANGED workVars

Next ==
    \/ Work_thread \/ (Tick /\ UNCHANGED workVars)
    \/ \E t \in Submitters : InCall(t) \/ Call(t)

Spec == Init /\ [][Next]_vars

-----------------------------------------------------------------------------
\* The work thread sleeps because it found no work.
Idling == pc[Worker] \in {"wk_sched", "wk_take"} /\ k.stat[Worker] = "SUSPEND"

\* No work is left lying: while the work thread sleeps and the list is not empty,
\* a submitter is on its way to resume it.  This takes a work thread of a higher
\* priority than the submitters'.
NoWorkForgotten ==
    ~corrupt /\ Idling /\ work_list # <<>> =>
        wakes # {} \/ \E t \in Submitters : pc[t] \in {"do_test", "do_unlink", "do_ready"}
=============================================================================
