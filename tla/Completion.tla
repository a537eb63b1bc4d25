----------------------------- MODULE Completion -----------------------------
(***************************************************************************)
(* The completions of components/drivers/src/completion.c: a flag that a   *)
(* driver, often its interrupt handler, raises when a transfer is done and *)
(* that the one thread waiting for the transfer lowers again.              *)
(***************************************************************************)
EXTENDS Ipc

CONSTANTS
    Completions,
    Waiter        \* [Completions -> App]: "only one thread can suspend on complete"

ASSUME CompletionAssumption ==
    Completions \subseteq Object /\ Waiter \in [Completions -> App]

VARIABLES
    completed     \* the completions whose flag is RT_COMPLETED

cpVars == <<ipcVars, completed>>

\* rt_completion_init
CpInit == IpcInit /\ completed = {}

-----------------------------------------------------------------------------
(* rt_completion_wait.  With timeout 0 it returns -RT_ETIMEOUT at once and    *)
(* changes nothing when the flag is lowered.                                  *)

WaitCompleted(t, c) ==
    /\ Runs(t, "run") /\ t = Waiter[c] /\ c \in completed
    /\ completed' = completed \ {c}
    /\ UNCHANGED ipcVars

\* Slip: the flag is tested before interrupts are disabled.
WaitStale(t, c, timed) ==
    /\ Runs(t, "run") /\ t = Waiter[c]
    /\ k' = Wait([k EXCEPT !.error[t] = "EOK"], t, c, timed)
    /\ Goes(t, "wait_sched", c)
    /\ UNCHANGED <<open, corrupt, completed>>

WaitSuspend(t, c, timed) ==
    /\ Runs(t, "run") /\ t = Waiter[c] /\ c \notin completed
    /\ k' = Wait([k EXCEPT !.error[t] = "EOK"], t, c, timed)
    /\ Goes(t, "wait_sched", c)
    /\ UNCHANGED <<open, corrupt, completed>>

\* Whatever woke the thread, it lowers the flag.
WaitReturn(t) ==
    /\ Runs(t, "wait_ret")
    /\ completed' = completed \ {on[t]}
    /\ Returns(t)
    /\ UNCHANGED <<k, open, corrupt>>

-----------------------------------------------------------------------------
(* rt_completion_done; it does nothing when the flag is already raised. *)

DoneTest(t, c) ==
    /\ Runs(t, "run") /\ c \notin completed
    /\ Goes(t, "done_set", c)
    /\ UNCHANGED <<k, open, corrupt, completed>>

DoneSet(t) ==
    /\ Runs(t, "done_set")
    /\ completed' = completed \cup {on[t]}
    /\ ResumesOne(t, on[t])
    /\ UNCHANGED <<open, corrupt>>

DoneIsr(c) ==
    /\ Interruptible /\ c \notin completed
    /\ completed' = completed \cup {c}
    /\ ResumesOneIsr(c)
    /\ UNCHANGED <<open, pc, on, corrupt>>

-----------------------------------------------------------------------------
CpStep(t) ==
    \/ WaitReturn(t) \/ DoneSet(t)
    \/ (WaitSchedule(t) \/ Schedule(t)) /\ UNCHANGED completed
    \/ \E c \in Completions :
         \/ WaitCompleted(t, c) \/ DoneTest(t, c)
         \/ \E timed \in BOOLEAN : WaitSuspend(t, c, timed)

CpNext ==
    \/ \E t \in App : CpStep(t)
    \/ \E c \in Completions : DoneIsr(c)
    \/ Tick /\ UNCHANGED completed

CpSpec == CpInit /\ [][CpNext]_cpVars

-----------------------------------------------------------------------------
\* The threads that return from their sleep in this step, with RT_EOK.
Awakes ==
    {t \in App : /\ pc[t] = "wait_ret" /\ pc'[t] = "run" /\ k.error[t] = "EOK"
                 /\ on[t] \in Completions}

\* A thread that rt_completion_wait put to sleep and that returns RT_EOK finds
\* the flag raised: it was woken by a rt_completion_done that no other wait has
\* used up.
AwakesEarned == \A t \in Awakes : on[t] \in completed

\* Completions: no thread sleeps on a completion that is done, whichever of two
\* concurrent calls of rt_completion_done, an interrupt handler and the waiting
\* thread comes first, and none returns from its sleep with RT_EOK without a
\* rt_completion_done of its own.
DoneIsSeen ==
    /\ [](\A c \in completed : Waiting(c) = {})
    /\ [][AwakesEarned]_cpVars
=============================================================================
