------------------------------- MODULE Mutex -------------------------------
(***************************************************************************)
(* The recursive mutexes with priority inheritance of src/ipc.c: threads   *)
(* that call rt_mutex_take, rt_mutex_release, rt_mutex_delete (or          *)
(* rt_mutex_detach, which does the same) and rt_mutex_init.                *)
(***************************************************************************)
EXTENDS Ipc

CONSTANTS
    HOLD_MAX,      \* bound on mutex->hold, at most RT_UINT8_MAX
    Discipline,    \* how the application nests its mutexes, see MayTake, MayRelease
    NoThread,      \* RT_NULL
    NO_PRIO        \* the 0xFF in mutex->original_priority

Mutexes == Object

ASSUME MutexAssumption ==
    /\ HOLD_MAX \in 1 .. 255
    /\ Discipline \in {"single", "lifo", "any"}
    /\ NoThread \notin Thread
    /\ NO_PRIO \notin Prio

VARIABLES
    value,               \* mutex->value
    owner,               \* mutex->owner
    original_priority,   \* mutex->original_priority
    hold,                \* mutex->hold
    held, nest           \* history: the takes of a mutex that returned RT_EOK to a
                         \* thread and that it has not released, and the mutexes
                         \* it holds in this way, oldest first

mutexVars == <<value, owner, original_priority, hold>>
history == <<held, nest>>
vars == <<ipcVars, mutexVars, history>>

Init ==
    /\ IpcInit
    /\ value = [m \in Mutexes |-> 1]
    /\ owner = [m \in Mutexes |-> NoThread]
    /\ original_priority = [m \in Mutexes |-> NO_PRIO]
    /\ hold = [m \in Mutexes |-> 0]
    /\ held = [t \in Thread |-> [m \in Mutexes |-> 0]]
    /\ nest = [t \in Thread |-> <<>>]

-----------------------------------------------------------------------------
(* The application: a thread takes one mutex at a time, or several that it *)
(* releases in the reverse order, or several that it releases in any order.*)

MayTake(t, m) == Discipline = "single" => ToSet(nest[t]) \subseteq {m}

MayRelease(t, m) == Discipline = "lifo" /\ nest[t] # <<>> => m = Last(nest[t])

\* The take returns RT_EOK to t, a release ends it.
Acquired(t, m) ==
    /\ held' = [held EXCEPT ![t][m] = @ + 1]
    /\ nest' = IF held[t][m] = 0 THEN [nest EXCEPT ![t] = Append(@, m)] ELSE nest
Given(t, m) ==
    /\ held' = [held EXCEPT ![t][m] = @ - 1]
    /\ nest' = IF held[t][m] = 1 THEN [nest EXCEPT ![t] = RemoveFirst(@, m)] ELSE nest

-----------------------------------------------------------------------------
(* rt_mutex_take *)

TakeAgain(t, m) ==
    /\ Runs(t, "run") /\ Usable(m) /\ MayTake(t, m)
    /\ owner[m] = t /\ hold[m] < HOLD_MAX
    /\ k' = [k EXCEPT !.error[t] = "EOK"]
    /\ hold' = [hold EXCEPT ![m] = @ + 1]
    /\ Acquired(t, m)
    /\ UNCHANGED <<value, owner, original_priority, open, pc, on, corrupt>>

\* Slip: the mutex is taken without a test of mutex->value.
TakeUnchecked(t, m) ==
    /\ Runs(t, "run") /\ Usable(m) /\ MayTake(t, m)
    /\ owner[m] # t
    /\ k' = [k EXCEPT !.error[t] = "EOK"]
    /\ value' = [value EXCEPT ![m] = @ - 1]
    /\ owner' = [owner EXCEPT ![m] = t]
    /\ original_priority' = [original_priority EXCEPT ![m] = k.prio[t]]
    /\ hold' = [hold EXCEPT ![m] = @ + 1]
    /\ Acquired(t, m)
    /\ UNCHANGED <<open, pc, on, corrupt>>

TakeFree(t, m) ==
    /\ Runs(t, "run") /\ Usable(m) /\ MayTake(t, m)
    /\ owner[m] # t /\ value[m] > 0
    /\ k' = [k EXCEPT !.error[t] = "EOK"]
    /\ value' = [value EXCEPT ![m] = @ - 1]
    /\ owner' = [owner EXCEPT ![m] = t]
    /\ original_priority' = [original_priority EXCEPT ![m] = k.prio[t]]
    /\ hold' = [hold EXCEPT ![m] = @ + 1]
    /\ Acquired(t, m)
    /\ UNCHANGED <<open, pc, on, corrupt>>

\* With waiting time 0.
TakeBusy(t, m) ==
    /\ Runs(t, "run") /\ Usable(m) /\ MayTake(t, m)
    /\ owner[m] # t /\ value[m] = 0
    /\ k' = [k EXCEPT !.error[t] = "ETIMEOUT"]
    /\ UNCHANGED <<mutexVars, history, open, pc, on, corrupt>>

\* Slip: the owner keeps its own priority.
InheritNothing(kk, t, m) == kk

\* The owner inherits the priority of the thread that starts to wait.
Inherit(kk, t, m) ==
    IF kk.prio[t] < kk.prio[owner[m]]
    THEN rt_thread_change_priority(kk, owner[m], kk.prio[t])
    ELSE kk

TakeBlock(t, m, timed) ==
    /\ Runs(t, "run") /\ Usable(m) /\ MayTake(t, m)
    /\ owner[m] # t /\ value[m] = 0
    /\ k' = Wait(Inherit([k EXCEPT !.error[t] = "EOK"], t, m), t, m, timed)
    /\ Goes(t, "wait_sched", m)
    /\ UNCHANGED <<mutexVars, history, open, corrupt>>

\* Slip: the error left by a timeout is not looked at.
ReturnAlwaysOk(t) ==
    /\ Runs(t, "wait_ret")
    /\ Acquired(t, on[t])
    /\ Returns(t)
    /\ UNCHANGED <<k, mutexVars, open, corrupt>>

TakeReturn(t) ==
    /\ Runs(t, "wait_ret")
    /\ IF k.error[t] = "EOK" THEN Acquired(t, on[t]) ELSE UNCHANGED history
    /\ Returns(t)
    /\ UNCHANGED <<k, mutexVars, open, corrupt>>

-----------------------------------------------------------------------------
(* rt_mutex_release *)

ReleaseNotOwner(t, m) ==
    /\ Runs(t, "run") /\ Usable(m) /\ owner[m] # t
    /\ k' = [k EXCEPT !.error[t] = "ERROR"]
    /\ UNCHANGED <<mutexVars, history, open, pc, on, corrupt>>

ReleaseInner(t, m) ==
    /\ Runs(t, "run") /\ Usable(m) /\ owner[m] = t /\ hold[m] > 1
    /\ hold' = [hold EXCEPT ![m] = @ - 1]
    /\ Given(t, m)
    /\ UNCHANGED <<value, owner, original_priority, ipcVars>>

\* Slip: the owner keeps the priority it inherited.
RestoreNothing(t, m) == k

\* The kernel after the owner got the priority back that it had when it took
\* the mutex.
Restore(t, m) ==
    IF original_priority[m] # k.prio[t]
    THEN rt_thread_change_priority(k, t, original_priority[m])
    ELSE k

\* Slip: mutex->hold is not reset when nobody waits.
ReleaseKeepsHold(t, m) ==
    /\ Runs(t, "run") /\ Usable(m) /\ MayRelease(t, m)
    /\ owner[m] = t /\ hold[m] = 1
    /\ k.list[m] = <<>>
    /\ value' = [value EXCEPT ![m] = @ + 1]
    /\ owner' = [owner EXCEPT ![m] = NoThread]
    /\ original_priority' = [original_priority EXCEPT ![m] = NO_PRIO]
    /\ k' = Restore(t, m)
    /\ Given(t, m)
    /\ UNCHANGED <<hold, pc, on, open, corrupt>>

ReleaseLast(t, m) ==
    /\ Runs(t, "run") /\ Usable(m) /\ MayRelease(t, m)
    /\ owner[m] = t /\ hold[m] = 1
    /\ LET r == Restore(t, m)
       IN  IF r.list[m] # <<>>
           THEN LET next == Head(r.list[m])
                IN  /\ owner' = [owner EXCEPT ![m] = next]
                    /\ original_priority' = [original_priority EXCEPT ![m] = r.prio[next]]
                    /\ k' = rt_ipc_list_resume(r, m)
                    /\ Goes(t, "sched", NoObject)
                    /\ UNCHANGED <<value, hold>>
           ELSE /\ value' = [value EXCEPT ![m] = @ + 1]
                /\ owner' = [owner EXCEPT ![m] = NoThread]
                /\ original_priority' = [original_priority EXCEPT ![m] = NO_PRIO]
                /\ hold' = [hold EXCEPT ![m] = 0]
                /\ k' = r
                /\ UNCHANGED <<pc, on>>
    /\ Given(t, m)
    /\ UNCHANGED <<open, corrupt>>

\* rt_mutex_init or rt_mutex_create; nobody is left in the old mutex.
MutexCreate(t, m) ==
    /\ Create(t, m)
    /\ value' = [value EXCEPT ![m] = 1]
    /\ owner' = [owner EXCEPT ![m] = NoThread]
    /\ original_priority' = [original_priority EXCEPT ![m] = NO_PRIO]
    /\ hold' = [hold EXCEPT ![m] = 0]
    /\ held' = [u \in Thread |-> [held[u] EXCEPT ![m] = 0]]
    /\ nest' = [u \in Thread |-> RemoveFirst(nest[u], m)]

-----------------------------------------------------------------------------
InCall(t) == TakeReturn(t) \/ (IpcInCall(t) /\ UNCHANGED <<mutexVars, history>>)

Take(t, m) ==
    \/ TakeAgain(t, m) \/ TakeFree(t, m) \/ TakeBusy(t, m)
    \/ \E timed \in BOOLEAN : TakeBlock(t, m, timed)

Release(t, m) == ReleaseInner(t, m) \/ ReleaseLast(t, m)

Call(t) ==
    \/ \E m \in Mutexes :
          Take(t, m) \/ Release(t, m) \/ ReleaseNotOwner(t, m) \/ MutexCreate(t, m)
    \/ IpcCall(t) /\ UNCHANGED <<mutexVars, history>>

Interrupt == Tick /\ UNCHANGED <<mutexVars, history>>

Next == Interrupt \/ \E t \in App : InCall(t) \/ Call(t)

Spec == Init /\ [][Next]_vars

(***************************************************************************)
(* Fairness.  A thread that is given the processor again and again gets on *)
(* with its call and releases the mutexes it holds; ticks keep coming, so  *)
(* that time slices, waiting times and sleeps end.                         *)
(* Nothing is asked of a thread that holds no mutex: it may keep the       *)
(* processor busy for ever.                                                *)
(***************************************************************************)
Fairness ==
    /\ WF_vars(SliceEnd /\ UNCHANGED <<mutexVars, history>>)
    /\ \A t \in App : WF_vars(Timeout(t) /\ UNCHANGED <<mutexVars, history>>)
    /\ \A t \in App : SF_vars(InCall(t))
    /\ \A t \in App, m \in Mutexes : SF_vars(Release(t, m))

FairSpec == Spec /\ Fairness

-----------------------------------------------------------------------------
TypeOK ==
    /\ IpcTypeOK
    /\ value \in [Mutexes -> {0, 1}]
    /\ owner \in [Mutexes -> Thread \cup {NoThread}]
    /\ original_priority \in [Mutexes -> Prio \cup {NO_PRIO}]
    /\ hold \in [Mutexes -> 0 .. HOLD_MAX]
    /\ held \in [Thread -> [Mutexes -> Nat]]
    /\ nest \in [Thread -> Seq(Mutexes)]

\* At most one thread is between a take that returned RT_EOK and its release.
MutualExclusion ==
    \A m \in open, t, u \in Thread :
        held[t][m] > 0 /\ held[u][m] > 0 => t = u

\* mutex->owner and mutex->hold are what the takes that returned RT_EOK make
\* them, plus the take in flight to which rt_mutex_release gave the mutex:
\* no timeout that races with the hand-over leaves the mutex with an owner
\* that does not know it owns it, nor a thread that believes it does.
OwnerKnows ==
    \A m \in open :
        /\ owner[m] = NoThread <=> hold[m] = 0
        /\ value[m] = (IF owner[m] = NoThread THEN 1 ELSE 0)
        /\ \A t \in Thread :
             held[t][m] + (IF t \in Resumed(m) THEN 1 ELSE 0)
               = (IF owner[m] = t THEN hold[m] ELSE 0)

\* Nobody waits for a mutex that is free or that it owns itself.
NoSelfWait ==
    \A m \in open, t \in Thread : t \in Waiting(m) => owner[m] \notin {t, NoThread}

\* Whatever takes, releases, deletions, priority changes and timeouts interleave,
\* the ready lists, their bitmap and the waiting lists stay coherent, and whoever is
\* suspended sleeps with a timer or waits for a mutex that another thread owns.
KernelKept == Coherent /\ NobodyStranded /\ NoSelfWait

\* The owner runs at least at the priority of every thread that waits for the
\* mutex ("Mutex objects use inherited priority to prevent priority reversion",
\* documentation/doxygen/kernel.h).
Inherited ==
    \A m \in open : \A t \in Waiting(m) : k.prio[owner[m]] <= k.prio[t]

\* A thread that owns no mutex is back at the priority it was created with
\* ("change the owner thread to original priority", rt_mutex_release).
Restored ==
    \A t \in Thread : (\A m \in Mutexes : owner[m] # t) => k.prio[t] = InitPrio[t]

\* The thread of the highest priority does not wait for ever for a mutex that
\* a thread of low priority holds, even if a thread of a priority in between
\* keeps the processor busy.
NoInversion ==
    \A m \in Mutexes, t \in App :
        (t \in Waiting(m) /\ InitPrio[t] = 0) ~> t \notin Waiting(m)
=============================================================================
