-------------------------- MODULE SemaphoreProofs --------------------------
(***************************************************************************)
(* The safety properties of module Semaphore, proved for every number of   *)
(* threads, priorities and semaphores, every flag and every initial value, *)
(* and that the module implements SemaphoreSpec: the lines of the promise  *)
(* are sections of the sorted list of the kernel, and every step is a step *)
(* of the promise or none.                                                 *)
(***************************************************************************)
EXTENDS Semaphore, IpcProofs

\* The values the application and rt_sem_control give are in range.
LEMMA Values ==
    /\ VALUE_MAX \in Nat /\ InitValue \in 0 .. VALUE_MAX
    /\ \A v \in Resets : v \in 0 .. VALUE_MAX
<1>1. VALUE_MAX \in Nat
  BY SemaphoreAssumption, SMTT(30)
<1>2. InitValue \in 0 .. VALUE_MAX
  BY SemaphoreAssumption, SMTT(30)
<1>3. Resets \subseteq 0 .. VALUE_MAX
  BY SemaphoreAssumption, SMTT(30)
<1>. QED  BY <1>1, <1>2, <1>3

\* The inductive invariant: what every service of module Ipc keeps, the range
\* of the values, and that tokens and waiting threads exclude each other.
Inv == IpcInv /\ TypeOK /\ NoIdleTokens

\* The invariant holds initially.
LEMMA InitInv ==
    ASSUME Init
    PROVE  Inv
<1>1. IpcInit /\ value = [s \in Sem |-> InitValue]
  BY DEF Init
<1>2. IpcInv
  BY <1>1, IpcInitInv
<1>3. \A o \in Object : Waiting(o) = {}
  <2>1. \A l \in List : k.list[l] = <<>>
    BY <1>1, InitCoherent DEF IpcInit
  <2>. QED  BY <2>1 DEF Waiting, Object, ToSet
<1>4. value \in [Sem -> 0 .. VALUE_MAX]
  <2>1. InitValue \in 0 .. VALUE_MAX
    BY Values
  <2>. QED  BY <1>1, <2>1, Zenon
<1>5. NoIdleTokens
  BY <1>3 DEF NoIdleTokens, Sem
<1>. QED  BY <1>2, <1>4, <1>5 DEF Inv, IpcInv, TypeOK

\* A step that adds no waiting thread and no token.
LEMMA QuietStep ==
    ASSUME Inv, IpcInv', NoNewWaiter, UNCHANGED value
    PROVE  Inv' /\ NoNewWaiter
<1>1. TypeOK'
  BY DEF Inv, IpcInv, TypeOK
<1>2. NoIdleTokens'
  BY DEF Inv, NoIdleTokens, NoNewWaiter, Sem
<1>. QED  BY <1>1, <1>2 DEF Inv

\* A step that gives a semaphore on which nobody waits a new value.
LEMMA ValueStep ==
    ASSUME Inv, IpcInv', NoNewWaiter, NEW s \in Sem, NEW v \in 0 .. VALUE_MAX,
           value' = [value EXCEPT ![s] = v], v > value[s] => Waiting(s) = {}
    PROVE  Inv' /\ NoNewWaiter
<1>1. value \in [Sem -> 0 .. VALUE_MAX]
  BY DEF Inv, TypeOK
<1>2. value' \in [Sem -> 0 .. VALUE_MAX] /\ value'[s] = v
      /\ \A x \in Sem \ {s} : value'[x] = value[x]
  BY <1>1
<1>3. TypeOK'
  BY <1>2 DEF IpcInv, TypeOK
<1>4. ASSUME NEW x \in Sem, value'[x] > 0 PROVE Waiting(x)' = {}
  <2>1. Waiting(x)' \subseteq Waiting(x)
    BY DEF NoNewWaiter, Sem
  <2>2. CASE x # s
    BY <1>2, <1>4, <2>1, <2>2 DEF Inv, NoIdleTokens
  <2>3. CASE x = s
    <3>1. v > 0 /\ v \in Int
      BY <1>2, <1>4, <2>3
    <3>4. value[s] \in 0 .. VALUE_MAX
      BY <1>1
    <3>5. value[s] \in Int
      BY <3>4
    <3>2. v > value[s] \/ value[s] > 0
      BY <3>1, <3>5
    <3>3. Waiting(s) = {}
      BY <3>2 DEF Inv, NoIdleTokens
    <3>. QED  BY <2>1, <2>3, <3>3
  <2>. QED  BY <2>2, <2>3
<1>5. NoIdleTokens'
  BY <1>4 DEF NoIdleTokens
<1>. QED  BY <1>3, <1>5 DEF Inv

\* A list is empty exactly when nobody waits.
LEMMA NobodyWaits ==
    ASSUME IpcInv, NEW s \in Sem
    PROVE  k.list[s] = <<>> <=> Waiting(s) = {}
<1>1. k.list[s] \in Seq(Thread)
  BY DEF IpcInv, IpcTypeOK, KernelState, Sem, Object
<1>. QED  BY <1>1, EmptyList DEF Waiting

\* A step inside a call of a semaphore function keeps the invariant.
LEMMA InCallInv ==
    ASSUME Inv, NEW t \in App, InCall(t)
    PROVE  Inv' /\ NoNewWaiter
<1>0. IpcInv
  BY DEF Inv
<1>1. CASE TakeReturn(t)
  <2>1. /\ Runs(t, "wait_ret") /\ Goes(t, "run", NoObject)
        /\ UNCHANGED <<open, corrupt>> /\ UNCHANGED k /\ UNCHANGED value
    BY <1>1 DEF TakeReturn, Returns
  <2>2. Eases(k, k')
    BY <1>0, <2>1, Runner, EasesReflexive
  <2>3. "run" \in PC /\ "run" \notin WorksOnObject
    BY Labels
  <2>4. IpcInv' /\ NoNewWaiter
    BY <1>0, <2>1, <2>2, <2>3, ReadyStep
  <2>. QED  BY <2>1, <2>4, QuietStep
<1>2. CASE ControlLoop(t)
  <2>. DEFINE s == on[t]
  <2>1. Runs(t, "irq_off") /\ UNCHANGED <<open, corrupt>>
    BY <1>2 DEF ControlLoop
  <2>2. /\ CoherentState(k) /\ s \in Object /\ s \in Sem /\ t = k.cur
        /\ pc[t] = "irq_off"
    BY <1>0, <2>1, Runner, Labels DEF Sem
  <2>3. CASE k.list[s] # <<>>
    <3>1. k' = ResumeFirst(s) /\ UNCHANGED <<value, pc, on>>
      BY <1>2, <2>3 DEF ControlLoop
    <3>2. Eases(k, k')
      BY <2>2, <2>3, <3>1, ResumeFirstEases
    <3>3. IpcInv' /\ NoNewWaiter
      BY <1>0, <2>1, <3>1, <3>2, EasedKernel
    <3>. QED  BY <3>1, <3>3, QuietStep
  <2>4. CASE k.list[s] = <<>>
    <3>1. /\ \E v \in Resets : value' = [value EXCEPT ![s] = v]
          /\ Goes(t, "sched", NoObject) /\ UNCHANGED k
      BY <1>2, <2>4 DEF ControlLoop
    <3>2. PICK v \in Resets : value' = [value EXCEPT ![s] = v]
      BY <3>1
    <3>3. Eases(k, k')
      BY <2>2, <3>1, EasesReflexive
    <3>4. "sched" \in PC /\ "sched" \notin WorksOnObject
      BY Labels
    <3>5. IpcInv' /\ NoNewWaiter
      BY <1>0, <2>1, <3>1, <3>3, <3>4, ReadyStep
    <3>6. v \in 0 .. VALUE_MAX
      BY Values
    <3>7. Waiting(s) = {}
      BY <1>0, <2>2, <2>4, NobodyWaits
    <3>. HIDE DEF s
    <3>. QED  BY <2>2, <3>2, <3>5, <3>6, <3>7, ValueStep
  <2>. QED  BY <2>3, <2>4
<1>3. CASE IpcInCall(t) /\ UNCHANGED value
  <2>1. IpcInv' /\ NoNewWaiter
    BY <1>0, <1>3, IpcInCallInv
  <2>. QED  BY <1>3, <2>1, QuietStep
<1>. QED  BY <1>1, <1>2, <1>3 DEF InCall

\* A take that blocks: t waits for s, and nobody else begins to wait.
LEMMA TakeBlockInv ==
    ASSUME Inv, NEW t \in App, NEW s \in Sem, NEW timed \in BOOLEAN, TakeBlock(t, s, timed)
    PROVE  Inv' /\ \A x \in Sem \ {s} : Waiting(x)' = Waiting(x)
<1>0. IpcInv /\ value \in [Sem -> 0 .. VALUE_MAX] /\ VALUE_MAX \in Nat
  BY Values DEF Inv, TypeOK
<1>. DEFINE q == [k EXCEPT !.error[t] = "EOK"]
<1>1. /\ Runs(t, "run") /\ s \in open /\ value[s] = 0 /\ UNCHANGED value
      /\ k' = Wait(q, t, s, timed) /\ Goes(t, "wait_sched", s)
      /\ UNCHANGED <<open, corrupt>>
  BY DEF TakeBlock, Usable
<1>2. CoherentState(k) /\ t \in Thread /\ t # Idle /\ t = k.cur /\ k.stat[t] = "READY"
  BY <1>0, <1>1, Runner DEF App
<1>3. "EOK" \in Error
  BY DEF Error
<1>4. /\ CoherentState(q)
      /\ q.stat = k.stat /\ q.prio = k.prio /\ q.cur = k.cur /\ q.lock = k.lock
      /\ q.timer = k.timer /\ q.list = k.list
  BY <1>2, <1>3, ErrorCoherent
<1>. HIDE DEF q
<1>5. Eases(k, q)
  BY <1>4 DEF Eases
<1>6. IpcInv'
  BY <1>0, <1>1, <1>2, <1>4, <1>5, WaitStep DEF Sem
<1>7. Queued(q, t, s, k')
  <2>1. CoherentState(q) /\ q.stat[t] = "READY" /\ s \in Object
    BY <1>2, <1>4 DEF Sem
  <2>. QED  BY <1>1, <1>2, <2>1, WaitQueues
<1>8. \A x \in Sem \ {s} : Waiting(x)' = Waiting(x)
  BY <1>4, <1>7 DEF Queued, Waiting, Sem, Object
<1>9. NoIdleTokens'
  <2>1. ASSUME NEW x \in Sem, value'[x] > 0 PROVE Waiting(x)' = {}
    <3>1. x # s
      BY <1>1, <2>1
    <3>. QED  BY <3>1, <2>1, <1>1, <1>8 DEF Inv, NoIdleTokens
  <2>. QED  BY <2>1 DEF NoIdleTokens
<1>10. TypeOK'
  BY <1>0, <1>1, <1>6 DEF IpcInv, TypeOK
<1>. QED  BY <1>6, <1>8, <1>9, <1>10 DEF Inv

\* The first section of every other call (take, release, control, delete, init,
\* sleep) keeps the invariant and queues nobody.
LEMMA CallInv ==
    ASSUME Inv, NEW t \in App, Call(t), \A s \in Sem, timed \in BOOLEAN : ~TakeBlock(t, s, timed)
    PROVE  Inv' /\ NoNewWaiter
<1>0. IpcInv /\ value \in [Sem -> 0 .. VALUE_MAX] /\ VALUE_MAX \in Nat
  BY Values DEF Inv, TypeOK
<1>1. ASSUME NEW s \in Sem, TakeAvailable(t, s) PROVE Inv' /\ NoNewWaiter
  <2>1. /\ Runs(t, "run") /\ UNCHANGED <<open, pc, on, corrupt>> /\ UNCHANGED k
        /\ value[s] > 0 /\ value' = [value EXCEPT ![s] = value[s] - 1]
    BY <1>1 DEF TakeAvailable, ipcVars
  <2>2. Eases(k, k')
    BY <1>0, <2>1, Runner, EasesReflexive
  <2>3. IpcInv' /\ NoNewWaiter
    BY <1>0, <2>1, <2>2, EasedKernel
  <2>4. value[s] - 1 \in 0 .. VALUE_MAX /\ ~(value[s] - 1 > value[s])
    BY <1>0, <2>1
  <2>. QED  BY <2>1, <2>3, <2>4, ValueStep
<1>2. ASSUME NEW s \in Sem, Release(t, s) PROVE Inv' /\ NoNewWaiter
  <2>1. Runs(t, "run") /\ UNCHANGED <<open, corrupt>>
    BY <1>2 DEF Release
  <2>2. CoherentState(k)
    BY <1>0, <2>1, Runner
  <2>3. CASE k.list[s] # <<>>
    <3>1. k' = rt_ipc_list_resume(k, s) /\ Goes(t, "sched", NoObject) /\ UNCHANGED value
      BY <1>2, <2>3 DEF Release
    <3>2. Eases(k, k')
      BY <2>2, <2>3, <3>1, ListResumeEases DEF Sem, Object
    <3>3. "sched" \in PC /\ "sched" \notin WorksOnObject
      BY Labels
    <3>4. IpcInv' /\ NoNewWaiter
      BY <1>0, <2>1, <3>1, <3>2, <3>3, ReadyStep
    <3>. QED  BY <3>1, <3>4, QuietStep
  <2>4. CASE k.list[s] = <<>>
    <3>1. /\ value[s] < VALUE_MAX /\ value' = [value EXCEPT ![s] = value[s] + 1]
          /\ UNCHANGED <<open, pc, on, corrupt>> /\ UNCHANGED k
      BY <1>2, <2>4 DEF Release
    <3>2. Eases(k, k')
      BY <2>2, <3>1, EasesReflexive
    <3>3. IpcInv' /\ NoNewWaiter
      BY <1>0, <3>1, <3>2, EasedKernel
    <3>4. value[s] + 1 \in 0 .. VALUE_MAX
      BY <1>0, <3>1
    <3>5. Waiting(s) = {}
      BY <1>0, <2>4, NobodyWaits
    <3>. QED  BY <3>1, <3>3, <3>4, <3>5, ValueStep
  <2>. QED  BY <2>3, <2>4
<1>3. ASSUME NEW s \in Sem, Control(t, s) PROVE Inv' /\ NoNewWaiter
  <2>1. /\ Runs(t, "run") /\ Goes(t, "irq_off", s) /\ UNCHANGED <<open, corrupt>>
        /\ UNCHANGED k /\ UNCHANGED value
    BY <1>3 DEF Control
  <2>2. Eases(k, k')
    BY <1>0, <2>1, Runner, EasesReflexive
  <2>3. "irq_off" \in PC /\ s \in Object
    BY Labels DEF Sem
  <2>4. IpcInv' /\ NoNewWaiter
    BY <1>0, <2>1, <2>2, <2>3, ReadyStep
  <2>. QED  BY <2>1, <2>4, QuietStep
<1>4. ASSUME NEW s \in Sem, SemCreate(t, s) PROVE Inv' /\ NoNewWaiter
  <2>1. Create(t, s) /\ value' = [value EXCEPT ![s] = InitValue]
    BY <1>4 DEF SemCreate
  <2>2. IpcInv' /\ NoNewWaiter
    BY <1>0, <2>1, CreateInv DEF Sem
  <2>3. Waiting(s) = {}
    BY <1>0, <2>1, UnusedIsEmpty DEF Create, Sem
  <2>4. InitValue \in 0 .. VALUE_MAX
    BY Values
  <2>. QED  BY <2>1, <2>2, <2>3, <2>4, ValueStep
<1>5. CASE IpcCall(t) /\ UNCHANGED value
  <2>1. IpcInv' /\ NoNewWaiter
    BY <1>0, <1>5, IpcCallInv
  <2>. QED  BY <1>5, <2>1, QuietStep
<1>. QED  BY <1>1, <1>2, <1>3, <1>4, <1>5 DEF Call

\* A release by an interrupt handler and a tick keep the invariant.
LEMMA InterruptInv ==
    ASSUME Inv, Interrupt
    PROVE  Inv' /\ NoNewWaiter
<1>0. IpcInv /\ value \in [Sem -> 0 .. VALUE_MAX] /\ VALUE_MAX \in Nat
  BY Values DEF Inv, TypeOK
<1>1. CoherentState(k) /\ k.lock = 0
  BY <1>0 DEF IpcInv, IpcTypeOK, Coherent, CoherentState, Started
<1>2. ASSUME NEW s \in Sem, ReleaseIsr(s) PROVE Inv' /\ NoNewWaiter
  <2>1. UNCHANGED <<open, pc, on, corrupt>>
    BY <1>2 DEF ReleaseIsr
  <2>2. CASE k.list[s] # <<>>
    <3>. DEFINE q == rt_ipc_list_resume(k, s)
    <3>1. k' = rt_schedule(q) /\ UNCHANGED value
      BY <1>2, <2>2 DEF ReleaseIsr, Rescheduled
    <3>2. Eases(k, q)
      BY <1>1, <2>2, ListResumeEases DEF Sem, Object
    <3>. HIDE DEF q
    <3>3. CoherentState(q) /\ q.lock = 0
      BY <1>1, <3>2 DEF Eases
    <3>4. Eases(q, k')
      BY <3>1, <3>3, ScheduleEases
    <3>5. Eases(k, k')
      BY <1>1, <3>2, <3>4, EasesTransitive
    <3>6. IpcInv' /\ NoNewWaiter
      BY <1>0, <2>1, <3>5, EasedKernel
    <3>. QED  BY <3>1, <3>6, QuietStep
  <2>3. CASE k.list[s] = <<>>
    <3>1. value[s] < VALUE_MAX /\ value' = [value EXCEPT ![s] = value[s] + 1] /\ UNCHANGED k
      BY <1>2, <2>3 DEF ReleaseIsr
    <3>2. Eases(k, k')
      BY <1>1, <3>1, EasesReflexive
    <3>3. IpcInv' /\ NoNewWaiter
      BY <1>0, <2>1, <3>2, EasedKernel
    <3>4. value[s] + 1 \in 0 .. VALUE_MAX
      BY <1>0, <3>1
    <3>5. Waiting(s) = {}
      BY <1>0, <2>3, NobodyWaits
    <3>. QED  BY <3>1, <3>3, <3>4, <3>5, ValueStep
  <2>. QED  BY <2>2, <2>3
<1>3. CASE Tick /\ UNCHANGED value
  <2>1. IpcInv' /\ NoNewWaiter
    BY <1>0, <1>3, TickInv
  <2>. QED  BY <1>3, <2>1, QuietStep
<1>. QED  BY <1>2, <1>3 DEF Interrupt

\* The invariant depends on the variables only.
LEMMA StutterInv ==
    ASSUME Inv, UNCHANGED vars
    PROVE  Inv'
<1>1. UNCHANGED <<open, pc, on, corrupt>> /\ UNCHANGED k /\ UNCHANGED value
  BY DEF vars, ipcVars
<1>2. CoherentState(k) /\ IpcInv
  BY DEF Inv, IpcInv, IpcTypeOK, Coherent, CoherentState
<1>3. Eases(k, k')
  BY <1>1, <1>2, EasesReflexive
<1>4. IpcInv' /\ NoNewWaiter
  BY <1>1, <1>2, <1>3, EasedKernel
<1>. QED  BY <1>1, <1>4, QuietStep

\* The invariant holds in every state of every behaviour: each call, each
\* interrupt handler and each step in between preserves it.
THEOREM Invariance == Spec => []Inv
<1>1. Init => Inv
  BY InitInv
<1>2. Inv /\ [Next]_vars => Inv'
  <2>1. ASSUME Inv, NEW t \in App, Call(t) PROVE Inv'
    BY <2>1, CallInv, TakeBlockInv
  <2>. QED  BY <2>1, InCallInv, InterruptInv, StutterInv DEF Next
<1>. QED  BY <1>1, <1>2, PTL DEF Spec

\* The variables have their types; in particular a semaphore's value stays in
\* the range of sem->value that the application keeps to.
THEOREM TypeCorrect == Spec => []TypeOK
<1>1. Inv => TypeOK
  BY DEF Inv
<1>. QED  BY <1>1, Invariance, PTL

\* No interleaving of calls, interrupts and timeouts makes the kernel's lists,
\* bitmap, thread states and thread timers disagree.
THEOREM CoherentAlways == Spec => []Coherent
<1>1. Inv => Coherent
  BY DEF Inv, IpcInv
<1>. QED  BY <1>1, Invariance, PTL

\* A suspended thread is queued on the semaphore it waits for or sleeps with its
\* timer running, and nobody else is queued.
THEOREM NobodyIsStranded == Spec => []NobodyStranded
<1>1. Inv => NobodyStranded
  BY DEF Inv, IpcInv
<1>. QED  BY <1>1, Invariance, PTL

\* A semaphore has tokens or waiting threads, never both.
THEOREM TokensAreUsed == Spec => []NoIdleTokens
<1>1. Inv => NoIdleTokens
  BY DEF Inv
<1>. QED  BY <1>1, Invariance, PTL

\* A step of the semaphores deletes only what is drained and queues nobody on
\* what was deleted.
LEMMA DrainStep ==
    ASSUME Inv, DeletedIsDrained, Next
    PROVE  DeletedIsDrained'
<1>0. IpcInv
  BY DEF Inv
<1>1. CASE Interrupt
  <2>1. NoNewWaiter
    BY <1>1, InterruptInv
  <2>2. \A o \in open \ open' : Waiting(o) = {}
    BY <1>1, IpcDrains DEF Interrupt, ReleaseIsr
  <2>. QED  BY <2>1, <2>2, StaysDrained
<1>2. ASSUME NEW t \in App, InCall(t) PROVE DeletedIsDrained'
  <2>1. NoNewWaiter
    BY <1>2, InCallInv
  <2>2. \A o \in open \ open' : Waiting(o) = {}
    BY <1>2, IpcDrains DEF InCall, TakeReturn, ControlLoop
  <2>. QED  BY <2>1, <2>2, StaysDrained
<1>3. ASSUME NEW t \in App, Call(t) PROVE DeletedIsDrained'
  <2>1. ASSUME NEW s \in Sem, NEW timed \in BOOLEAN, TakeBlock(t, s, timed)
        PROVE  DeletedIsDrained'
    <3>1. s \in open /\ UNCHANGED open
      BY <2>1 DEF TakeBlock, Usable
    <3>2. \A x \in Sem \ {s} : Waiting(x)' = Waiting(x)
      BY <2>1, TakeBlockInv
    <3>. QED  BY <3>1, <3>2 DEF DeletedIsDrained, Sem
  <2>2. CASE \A s \in Sem, timed \in BOOLEAN : ~TakeBlock(t, s, timed)
    <3>1. NoNewWaiter
      BY <1>3, <2>2, CallInv
    <3>2. \A o \in open \ open' : Waiting(o) = {}
      BY <1>3, <2>2, IpcDrains DEF Call, TakeAvailable, Release, Control, SemCreate, Create,
                                   ipcVars
    <3>. QED  BY <3>1, <3>2, StaysDrained
  <2>. QED  BY <2>1, <2>2
<1>. QED  BY <1>1, <1>2, <1>3 DEF Next

\* A deleted semaphore has no waiting thread.
THEOREM DeletionDrains == Spec => []DeletedIsDrained
<1>1. Init => DeletedIsDrained
  BY DEF Init, IpcInit, DeletedIsDrained
<1>2. Inv /\ DeletedIsDrained /\ [Next]_vars => DeletedIsDrained'
  <2>1. ASSUME DeletedIsDrained, UNCHANGED vars PROVE DeletedIsDrained'
    BY <2>1 DEF DeletedIsDrained, Waiting, vars, ipcVars
  <2>. QED  BY <2>1, DrainStep
<1>. QED  BY <1>1, <1>2, Invariance, PTL DEF Spec

-----------------------------------------------------------------------------
(* Preemption: rt_sem_delete and rt_thread_control are the only calls that   *)
(* leave a thread of a higher priority waiting for the processor.            *)

\* The places at which a thread has just been given the processor or is in no
\* call.
Settled == {"run", "wait_ret", "sleep_ret"}

PreInv ==
    /\ Inv
    /\ pc[k.cur] \in Settled => HighestRuns(k)
    /\ \A t \in Thread : pc[t] \notin {"del", "del_one"}

\* A step that ends in rt_schedule.
LEMMA ScheduledRuns ==
    ASSUME NEW q, CoherentState(q), q.lock = 0, k' = rt_schedule(q)
    PROVE  HighestRuns(k')
  BY ScheduleCoherent

\* rt_ipc_list_resume leaves the running thread and its priority alone.
LEMMA ResumeKeepsRunner ==
    ASSUME CoherentState(k), NEW o \in Object, k.list[o] # <<>>
    PROVE  rt_ipc_list_resume(k, o).cur = k.cur /\ ResumeFirst(o).cur = k.cur
<1>. DEFINE t == Head(k.list[o])
<1>1. t \in Thread /\ k.stat[t] = "SUSPEND"
  BY HeadSuspended DEF Object
<1>2. "ERROR" \in Error
  BY DEF Error
<1>3. /\ ResumeFirst(o) = rt_thread_resume([k EXCEPT !.error[t] = "ERROR"], t)
      /\ rt_ipc_list_resume(k, o) = rt_thread_resume(k, t)
  BY DEF ResumeFirst, rt_ipc_list_resume
<1>. HIDE DEF t
<1>4. Woken(k, t, "ERROR", rt_thread_resume([k EXCEPT !.error[t] = "ERROR"], t))
  BY <1>1, <1>2, ResumeWakes
<1>5. Woken(k, t, k.error[t], rt_thread_resume(k, t))
  BY <1>1, PlainResumeWakes
<1>. QED  BY <1>3, <1>4, <1>5 DEF Woken

\* What a step of the running thread does to the places.
LEMMA Places ==
    ASSUME IpcInv, NEW t \in App, NEW label \in PC \ {"del", "del_one"}, NEW o,
           Goes(t, label, o), \A u \in Thread : pc[u] \notin {"del", "del_one"}
    PROVE  pc'[t] = label /\ \A u \in Thread : pc'[u] \notin {"del", "del_one"}
<1>1. t \in Thread /\ pc \in [Thread -> PC]
  BY DEF IpcInv, IpcTypeOK, App
<1>2. pc' = [pc EXCEPT ![t] = label]
  BY DEF Goes
<1>. QED  BY <1>1, <1>2

\* One step, when no semaphore is deleted and no priority changed.
LEMMA PreStep ==
    ASSUME Deletable = {}, NewPrio = {}, PreInv, Inv', Next
    PROVE  PreInv'
<1>0. /\ IpcInv /\ CoherentState(k) /\ k.lock = 0 /\ k.cur \in Thread
      /\ pc[k.cur] \in Settled => HighestRuns(k)
      /\ \A t \in Thread : pc[t] \notin {"del", "del_one"}
      /\ k \in KernelState
  BY DEF PreInv, Inv, IpcInv, IpcTypeOK, Coherent, CoherentState, Started, KernelState
<1>1. CASE Interrupt
  <2>1. ASSUME NEW s \in Sem, ReleaseIsr(s) PROVE PreInv'
    <3>1. UNCHANGED pc
      BY <2>1 DEF ReleaseIsr
    <3>2. CASE k.list[s] # <<>>
      <4>. DEFINE q == rt_ipc_list_resume(k, s)
      <4>1. k' = rt_schedule(q)
        BY <2>1, <3>2 DEF ReleaseIsr, Rescheduled
      <4>2. Eases(k, q)
        BY <1>0, <3>2, ListResumeEases DEF Sem, Object
      <4>3. CoherentState(q) /\ q.lock = 0
        BY <1>0, <4>2 DEF Eases
      <4>4. HighestRuns(k')
        BY <4>1, <4>3, ScheduledRuns
      <4>. QED  BY <1>0, <3>1, <4>4 DEF PreInv
    <3>3. CASE k.list[s] = <<>>
      <4>1. UNCHANGED k
        BY <2>1, <3>3 DEF ReleaseIsr
      <4>. QED  BY <1>0, <3>1, <4>1 DEF PreInv
    <3>. QED  BY <3>2, <3>3
  <2>2. CASE SliceEnd
    <3>1. k' = rt_schedule(k) /\ UNCHANGED pc
      BY <2>2 DEF SliceEnd
    <3>2. HighestRuns(k')
      BY <1>0, <3>1, ScheduledRuns
    <3>. QED  BY <1>0, <3>1, <3>2 DEF PreInv
  <2>3. ASSUME NEW t \in Thread, Timeout(t) PROVE PreInv'
    <3>. DEFINE q == rt_thread_timeout(k, t)
    <3>1. t \in k.timer /\ k' = rt_schedule(q) /\ UNCHANGED pc
      BY <2>3 DEF Timeout, Rescheduled
    <3>2. Eases(k, q)
      BY <1>0, <3>1, TimeoutEases
    <3>3. CoherentState(q) /\ q.lock = 0
      BY <1>0, <3>2 DEF Eases
    <3>4. HighestRuns(k')
      BY <3>1, <3>3, ScheduledRuns
    <3>. QED  BY <1>0, <3>1, <3>4 DEF PreInv
  <2>. QED  BY <1>1, <2>1, <2>2, <2>3 DEF Interrupt, Tick
<1>2. ASSUME NEW t \in App, InCall(t) PROVE PreInv'
  <2>1. CASE TakeReturn(t)
    <3>1. Runs(t, "wait_ret") /\ Goes(t, "run", NoObject) /\ UNCHANGED k
      BY <2>1 DEF TakeReturn, Returns
    <3>2. "run" \in PC \ {"del", "del_one"}
      BY Labels
    <3>3. \A u \in Thread : pc'[u] \notin {"del", "del_one"}
      BY <1>0, <3>1, <3>2, Places
    <3>4. HighestRuns(k')
      BY <1>0, <3>1 DEF Runs, Settled
    <3>. QED  BY <3>3, <3>4 DEF PreInv
  <2>2. CASE ControlLoop(t)
    <3>1. Runs(t, "irq_off")
      BY <2>2 DEF ControlLoop
    <3>2. on[t] \in Object /\ t = k.cur /\ pc[t] = "irq_off"
      BY <1>0, <3>1, Runner, Labels
    <3>3. CASE k.list[on[t]] # <<>>
      <4>1. k' = ResumeFirst(on[t]) /\ UNCHANGED pc
        BY <2>2, <3>3 DEF ControlLoop
      <4>2. k'.cur = k.cur
        BY <1>0, <3>2, <3>3, <4>1, ResumeKeepsRunner
      <4>. QED  BY <1>0, <3>2, <4>1, <4>2 DEF PreInv, Settled
    <3>4. CASE k.list[on[t]] = <<>>
      <4>1. Goes(t, "sched", NoObject) /\ UNCHANGED k
        BY <2>2, <3>4 DEF ControlLoop
      <4>2. "sched" \in PC \ {"del", "del_one"}
        BY Labels
      <4>3. pc'[t] = "sched" /\ \A u \in Thread : pc'[u] \notin {"del", "del_one"}
        BY <1>0, <4>1, <4>2, Places
      <4>. QED  BY <3>2, <4>1, <4>3 DEF PreInv, Settled
    <3>. QED  BY <3>3, <3>4
  <2>3. ASSUME NEW label, Runs(t, label), NEW next \in PC \ {"del", "del_one"}, NEW o,
               Goes(t, next, o), k' = rt_schedule(k)
        PROVE  PreInv'
    <3>1. HighestRuns(k')
      BY <1>0, <2>3, ScheduledRuns
    <3>2. \A u \in Thread : pc'[u] \notin {"del", "del_one"}
      BY <1>0, <2>3, Places
    <3>. QED  BY <3>1, <3>2 DEF PreInv
  <2>4. {"wait_ret", "run", "sleep_ret"} \subseteq PC \ {"del", "del_one"}
    BY Labels
  <2>5. CASE WaitSchedule(t)
    BY <2>3, <2>4, <2>5 DEF WaitSchedule
  <2>6. CASE Schedule(t)
    BY <2>3, <2>4, <2>6 DEF Schedule, Returns
  <2>7. CASE SleepSchedule(t)
    BY <2>3, <2>4, <2>7 DEF SleepSchedule
  <2>8. CASE SleepReturn(t)
    <3>. DEFINE e == IF k.error[t] = "ETIMEOUT" THEN "EOK" ELSE k.error[t]
    <3>1. Runs(t, "sleep_ret") /\ Goes(t, "run", NoObject) /\ k' = [k EXCEPT !.error[t] = e]
      BY <2>8 DEF SleepReturn, Returns
    <3>2. \A u \in Thread : pc'[u] \notin {"del", "del_one"}
      BY <1>0, <2>4, <3>1, Places
    <3>3. HighestRuns(k)
      BY <1>0, <3>1 DEF Runs, Settled
    <3>4. k'.stat = k.stat /\ k'.prio = k.prio /\ k'.cur = k.cur /\ k'.group = k.group
      BY <1>0, <3>1 DEF KernelState
    <3>5. HighestRuns(k')
      BY <3>3, <3>4 DEF HighestRuns
    <3>. QED  BY <3>2, <3>5 DEF PreInv
  <2>9. ~DeleteTest(t) /\ ~DeleteOne(t)
    BY <1>0 DEF DeleteTest, DeleteOne, Runs
  <2>. QED  BY <1>2, <2>1, <2>2, <2>5, <2>6, <2>7, <2>8, <2>9 DEF InCall, IpcInCall
<1>3. ASSUME NEW t \in App, Call(t) PROVE PreInv'
  <2>1. ASSUME UNCHANGED <<k, pc>> PROVE PreInv'
    BY <1>0, <2>1 DEF PreInv
  <2>2. ASSUME Runs(t, "run"), NEW next \in PC \ {"del", "del_one"}, next \notin Settled,
               NEW o, Goes(t, next, o), k'.cur = k.cur
        PROVE  PreInv'
    <3>1. pc'[t] = next /\ \A u \in Thread : pc'[u] \notin {"del", "del_one"}
      BY <1>0, <2>2, Places
    <3>2. t = k.cur
      BY <2>2 DEF Runs
    <3>. QED  BY <2>2, <3>1, <3>2 DEF PreInv
  <2>3. /\ {"wait_sched", "sched", "irq_off", "sleep_sched"} \subseteq PC \ {"del", "del_one"}
        /\ \A x \in {"wait_sched", "sched", "irq_off", "sleep_sched"} : x \notin Settled
    BY Labels DEF Settled
  <2>4. ASSUME NEW s \in Sem, TakeAvailable(t, s) PROVE PreInv'
    BY <2>1, <2>4 DEF TakeAvailable, ipcVars
  <2>5. ASSUME NEW s \in Sem, NEW timed \in BOOLEAN, TakeBlock(t, s, timed) PROVE PreInv'
    <3>. DEFINE q == [k EXCEPT !.error[t] = "EOK"]
    <3>1. Runs(t, "run") /\ k' = Wait(q, t, s, timed) /\ Goes(t, "wait_sched", s)
      BY <2>5 DEF TakeBlock
    <3>2. t \in Thread /\ t # Idle /\ k.stat[t] = "READY"
      BY <1>0, <3>1, Runner DEF App
    <3>3. "EOK" \in Error
      BY DEF Error
    <3>4. /\ CoherentState(q)
          /\ q.stat = k.stat /\ q.prio = k.prio /\ q.cur = k.cur /\ q.lock = k.lock
          /\ q.timer = k.timer /\ q.list = k.list
      BY <1>0, <3>2, <3>3, ErrorCoherent
    <3>. HIDE DEF q
    <3>5. Queued(q, t, s, k')
      BY <3>1, <3>2, <3>4, WaitQueues DEF Sem
    <3>6. k'.cur = k.cur
      BY <3>4, <3>5 DEF Queued
    <3>. QED  BY <2>2, <2>3, <3>1, <3>6
  <2>6. ASSUME NEW s \in Sem, Release(t, s) PROVE PreInv'
    <3>1. CASE k.list[s] # <<>>
      <4>1. Runs(t, "run") /\ k' = rt_ipc_list_resume(k, s) /\ Goes(t, "sched", NoObject)
        BY <2>6, <3>1 DEF Release
      <4>2. k'.cur = k.cur
        BY <1>0, <3>1, <4>1, ResumeKeepsRunner DEF Sem
      <4>. QED  BY <2>2, <2>3, <4>1, <4>2
    <3>2. CASE k.list[s] = <<>>
      BY <2>1, <2>6, <3>2 DEF Release
    <3>. QED  BY <3>1, <3>2
  <2>7. ASSUME NEW s \in Sem, Control(t, s) PROVE PreInv'
    BY <2>2, <2>3, <2>7 DEF Control
  <2>8. ASSUME NEW s \in Sem, SemCreate(t, s) PROVE PreInv'
    BY <2>1, <2>8 DEF SemCreate, Create
  <2>9. CASE Sleep(t)
    <3>. DEFINE r == rt_thread_suspend(k, t)
    <3>1. Runs(t, "run") /\ k' = rt_timer_start(r, t) /\ Goes(t, "sleep_sched", NoObject)
      BY <2>9 DEF Sleep
    <3>2. t \in Thread /\ t # Idle /\ k.stat[t] = "READY"
      BY <1>0, <3>1, Runner DEF App
    <3>3. Suspended(k, t, r)
      BY <1>0, <3>2, SuspendCoherent
    <3>. HIDE DEF r
    <3>4. CoherentState(r) /\ r.cur = k.cur /\ r.stat[t] = "SUSPEND"
      BY <1>0, <3>2, <3>3 DEF Suspended, KernelState
    <3>5. TimerStarted(r, t, k')
      BY <3>1, <3>2, <3>4, TimerStartCoherent
    <3>6. k'.cur = k.cur
      BY <3>4, <3>5 DEF TimerStarted
    <3>. QED  BY <2>2, <2>3, <3>1, <3>6
  <2>10. /\ \A o \in Object : ~Delete(t, o)
         /\ ~\E u \in App, p \in NewPrio : ChangePriority(t, u, p)
    BY DEF Delete
  <2>. QED  BY <1>3, <2>4, <2>5, <2>6, <2>7, <2>8, <2>9, <2>10 DEF Call, IpcCall
<1>. QED  BY <1>1, <1>2, <1>3 DEF Next

\* When no semaphore is deleted and no priority changed, a thread that is in no
\* call has the highest priority of all that are ready: every take, release,
\* reset, sleep, timeout and end of a time slice gives the processor to the
\* thread it belongs to.
THEOREM PreemptiveAlways ==
    ASSUME Deletable = {}, NewPrio = {}
    PROVE  Spec => []Preemptive
<1>1. Init => PreInv
  <2>1. ASSUME Init PROVE PreInv
    <3>1. Inv
      BY <2>1, InitInv
    <3>2. HighestRuns(k)
      BY <2>1, InitCoherent DEF Init, IpcInit
    <3>3. pc = [t \in Thread |-> "run"]
      BY <2>1 DEF Init, IpcInit
    <3>. QED  BY <3>1, <3>2, <3>3 DEF PreInv
  <2>. QED  BY <2>1
<1>2. PreInv /\ Inv' /\ [Next]_vars => PreInv'
  <2>1. ASSUME PreInv, Inv', UNCHANGED vars PROVE PreInv'
    BY <2>1 DEF PreInv, vars, ipcVars
  <2>. QED  BY <2>1, PreStep
<1>3. PreInv => Preemptive
  BY DEF PreInv, Preemptive, Settled
<1>. QED  BY <1>1, <1>2, <1>3, Invariance, PTL DEF Spec

-----------------------------------------------------------------------------
(* The order in which a semaphore is given *)

\* Every step but a take that blocks changes no priority and at most unlinks
\* threads.
LEMMA PruneStep ==
    ASSUME NewPrio = {}, Inv, Next,
           \A t \in App, s \in Sem, timed \in BOOLEAN : ~TakeBlock(t, s, timed)
    PROVE  Prunes(k, k')
<1>1. IpcInv /\ CoherentState(k) /\ k \in KernelState
  BY DEF Inv, IpcInv, IpcTypeOK, Coherent, CoherentState
<1>3. ASSUME UNCHANGED k PROVE Prunes(k, k')
  BY <1>3 DEF Prunes
<1>4. CASE Interrupt
  <2>2. ASSUME NEW s \in Sem, ReleaseIsr(s) PROVE Prunes(k, k')
    <3>1. CASE k.list[s] # <<>>
      <4>1. PICK q : q = rt_ipc_list_resume(k, s)
        OBVIOUS
      <4>2. k' = rt_schedule(q)
        BY <2>2, <3>1, <4>1 DEF ReleaseIsr, Rescheduled
      <4>3. Eases(k, q) /\ Prunes(k, q)
        BY <1>1, <3>1, <4>1, ListResumeEases, ResumePrunes DEF Sem, Object
      <4>. QED  BY <4>2, <4>3, SchedulePrunes DEF Eases
    <3>2. CASE k.list[s] = <<>>
      BY <1>3, <2>2, <3>2 DEF ReleaseIsr
    <3>. QED  BY <3>1, <3>2
  <2>3. CASE Tick
    BY <1>1, <2>3, TickPrunes
  <2>. QED  BY <1>4, <2>2, <2>3 DEF Interrupt
<1>5. ASSUME NEW t \in App, InCall(t) PROVE Prunes(k, k')
  <2>1. CASE TakeReturn(t)
    BY <1>3, <2>1 DEF TakeReturn
  <2>2. CASE ControlLoop(t)
    <3>1. on[t] \in Object
      BY <1>1, <2>2, Runner, Labels DEF ControlLoop
    <3>2. (k.list[on[t]] # <<>> /\ k' = ResumeFirst(on[t])) \/ UNCHANGED k
      BY <2>2 DEF ControlLoop
    <3>. QED  BY <1>1, <1>3, <3>1, <3>2, ResumeFirstPrunes
  <2>3. CASE IpcInCall(t)
    BY <1>1, <2>3, SharedPrunes
  <2>. QED  BY <1>5, <2>1, <2>2, <2>3 DEF InCall
<1>6. ASSUME NEW t \in App, Call(t) PROVE Prunes(k, k')
  <2>1. CASE IpcCall(t)
    BY <1>1, <2>1, SharedPrunes
  <2>3. ASSUME NEW s \in Sem, Release(t, s) PROVE Prunes(k, k')
    <3>1. CASE k.list[s] # <<>>
      <4>1. Prunes(k, rt_ipc_list_resume(k, s))
        BY <1>1, <3>1, ResumePrunes DEF Sem
      <4>. QED  BY <2>3, <3>1, <4>1 DEF Release
    <3>2. CASE k.list[s] = <<>>
      BY <1>3, <2>3, <3>2 DEF Release
    <3>. QED  BY <3>1, <3>2
  <2>4. ASSUME NEW s \in Sem, TakeAvailable(t, s) \/ Control(t, s) \/ SemCreate(t, s)
        PROVE  Prunes(k, k')
    BY <1>3, <2>4 DEF TakeAvailable, Control, SemCreate, Create, ipcVars
  <2>. QED  BY <1>6, <2>1, <2>3, <2>4 DEF Call
<1>. QED  BY <1>4, <1>5, <1>6 DEF Next

\* One step keeps the lists sorted.
LEMMA SortStep ==
    ASSUME NewPrio = {}, Inv, HighestPrioFirst, Next
    PROVE  HighestPrioFirst'
<1>1. IpcInv /\ CoherentState(k) /\ k \in KernelState /\ PrioSorted(k)
  BY SortedFirst DEF Inv, IpcInv, IpcTypeOK, Coherent, CoherentState
<1>2. CASE \A t \in App, s \in Sem, timed \in BOOLEAN : ~TakeBlock(t, s, timed)
  <2>1. Prunes(k, k')
    BY <1>2, PruneStep
  <2>. QED  BY <1>1, <2>1, PrunedSorted, SortedFirst
<1>3. ASSUME NEW t \in App, NEW s \in Sem, NEW timed \in BOOLEAN, TakeBlock(t, s, timed)
      PROVE  HighestPrioFirst'
  <2>1. PICK q : q = [k EXCEPT !.error[t] = "EOK"]
    OBVIOUS
  <2>2. Runs(t, "run") /\ k' = Wait(q, t, s, timed)
    BY <1>3, <2>1 DEF TakeBlock
  <2>3. t \in Thread /\ t # Idle /\ k.stat[t] = "READY"
    BY <1>1, <2>2, Runner DEF App
  <2>4. CoherentState(q) /\ q.stat = k.stat /\ q.prio = k.prio /\ q.list = k.list
    BY <1>1, <2>1, <2>3, ErrorCoherent DEF Error
  <2>5. PrioSorted(q)
    BY <1>1, <2>4 DEF PrioSorted
  <2>6. PrioSorted(k')
    BY <2>2, <2>3, <2>4, <2>5, WaitSorted DEF Sem
  <2>. QED  BY <2>6, SortedFirst
<1>. QED  BY <1>2, <1>3

\* As long as rt_thread_control changes no priority, the list of a semaphore
\* with RT_IPC_FLAG_PRIO is sorted: rt_sem_release gives the token to a thread
\* of the highest priority of those that wait.
THEOREM HighestIsFirst ==
    ASSUME NewPrio = {}
    PROVE  Spec => []HighestPrioFirst
<1>1. Init => HighestPrioFirst
  <2>1. ASSUME Init PROVE HighestPrioFirst
    <3>1. \A l \in List : k.list[l] = <<>>
      BY <2>1, InitCoherent DEF Init, IpcInit
    <3>. QED  BY <3>1 DEF HighestPrioFirst, Object
  <2>. QED  BY <2>1
<1>2. Inv /\ HighestPrioFirst /\ [Next]_vars => HighestPrioFirst'
  <2>1. ASSUME HighestPrioFirst, UNCHANGED vars PROVE HighestPrioFirst'
    BY <2>1 DEF HighestPrioFirst, vars, ipcVars
  <2>. QED  BY <2>1, SortStep
<1>. QED  BY <1>1, <1>2, Invariance, PTL DEF Spec

-----------------------------------------------------------------------------
(* The lines of SemaphoreSpec in the lists of the kernel *)

\* The first u threads of list f are those with a higher priority than p.
Split(f, p, u) ==
    /\ u \in 0 .. Len(f)
    /\ \A i \in 1 .. Len(f) : InitPrio[f[i]] < p <=> i <= u

\* The priorities of the threads of a list.
LEMMA ListPrios ==
    ASSUME NEW f \in Seq(Thread)
    PROVE  /\ Len(f) \in Nat
           /\ \A i \in 1 .. Len(f) : f[i] \in Thread /\ InitPrio[f[i]] \in Prio /\ InitPrio[f[i]] \in Int
           /\ Prio \subseteq Int
<1>1. Len(f) \in Nat /\ \A i \in 1 .. Len(f) : f[i] \in Thread
  OBVIOUS
<1>2. PRIO_MAX \in Nat /\ InitPrio \in [Thread -> Prio]
  BY KernelAssumption
<1>3. Prio \subseteq Int
  BY <1>2 DEF Prio
<1>. QED  BY <1>1, <1>2, <1>3

\* Above counts them.
LEMMA SplitAbove ==
    ASSUME NEW f \in Seq(Thread), NEW p, NEW u, Split(f, p, u)
    PROVE  Above(f, p) = u
<1>1. DOMAIN f = 1 .. Len(f) /\ Len(f) \in Nat
  OBVIOUS
<1>2. u \in Nat /\ u <= Len(f)
  BY <1>1 DEF Split
<1>3. {i \in DOMAIN f : InitPrio[f[i]] < p} = 1 .. u
  BY <1>1, <1>2 DEF Split
<1>4. Cardinality(1 .. u) = u
  <2>1. 1 \in Int /\ u \in Int
    BY <1>2
  <2>2. Cardinality(1 .. u) = IF 1 > u THEN 0 ELSE u - 1 + 1
    BY <2>1, FS_Interval
  <2>. QED  BY <1>2, <2>2
<1>. QED  BY <1>3, <1>4 DEF Above

\* In a sorted list they are the first ones.
LEMMA SplitExists ==
    ASSUME NEW f \in Seq(Thread), Sorted(InitPrio, f), NEW p \in Int
    PROVE  \E u : Split(f, p, u)
<1>1. Len(f) \in Nat /\ \A i \in 1 .. Len(f) : InitPrio[f[i]] \in Int
  BY ListPrios
<1>2. PICK C : C = {i \in 1 .. Len(f) + 1 : i = Len(f) + 1 \/ ~(InitPrio[f[i]] < p)}
  OBVIOUS
<1>3. Len(f) + 1 \in C /\ C \in SUBSET Nat
  BY <1>1, <1>2
<1>4. PICK n : n = Min(C)
  OBVIOUS
<1>5. n \in C /\ \A y \in C : n <= y
  BY <1>3, <1>4, MinProperties
<1>6. n \in 1 .. Len(f) + 1
  BY <1>2, <1>5
<1>7. ASSUME NEW i \in 1 .. Len(f) PROVE InitPrio[f[i]] < p <=> i <= n - 1
  <2>1. CASE i < n
    <3>1. i \notin C
      BY <1>5, <1>6, <2>1
    <3>. QED  BY <1>1, <1>2, <1>6, <2>1, <3>1
  <2>2. CASE n <= i
    <3>1. n \in 1 .. Len(f) /\ ~(InitPrio[f[n]] < p)
      BY <1>1, <1>2, <1>5, <1>6, <2>2
    <3>2. InitPrio[f[n]] <= InitPrio[f[i]]
      BY <1>1, <2>2, <3>1 DEF Sorted
    <3>. QED  BY <1>1, <1>6, <2>2, <3>1, <3>2
  <2>. QED  BY <1>6, <2>1, <2>2
<1>8. Split(f, p, n - 1)
  BY <1>1, <1>6, <1>7 DEF Split
<1>. QED  BY <1>8

\* x are the n threads of f that follow its first a threads.
IsSection(x, f, a, n) ==
    /\ x \in Seq(Thread) /\ Len(x) = n
    /\ \A i \in 1 .. n : x[i] = f[a + i]

\* The line of priority p is the section between two splits.
LEMMA LineIs ==
    ASSUME NEW f \in Seq(Thread), NEW p \in Int, NEW r, r = p + 1,
           NEW a, Split(f, p, a), NEW b, Split(f, r, b), NEW flag, flag # "FIFO"
    PROVE  /\ a \in Nat /\ b \in Nat /\ a <= b /\ b <= Len(f) /\ b - a \in Nat
           /\ IsSection(Line(f, flag, p), f, a, b - a)
<1>1. a \in 0 .. Len(f) /\ b \in 0 .. Len(f) /\ Len(f) \in Nat
  BY ListPrios DEF Split
<1>2. a <= b
  <2>1. CASE a = 0
    BY <1>1, <2>1
  <2>2. CASE a # 0
    <3>1. a \in 1 .. Len(f)
      BY <1>1, <2>2
    <3>2. InitPrio[f[a]] \in Int /\ InitPrio[f[a]] < p
      BY <1>1, <3>1, ListPrios DEF Split
    <3>3. InitPrio[f[a]] < p + 1
      BY <3>2
    <3>. QED  BY <3>1, <3>3 DEF Split
  <2>. QED  BY <2>1, <2>2
<1>3. Above(f, p) = a /\ Above(f, r) = b
  BY SplitAbove
<1>4. Line(f, flag, p) = SubSeq(f, a + 1, b)
  BY <1>3 DEF Line
<1>5. PICK m \in Int : m = a + 1
  BY <1>1
<1>6. b \in Int /\ \A i \in m .. b : f[i] \in Thread
  BY <1>1, <1>5, ListPrios
<1>7. /\ SubSeq(f, m, b) \in Seq(Thread)
      /\ Len(SubSeq(f, m, b)) = (IF m <= b THEN b - m + 1 ELSE 0)
      /\ \A i \in 1 .. b - m + 1 : SubSeq(f, m, b)[i] = f[m + i - 1]
  BY <1>6, SubSeqProperties
<1>8. b - m + 1 = b - a /\ \A i \in 1 .. b - a : m + i - 1 = a + i
  BY <1>1, <1>5
<1>9. Len(SubSeq(f, m, b)) = b - a
  BY <1>1, <1>2, <1>5, <1>7
<1>10. IsSection(Line(f, flag, p), f, a, b - a)
  BY <1>4, <1>5, <1>7, <1>8, <1>9 DEF IsSection
<1>11. b - a \in Nat
  BY <1>1, <1>2
<1>. QED  BY <1>1, <1>2, <1>10, <1>11

\* Sections with the same threads are the same.
LEMMA SameSection ==
    ASSUME NEW n, NEW x, NEW f, NEW a, IsSection(x, f, a, n),
           NEW y, NEW g, NEW c, IsSection(y, g, c, n),
           \A i \in 1 .. n : g[c + i] = f[a + i]
    PROVE  y = x
<1>1. /\ x \in Seq(Thread) /\ y \in Seq(Thread) /\ Len(x) = n /\ Len(y) = n
      /\ \A i \in 1 .. Len(x) : x[i] = y[i]
  BY DEF IsSection
<1>. QED  BY <1>1, SeqEqual

\* List g is list f with t behind its first b threads, or without its j-th.
Inserted(g, f, b, t) ==
    /\ g \in Seq(Thread) /\ Len(g) = Len(f) + 1
    /\ \A j \in 1 .. Len(f) + 1 : g[j] = IF j <= b THEN f[j] ELSE IF j = b + 1 THEN t ELSE f[j - 1]
Removed(g, f, j) ==
    /\ g \in Seq(Thread) /\ Len(g) = Len(f) - 1
    /\ \A i \in 1 .. Len(f) - 1 : g[i] = IF i < j THEN f[i] ELSE f[i + 1]

\* PrioInsert puts a thread behind those of its own and of higher priorities.
LEMMA PrioInsertIs ==
    ASSUME NEW f \in Seq(Thread), IsInjective(f), Sorted(InitPrio, f),
           NEW t \in Thread, t \notin ToSet(f)
    PROVE  \E b : Split(f, InitPrio[t] + 1, b) /\ Inserted(PrioInsert(InitPrio, f, t), f, b, t)
<1>1. /\ Len(f) \in Nat /\ InitPrio[t] \in Int
      /\ \A i \in 1 .. Len(f) : InitPrio[f[i]] \in Int
  <2>1. InitPrio[t] \in Prio
    BY KernelAssumption
  <2>. QED  BY <2>1, ListPrios
<1>2. PICK I : I = {i \in 1 .. Len(f) : InitPrio[t] < InitPrio[f[i]]}
  OBVIOUS
<1>3. PICK n : n = SelectInSeq(f, LAMBDA u : InitPrio[t] < InitPrio[u])
  OBVIOUS
<1>4. n = IF I # {} THEN Min(I) ELSE 0
  BY <1>2, <1>3 DEF SelectInSeq
<1>5. PrioInsert(InitPrio, f, t) = IF n = 0 THEN Append(f, t) ELSE InsertAt(f, n, t)
  BY <1>3 DEF PrioInsert
<1>6. I \in SUBSET Nat /\ \A i \in 1 .. Len(f) : i \in I <=> InitPrio[t] < InitPrio[f[i]]
  BY <1>2
<1>7. CASE I = {}
  <2>1. PICK g : g = Append(f, t)
    OBVIOUS
  <2>2. /\ g \in Seq(Thread) /\ Len(g) = Len(f) + 1
        /\ (\A i \in 1 .. Len(f) : g[i] = f[i]) /\ g[Len(f) + 1] = t
    BY <2>1
  <2>3. Inserted(g, f, Len(f), t)
    BY <1>1, <2>2 DEF Inserted
  <2>4. Split(f, InitPrio[t] + 1, Len(f))
    BY <1>1, <1>6, <1>7 DEF Split
  <2>. QED  BY <1>4, <1>5, <1>7, <2>1, <2>3, <2>4
<1>8. CASE I # {}
  <2>1. n \in I /\ \A i \in I : n <= i
    BY <1>4, <1>6, <1>8, MinProperties
  <2>2. n \in 1 .. Len(f) /\ InitPrio[t] < InitPrio[f[n]]
    BY <1>2, <2>1
  <2>3. PICK g : g = InsertAt(f, n, t)
    OBVIOUS
  <2>4. /\ g \in Seq(Thread) /\ Len(g) = Len(f) + 1
        /\ \A j \in 1 .. Len(f) + 1 :
             g[j] = IF j < n THEN f[j] ELSE IF j = n THEN t ELSE f[j - 1]
    BY <2>2, <2>3, InsertAtProperties
  <2>5. PICK b \in Nat : b = n - 1
    BY <2>2
  <2>6. Inserted(g, f, b, t)
    BY <1>1, <2>2, <2>4, <2>5 DEF Inserted
  <2>7. ASSUME NEW i \in 1 .. Len(f) PROVE InitPrio[f[i]] < InitPrio[t] + 1 <=> i <= b
    <3>1. CASE i < n
      BY <1>1, <1>6, <2>1, <2>2, <2>5, <3>1
    <3>2. CASE n <= i
      <4>1. InitPrio[f[n]] <= InitPrio[f[i]]
        BY <1>1, <2>2, <3>2 DEF Sorted
      <4>. QED  BY <1>1, <2>2, <2>5, <3>2, <4>1
    <3>. QED  BY <2>2, <3>1, <3>2
  <2>8. Split(f, InitPrio[t] + 1, b)
    BY <1>1, <2>2, <2>5, <2>7 DEF Split
  <2>9. n # 0
    BY <2>2
  <2>. QED  BY <1>5, <2>3, <2>6, <2>8, <2>9
<1>. QED  BY <1>7, <1>8

\* Where the splits are after an insertion.
LEMMA InsertedSplit ==
    ASSUME NEW f \in Seq(Thread), NEW t \in Thread,
           NEW w, w = InitPrio[t] + 1, NEW b, Split(f, w, b),
           NEW g, Inserted(g, f, b, t), NEW p \in Int, NEW u, Split(f, p, u)
    PROVE  /\ p <= InitPrio[t] => Split(g, p, u) /\ u <= b
           /\ ~(p <= InitPrio[t]) => Split(g, p, u + 1) /\ b <= u
<1>1. PICK n \in Nat : n = Len(f)
  OBVIOUS
<1>2. PICK q \in Int : q = InitPrio[t]
  <2>1. InitPrio[t] \in Prio
    BY KernelAssumption
  <2>. QED  BY <2>1, ListPrios
<1>3. /\ b \in 0 .. n /\ u \in 0 .. n
      /\ (\A i \in 1 .. n : InitPrio[f[i]] \in Int)
      /\ (\A i \in 1 .. n : InitPrio[f[i]] < q + 1 <=> i <= b)
      /\ (\A i \in 1 .. n : InitPrio[f[i]] < p <=> i <= u)
  BY <1>1, <1>2, ListPrios DEF Split
<1>4. /\ Len(g) = n + 1
      /\ \A j \in 1 .. n + 1 : g[j] = IF j <= b THEN f[j] ELSE IF j = b + 1 THEN t ELSE f[j - 1]
  BY <1>1 DEF Inserted
<1>5. CASE p <= q
  <2>1. u <= b
    <3>1. CASE u = 0
      BY <1>3, <3>1
    <3>2. CASE u # 0
      <4>1. u \in 1 .. n
        BY <1>3, <3>2
      <4>2. InitPrio[f[u]] < p /\ InitPrio[f[u]] \in Int
        BY <1>3, <4>1
      <4>3. InitPrio[f[u]] < q + 1
        BY <1>5, <4>2
      <4>. QED  BY <1>3, <4>1, <4>3
    <3>. QED  BY <3>1, <3>2
  <2>2. ASSUME NEW j \in 1 .. n + 1 PROVE InitPrio[g[j]] < p <=> j <= u
    <3>1. CASE j <= b
      BY <1>3, <1>4, <3>1
    <3>2. CASE j = b + 1
      <4>1. g[j] = t
        BY <1>3, <1>4, <3>2
      <4>. QED  BY <1>2, <1>3, <1>5, <2>1, <3>2, <4>1
    <3>3. CASE b + 1 < j
      <4>1. g[j] = f[j - 1] /\ j - 1 \in 1 .. n /\ ~(j - 1 <= b) /\ ~(j <= u)
        BY <1>3, <1>4, <2>1, <3>3
      <4>2. ~(InitPrio[f[j - 1]] < q + 1) /\ InitPrio[f[j - 1]] \in Int
        BY <1>3, <4>1
      <4>. QED  BY <1>5, <4>1, <4>2
    <3>. QED  BY <1>3, <3>1, <3>2, <3>3
  <2>3. Split(g, p, u)
    BY <1>3, <1>4, <2>2 DEF Split
  <2>. QED  BY <1>2, <1>5, <2>1, <2>3
<1>6. CASE ~(p <= q)
  <2>1. b <= u
    <3>1. CASE b = 0
      BY <1>3, <3>1
    <3>2. CASE b # 0
      <4>1. b \in 1 .. n
        BY <1>3, <3>2
      <4>2. InitPrio[f[b]] < q + 1 /\ InitPrio[f[b]] \in Int
        BY <1>3, <4>1
      <4>3. InitPrio[f[b]] < p
        BY <1>6, <4>2
      <4>. QED  BY <1>3, <4>1, <4>3
    <3>. QED  BY <3>1, <3>2
  <2>2. ASSUME NEW j \in 1 .. n + 1 PROVE InitPrio[g[j]] < p <=> j <= u + 1
    <3>1. CASE j <= b
      <4>1. g[j] = f[j] /\ j \in 1 .. n /\ j <= u + 1 /\ j <= u
        BY <1>3, <1>4, <2>1, <3>1
      <4>. QED  BY <1>3, <4>1
    <3>2. CASE j = b + 1
      <4>1. g[j] = t
        BY <1>3, <1>4, <3>2
      <4>. QED  BY <1>2, <1>3, <1>6, <2>1, <3>2, <4>1
    <3>3. CASE b + 1 < j
      <4>1. g[j] = f[j - 1] /\ j - 1 \in 1 .. n /\ (j <= u + 1 <=> j - 1 <= u)
        BY <1>3, <1>4, <3>3
      <4>. QED  BY <1>3, <4>1
    <3>. QED  BY <1>3, <3>1, <3>2, <3>3
  <2>3. u + 1 \in 0 .. n + 1
    BY <1>3
  <2>4. Split(g, p, u + 1)
    BY <1>4, <2>2, <2>3 DEF Split
  <2>. QED  BY <1>2, <1>6, <2>1, <2>4
<1>. QED  BY <1>5, <1>6

\* g is f with t behind its b-th thread, after those of the priority of t.
JoinsAt(g, f, b, t) == Split(f, InitPrio[t] + 1, b) /\ Inserted(g, f, b, t)

\* A thread that is put into a sorted list comes last in the line of its
\* priority, and the other lines stay.
LEMMA LineInsert ==
    ASSUME NEW f \in Seq(Thread), Sorted(InitPrio, f), NEW t \in Thread,
           NEW b, NEW g, JoinsAt(g, f, b, t), NEW flag, flag # "FIFO", NEW p \in Prio
    PROVE  /\ p = InitPrio[t] => Line(g, flag, p) = Append(Line(f, flag, p), t)
           /\ p # InitPrio[t] => Line(g, flag, p) = Line(f, flag, p)
<1>21. PICK w : w = InitPrio[t] + 1
  OBVIOUS
<1>22. Split(f, w, b) /\ Inserted(g, f, b, t)
  BY <1>21 DEF JoinsAt
<1>. USE <1>21, <1>22
<1>1. p \in Int /\ InitPrio[t] \in Int /\ Len(f) \in Nat
  <2>1. InitPrio[t] \in Prio
    BY KernelAssumption
  <2>. QED  BY <2>1, ListPrios
<1>2. PICK r \in Int : r = p + 1
  BY <1>1
<1>0. r \in Int /\ InitPrio[t] \in Int
  BY <1>1, <1>2
<1>3. PICK a : Split(f, p, a)
  BY <1>1, SplitExists
<1>4. PICK c : Split(f, r, c)
  BY <1>2, SplitExists
<1>5. /\ a \in Nat /\ c \in Nat /\ a <= c /\ c <= Len(f) /\ c - a \in Nat
      /\ IsSection(Line(f, flag, p), f, a, c - a)
  BY <1>1, <1>2, <1>3, <1>4, LineIs
<1>6. PICK n \in Nat : n = c - a
  BY <1>5
<1>7. IsSection(Line(f, flag, p), f, a, n)
  BY <1>5, <1>6
<1>8. /\ g \in Seq(Thread) /\ b \in Nat /\ b <= Len(f)
      /\ \A j \in 1 .. Len(f) + 1 : g[j] = IF j <= b THEN f[j] ELSE IF j = b + 1 THEN t ELSE f[j - 1]
  BY <1>1 DEF Inserted, Split
<1>9. PICK d \in Nat : d = a + 1
  BY <1>5
<1>10. PICK e \in Nat : e = c + 1
  BY <1>5
<1>11. CASE r <= InitPrio[t]
  <2>1. p <= InitPrio[t] /\ p # InitPrio[t]
    BY <1>1, <1>2, <1>11
  <2>2. Split(g, p, a)
    BY <1>1, <1>3, <2>1, InsertedSplit
  <2>3. Split(g, r, c) /\ c <= b
    BY <1>0, <1>4, <1>11, InsertedSplit
  <2>4. IsSection(Line(g, flag, p), g, a, n)
    BY <1>1, <1>2, <1>6, <1>8, <2>2, <2>3, LineIs
  <2>5. \A i \in 1 .. n : g[a + i] = f[a + i]
    <3>1. \A i \in 1 .. n : a + i \in 1 .. Len(f) + 1 /\ a + i <= b
      BY <1>1, <1>5, <1>6, <1>8, <2>3
    <3>. QED  BY <1>8, <3>1
  <2>. QED  BY <1>7, <2>1, <2>4, <2>5, SameSection
<1>12. CASE p = InitPrio[t]
  <2>1. p <= InitPrio[t] /\ ~(r <= InitPrio[t]) /\ r = w
    BY <1>1, <1>2, <1>12
  <2>2. Split(g, p, a)
    BY <1>1, <1>3, <2>1, InsertedSplit
  <2>3. Split(g, r, e)
    BY <1>2, <1>4, <1>10, <2>1, InsertedSplit
  <2>4. c = b
    <3>1. Above(f, w) = c /\ Above(f, w) = b
      BY <1>4, <2>1, SplitAbove
    <3>. QED  BY <3>1
  <2>5. PICK m \in Nat : m = e - a /\ m = n + 1
    BY <1>5, <1>6, <1>10
  <2>6. IsSection(Line(g, flag, p), g, a, m)
    BY <1>1, <1>2, <1>8, <2>2, <2>3, <2>5, LineIs
  <2>7. PICK x : x = Line(f, flag, p)
    OBVIOUS
  <2>8. PICK y : y = Append(x, t)
    OBVIOUS
  <2>9. x \in Seq(Thread) /\ Len(x) = n /\ \A i \in 1 .. n : x[i] = f[a + i]
    BY <1>7, <2>7 DEF IsSection
  <2>10. /\ y \in Seq(Thread) /\ Len(y) = m
         /\ (\A i \in 1 .. n : y[i] = x[i]) /\ y[m] = t
    BY <2>5, <2>8, <2>9
  <2>11. a + m = b + 1 /\ g[b + 1] = t /\ \A i \in 1 .. n : g[a + i] = f[a + i]
    <3>1. a + m = b + 1 /\ b + 1 \in 1 .. Len(f) + 1 /\ ~(b + 1 <= b)
      BY <1>1, <1>5, <1>6, <1>8, <2>4, <2>5
    <3>2. \A i \in 1 .. n : a + i \in 1 .. Len(f) + 1 /\ a + i <= b
      BY <1>1, <1>5, <1>6, <1>8, <2>4
    <3>. QED  BY <1>8, <3>1, <3>2
  <2>12. ASSUME NEW i \in 1 .. m PROVE y[i] = g[a + i]
    <3>1. i \in 1 .. n \/ i = m
      BY <2>5
    <3>. QED  BY <2>9, <2>10, <2>11, <3>1
  <2>13. IsSection(y, g, a, m)
    BY <2>10, <2>12 DEF IsSection
  <2>14. Line(g, flag, p) = y
    BY <2>6, <2>13, SameSection
  <2>. QED  BY <1>12, <2>7, <2>8, <2>14
<1>13. CASE ~(p <= InitPrio[t])
  <2>1. ~(r <= InitPrio[t]) /\ p # InitPrio[t]
    BY <1>1, <1>2, <1>13
  <2>2. Split(g, p, a + 1) /\ b <= a
    <3>1. p \in Int
      BY <1>1
    <3>2. /\ p <= InitPrio[t] => Split(g, p, a) /\ a <= b
          /\ ~(p <= InitPrio[t]) => Split(g, p, a + 1) /\ b <= a
      BY <1>3, <3>1, InsertedSplit
    <3>. QED  BY <1>13, <3>2
  <2>3. Split(g, r, c + 1)
    BY <1>0, <1>4, <2>1, InsertedSplit
  <2>4. n = e - d
    BY <1>5, <1>6, <1>9, <1>10
  <2>5. IsSection(Line(g, flag, p), g, d, n)
    BY <1>1, <1>2, <1>8, <1>9, <1>10, <2>2, <2>3, <2>4, LineIs
  <2>6. ASSUME NEW i \in 1 .. n PROVE g[d + i] = f[a + i]
    <3>1. d + i \in 1 .. Len(f) + 1 /\ ~(d + i <= b) /\ d + i # b + 1 /\ (d + i) - 1 = a + i
      <4>1. b \in Nat /\ b <= a /\ i \in Nat /\ 1 <= i /\ i <= n
        BY <1>8, <2>2
      <4>. QED  BY <1>1, <1>5, <1>6, <1>9, <4>1
    <3>. QED  BY <1>8, <3>1
  <2>7. Line(g, flag, p) = Line(f, flag, p)
    BY <1>7, <2>5, <2>6, SameSection
  <2>. QED  BY <2>1, <2>7
<1>. QED  BY <1>1, <1>2, <1>11, <1>12, <1>13

\* Where the splits are after a removal.
LEMMA RemovedSplit ==
    ASSUME NEW f \in Seq(Thread), NEW j \in 1 .. Len(f), NEW g, Removed(g, f, j),
           NEW p \in Int, NEW u, Split(f, p, u)
    PROVE  /\ p <= InitPrio[f[j]] => Split(g, p, u) /\ u < j
           /\ ~(p <= InitPrio[f[j]]) => Split(g, p, u - 1) /\ j <= u
<1>1. PICK n \in Nat : n = Len(f)
  OBVIOUS
<1>2. /\ u \in 0 .. n /\ j \in 1 .. n
      /\ (\A i \in 1 .. n : InitPrio[f[i]] \in Int)
      /\ (\A i \in 1 .. n : InitPrio[f[i]] < p <=> i <= u)
  BY <1>1, ListPrios DEF Split
<1>3. /\ Len(g) = n - 1
      /\ \A i \in 1 .. n - 1 : g[i] = IF i < j THEN f[i] ELSE f[i + 1]
  BY <1>1 DEF Removed
<1>4. CASE p <= InitPrio[f[j]]
  <2>1. u < j
    BY <1>2, <1>4
  <2>2. ASSUME NEW i \in 1 .. n - 1 PROVE InitPrio[g[i]] < p <=> i <= u
    <3>1. CASE i < j
      <4>1. g[i] = f[i] /\ i \in 1 .. n
        BY <1>2, <1>3, <3>1
      <4>. QED  BY <1>2, <4>1
    <3>2. CASE ~(i < j)
      <4>1. g[i] = f[i + 1] /\ i + 1 \in 1 .. n /\ ~(i <= u) /\ ~(i + 1 <= u)
        BY <1>2, <1>3, <2>1, <3>2
      <4>. QED  BY <1>2, <4>1
    <3>. QED  BY <3>1, <3>2
  <2>3. u \in 0 .. n - 1
    BY <1>2, <2>1
  <2>4. Split(g, p, u)
    BY <1>3, <2>2, <2>3 DEF Split
  <2>. QED  BY <1>4, <2>1, <2>4
<1>5. CASE ~(p <= InitPrio[f[j]])
  <2>1. j <= u
    BY <1>2, <1>5
  <2>2. ASSUME NEW i \in 1 .. n - 1 PROVE InitPrio[g[i]] < p <=> i <= u - 1
    <3>1. CASE i < j
      <4>1. g[i] = f[i] /\ i \in 1 .. n /\ i <= u /\ i <= u - 1
        BY <1>2, <1>3, <2>1, <3>1
      <4>. QED  BY <1>2, <4>1
    <3>2. CASE ~(i < j)
      <4>1. g[i] = f[i + 1] /\ i + 1 \in 1 .. n /\ (i <= u - 1 <=> i + 1 <= u)
        BY <1>2, <1>3, <3>2
      <4>. QED  BY <1>2, <4>1
    <3>. QED  BY <3>1, <3>2
  <2>3. u - 1 \in 0 .. n - 1
    BY <1>2, <2>1
  <2>4. Split(g, p, u - 1)
    BY <1>3, <2>2, <2>3 DEF Split
  <2>. QED  BY <1>5, <2>1, <2>4
<1>. QED  BY <1>4, <1>5

\* A thread that leaves a sorted list leaves the line of its priority, and the
\* other lines stay; the first thread of the list is the first of its line.
LEMMA LineRemove ==
    ASSUME NEW f \in Seq(Thread), Sorted(InitPrio, f), NEW j \in 1 .. Len(f),
           NEW g, Removed(g, f, j), NEW flag, flag # "FIFO", NEW p \in Prio
    PROVE  /\ p # InitPrio[f[j]] => Line(g, flag, p) = Line(f, flag, p)
           /\ p = InitPrio[f[j]] =>
                /\ Line(f, flag, p) \in Seq(Thread)
                /\ \E i \in 1 .. Len(Line(f, flag, p)) :
                     /\ Line(f, flag, p)[i] = f[j] /\ (j = 1 => i = 1)
                     /\ Removed(Line(g, flag, p), Line(f, flag, p), i)
<1>1. p \in Int /\ InitPrio[f[j]] \in Int /\ Len(f) \in Nat
  BY ListPrios
<1>2. PICK r \in Int : r = p + 1
  BY <1>1
<1>3. PICK a : Split(f, p, a)
  BY <1>1, SplitExists
<1>4. PICK c : Split(f, r, c)
  BY <1>2, SplitExists
<1>5. /\ a \in Nat /\ c \in Nat /\ a <= c /\ c <= Len(f) /\ c - a \in Nat
      /\ IsSection(Line(f, flag, p), f, a, c - a)
  BY <1>1, <1>2, <1>3, <1>4, LineIs
<1>6. PICK n \in Nat : n = c - a
  BY <1>5
<1>7. IsSection(Line(f, flag, p), f, a, n)
  BY <1>5, <1>6
<1>8. /\ g \in Seq(Thread) /\ j \in Nat /\ 1 <= j /\ j <= Len(f)
      /\ \A i \in 1 .. Len(f) - 1 : g[i] = IF i < j THEN f[i] ELSE f[i + 1]
  BY <1>1 DEF Removed
<1>9. r \in Int /\ InitPrio[f[j]] \in Int
  BY <1>1, <1>2
<1>10. CASE r <= InitPrio[f[j]]
  <2>1. p <= InitPrio[f[j]] /\ p # InitPrio[f[j]]
    BY <1>1, <1>2, <1>10
  <2>2. Split(g, p, a)
    BY <1>1, <1>3, <2>1, RemovedSplit
  <2>3. Split(g, r, c) /\ c < j
    BY <1>4, <1>9, <1>10, RemovedSplit
  <2>4. IsSection(Line(g, flag, p), g, a, n)
    BY <1>1, <1>2, <1>6, <1>8, <2>2, <2>3, LineIs
  <2>5. ASSUME NEW i \in 1 .. n PROVE g[a + i] = f[a + i]
    <3>1. j \in Nat /\ c < j /\ j <= Len(f) /\ i \in Nat /\ 1 <= i /\ i <= n
      BY <1>8, <2>3
    <3>2. a + i \in 1 .. Len(f) - 1 /\ a + i < j
      BY <1>1, <1>5, <1>6, <3>1
    <3>. QED  BY <1>8, <3>2
  <2>. QED  BY <1>7, <2>1, <2>4, <2>5, SameSection
<1>11. CASE ~(p <= InitPrio[f[j]])
  <2>1. ~(r <= InitPrio[f[j]]) /\ p # InitPrio[f[j]]
    BY <1>1, <1>2, <1>11
  <2>2. Split(g, p, a - 1) /\ j <= a
    BY <1>1, <1>3, <1>11, RemovedSplit
  <2>3. Split(g, r, c - 1)
    BY <1>4, <1>9, <2>1, RemovedSplit
  <2>4. PICK d \in Nat : d = a - 1
    BY <1>5, <1>8, <2>2
  <2>5. PICK e \in Nat : e = c - 1
    BY <1>5, <1>8, <2>2
  <2>6. n = e - d
    BY <1>5, <1>6, <2>4, <2>5
  <2>7. IsSection(Line(g, flag, p), g, d, n)
    BY <1>1, <1>2, <1>8, <2>2, <2>3, <2>4, <2>5, <2>6, LineIs
  <2>8. ASSUME NEW i \in 1 .. n PROVE g[d + i] = f[a + i]
    <3>1. j \in Nat /\ j <= a /\ i \in Nat /\ 1 <= i /\ i <= n
      BY <1>8, <2>2
    <3>2. d + i \in 1 .. Len(f) - 1 /\ ~(d + i < j) /\ (d + i) + 1 = a + i
      BY <1>1, <1>5, <1>6, <2>4, <3>1
    <3>. QED  BY <1>8, <3>2
  <2>. QED  BY <1>7, <2>1, <2>7, <2>8, SameSection
<1>12. CASE p = InitPrio[f[j]]
  <2>1. p <= InitPrio[f[j]] /\ ~(r <= InitPrio[f[j]])
    BY <1>1, <1>2, <1>12
  <2>2. Split(g, p, a) /\ a < j
    BY <1>1, <1>3, <2>1, RemovedSplit
  <2>3. Split(g, r, c - 1) /\ j <= c
    BY <1>4, <1>9, <2>1, RemovedSplit
  <2>4. PICK x : x = Line(f, flag, p)
    OBVIOUS
  <2>5. PICK y : y = Line(g, flag, p)
    OBVIOUS
  <2>6. PICK i \in Nat : i = j - a
    BY <1>5, <1>8, <2>2
  <2>7. i \in 1 .. n /\ a + i = j /\ (j = 1 => i = 1) /\ n - 1 \in Nat
    BY <1>5, <1>6, <1>8, <2>2, <2>3, <2>6
  <2>8. x \in Seq(Thread) /\ Len(x) = n /\ \A l \in 1 .. n : x[l] = f[a + l]
    BY <1>7, <2>4 DEF IsSection
  <2>9. PICK e \in Nat : e = c - 1 /\ n - 1 = e - a
    BY <1>5, <1>6, <1>8, <2>3
  <2>10. IsSection(y, g, a, n - 1)
    BY <1>1, <1>2, <1>8, <2>2, <2>3, <2>5, <2>9, LineIs
  <2>11. ASSUME NEW l \in 1 .. n - 1 PROVE y[l] = IF l < i THEN x[l] ELSE x[l + 1]
    <3>1. j \in Nat /\ j <= c /\ a < j /\ l \in Nat /\ 1 <= l /\ l <= n - 1
      BY <1>8, <2>2, <2>3
    <3>2. /\ a + l \in 1 .. Len(f) - 1 /\ l \in 1 .. n /\ l + 1 \in 1 .. n
          /\ (a + l < j <=> l < i) /\ (a + l) + 1 = a + (l + 1)
      BY <1>1, <1>5, <1>6, <2>6, <3>1
    <3>3. y[l] = g[a + l]
      BY <2>10 DEF IsSection
    <3>. QED  BY <1>8, <2>8, <3>2, <3>3
  <2>12. Removed(y, x, i)
    BY <2>8, <2>10, <2>11 DEF Removed, IsSection
  <2>. QED  BY <1>12, <2>4, <2>5, <2>7, <2>8, <2>12
<1>. QED  BY <1>1, <1>2, <1>10, <1>11, <1>12

\* RemoveFirst removes the only occurrence of an element.
LEMMA RemoveFirstIs ==
    ASSUME NEW f \in Seq(Thread), IsInjective(f), NEW j \in 1 .. Len(f)
    PROVE  Removed(RemoveFirst(f, f[j]), f, j)
<1>1. {i \in 1 .. Len(f) : f[i] = f[j]} = {j}
  BY DEF IsInjective
<1>2. SelectInSeq(f, LAMBDA v : v = f[j]) = j
  <2>1. Min({j}) = j
    BY DEF Min
  <2>. QED  BY <1>1, <2>1 DEF SelectInSeq
<1>3. RemoveFirst(f, f[j]) = RemoveAt(f, j)
  BY <1>2 DEF RemoveFirst
<1>. QED  BY <1>3, RemoveAtProperties DEF Removed

\* There is only one list without the j-th thread of f.
LEMMA SameRemoved ==
    ASSUME NEW f, NEW j, NEW g, NEW h, Removed(g, f, j), Removed(h, f, j)
    PROVE  g = h
<1>1. g \in Seq(Thread) /\ h \in Seq(Thread) /\ Len(g) = Len(h) /\ \A i \in 1 .. Len(g) : g[i] = h[i]
  BY DEF Removed
<1>. QED  BY <1>1, SeqEqual

\* A list without its first thread is its tail.
LEMMA TailRemoved ==
    ASSUME NEW f \in Seq(Thread), f # <<>>
    PROVE  Removed(Tail(f), f, 1) /\ Head(f) = f[1] /\ 1 \in 1 .. Len(f)
<1>1. Len(f) \in Nat /\ Len(f) # 0
  OBVIOUS
<1>2. /\ Tail(f) \in Seq(Thread) /\ Len(Tail(f)) = Len(f) - 1
      /\ \A i \in 1 .. Len(f) - 1 : Tail(f)[i] = f[i + 1]
  BY HeadTailProperties
<1>3. \A i \in 1 .. Len(f) - 1 : ~(i < 1)
  BY <1>1
<1>. QED  BY <1>1, <1>2, <1>3 DEF Removed

\* x is a section of the list with threads of one priority.
OfPrio(x, f, p) ==
    \E a \in Nat, n \in Nat :
        /\ IsSection(x, f, a, n) /\ a + n <= Len(f)
        /\ \A i \in 1 .. n : InitPrio[f[a + i]] = p

\* A line is a section of the list, and its threads have its priority.
LEMMA LineSection ==
    ASSUME NEW f \in Seq(Thread), Sorted(InitPrio, f), NEW flag, flag # "FIFO", NEW p \in Prio
    PROVE  OfPrio(Line(f, flag, p), f, p)
<1>1. p \in Int /\ Len(f) \in Nat /\ \A i \in 1 .. Len(f) : InitPrio[f[i]] \in Int
  BY ListPrios
<1>2. PICK r \in Int : r = p + 1
  BY <1>1
<1>3. PICK a : Split(f, p, a)
  BY <1>1, SplitExists
<1>4. PICK c : Split(f, r, c)
  BY <1>2, SplitExists
<1>5. /\ a \in Nat /\ c \in Nat /\ a <= c /\ c <= Len(f) /\ c - a \in Nat
      /\ IsSection(Line(f, flag, p), f, a, c - a)
  BY <1>1, <1>2, <1>3, <1>4, LineIs
<1>6. PICK n \in Nat : n = c - a
  BY <1>5
<1>7. ASSUME NEW i \in 1 .. n PROVE InitPrio[f[a + i]] = p
  <2>1. a + i \in 1 .. Len(f) /\ ~(a + i <= a) /\ a + i <= c
    BY <1>1, <1>5, <1>6
  <2>2. ~(InitPrio[f[a + i]] < p) /\ InitPrio[f[a + i]] < r
    BY <1>3, <1>4, <2>1 DEF Split
  <2>3. InitPrio[f[a + i]] \in Int
    BY <1>1, <2>1
  <2>. QED  BY <1>1, <1>2, <2>2, <2>3
<1>8. a + n <= Len(f)
  BY <1>1, <1>5, <1>6
<1>. QED  BY <1>5, <1>6, <1>7, <1>8 DEF OfPrio

\* What the list of a semaphore is like.
SemList(f, flag) ==
    /\ f \in Seq(Thread) /\ IsInjective(f) /\ flag \in {"FIFO", "PRIO"}
    /\ flag = "PRIO" => Sorted(InitPrio, f)

\* The line a thread belongs to.
LineFor(flag, t) == IF flag = "FIFO" THEN 0 ELSE InitPrio[t]

\* Priorities begin with 0.
LEMMA LineForPrio ==
    ASSUME NEW t \in Thread, NEW flag
    PROVE  LineFor(flag, t) \in Prio /\ 0 \in Prio /\ \A p \in Prio : 0 <= p /\ p \in Int
<1>1. InitPrio[t] \in Prio /\ PRIO_MAX \in Nat /\ PRIO_MAX # 0
  BY KernelAssumption
<1>2. 0 \in Prio /\ \A p \in Prio : 0 <= p /\ p \in Int
  BY <1>1 DEF Prio
<1>. QED  BY <1>1, <1>2 DEF LineFor

\* Every line is a list of threads, each of them once, that are in the list.
LEMMA LineType ==
    ASSUME NEW f, NEW flag, SemList(f, flag), NEW p \in Prio
    PROVE  /\ Line(f, flag, p) \in Seq(Thread) /\ IsInjective(Line(f, flag, p))
           /\ \A i \in 1 .. Len(Line(f, flag, p)) :
                Line(f, flag, p)[i] \in ToSet(f) /\ LineFor(flag, Line(f, flag, p)[i]) = p
<1>1. /\ f \in Seq(Thread) /\ flag \in {"FIFO", "PRIO"} /\ Len(f) \in Nat
      /\ \A i, j \in 1 .. Len(f) : f[i] = f[j] => i = j
  BY DEF SemList, IsInjective
<1>2. CASE flag = "FIFO"
  <2>1. Line(f, flag, p) = IF p = 0 THEN f ELSE <<>>
    BY <1>2 DEF Line
  <2>2. CASE p = 0
    <3>1. Line(f, flag, p) = f /\ IsInjective(f)
      BY <2>1, <2>2 DEF SemList
    <3>. QED  BY <1>1, <1>2, <2>2, <3>1 DEF ToSet, LineFor
  <2>3. CASE p # 0
    <3>1. Line(f, flag, p) = <<>>
      BY <2>1, <2>3
    <3>. QED  BY <3>1 DEF IsInjective
  <2>. QED  BY <2>2, <2>3
<1>3. CASE flag # "FIFO"
  <2>1. Sorted(InitPrio, f)
    BY <1>1, <1>3 DEF SemList
  <2>0. OfPrio(Line(f, flag, p), f, p)
    BY <1>1, <1>3, <2>1, LineSection
  <2>2. PICK x : x = Line(f, flag, p)
    OBVIOUS
  <2>3. PICK a \in Nat, n \in Nat :
          /\ IsSection(x, f, a, n) /\ a + n <= Len(f)
          /\ \A i \in 1 .. n : InitPrio[f[a + i]] = p
    BY <2>0, <2>2 DEF OfPrio
  <2>4. /\ x \in Seq(Thread) /\ Len(x) = n
        /\ \A i \in 1 .. n : x[i] = f[a + i] /\ a + i \in 1 .. Len(f)
    BY <1>1, <2>3 DEF IsSection
  <2>5. ASSUME NEW i \in 1 .. n, NEW j \in 1 .. n, x[i] = x[j] PROVE i = j
    <3>1. a + i = a + j
      BY <1>1, <2>4, <2>5
    <3>. QED  BY <2>3, <3>1
  <2>6. IsInjective(x)
    BY <2>4, <2>5 DEF IsInjective
  <2>7. ASSUME NEW i \in 1 .. n PROVE x[i] \in ToSet(f) /\ InitPrio[x[i]] = p
    <3>1. x[i] = f[a + i] /\ a + i \in 1 .. Len(f)
      BY <2>4
    <3>2. \A j \in 1 .. Len(f) : f[j] \in ToSet(f)
      BY <1>1 DEF ToSet
    <3>3. InitPrio[f[a + i]] = p
      BY <2>3
    <3>4. x[i] \in ToSet(f)
      BY <3>1, <3>2, Zenon
    <3>. QED  BY <3>1, <3>3, <3>4
  <2>. QED  BY <1>3, <2>2, <2>4, <2>6, <2>7 DEF LineFor
<1>. QED  BY <1>2, <1>3

\* A thread joins the line it belongs to, as its last.
LEMMA LinesJoin ==
    ASSUME NEW f, NEW flag, SemList(f, flag), NEW t \in Thread, t \notin ToSet(f), NEW p \in Prio,
           NEW g, g = IF flag = "FIFO" THEN Append(f, t) ELSE PrioInsert(InitPrio, f, t)
    PROVE  Line(g, flag, p) = IF p = LineFor(flag, t) THEN Append(Line(f, flag, p), t)
                              ELSE Line(f, flag, p)
<1>1. f \in Seq(Thread) /\ flag \in {"FIFO", "PRIO"} /\ IsInjective(f)
  BY DEF SemList
<1>2. CASE flag = "FIFO"
  BY <1>2 DEF Line, LineFor
<1>3. CASE flag # "FIFO"
  <2>1. Sorted(InitPrio, f)
    BY <1>1, <1>3 DEF SemList
  <2>0. PICK b : Split(f, InitPrio[t] + 1, b) /\ Inserted(PrioInsert(InitPrio, f, t), f, b, t)
    BY <1>1, <2>1, PrioInsertIs
  <2>2. JoinsAt(g, f, b, t)
    BY <1>3, <2>0 DEF JoinsAt
  <2>3. f \in Seq(Thread)
    BY <1>1
  <2>4. PICK h : h = g
    OBVIOUS
  <2>6. JoinsAt(h, f, b, t)
    BY <2>2, <2>4
  <2>7. /\ p = InitPrio[t] => Line(h, flag, p) = Append(Line(f, flag, p), t)
        /\ p # InitPrio[t] => Line(h, flag, p) = Line(f, flag, p)
    BY <1>3, <2>1, <2>6, <2>3, LineInsert
  <2>5. /\ p = InitPrio[t] => Line(g, flag, p) = Append(Line(f, flag, p), t)
        /\ p # InitPrio[t] => Line(g, flag, p) = Line(f, flag, p)
    BY <2>4, <2>7
  <2>. QED  BY <1>3, <2>5 DEF LineFor
<1>. QED  BY <1>2, <1>3

\* A thread leaves the line it is in.
LEMMA LinesDrop ==
    ASSUME NEW f, NEW flag, SemList(f, flag), NEW t, t \in ToSet(f), NEW p \in Prio,
           NEW g, g = RemoveFirst(f, t)
    PROVE  /\ p = LineFor(flag, t) =>
                t \in ToSet(Line(f, flag, p)) /\ Line(g, flag, p) = RemoveFirst(Line(f, flag, p), t)
           /\ p # LineFor(flag, t) => Line(g, flag, p) = Line(f, flag, p)
<1>1. f \in Seq(Thread) /\ flag \in {"FIFO", "PRIO"} /\ IsInjective(f)
  BY DEF SemList
<1>2. CASE flag = "FIFO"
  BY <1>2 DEF Line, LineFor
<1>3. CASE flag # "FIFO"
  <2>1. Sorted(InitPrio, f)
    BY <1>1, <1>3 DEF SemList
  <2>2. PICK j \in 1 .. Len(f) : f[j] = t
    BY <1>1 DEF ToSet
  <2>3. Removed(g, f, j)
    BY <1>1, <2>2, RemoveFirstIs
  <2>4. PICK x : x = Line(f, flag, p)
    OBVIOUS
  <2>5. PICK y : y = Line(g, flag, p)
    OBVIOUS
  <2>6. /\ p # InitPrio[t] => y = x
        /\ p = InitPrio[t] => x \in Seq(Thread) /\ \E i \in 1 .. Len(x) : x[i] = t /\ Removed(y, x, i)
    BY <1>1, <1>3, <2>1, <2>2, <2>3, <2>4, <2>5, LineRemove
  <2>7. ASSUME p = InitPrio[t] PROVE t \in ToSet(x) /\ y = RemoveFirst(x, t)
    <3>1. PICK i \in 1 .. Len(x) : x[i] = t /\ Removed(y, x, i)
      BY <2>6, <2>7
    <3>2. x \in Seq(Thread) /\ IsInjective(x)
      BY <2>4, LineType
    <3>3. Removed(RemoveFirst(x, t), x, i)
      BY <3>1, <3>2, RemoveFirstIs
    <3>4. y = RemoveFirst(x, t)
      BY <3>1, <3>3, SameRemoved
    <3>. QED  BY <3>1, <3>2, <3>4 DEF ToSet
  <2>. QED  BY <1>3, <2>4, <2>5, <2>6, <2>7 DEF LineFor
<1>. QED  BY <1>2, <1>3

\* The first thread of the list is the first of the first line that has one.
LEMMA LinesServe ==
    ASSUME NEW f, NEW flag, SemList(f, flag), f # <<>>, NEW g, g = RemoveFirst(f, Head(f)),
           NEW q, q = LineFor(flag, Head(f))
    PROVE  /\ q \in Prio /\ Line(f, flag, q) # <<>> /\ Head(Line(f, flag, q)) = Head(f)
           /\ \A p \in Prio : Line(f, flag, p) # <<>> => q <= p
           /\ \A p \in Prio : Line(g, flag, p) = IF p = q THEN Tail(Line(f, flag, p))
                                                 ELSE Line(f, flag, p)
<1>1. f \in Seq(Thread) /\ flag \in {"FIFO", "PRIO"} /\ IsInjective(f) /\ Len(f) \in Nat
  BY DEF SemList
<1>2. Removed(Tail(f), f, 1) /\ Head(f) = f[1] /\ 1 \in 1 .. Len(f) /\ Head(f) \in Thread
  BY <1>1, TailRemoved
<1>3. Removed(g, f, 1)
  BY <1>1, <1>2, RemoveFirstIs
<1>4. q \in Prio
  BY <1>2, LineForPrio
<1>5. CASE flag = "FIFO"
  <2>1. g = Tail(f)
    BY <1>2, <1>3, SameRemoved
  <2>2. q = 0 /\ \A p \in Prio : 0 <= p
    BY <1>2, <1>5, LineForPrio DEF LineFor
  <2>. QED  BY <1>4, <1>5, <2>1, <2>2 DEF Line
<1>6. CASE flag # "FIFO"
  <2>1. Sorted(InitPrio, f) /\ q = InitPrio[f[1]]
    BY <1>1, <1>2, <1>6 DEF SemList, LineFor
  <2>2. PICK x : x = Line(f, flag, q)
    OBVIOUS
  <2>3. PICK y : y = Line(g, flag, q)
    OBVIOUS
  <2>4. x \in Seq(Thread) /\ \E i \in 1 .. Len(x) : x[i] = f[1] /\ i = 1 /\ Removed(y, x, i)
    BY <1>1, <1>2, <1>3, <1>4, <1>6, <2>1, <2>2, <2>3, LineRemove
  <2>5. x # <<>> /\ x[1] = f[1] /\ Removed(y, x, 1)
    BY <2>4
  <2>6. Removed(Tail(x), x, 1) /\ Head(x) = x[1]
    BY <2>4, <2>5, TailRemoved
  <2>7. y = Tail(x)
    BY <2>5, <2>6, SameRemoved
  <2>8. ASSUME NEW p \in Prio, p # q PROVE Line(g, flag, p) = Line(f, flag, p)
    BY <1>1, <1>2, <1>3, <1>6, <2>1, <2>8, LineRemove
  <2>9. ASSUME NEW p \in Prio, Line(f, flag, p) # <<>> PROVE q <= p
    <3>1. PICK z : z = Line(f, flag, p)
      OBVIOUS
    <3>2. z \in Seq(Thread) /\ z # <<>> /\ Len(z) \in Nat /\ Len(z) # 0
      BY <2>9, <3>1, LineType
    <3>3. 1 \in 1 .. Len(z)
      BY <3>2
    <3>4. z[1] \in ToSet(f) /\ LineFor(flag, z[1]) = p
      BY <3>1, <3>3, LineType
    <3>5. PICK j \in 1 .. Len(f) : f[j] = z[1]
      BY <1>1, <3>4 DEF ToSet
    <3>6. InitPrio[f[j]] = p
      BY <1>6, <3>4, <3>5 DEF LineFor
    <3>7. CASE j = 1
      BY <1>4, <2>1, <3>6, <3>7, ListPrios, <1>1
    <3>8. CASE j # 1
      BY <1>2, <2>1, <3>5, <3>6, <3>8 DEF Sorted
    <3>. QED  BY <3>7, <3>8
  <2>. QED  BY <1>2, <1>4, <2>2, <2>3, <2>5, <2>6, <2>7, <2>8, <2>9
<1>. QED  BY <1>5, <1>6

\* The lines of an empty list are empty.
LEMMA LinesEmpty ==
    ASSUME NEW flag, SemList(<<>>, flag), NEW p \in Prio
    PROVE  Line(<<>>, flag, p) = <<>>
<1>1. PICK x : x = Line(<<>>, flag, p)
  OBVIOUS
<1>2. x \in Seq(Thread) /\ \A i \in 1 .. Len(x) : x[i] \in ToSet(<<>>)
  BY <1>1, LineType
<1>3. ToSet(<<>>) = {}
  BY DEF ToSet
<1>4. Len(x) = 0
  BY <1>2, <1>3
<1>. QED  BY <1>1, <1>2, <1>4

-----------------------------------------------------------------------------
(* What a step does to the lists and to the threads that leave them *)

\* A list from which something was unlinked, and which lost t, lost only t.
LEMMA PrunedExactly ==
    ASSUME NEW f \in Seq(Thread), IsInjective(f), NEW t, t \in ToSet(f),
           NEW g, ToSet(g) = ToSet(f) \ {t}, g = f \/ \E e : g = RemoveFirst(f, e)
    PROVE  g = RemoveFirst(f, t)
<1>1. g # f
  OBVIOUS
<1>2. PICK e : g = RemoveFirst(f, e)
  BY <1>1
<1>3. ToSet(g) = ToSet(f) \ {e}
  BY <1>2, RemoveFirstProperties
<1>4. e = t
  BY <1>3
<1>. QED  BY <1>2, <1>4

\* t, unlinked from list s, is ready and finds error e; nothing else changes.
Wakes(q, r, s, t, e) ==
    /\ r.list[s] = RemoveFirst(q.list[s], t)
    /\ \A l \in List \ {s} : r.list[l] = q.list[l]
    /\ r.stat[t] = "READY" /\ r.error[t] = e
    /\ \A u \in Thread \ {t} : r.stat[u] = q.stat[u] /\ r.error[u] = q.error[u]

\* What waking a thread does, with and without a call of rt_schedule after it.
LEMMA WokenWakes ==
    ASSUME NEW q, CoherentState(q), NEW s \in List, NEW t \in ToSet(q.list[s]),
           NEW e, NEW r, Woken(q, t, e, r), Prunes(q, r)
    PROVE  /\ t \in Thread
           /\ Wakes(q, r, s, t, e) /\ Wakes(q, rt_schedule(r), s, t, e)
<1>1. /\ q \in KernelState /\ CoherentState(r)
      /\ q.stat \in [Thread -> Stat] /\ q.error \in [Thread -> Error]
      /\ \A l \in List : q.list[l] \in Seq(Thread) /\ IsInjective(q.list[l])
      /\ \A l \in List \ {s} : t \notin ToSet(q.list[l])
  BY DEF CoherentState, KernelCoherent, SuspendListsCoherent, KernelState, Woken
<1>2. t \in Thread
  BY <1>1 DEF ToSet
<1>3. \A l \in List : /\ ToSet(r.list[l]) = ToSet(q.list[l]) \ {t}
                      /\ t \notin ToSet(q.list[l]) => r.list[l] = q.list[l]
  BY DEF Woken
<1>4. r.list[s] = q.list[s] \/ \E x : r.list[s] = RemoveFirst(q.list[s], x)
  BY DEF Prunes
<1>5. PICK f : f = q.list[s]
  OBVIOUS
<1>6. PICK g : g = r.list[s]
  OBVIOUS
<1>7. f \in Seq(Thread) /\ IsInjective(f) /\ t \in ToSet(f) /\ ToSet(g) = ToSet(f) \ {t}
  BY <1>1, <1>3, <1>5, <1>6
<1>8. g = f \/ \E x : g = RemoveFirst(f, x)
  BY <1>4, <1>5, <1>6
<1>9. g = RemoveFirst(f, t)
  BY <1>7, <1>8, PrunedExactly
<1>10. r.stat = [q.stat EXCEPT ![t] = "READY"] /\ r.error = [q.error EXCEPT ![t] = e]
  BY DEF Woken
<1>11. /\ r.stat[t] = "READY" /\ r.error[t] = e
       /\ \A u \in Thread \ {t} : r.stat[u] = q.stat[u] /\ r.error[u] = q.error[u]
  BY <1>1, <1>2, <1>10
<1>12. Wakes(q, r, s, t, e)
  BY <1>1, <1>3, <1>5, <1>6, <1>9, <1>11 DEF Wakes
<1>13. PICK z : z = rt_schedule(r)
  OBVIOUS
<1>14. z.stat = r.stat /\ z.error = r.error /\ \A l \in List : z.list[l] = r.list[l]
  BY <1>1, <1>13, ScheduleCoherent DEF SameThreads
<1>15. Wakes(q, z, s, t, e)
  BY <1>12, <1>14 DEF Wakes
<1>. QED  BY <1>2, <1>12, <1>13, <1>15

\* The thread that ReleaseFirst and ResumeFirst wake is the first of the list.
LEMMA FirstWakes ==
    ASSUME CoherentState(k), NEW s \in Sem, k.list[s] # <<>>, NEW h, h = Head(k.list[s])
    PROVE  /\ h \in Thread /\ h \in Waiting(s)
           /\ k' = rt_ipc_list_resume(k, s) => Wakes(k, k', s, h, k.error[h])
           /\ k' = rt_schedule(rt_ipc_list_resume(k, s)) => Wakes(k, k', s, h, k.error[h])
           /\ k' = ResumeFirst(s) => Wakes(k, k', s, h, "ERROR")
<1>1. h \in Thread /\ h \in ToSet(k.list[s]) /\ k.stat[h] = "SUSPEND" /\ s \in List /\ s \in Object
  BY HeadSuspended DEF Sem, Object
<1>2. PICK r : r = rt_ipc_list_resume(k, s)
  OBVIOUS
<1>3. Woken(k, h, k.error[h], r)
  BY <1>1, <1>2, PlainResumeWakes DEF rt_ipc_list_resume
<1>4. Prunes(k, r)
  BY <1>1, <1>2, ResumePrunes
<1>5. Wakes(k, r, s, h, k.error[h]) /\ Wakes(k, rt_schedule(r), s, h, k.error[h])
  BY <1>1, <1>3, <1>4, WokenWakes
<1>6. PICK z : z = ResumeFirst(s)
  OBVIOUS
<1>7. "ERROR" \in Error
  BY DEF Error
<1>8. Woken(k, h, "ERROR", rt_thread_resume([k EXCEPT !.error[h] = "ERROR"], h))
  BY <1>1, <1>7, ResumeWakes
<1>9. Woken(k, h, "ERROR", z)
  BY <1>6, <1>8 DEF ResumeFirst
<1>10. Prunes(k, z)
  BY <1>1, <1>6, ResumeFirstPrunes
<1>11. Wakes(k, z, s, h, "ERROR")
  BY <1>1, <1>9, <1>10, WokenWakes
<1>. QED  BY <1>1, <1>2, <1>5, <1>6, <1>11 DEF Waiting

\* The threads that leave s are those in a take that are not suspended.
LeavingThreads ==
    \A s \in Sem, ok \in BOOLEAN : \A u \in Thread :
        u \in Leaving(s, ok) <=>
          on[u] = s /\ pc[u] \in Waits /\ k.stat[u] # "SUSPEND" /\ ok = (k.error[u] = "EOK")

\* The invariant gives this.
LEMMA WaitersLeave ==
    WaitersWait => LeavingThreads
<1>1. ASSUME WaitersWait, NEW s \in Sem, NEW ok \in BOOLEAN, NEW u \in Thread
      PROVE  u \in Leaving(s, ok) <=>
               on[u] = s /\ pc[u] \in Waits /\ k.stat[u] # "SUSPEND" /\ ok = (k.error[u] = "EOK")
  <2>1. u \in Waiting(s) <=> on[u] = s /\ pc[u] \in Waits /\ k.stat[u] = "SUSPEND"
    BY <1>1 DEF WaitersWait, Sem
  <2>. QED  BY <2>1 DEF Leaving, Waits
<1>. QED  BY <1>1 DEF LeavingThreads

\* The same before and after a step.
LEMMA LeavingIs ==
    ASSUME IpcInv, IpcInv'
    PROVE  LeavingThreads /\ LeavingThreads'
<1>1. WaitersWait => LeavingThreads
  BY WaitersLeave
<1>2. WaitersWait' => LeavingThreads'
  BY WaitersLeave, PTL
<1>. QED  BY <1>1, <1>2, StepWaiters

\* The abstract state: the lines, and the threads given a token or refused one.
AllLines == [s \in Sem |-> [p \in Prio |-> Line(k.list[s], Flag[s], p)]]
Given == [s \in Sem |-> Leaving(s, TRUE)]
Refused == [s \in Sem |-> Leaving(s, FALSE)]

\* The abstract state does not change.
Still == AllLines' = AllLines /\ Given' = Given /\ Refused' = Refused

\* Lists that do not change have the same lines.
LEMMA SameLines ==
    ASSUME \A l \in List : k'.list[l] = k.list[l]
    PROVE  AllLines' = AllLines
  BY DEF AllLines, Sem, Object

\* Neither list nor thread in a take changes.
LEMMA StillStep ==
    ASSUME IpcInv, IpcInv', SamePlaces, \A l \in List : k'.list[l] = k.list[l],
           \A u \in Thread : pc[u] \in Waits => k'.stat[u] = k.stat[u] /\ k'.error[u] = k.error[u]
    PROVE  Still
<1>1. LeavingThreads /\ LeavingThreads'
  BY LeavingIs
<1>2. ASSUME NEW s \in Sem, NEW ok \in BOOLEAN PROVE Leaving(s, ok)' = Leaving(s, ok)
  <2>1. ASSUME NEW u \in Thread PROVE u \in Leaving(s, ok)' <=> u \in Leaving(s, ok)
    <3>1. u \in Leaving(s, ok) <=>
            on[u] = s /\ pc[u] \in Waits /\ k.stat[u] # "SUSPEND" /\ ok = (k.error[u] = "EOK")
      BY <1>1 DEF LeavingThreads
    <3>2. u \in Leaving(s, ok)' <=>
            on'[u] = s /\ pc'[u] \in Waits /\ k'.stat[u] # "SUSPEND" /\ ok = (k'.error[u] = "EOK")
      BY <1>1 DEF LeavingThreads
    <3>. QED  BY <3>1, <3>2 DEF SamePlaces
  <2>2. Leaving(s, ok) \subseteq Thread /\ Leaving(s, ok)' \subseteq Thread
    BY DEF Leaving
  <2>. QED  BY <2>1, <2>2
<1>3. TRUE \in BOOLEAN /\ FALSE \in BOOLEAN
  OBVIOUS
<1>4. Given' = Given /\ Refused' = Refused
  BY <1>2, <1>3 DEF Given, Refused
<1>. QED  BY <1>4, SameLines DEF Still

\* t leaves the list of s with error e; the other threads in a take stay where
\* they are.
LEMMA WakeStep ==
    ASSUME IpcInv, IpcInv', SamePlaces, NEW s \in Sem, NEW t \in Thread, t \in Waiting(s), NEW e,
           Wakes(k, k', s, t, e)
    PROVE  /\ e = "EOK" => Given' = [Given EXCEPT ![s] = @ \cup {t}] /\ Refused' = Refused
           /\ e # "EOK" => Refused' = [Refused EXCEPT ![s] = @ \cup {t}] /\ Given' = Given
<1>1. LeavingThreads /\ LeavingThreads'
  BY LeavingIs
<1>2. on[t] = s /\ pc[t] \in Waits /\ on'[t] = s /\ pc'[t] \in Waits
  BY StepWaiters DEF WaitersWait, SamePlaces, Sem
<1>3. /\ k'.stat[t] = "READY" /\ k'.error[t] = e
      /\ \A u \in Thread \ {t} : k'.stat[u] = k.stat[u] /\ k'.error[u] = k.error[u]
  BY DEF Wakes
<1>4. ASSUME NEW x \in Sem, NEW ok \in BOOLEAN, NEW u \in Thread
      PROVE  u \in Leaving(x, ok)' <=>
               u \in Leaving(x, ok) \/ (u = t /\ x = s /\ ok = (e = "EOK"))
  <2>1. u \in Leaving(x, ok) <=>
          on[u] = x /\ pc[u] \in Waits /\ k.stat[u] # "SUSPEND" /\ ok = (k.error[u] = "EOK")
    BY <1>1 DEF LeavingThreads
  <2>2. u \in Leaving(x, ok)' <=>
          on'[u] = x /\ pc'[u] \in Waits /\ k'.stat[u] # "SUSPEND" /\ ok = (k'.error[u] = "EOK")
    BY <1>1 DEF LeavingThreads
  <2>3. CASE u = t
    <3>1. k.stat[t] = "SUSPEND"
      BY StepWaiters DEF WaitersWait, Sem
    <3>. QED  BY <1>2, <1>3, <2>1, <2>2, <2>3, <3>1
  <2>4. CASE u # t
    BY <1>3, <2>1, <2>2, <2>4 DEF SamePlaces
  <2>. QED  BY <2>3, <2>4
<1>5. ASSUME NEW x \in Sem, NEW ok \in BOOLEAN
      PROVE  Leaving(x, ok)' = IF x = s /\ ok = (e = "EOK") THEN Leaving(x, ok) \cup {t}
                               ELSE Leaving(x, ok)
  <2>1. Leaving(x, ok) \subseteq Thread /\ Leaving(x, ok)' \subseteq Thread
    BY DEF Leaving
  <2>. QED  BY <1>4, <2>1
<1>6. ASSUME e = "EOK"
      PROVE  Given' = [Given EXCEPT ![s] = @ \cup {t}] /\ Refused' = Refused
  <2>1. \A x \in Sem : Leaving(x, TRUE)' = IF x = s THEN Leaving(x, TRUE) \cup {t}
                                           ELSE Leaving(x, TRUE)
    BY <1>5, <1>6
  <2>2. \A x \in Sem : Leaving(x, FALSE)' = Leaving(x, FALSE)
    BY <1>5, <1>6
  <2>. QED  BY <2>1, <2>2 DEF Given, Refused
<1>7. ASSUME e # "EOK"
      PROVE  Refused' = [Refused EXCEPT ![s] = @ \cup {t}] /\ Given' = Given
  <2>1. \A x \in Sem : Leaving(x, FALSE)' = IF x = s THEN Leaving(x, FALSE) \cup {t}
                                           ELSE Leaving(x, FALSE)
    BY <1>5, <1>7
  <2>2. \A x \in Sem : Leaving(x, TRUE)' = Leaving(x, TRUE)
    BY <1>5, <1>7
  <2>. QED  BY <2>1, <2>2 DEF Given, Refused
<1>. QED  BY <1>6, <1>7

\* t, which was in no take or returns from one, is in line or out of it after
\* the step; the other threads in a take stay where they are.
LEMMA RunnerStep ==
    ASSUME IpcInv, IpcInv', NEW t \in Thread,
           k'.stat[t] = "SUSPEND" \/ pc'[t] \notin Waits,
           \A u \in Thread \ {t} : /\ pc'[u] \in Waits <=> pc[u] \in Waits
                                   /\ pc[u] \in Waits => on'[u] = on[u],
           \A u \in Thread \ {t} : k'.stat[u] = k.stat[u] /\ k'.error[u] = k.error[u]
    PROVE  \A x \in Sem, ok \in BOOLEAN : Leaving(x, ok)' = Leaving(x, ok) \ {t}
<1>1. LeavingThreads /\ LeavingThreads'
  BY LeavingIs
<1>2. ASSUME NEW x \in Sem, NEW ok \in BOOLEAN
      PROVE  Leaving(x, ok)' = Leaving(x, ok) \ {t}
  <2>1. ASSUME NEW u \in Thread PROVE u \in Leaving(x, ok)' <=> u \in Leaving(x, ok) \ {t}
    <3>1. u \in Leaving(x, ok) <=>
            on[u] = x /\ pc[u] \in Waits /\ k.stat[u] # "SUSPEND" /\ ok = (k.error[u] = "EOK")
      BY <1>1 DEF LeavingThreads
    <3>2. u \in Leaving(x, ok)' <=>
            on'[u] = x /\ pc'[u] \in Waits /\ k'.stat[u] # "SUSPEND" /\ ok = (k'.error[u] = "EOK")
      BY <1>1 DEF LeavingThreads
    <3>3. CASE u = t
      BY <3>2, <3>3
    <3>4. CASE u # t
      BY <3>1, <3>2, <3>4
    <3>. QED  BY <3>3, <3>4
  <2>2. Leaving(x, ok) \subseteq Thread /\ Leaving(x, ok)' \subseteq Thread
    BY DEF Leaving
  <2>. QED  BY <2>1, <2>2
<1>. QED  BY <1>2

-----------------------------------------------------------------------------
(* The steps of SemaphoreSpec *)

\* The lines have their type.
LinesTyped == AllLines \in [Sem -> [Prio -> Seq(Thread)]]

\* A function of two arguments that changes at one place.
LEMMA OneLineChanges ==
    ASSUME NEW X \in [Sem -> [Prio -> Seq(Thread)]], NEW Y \in [Sem -> [Prio -> Seq(Thread)]],
           NEW s \in Sem, NEW p \in Prio, NEW v, Y[s][p] = v,
           \A x \in Sem \ {s} : Y[x] = X[x], \A q \in Prio \ {p} : Y[s][q] = X[s][q]
    PROVE  Y = [X EXCEPT ![s][p] = v]
<1>1. PICK Z : Z = [X[s] EXCEPT ![p] = v]
  OBVIOUS
<1>2. X[s] \in [Prio -> Seq(Thread)] /\ Y[s] \in [Prio -> Seq(Thread)]
  OBVIOUS
<1>3. Z = [q \in Prio |-> IF q = p THEN v ELSE X[s][q]]
  BY <1>1, <1>2
<1>4. Y[s] = Z
  BY <1>2, <1>3
<1>5. [X EXCEPT ![s][p] = v] = [x \in Sem |-> IF x = s THEN Z ELSE X[x]]
  BY <1>1
<1>. QED  BY <1>4, <1>5

\* A thread takes a token that is available.
LEMMA IsTake ==
    ASSUME NEW s \in Sem, value[s] > 0, value' = [value EXCEPT ![s] = @ - 1], Still
    PROVE  Promise!Next
<1>1. Promise!Take(s)
  BY DEF Promise!Take, Still, AllLines, Given, Refused
<1>. QED  BY <1>1 DEF Promise!Next

\* A thread that is in no take joins its line.
LEMMA IsWait ==
    ASSUME NEW s \in Sem, NEW t \in Thread, value[s] = 0, value' = value,
           Given' = Given, Refused' = Refused,
           AllLines' = [AllLines EXCEPT ![s][LineFor(Flag[s], t)] = Append(@, t)],
           \A x \in Sem : t \notin Given[x] /\ t \notin Refused[x],
           \A x \in Sem, p \in Prio : t \notin ToSet(AllLines[x][p])
    PROVE  Promise!Next
<1>1. ~Promise!InUse(t)
  BY DEF Promise!InUse, Promise!ToSet, ToSet, AllLines, Given, Refused
<1>2. Promise!LineOf(s, t) = LineFor(Flag[s], t)
  BY DEF Promise!LineOf, LineFor
<1>3. Promise!Wait(t, s)
  BY <1>1, <1>2 DEF Promise!Wait, AllLines, Given, Refused
<1>. QED  BY <1>3 DEF Promise!Next

\* A release finds nobody in line.
LEMMA IsReleaseFree ==
    ASSUME NEW s \in Sem, value' = [value EXCEPT ![s] = @ + 1], Still,
           \A p \in Prio : AllLines[s][p] = <<>>
    PROVE  Promise!Next
<1>1. Promise!Lines(s) = {}
  BY DEF Promise!Lines, AllLines
<1>2. Promise!Release(s)
  BY <1>1 DEF Promise!Release, Still, AllLines, Given, Refused
<1>. QED  BY <1>2 DEF Promise!Next

\* A release gives its token to the first of the first line.
LEMMA IsReleaseServe ==
    ASSUME NEW s \in Sem, value' = value, NEW p \in Prio, AllLines[s][p] # <<>>,
           \A q \in Prio : AllLines[s][q] # <<>> => p <= q,
           NEW h, h = Head(AllLines[s][p]),
           Given' = [Given EXCEPT ![s] = @ \cup {h}], Refused' = Refused,
           AllLines' = [AllLines EXCEPT ![s][p] = Tail(@)]
    PROVE  Promise!Next
<1>1. PICK P : P = Promise!Lines(s)
  OBVIOUS
<1>2. P = {q \in Prio : AllLines[s][q] # <<>>}
  BY <1>1 DEF Promise!Lines, AllLines
<1>3. P \in SUBSET Nat /\ P # {} /\ p \in P /\ \A q \in P : p <= q
  BY <1>2, KernelAssumption DEF Prio
<1>4. Min(P) \in P /\ \A q \in P : Min(P) <= q
  BY <1>3, MinProperties
<1>5. Min(P) = p
  BY <1>3, <1>4
<1>6. Promise!Min(P) = p
  BY <1>5 DEF Promise!Min, Min
<1>7. Promise!Lines(s) # {} /\ Promise!Min(Promise!Lines(s)) = p
  BY <1>1, <1>3, <1>6
<1>8. Promise!Release(s)
  BY <1>7 DEF Promise!Release, AllLines, Given, Refused
<1>. QED  BY <1>8 DEF Promise!Next

\* A thread leaves its line without a token.
LEMMA IsRefuse ==
    ASSUME NEW s \in Sem, NEW t \in Thread, NEW p \in Prio, value' = value,
           t \in ToSet(AllLines[s][p]),
           Refused' = [Refused EXCEPT ![s] = @ \cup {t}], Given' = Given,
           AllLines' = [AllLines EXCEPT ![s][p] = RemoveFirst(@, t)]
    PROVE  Promise!Next
<1>1. PICK x : x = AllLines[s][p]
  OBVIOUS
<1>6. PICK J : J = {i \in 1 .. Len(x) : x[i] = t}
  OBVIOUS
<1>7. Promise!Min(J) = Min(J)
  BY DEF Promise!Min, Min
<1>2. Promise!RemoveFirst(x, t) = RemoveFirst(x, t)
  <2>1. Promise!SelectInSeq(x, LAMBDA v : v = t) = SelectInSeq(x, LAMBDA v : v = t)
    BY <1>6, <1>7 DEF Promise!SelectInSeq, SelectInSeq
  <2>. QED  BY <2>1 DEF Promise!RemoveFirst, RemoveFirst, Promise!RemoveAt, RemoveAt
<1>3. t \in Promise!ToSet(x)
  BY <1>1 DEF Promise!ToSet, ToSet
<1>4. AllLines' = [AllLines EXCEPT ![s][p] = Promise!RemoveFirst(AllLines[s][p], t)]
  BY <1>1, <1>2
<1>5. Promise!Refuse(t, s, p)
  BY <1>1, <1>3, <1>4 DEF Promise!Refuse, AllLines, Given, Refused
<1>. QED  BY <1>5 DEF Promise!Next

\* A thread that is out of line returns.
LEMMA IsReturn ==
    ASSUME NEW s \in Sem, NEW t \in Thread, value' = value, AllLines' = AllLines,
           t \in Given[s] \cup Refused[s],
           Given' = [Given EXCEPT ![s] = @ \ {t}], Refused' = [Refused EXCEPT ![s] = @ \ {t}]
    PROVE  Promise!Next
<1>1. Promise!Return(t, s)
  BY DEF Promise!Return, AllLines, Given, Refused
<1>. QED  BY <1>1 DEF Promise!Next

\* A semaphore nobody waits for gets a new value.
LEMMA IsReset ==
    ASSUME NEW s \in Sem, NEW v, v \in Resets \/ (v = InitValue /\ Deletable # {}),
           value' = [value EXCEPT ![s] = v], Still, \A p \in Prio : AllLines[s][p] = <<>>
    PROVE  Promise!Next
<1>1. Promise!Lines(s) = {}
  BY DEF Promise!Lines, AllLines
<1>2. Promise!Reset(s, v)
  BY <1>1 DEF Promise!Reset, Still, AllLines, Given, Refused
<1>3. v \in Resets \cup (IF Deletable = {} THEN {} ELSE {InitValue})
  OBVIOUS
<1>. QED  BY <1>2, <1>3 DEF Promise!Next

-----------------------------------------------------------------------------
(* The invariant behind the refinement *)

\* Nothing is deleted or being deleted.
NoneDeleted == open = Object /\ \A t \in Thread : pc[t] \notin {"del", "del_one"}

\* What the refinement needs besides the invariant: a thread in a list has no
\* error yet, the lists are sorted, by the priorities the threads were created
\* with, and a semaphore is created again only if it may be deleted.
RefInv ==
    /\ Inv /\ WaitersClean /\ HighestPrioFirst
    /\ k.prio = InitPrio
    /\ Deletable = {} => NoneDeleted

\* What this says of the lists.
ListsFit == \A s \in Sem : SemList(k.list[s], Flag[s])

\* The lists are what the lemmas about lines ask for.
LEMMA RefLists == RefInv => ListsFit /\ LinesTyped
<1>. SUFFICES ASSUME RefInv PROVE ListsFit /\ LinesTyped
  OBVIOUS
<1>1. /\ CoherentState(k) /\ k \in KernelState /\ PrioSorted(k) /\ k.prio = InitPrio
      /\ Flag \in [Object -> {"FIFO", "PRIO"}]
  BY SortedFirst, IpcAssumption DEF RefInv, Inv, IpcInv, IpcTypeOK, Coherent, CoherentState
<1>2. ASSUME NEW s \in Sem PROVE SemList(k.list[s], Flag[s])
  <2>1. s \in Object /\ s \in List
    BY DEF Sem, Object
  <2>2. k.list[s] \in Seq(Thread) /\ IsInjective(k.list[s])
    BY <1>1, <2>1 DEF KernelState, CoherentState, KernelCoherent, SuspendListsCoherent
  <2>3. Flag[s] = "PRIO" => Sorted(InitPrio, k.list[s])
    BY <1>1, <2>1 DEF PrioSorted
  <2>. QED  BY <1>1, <2>1, <2>2, <2>3 DEF SemList
<1>3. \A s \in Sem, p \in Prio : Line(k.list[s], Flag[s], p) \in Seq(Thread)
  BY <1>2, LineType
<1>4. LinesTyped
  BY <1>3 DEF LinesTyped, AllLines
<1>. QED  BY <1>2, <1>4 DEF ListsFit

\* A release, a reset, a deletion or a timeout reaches a thread that waits
\* before anything else wrote its error.
LEMMA CleanStep ==
    ASSUME Inv, WaitersClean, Next
    PROVE  WaitersClean'
<1>1. IpcInv /\ open \subseteq Object /\ corrupt \in BOOLEAN /\ NoObject \in Object \cup {NoObject}
  BY DEF Inv, IpcInv, IpcTypeOK
<1>2. /\ {"run", "sched", "irq_off"} \subseteq PC \ Waits
      /\ "run" \notin WorksOnObject /\ "sched" \notin WorksOnObject
  BY Labels DEF Waits
<1>3. CASE Interrupt
  <2>1. ASSUME NEW s \in Sem, ReleaseIsr(s) PROVE WaitersClean'
    <3>1. ResumesOneIsr(s) /\ UNCHANGED <<open, pc, on, corrupt>> /\ s \in Object
      BY <2>1 DEF ReleaseIsr, ResumesOneIsr, Sem
    <3>. QED  BY <1>1, <3>1, ServingIsr
  <2>2. CASE Tick
    BY <1>1, <2>2, TickServes, ServedClean
  <2>. QED  BY <1>3, <2>1, <2>2 DEF Interrupt
<1>4. ASSUME NEW t \in App, InCall(t) PROVE WaitersClean'
  <2>1. CASE TakeReturn(t)
    <3>1. /\ Runs(t, "wait_ret") /\ Goes(t, "run", NoObject) /\ UNCHANGED k
          /\ open' \subseteq Object /\ corrupt' \in BOOLEAN
      BY <1>1, <2>1 DEF TakeReturn, Returns
    <3>. QED  BY <1>1, <1>2, <3>1, GoingStep
  <2>2. CASE ControlLoop(t)
    <3>1. Runs(t, "irq_off") /\ UNCHANGED <<open, corrupt>>
      BY <2>2 DEF ControlLoop
    <3>2. on[t] \in Object
      BY <1>1, <3>1, Runner, Labels
    <3>3. CASE k.list[on[t]] # <<>>
      <4>1. k' = ResumeFirst(on[t]) /\ UNCHANGED <<open, pc, on, corrupt>>
        BY <2>2, <3>3 DEF ControlLoop
      <4>. QED  BY <1>1, <3>2, <3>3, <4>1, RefusingStep
    <3>4. CASE k.list[on[t]] = <<>>
      <4>1. /\ Goes(t, "sched", NoObject) /\ UNCHANGED k
            /\ open' \subseteq Object /\ corrupt' \in BOOLEAN
        BY <1>1, <2>2, <3>4 DEF ControlLoop
      <4>. QED  BY <1>1, <1>2, <3>1, <4>1, GoingStep
    <3>. QED  BY <3>3, <3>4
  <2>3. CASE IpcInCall(t)
    BY <1>1, <2>3, IpcInCallServes, ServedClean
  <2>. QED  BY <1>4, <2>1, <2>2, <2>3 DEF InCall
<1>5. ASSUME NEW t \in App, Call(t) PROVE WaitersClean'
  <2>1. ASSUME NEW s \in Sem, NEW timed \in BOOLEAN, TakeBlock(t, s, timed) PROVE WaitersClean'
    <3>1. /\ Runs(t, "run") /\ k' = Wait([k EXCEPT !.error[t] = "EOK"], t, s, timed)
          /\ Goes(t, "wait_sched", s) /\ UNCHANGED <<open, corrupt>> /\ s \in Object
      BY <2>1 DEF TakeBlock, Sem
    <3>. QED  BY <1>1, <3>1, BlockingStep
  <2>2. ASSUME NEW s \in Sem, Release(t, s) PROVE WaitersClean'
    <3>1. CASE k.list[s] # <<>>
      <4>1. Runs(t, "run") /\ ResumesOne(t, s) /\ UNCHANGED <<open, corrupt>> /\ s \in Object
        BY <2>2, <3>1 DEF Release, ResumesOne, Sem
      <4>. QED  BY <1>1, <4>1, ServingStep
    <3>2. CASE k.list[s] = <<>>
      <4>1. UNCHANGED <<k, pc, on>> /\ open' \subseteq Object /\ corrupt' \in BOOLEAN
        BY <1>1, <2>2, <3>2 DEF Release
      <4>. QED  BY <1>1, <4>1, IdleStep
    <3>. QED  BY <3>1, <3>2
  <2>3. ASSUME NEW s \in Sem, Control(t, s) PROVE WaitersClean'
    <3>1. /\ Runs(t, "run") /\ Goes(t, "irq_off", s) /\ UNCHANGED k /\ s \in Object
          /\ open' \subseteq Object /\ corrupt' \in BOOLEAN
      BY <1>1, <2>3 DEF Control, Sem
    <3>. QED  BY <1>1, <1>2, <3>1, GoingStep
  <2>4. ASSUME NEW s \in Sem, TakeAvailable(t, s) \/ SemCreate(t, s) PROVE WaitersClean'
    <3>1. UNCHANGED <<k, pc, on>> /\ open' \subseteq Object /\ corrupt' \in BOOLEAN
      BY <1>1, <2>4 DEF TakeAvailable, SemCreate, Create, ipcVars, Sem
    <3>. QED  BY <1>1, <3>1, IdleStep
  <2>5. CASE IpcCall(t)
    BY <1>1, <2>5, IpcCallServes, ServedClean
  <2>. QED  BY <1>5, <2>1, <2>2, <2>3, <2>4, <2>5 DEF Call
<1>. QED  BY <1>3, <1>4, <1>5 DEF Next

\* A thread goes on; the others stay where they are.
LEMMA GoesIs ==
    ASSUME IpcInv, NEW t \in App, NEW label, NEW o, Goes(t, label, o)
    PROVE  /\ t \in Thread /\ pc'[t] = label /\ on'[t] = o
           /\ \A u \in Thread \ {t} : pc'[u] = pc[u] /\ on'[u] = on[u]
<1>1. pc \in [Thread -> PC] /\ on \in [Thread -> Object \cup {NoObject}] /\ t \in Thread
  BY DEF IpcInv, IpcTypeOK, App
<1>. QED  BY <1>1 DEF Goes

\* If nothing may be deleted, nothing is.
LEMMA NoneDeletedStep ==
    ASSUME Deletable = {}, Inv, NoneDeleted, Next
    PROVE  NoneDeleted'
<1>1. IpcInv /\ open = Object /\ \A t \in Thread : pc[t] \notin {"del", "del_one"}
  BY DEF Inv, NoneDeleted
<1>2. ASSUME NEW t \in App, NEW label, label \notin {"del", "del_one"}, NEW o, Goes(t, label, o),
             UNCHANGED open
      PROVE  NoneDeleted'
  BY <1>1, <1>2, GoesIs DEF NoneDeleted
<1>3. ASSUME UNCHANGED pc, UNCHANGED open PROVE NoneDeleted'
  BY <1>1, <1>3 DEF NoneDeleted
<1>4. CASE Interrupt
  BY <1>3, <1>4 DEF Interrupt, ReleaseIsr, Tick, SliceEnd, Timeout
<1>5. ASSUME NEW t \in App, InCall(t) PROVE NoneDeleted'
  <2>1. pc[t] \notin {"del", "del_one"}
    BY <1>1 DEF App
  <2>2. CASE TakeReturn(t)
    BY <1>2, <2>2 DEF TakeReturn, Returns
  <2>3. CASE ControlLoop(t)
    BY <1>2, <1>3, <2>3 DEF ControlLoop
  <2>4. CASE WaitSchedule(t)
    BY <1>2, <2>4 DEF WaitSchedule
  <2>5. CASE Schedule(t)
    BY <1>2, <2>5 DEF Schedule, Returns
  <2>6. CASE DeleteTest(t) \/ DeleteOne(t)
    BY <2>1, <2>6 DEF DeleteTest, DeleteOne, Runs
  <2>7. CASE SleepSchedule(t)
    BY <1>2, <2>7 DEF SleepSchedule
  <2>8. CASE SleepReturn(t)
    BY <1>2, <2>8 DEF SleepReturn, Returns
  <2>. QED  BY <1>5, <2>2, <2>3, <2>4, <2>5, <2>6, <2>7, <2>8 DEF InCall, IpcInCall
<1>6. ASSUME NEW t \in App, Call(t) PROVE NoneDeleted'
  <2>1. ASSUME NEW s \in Sem, NEW timed \in BOOLEAN, TakeBlock(t, s, timed) PROVE NoneDeleted'
    BY <1>2, <2>1 DEF TakeBlock
  <2>2. ASSUME NEW s \in Sem, Release(t, s) PROVE NoneDeleted'
    BY <1>2, <1>3, <2>2 DEF Release
  <2>3. ASSUME NEW s \in Sem, Control(t, s) PROVE NoneDeleted'
    BY <1>2, <2>3 DEF Control
  <2>4. ASSUME NEW s \in Sem, TakeAvailable(t, s) PROVE NoneDeleted'
    BY <1>3, <2>4 DEF TakeAvailable, ipcVars
  <2>5. ASSUME NEW s \in Sem, SemCreate(t, s) PROVE FALSE
    BY <1>1, <2>5 DEF SemCreate, Create, Sem
  <2>6. ASSUME NEW o \in Object, Delete(t, o) PROVE FALSE
    BY <2>6 DEF Delete
  <2>7. CASE Sleep(t)
    BY <1>2, <2>7 DEF Sleep
  <2>8. ASSUME NEW u \in App, NEW p \in NewPrio, ChangePriority(t, u, p) PROVE NoneDeleted'
    BY <1>3, <2>8 DEF ChangePriority
  <2>. QED  BY <1>6, <2>1, <2>2, <2>3, <2>4, <2>5, <2>6, <2>7, <2>8 DEF Call, IpcCall
<1>. QED  BY <1>4, <1>5, <1>6 DEF Next

\* What a take that blocks does to the kernel.
LEMMA TakeBlockIs ==
    ASSUME Inv, NEW t \in App, NEW s \in Sem, NEW timed \in BOOLEAN, TakeBlock(t, s, timed)
    PROVE  /\ t \in Thread /\ k'.prio = k.prio
           /\ \A l \in List : t \notin ToSet(k.list[l])
           /\ k'.list[s] = IF Flag[s] = "FIFO" THEN Append(k.list[s], t)
                           ELSE PrioInsert(k.prio, k.list[s], t)
           /\ \A l \in List \ {s} : k'.list[l] = k.list[l]
           /\ k'.stat[t] = "SUSPEND"
           /\ \A u \in Thread \ {t} : k'.stat[u] = k.stat[u] /\ k'.error[u] = k.error[u]
<1>1. PICK q : q = [k EXCEPT !.error[t] = "EOK"]
  OBVIOUS
<1>2. Runs(t, "run") /\ k' = Wait(q, t, s, timed) /\ IpcInv /\ s \in Object
  BY <1>1 DEF TakeBlock, Inv, Sem
<1>3. CoherentState(k) /\ k \in KernelState /\ t \in Thread /\ t # Idle /\ k.stat[t] = "READY"
  BY <1>2, Runner DEF App
<1>4. CoherentState(q) /\ q.stat = k.stat /\ q.prio = k.prio /\ q.list = k.list
  BY <1>1, <1>3, ErrorCoherent DEF Error
<1>5. k.error \in [Thread -> Error]
  BY <1>3 DEF KernelState
<1>6. \A u \in Thread \ {t} : q.error[u] = k.error[u]
  BY <1>1, <1>3, <1>5 DEF KernelState
<1>7. q.stat[t] = "READY"
  BY <1>3, <1>4
<1>8. Queued(q, t, s, k')
  BY <1>2, <1>3, <1>4, <1>7, WaitQueues
<1>9. k'.list[s] = IF Flag[s] = "FIFO" THEN Append(q.list[s], t)
                   ELSE PrioInsert(q.prio, q.list[s], t)
  BY <1>2, <1>3, <1>4, <1>7, WaitInserts
<1>10. /\ k'.stat[t] = "SUSPEND" /\ k'.prio = q.prio /\ k'.error = q.error
       /\ \A u \in Thread \ {t} : k'.stat[u] = q.stat[u]
       /\ \A l \in List \ {s} : k'.list[l] = q.list[l]
  BY <1>8 DEF Queued
<1>11. \A l \in List : t \notin ToSet(k.list[l])
  BY <1>3, CoherentLists
<1>12. k'.list[s] = IF Flag[s] = "FIFO" THEN Append(k.list[s], t)
                    ELSE PrioInsert(k.prio, k.list[s], t)
  BY <1>4, <1>9
<1>. QED  BY <1>3, <1>4, <1>6, <1>10, <1>11, <1>12

\* Every step keeps the invariant.
LEMMA RefStep ==
    ASSUME NewPrio = {}, RefInv, Inv', Next
    PROVE  RefInv'
<1>1. Inv /\ WaitersClean /\ HighestPrioFirst /\ k.prio = InitPrio /\ (Deletable = {} => NoneDeleted)
  BY DEF RefInv
<1>2. WaitersClean'
  BY <1>1, CleanStep
<1>3. HighestPrioFirst'
  BY <1>1, SortStep
<1>4. Deletable = {} => NoneDeleted'
  BY <1>1, NoneDeletedStep
<1>5. k'.prio = InitPrio
  <2>1. ASSUME NEW t \in App, NEW s \in Sem, NEW timed \in BOOLEAN, TakeBlock(t, s, timed)
        PROVE  k'.prio = k.prio
    BY <1>1, <2>1, TakeBlockIs
  <2>2. CASE \A t \in App, s \in Sem, timed \in BOOLEAN : ~TakeBlock(t, s, timed)
    BY <1>1, <2>2, PruneStep DEF Prunes
  <2>. QED  BY <1>1, <2>1, <2>2
<1>. QED  BY <1>2, <1>3, <1>4, <1>5 DEF RefInv

-----------------------------------------------------------------------------
(* Every step is a step of SemaphoreSpec *)

\* The lines of a semaphore, before and after a step.
LEMMA LinesAre ==
    ASSUME NEW s \in Sem
    PROVE  /\ \A p \in Prio : AllLines[s][p] = Line(k.list[s], Flag[s], p)
           /\ \A p \in Prio : AllLines'[s][p] = Line(k'.list[s], Flag[s], p)
           /\ k'.list[s] = k.list[s] => AllLines'[s] = AllLines[s]
  BY DEF AllLines

\* The lines that are left have their types.
LEMMA LinesStep ==
    ASSUME RefInv, RefInv'
    PROVE  /\ AllLines \in [Sem -> [Prio -> Seq(Thread)]]
           /\ AllLines' \in [Sem -> [Prio -> Seq(Thread)]]
           /\ \A s \in Sem : SemList(k.list[s], Flag[s])
<1>1. RefInv' => LinesTyped'
  BY RefLists, PTL
<1>. QED  BY <1>1, RefLists DEF LinesTyped, ListsFit

\* A semaphore with an empty list has empty lines.
LEMMA NobodyInLine ==
    ASSUME RefInv, RefInv', NEW s \in Sem, k.list[s] = <<>>
    PROVE  \A p \in Prio : AllLines[s][p] = <<>>
<1>1. SemList(<<>>, Flag[s])
  BY LinesStep
<1>. QED  BY <1>1, LinesAre, LinesEmpty

\* A release resumes the first thread of the list.
LEMMA ServeRefines ==
    ASSUME RefInv, RefInv', SamePlaces, value' = value, NEW s \in Sem, k.list[s] # <<>>,
           \/ k' = rt_ipc_list_resume(k, s)
           \/ k' = rt_schedule(rt_ipc_list_resume(k, s))
    PROVE  Promise!Next
<1>1. CoherentState(k) /\ IpcInv /\ IpcInv' /\ WaitersClean
  BY DEF RefInv, Inv, IpcInv, IpcTypeOK, Coherent, CoherentState
<1>2. PICK h : h = Head(k.list[s])
  OBVIOUS
<1>3. h \in Thread /\ h \in Waiting(s) /\ Wakes(k, k', s, h, k.error[h])
  BY <1>1, <1>2, FirstWakes
<1>4. k.error[h] = "EOK"
  BY <1>1, <1>3 DEF WaitersClean, Sem
<1>5. Wakes(k, k', s, h, "EOK")
  BY <1>3, <1>4
<1>6. Given' = [Given EXCEPT ![s] = @ \cup {h}] /\ Refused' = Refused
  BY <1>1, <1>3, <1>5, WakeStep
<1>7. /\ AllLines \in [Sem -> [Prio -> Seq(Thread)]] /\ AllLines' \in [Sem -> [Prio -> Seq(Thread)]]
      /\ SemList(k.list[s], Flag[s])
  BY LinesStep
<1>8. k'.list[s] = RemoveFirst(k.list[s], h) /\ \A x \in Sem \ {s} : k'.list[x] = k.list[x]
  BY <1>5 DEF Wakes, Sem, Object
<1>9. PICK p : p = LineFor(Flag[s], h)
  OBVIOUS
<1>10. /\ p \in Prio /\ Line(k.list[s], Flag[s], p) # <<>>
       /\ Head(Line(k.list[s], Flag[s], p)) = h
       /\ \A q \in Prio : Line(k.list[s], Flag[s], q) # <<>> => p <= q
       /\ \A q \in Prio : Line(k'.list[s], Flag[s], q) =
            IF q = p THEN Tail(Line(k.list[s], Flag[s], q)) ELSE Line(k.list[s], Flag[s], q)
  <2>1. PICK f : f = k.list[s]
    OBVIOUS
  <2>2. PICK g : g = k'.list[s]
    OBVIOUS
  <2>3. PICK flag : flag = Flag[s]
    OBVIOUS
  <2>4. /\ SemList(f, flag) /\ f # <<>> /\ h = Head(f)
        /\ g = RemoveFirst(f, Head(f)) /\ p = LineFor(flag, Head(f))
    BY <1>2, <1>7, <1>8, <1>9, <2>1, <2>2, <2>3
  <2>5. /\ p \in Prio /\ Line(f, flag, p) # <<>> /\ Head(Line(f, flag, p)) = h
        /\ \A q \in Prio : Line(f, flag, q) # <<>> => p <= q
        /\ \A q \in Prio : Line(g, flag, q) = IF q = p THEN Tail(Line(f, flag, q)) ELSE Line(f, flag, q)
    BY <2>4, LinesServe
  <2>. QED  BY <2>1, <2>2, <2>3, <2>5
<1>11. /\ AllLines[s][p] # <<>> /\ h = Head(AllLines[s][p])
       /\ \A q \in Prio : AllLines[s][q] # <<>> => p <= q
       /\ AllLines'[s][p] = Tail(AllLines[s][p])
       /\ \A q \in Prio \ {p} : AllLines'[s][q] = AllLines[s][q]
  BY <1>10, LinesAre
<1>12. \A x \in Sem \ {s} : AllLines'[x] = AllLines[x]
  BY <1>8, LinesAre
<1>13. AllLines' = [AllLines EXCEPT ![s][p] = Tail(AllLines[s][p])]
  <2>1. PICK v : v = Tail(AllLines[s][p])
    OBVIOUS
  <2>2. AllLines'[s][p] = v /\ p \in Prio /\ \A q \in Prio \ {p} : AllLines'[s][q] = AllLines[s][q]
    BY <1>10, <1>11, <2>1
  <2>3. AllLines \in [Sem -> [Prio -> Seq(Thread)]] /\ AllLines' \in [Sem -> [Prio -> Seq(Thread)]]
    BY <1>7
  <2>4. AllLines' = [AllLines EXCEPT ![s][p] = v]
    BY <1>12, <2>2, <2>3, OneLineChanges
  <2>. QED  BY <2>1, <2>4
<1>. QED  BY <1>6, <1>10, <1>11, <1>13, IsReleaseServe

\* A reset, a deletion or a timeout wakes a thread of the list.
LEMMA RefuseRefines ==
    ASSUME RefInv, RefInv', SamePlaces, value' = value, NEW s \in Sem,
           NEW t \in Thread, t \in Waiting(s), NEW e, e # "EOK", Wakes(k, k', s, t, e)
    PROVE  Promise!Next
<1>1. IpcInv /\ IpcInv'
  BY DEF RefInv, Inv
<1>2. Refused' = [Refused EXCEPT ![s] = @ \cup {t}] /\ Given' = Given
  BY <1>1, WakeStep
<1>3. /\ AllLines \in [Sem -> [Prio -> Seq(Thread)]] /\ AllLines' \in [Sem -> [Prio -> Seq(Thread)]]
      /\ SemList(k.list[s], Flag[s])
  BY LinesStep
<1>4. k'.list[s] = RemoveFirst(k.list[s], t) /\ \A x \in Sem \ {s} : k'.list[x] = k.list[x]
  BY DEF Wakes, Sem, Object
<1>5. PICK p : p = LineFor(Flag[s], t)
  OBVIOUS
<1>6. p \in Prio /\ t \in ToSet(k.list[s])
  BY <1>5, LineForPrio DEF Waiting
<1>7. /\ t \in ToSet(Line(k.list[s], Flag[s], p))
      /\ Line(k'.list[s], Flag[s], p) = RemoveFirst(Line(k.list[s], Flag[s], p), t)
  BY <1>3, <1>4, <1>5, <1>6, LinesDrop
<1>8. \A q \in Prio \ {p} : Line(k'.list[s], Flag[s], q) = Line(k.list[s], Flag[s], q)
  BY <1>3, <1>4, <1>5, <1>6, LinesDrop
<1>9. /\ t \in ToSet(AllLines[s][p]) /\ AllLines'[s][p] = RemoveFirst(AllLines[s][p], t)
      /\ \A q \in Prio \ {p} : AllLines'[s][q] = AllLines[s][q]
  BY <1>6, <1>7, <1>8, LinesAre
<1>10. \A x \in Sem \ {s} : AllLines'[x] = AllLines[x]
  BY <1>4, LinesAre
<1>11. AllLines' = [AllLines EXCEPT ![s][p] = RemoveFirst(AllLines[s][p], t)]
  BY <1>3, <1>6, <1>9, <1>10, OneLineChanges
<1>. QED  BY <1>2, <1>6, <1>9, <1>11, IsRefuse

\* A take joins a line.
LEMMA BlockRefines ==
    ASSUME RefInv, RefInv', NEW t \in App, NEW s \in Sem, NEW timed \in BOOLEAN,
           TakeBlock(t, s, timed)
    PROVE  Promise!Next
<1>1. Inv /\ IpcInv /\ IpcInv' /\ k.prio = InitPrio
  BY DEF RefInv, Inv
<1>2. Runs(t, "run") /\ value[s] = 0 /\ value' = value /\ Goes(t, "wait_sched", s)
  BY DEF TakeBlock
<1>3. /\ t \in Thread /\ \A l \in List : t \notin ToSet(k.list[l])
      /\ k'.list[s] = IF Flag[s] = "FIFO" THEN Append(k.list[s], t)
                      ELSE PrioInsert(InitPrio, k.list[s], t)
      /\ \A l \in List \ {s} : k'.list[l] = k.list[l]
      /\ k'.stat[t] = "SUSPEND"
      /\ \A u \in Thread \ {t} : k'.stat[u] = k.stat[u] /\ k'.error[u] = k.error[u]
  BY <1>1, TakeBlockIs
<1>4. \A u \in Thread \ {t} : pc'[u] = pc[u] /\ on'[u] = on[u]
  BY <1>1, <1>2, GoesIs
<1>5. \A x \in Sem, ok \in BOOLEAN : Leaving(x, ok)' = Leaving(x, ok) \ {t}
  BY <1>1, <1>3, <1>4, RunnerStep
<1>6. pc[t] \notin Waits
  BY <1>2 DEF Runs, Waits
<1>7. \A x \in Sem, ok \in BOOLEAN : t \notin Leaving(x, ok)
  BY <1>6 DEF Leaving, Waits
<1>8. \A x \in Sem, ok \in BOOLEAN : Leaving(x, ok)' = Leaving(x, ok)
  BY <1>5, <1>7
<1>9. Given' = Given /\ Refused' = Refused /\ \A x \in Sem : t \notin Given[x] /\ t \notin Refused[x]
  BY <1>7, <1>8 DEF Given, Refused
<1>10. /\ AllLines \in [Sem -> [Prio -> Seq(Thread)]] /\ AllLines' \in [Sem -> [Prio -> Seq(Thread)]]
       /\ \A x \in Sem : SemList(k.list[x], Flag[x])
  BY LinesStep
<1>11. PICK p : p = LineFor(Flag[s], t)
  OBVIOUS
<1>12. p \in Prio
  BY <1>3, <1>11, LineForPrio
<1>13. \A q \in Prio : Line(k'.list[s], Flag[s], q) =
         IF q = p THEN Append(Line(k.list[s], Flag[s], q), t) ELSE Line(k.list[s], Flag[s], q)
  <2>1. PICK f : f = k.list[s]
    OBVIOUS
  <2>2. PICK g : g = k'.list[s]
    OBVIOUS
  <2>3. PICK flag : flag = Flag[s]
    OBVIOUS
  <2>4. /\ SemList(f, flag) /\ t \notin ToSet(f) /\ p = LineFor(flag, t) /\ t \in Thread
        /\ g = IF flag = "FIFO" THEN Append(f, t) ELSE PrioInsert(InitPrio, f, t)
    BY <1>3, <1>10, <1>11, <2>1, <2>2, <2>3 DEF Sem, Object
  <2>5. ASSUME NEW q \in Prio
        PROVE  Line(g, flag, q) = IF q = LineFor(flag, t) THEN Append(Line(f, flag, q), t)
                                  ELSE Line(f, flag, q)
    <3>1. SemList(f, flag) /\ t \notin ToSet(f) /\ t \in Thread
      BY <2>4
    <3>2. g = IF flag = "FIFO" THEN Append(f, t) ELSE PrioInsert(InitPrio, f, t)
      BY <2>4
    <3>. QED  BY <3>1, <3>2, LinesJoin
  <2>. QED  BY <2>1, <2>2, <2>3, <2>4, <2>5
<1>14. /\ AllLines'[s][p] = Append(AllLines[s][p], t)
       /\ \A q \in Prio \ {p} : AllLines'[s][q] = AllLines[s][q]
  <2>1. \A q \in Prio : AllLines[s][q] = Line(k.list[s], Flag[s], q)
    BY LinesAre
  <2>2. \A q \in Prio : AllLines'[s][q] = Line(k'.list[s], Flag[s], q)
    BY LinesAre
  <2>. QED  BY <1>12, <1>13, <2>1, <2>2
<1>15. \A x \in Sem \ {s} : AllLines'[x] = AllLines[x]
  BY <1>3, LinesAre DEF Sem, Object
<1>16. AllLines' = [AllLines EXCEPT ![s][p] = Append(AllLines[s][p], t)]
  BY <1>10, <1>12, <1>14, <1>15, OneLineChanges
<1>17. ASSUME NEW x \in Sem, NEW q \in Prio PROVE t \notin ToSet(AllLines[x][q])
  <2>1. PICK z : z = Line(k.list[x], Flag[x], q)
    OBVIOUS
  <2>2. SemList(k.list[x], Flag[x])
    BY <1>10
  <2>3. z \in Seq(Thread) /\ \A i \in 1 .. Len(z) : z[i] \in ToSet(k.list[x])
    BY <2>1, <2>2, LineType
  <2>4. t \notin ToSet(z)
    BY <1>3, <2>3 DEF ToSet, Sem, Object
  <2>. QED  BY <2>1, <2>4, LinesAre
<1>. QED  BY <1>2, <1>3, <1>9, <1>11, <1>16, <1>17, IsWait

\* A thread returns from the take in which it waited.
LEMMA ReturnRefines ==
    ASSUME RefInv, RefInv', NEW t \in App, TakeReturn(t)
    PROVE  Promise!Next
<1>1. IpcInv /\ IpcInv'
  BY DEF RefInv, Inv
<1>2. Runs(t, "wait_ret") /\ Goes(t, "run", NoObject) /\ k' = k /\ value' = value
  BY DEF TakeReturn, Returns
<1>3. PICK s : s = on[t]
  OBVIOUS
<1>4. s \in Sem /\ t \in Thread /\ k.stat[t] = "READY" /\ pc[t] = "wait_ret"
  BY <1>1, <1>2, <1>3, Runner, Labels DEF Sem
<1>5. pc'[t] = "run" /\ \A u \in Thread \ {t} : pc'[u] = pc[u] /\ on'[u] = on[u]
  BY <1>1, <1>2, GoesIs
<1>6. pc[t] \in Waits /\ pc'[t] \notin Waits
  BY <1>4, <1>5 DEF Waits
<1>7. \A x \in Sem, ok \in BOOLEAN : Leaving(x, ok)' = Leaving(x, ok) \ {t}
  BY <1>1, <1>2, <1>4, <1>5, <1>6, RunnerStep
<1>8. LeavingThreads
  BY <1>1, LeavingIs
<1>9. \A x \in Sem \ {s}, ok \in BOOLEAN : t \notin Leaving(x, ok)
  BY <1>3, <1>4, <1>8 DEF LeavingThreads
<1>10. t \in Leaving(s, TRUE) \cup Leaving(s, FALSE)
  <2>1. k.error[t] = "EOK" => t \in Leaving(s, TRUE)
    BY <1>3, <1>4, <1>6, <1>8 DEF LeavingThreads
  <2>2. k.error[t] # "EOK" => t \in Leaving(s, FALSE)
    BY <1>3, <1>4, <1>6, <1>8 DEF LeavingThreads
  <2>. QED  BY <2>1, <2>2
<1>11. Given' = [Given EXCEPT ![s] = @ \ {t}]
  <2>1. \A x \in Sem : Leaving(x, TRUE)' = IF x = s THEN Leaving(x, TRUE) \ {t} ELSE Leaving(x, TRUE)
    BY <1>7, <1>9
  <2>. QED  BY <1>4, <2>1 DEF Given
<1>12. Refused' = [Refused EXCEPT ![s] = @ \ {t}]
  <2>1. \A x \in Sem : Leaving(x, FALSE)' = IF x = s THEN Leaving(x, FALSE) \ {t} ELSE Leaving(x, FALSE)
    BY <1>7, <1>9
  <2>. QED  BY <1>4, <2>1 DEF Refused
<1>13. AllLines' = AllLines
  BY <1>2, SameLines
<1>14. t \in Given[s] \cup Refused[s]
  BY <1>4, <1>10 DEF Given, Refused
<1>. QED  BY <1>2, <1>4, <1>11, <1>12, <1>13, <1>14, IsReturn

\* A step that at most calls rt_schedule changes nothing a semaphore promises.
LEMMA KernelStill ==
    ASSUME RefInv, RefInv', SamePlaces, k' = k \/ k' = rt_schedule(k)
    PROVE  Still
<1>1. IpcInv /\ IpcInv' /\ CoherentState(k)
  BY DEF RefInv, Inv, IpcInv, IpcTypeOK, Coherent, CoherentState
<1>2. k'.stat = k.stat /\ k'.error = k.error /\ \A l \in List : k'.list[l] = k.list[l]
  BY <1>1, ScheduleCoherent DEF SameThreads
<1>. QED  BY <1>1, <1>2, StillStep

\* A timeout ends a wait or a sleep.
LEMMA TimeoutRefines ==
    ASSUME RefInv, RefInv', NEW t, Timeout(t), value' = value
    PROVE  Promise!Next \/ Still
<1>1. IpcInv /\ IpcInv' /\ CoherentState(k) /\ k \in KernelState
  BY DEF RefInv, Inv, IpcInv, IpcTypeOK, Coherent, CoherentState
<1>2. PICK q : q = rt_thread_timeout(k, t)
  OBVIOUS
<1>3. t \in k.timer /\ k' = rt_schedule(q) /\ UNCHANGED <<pc, on>>
  BY <1>2 DEF Timeout, Rescheduled
<1>4. t \in Thread /\ k.stat[t] = "SUSPEND" /\ Woken(k, t, "ETIMEOUT", q)
  BY <1>1, <1>2, <1>3, TimeoutWakes
<1>5. "ETIMEOUT" \in Error
  BY DEF Error
<1>6. Prunes(k, q)
  BY <1>1, <1>2, <1>4, <1>5, WakePrunes
<1>7. SamePlaces
  BY <1>3 DEF SamePlaces
<1>8. ASSUME NEW s \in Sem, t \in Waiting(s) PROVE Promise!Next
  <2>1. s \in List /\ t \in ToSet(k.list[s])
    BY <1>8 DEF Sem, Object, Waiting
  <2>2. Wakes(k, k', s, t, "ETIMEOUT")
    BY <1>1, <1>3, <1>4, <1>6, <2>1, WokenWakes
  <2>. QED  BY <1>4, <1>7, <1>8, <2>2, RefuseRefines
<1>9. CASE \A s \in Sem : t \notin Waiting(s)
  <2>1. pc[t] \notin Waits
    <3>1. ASSUME pc[t] \in Waits PROVE FALSE
      <4>1. on[t] \in Object
        BY <1>1, <1>4, <3>1 DEF IpcInv, CallsHaveObjects, WorksOnObject
      <4>2. t \in Waiting(on[t])
        BY <1>1, <1>4, <3>1, <4>1, StepWaiters DEF WaitersWait
      <4>. QED  BY <1>9, <4>1, <4>2 DEF Sem
    <3>. QED  BY <3>1
  <2>2. /\ CoherentState(q) /\ q.stat = [k.stat EXCEPT ![t] = "READY"]
        /\ q.error = [k.error EXCEPT ![t] = "ETIMEOUT"]
        /\ \A l \in List : t \notin ToSet(k.list[l]) => q.list[l] = k.list[l]
    BY <1>4 DEF Woken
  <2>3. k.stat \in [Thread -> Stat] /\ k.error \in [Thread -> Error]
    BY <1>1 DEF KernelState
  <2>4. k'.stat = q.stat /\ k'.error = q.error /\ \A l \in List : k'.list[l] = q.list[l]
    BY <1>3, <2>2, ScheduleCoherent DEF SameThreads
  <2>5. \A u \in Thread \ {t} : k'.stat[u] = k.stat[u] /\ k'.error[u] = k.error[u]
    BY <2>2, <2>3, <2>4
  <2>6. \A l \in List : k'.list[l] = k.list[l]
    BY <1>9, <2>2, <2>4 DEF Sem, Object, Waiting
  <2>. QED  BY <1>1, <1>7, <2>1, <2>5, <2>6, StillStep
<1>. QED  BY <1>8, <1>9

\* The steps that the services share.
LEMMA SharedRefines ==
    ASSUME NewPrio = {}, RefInv, RefInv', NEW t \in App, IpcInCall(t) \/ IpcCall(t), value' = value
    PROVE  Promise!Next \/ Still
<1>1. IpcInv /\ IpcInv' /\ CoherentState(k) /\ k \in KernelState
  BY DEF RefInv, Inv, IpcInv, IpcTypeOK, Coherent, CoherentState
<1>2. ASSUME NEW label, Runs(t, label), label \notin Waits, NEW next, next \notin Waits, NEW o,
             Goes(t, next, o)
      PROVE  SamePlaces
  <2>1. pc[t] \notin Waits
    BY <1>2 DEF Runs
  <2>. QED  BY <1>1, <1>2, <2>1, GoesSamePlaces
<1>3. {"run", "sched", "del", "del_one", "sleep_sched", "sleep_ret"} \cap Waits = {}
  BY DEF Waits
<1>4. CASE WaitSchedule(t)
  <2>1. k' = rt_schedule(k) /\ pc[t] = "wait_sched" /\ Goes(t, "wait_ret", on[t])
    BY <1>4 DEF WaitSchedule, Runs
  <2>2. SamePlaces
    BY <1>1, <2>1, GoesSamePlaces
  <2>. QED  BY <2>1, <2>2, KernelStill
<1>5. CASE Schedule(t)
  <2>1. k' = rt_schedule(k) /\ Runs(t, "sched") /\ Goes(t, "run", NoObject)
    BY <1>5 DEF Schedule, Returns
  <2>2. SamePlaces
    BY <1>2, <1>3, <2>1
  <2>. QED  BY <2>1, <2>2, KernelStill
<1>6. CASE DeleteTest(t)
  <2>1. /\ k' = k /\ Runs(t, "del")
        /\ Goes(t, "del_one", on[t]) \/ Goes(t, "run", NoObject)
    BY <1>6 DEF DeleteTest, Returns
  <2>2. SamePlaces
    BY <1>2, <1>3, <2>1
  <2>. QED  BY <2>1, <2>2, KernelStill
<1>7. CASE DeleteOne(t)
  <2>1. Runs(t, "del_one")
    BY <1>7 DEF DeleteOne
  <2>2. PICK s : s = on[t]
    OBVIOUS
  <2>3. s \in Sem
    BY <1>1, <2>1, <2>2, Runner, Labels DEF Sem
  <2>4. CASE k.list[s] # <<>>
    <3>1. k' = ResumeFirst(s) /\ Goes(t, "del", s)
      BY <1>7, <2>2, <2>4 DEF DeleteOne
    <3>2. SamePlaces
      BY <1>2, <1>3, <2>1, <3>1
    <3>3. PICK h : h = Head(k.list[s])
      OBVIOUS
    <3>4. h \in Thread /\ h \in Waiting(s) /\ Wakes(k, k', s, h, "ERROR")
      BY <1>1, <2>3, <2>4, <3>1, <3>3, FirstWakes
    <3>. QED  BY <2>3, <3>2, <3>4, RefuseRefines
  <2>5. CASE k.list[s] = <<>>
    <3>1. k' = k /\ UNCHANGED <<pc, on>>
      BY <1>7, <2>2, <2>5 DEF DeleteOne
    <3>2. SamePlaces
      BY <3>1 DEF SamePlaces
    <3>. QED  BY <3>1, <3>2, KernelStill
  <2>. QED  BY <2>4, <2>5
<1>8. CASE SleepSchedule(t)
  <2>1. k' = rt_schedule(k) /\ Runs(t, "sleep_sched") /\ Goes(t, "sleep_ret", NoObject)
    BY <1>8 DEF SleepSchedule
  <2>2. SamePlaces
    BY <1>2, <1>3, <2>1
  <2>. QED  BY <2>1, <2>2, KernelStill
<1>9. CASE SleepReturn(t)
  <2>1. PICK e : e = IF k.error[t] = "ETIMEOUT" THEN "EOK" ELSE k.error[t]
    OBVIOUS
  <2>2. k' = [k EXCEPT !.error[t] = e] /\ Runs(t, "sleep_ret") /\ Goes(t, "run", NoObject)
    BY <1>9, <2>1 DEF SleepReturn, Returns
  <2>3. SamePlaces
    BY <1>2, <1>3, <2>2
  <2>4. k.error \in [Thread -> Error] /\ t \in Thread /\ pc[t] \notin Waits
    BY <1>1, <1>3, <2>2 DEF KernelState, App, Runs
  <2>5. k'.stat = k.stat /\ k'.list = k.list /\ k'.error = [k.error EXCEPT ![t] = e]
    BY <1>1, <2>2 DEF KernelState
  <2>6. \A u \in Thread \ {t} : k'.error[u] = k.error[u]
    BY <2>4, <2>5
  <2>7. \A u \in Thread : pc[u] \in Waits => k'.stat[u] = k.stat[u] /\ k'.error[u] = k.error[u]
    BY <2>4, <2>5, <2>6
  <2>8. \A l \in List : k'.list[l] = k.list[l]
    BY <2>5
  <2>. QED  BY <1>1, <2>3, <2>7, <2>8, StillStep
<1>10. ASSUME NEW o \in Object, Delete(t, o) PROVE Still
  <2>1. k' = k /\ Runs(t, "run") /\ Goes(t, "del", o)
    BY <1>10 DEF Delete
  <2>2. SamePlaces
    BY <1>2, <1>3, <2>1
  <2>. QED  BY <2>1, <2>2, KernelStill
<1>11. CASE Sleep(t)
  <2>1. Runs(t, "run") /\ Goes(t, "sleep_sched", NoObject)
    BY <1>11 DEF Sleep
  <2>2. PICK q : q = rt_thread_suspend(k, t)
    OBVIOUS
  <2>3. k' = rt_timer_start(q, t)
    BY <1>11, <2>2 DEF Sleep
  <2>4. t \in Thread /\ t # Idle /\ k.stat[t] = "READY" /\ pc[t] \notin Waits
    BY <1>1, <1>3, <2>1, Runner DEF App
  <2>5. Suspended(k, t, q)
    BY <1>1, <2>2, <2>4, SuspendCoherent
  <2>6. k.stat \in [Thread -> Stat]
    BY <1>1 DEF KernelState
  <2>7. /\ CoherentState(q) /\ q.stat[t] = "SUSPEND" /\ q.error = k.error
        /\ \A u \in Thread \ {t} : q.stat[u] = k.stat[u]
        /\ \A l \in List : q.list[l] = k.list[l]
    BY <2>4, <2>5, <2>6 DEF Suspended
  <2>8. k'.stat = q.stat /\ k'.error = q.error /\ k'.list = q.list
    BY <2>3, <2>4, <2>7, TimerStartCoherent DEF TimerStarted
  <2>9. SamePlaces
    BY <1>2, <1>3, <2>1
  <2>10. \A u \in Thread : pc[u] \in Waits => k'.stat[u] = k.stat[u] /\ k'.error[u] = k.error[u]
    BY <2>4, <2>7, <2>8
  <2>11. \A l \in List : k'.list[l] = k.list[l]
    BY <2>7, <2>8
  <2>. QED  BY <1>1, <2>9, <2>10, <2>11, StillStep
<1>. QED  BY <1>4, <1>5, <1>6, <1>7, <1>8, <1>9, <1>10, <1>11 DEF IpcInCall, IpcCall

\* Every step is one of SemaphoreSpec or changes nothing there.
LEMMA StepRefines ==
    ASSUME NewPrio = {}, RefInv, RefInv', Next
    PROVE  Promise!Next \/ (value' = value /\ Still)
<1>1. IpcInv /\ IpcInv' /\ CoherentState(k)
  BY DEF RefInv, Inv, IpcInv, IpcTypeOK, Coherent, CoherentState
<1>2. ASSUME UNCHANGED <<pc, on>> PROVE SamePlaces
  BY <1>2 DEF SamePlaces
<1>3. ASSUME NEW s \in Sem, k.list[s] = <<>>, value' = [value EXCEPT ![s] = @ + 1],
             k' = k, UNCHANGED <<pc, on>>
      PROVE  Promise!Next
  <2>1. Still
    BY <1>2, <1>3, KernelStill
  <2>2. \A p \in Prio : AllLines[s][p] = <<>>
    BY <1>3, NobodyInLine
  <2>. QED  BY <1>3, <2>1, <2>2, IsReleaseFree
<1>4. CASE Interrupt
  <2>1. ASSUME NEW s \in Sem, ReleaseIsr(s) PROVE Promise!Next
    <3>1. CASE k.list[s] # <<>>
      <4>1. k' = rt_schedule(rt_ipc_list_resume(k, s)) /\ value' = value /\ UNCHANGED <<pc, on>>
        BY <2>1, <3>1 DEF ReleaseIsr, Rescheduled
      <4>. QED  BY <1>2, <3>1, <4>1, ServeRefines
    <3>2. CASE k.list[s] = <<>>
      BY <1>3, <2>1, <3>2 DEF ReleaseIsr
    <3>. QED  BY <3>1, <3>2
  <2>2. CASE SliceEnd /\ UNCHANGED value
    <3>1. k' = rt_schedule(k) /\ UNCHANGED <<pc, on>>
      BY <2>2 DEF SliceEnd
    <3>. QED  BY <1>2, <2>2, <3>1, KernelStill
  <2>3. ASSUME NEW t \in Thread, Timeout(t), UNCHANGED value
        PROVE  Promise!Next \/ (value' = value /\ Still)
    BY <2>3, TimeoutRefines
  <2>. QED  BY <1>4, <2>1, <2>2, <2>3 DEF Interrupt, Tick
<1>5. ASSUME NEW t \in App, InCall(t) PROVE Promise!Next \/ (value' = value /\ Still)
  <2>1. CASE TakeReturn(t)
    BY <2>1, ReturnRefines
  <2>2. CASE ControlLoop(t)
    <3>1. Runs(t, "irq_off")
      BY <2>2 DEF ControlLoop
    <3>2. PICK s : s = on[t]
      OBVIOUS
    <3>3. s \in Sem
      BY <1>1, <3>1, <3>2, Runner, Labels DEF Sem
    <3>4. CASE k.list[s] # <<>>
      <4>1. k' = ResumeFirst(s) /\ value' = value /\ UNCHANGED <<pc, on>>
        BY <2>2, <3>2, <3>4 DEF ControlLoop
      <4>2. PICK h : h = Head(k.list[s])
        OBVIOUS
      <4>3. h \in Thread /\ h \in Waiting(s) /\ Wakes(k, k', s, h, "ERROR")
        BY <1>1, <3>3, <3>4, <4>1, <4>2, FirstWakes
      <4>. QED  BY <1>2, <3>3, <4>1, <4>3, RefuseRefines
    <3>5. CASE k.list[s] = <<>>
      <4>1. /\ \E v \in Resets : value' = [value EXCEPT ![s] = v]
            /\ k' = k /\ Goes(t, "sched", NoObject)
        BY <2>2, <3>2, <3>5 DEF ControlLoop
      <4>2. PICK v \in Resets : value' = [value EXCEPT ![s] = v]
        BY <4>1
      <4>3. pc[t] \notin Waits /\ "sched" \notin Waits
        BY <3>1 DEF Runs, Waits
      <4>4. SamePlaces
        BY <1>1, <4>1, <4>3, GoesSamePlaces
      <4>5. Still
        BY <4>1, <4>4, KernelStill
      <4>6. \A p \in Prio : AllLines[s][p] = <<>>
        BY <3>3, <3>5, NobodyInLine
      <4>. QED  BY <3>3, <4>2, <4>5, <4>6, IsReset
    <3>. QED  BY <3>4, <3>5
  <2>3. CASE IpcInCall(t) /\ UNCHANGED value
    BY <2>3, SharedRefines
  <2>. QED  BY <1>5, <2>1, <2>2, <2>3 DEF InCall
<1>6. ASSUME NEW t \in App, Call(t) PROVE Promise!Next \/ (value' = value /\ Still)
  <2>1. ASSUME NEW s \in Sem, TakeAvailable(t, s) PROVE Promise!Next
    <3>1. value[s] > 0 /\ value' = [value EXCEPT ![s] = @ - 1] /\ k' = k /\ UNCHANGED <<pc, on>>
      BY <2>1 DEF TakeAvailable, ipcVars
    <3>2. Still
      BY <1>2, <3>1, KernelStill
    <3>. QED  BY <3>1, <3>2, IsTake
  <2>2. ASSUME NEW s \in Sem, NEW timed \in BOOLEAN, TakeBlock(t, s, timed) PROVE Promise!Next
    BY <2>2, BlockRefines
  <2>3. ASSUME NEW s \in Sem, Release(t, s) PROVE Promise!Next
    <3>1. CASE k.list[s] # <<>>
      <4>1. /\ Runs(t, "run") /\ k' = rt_ipc_list_resume(k, s) /\ value' = value
            /\ Goes(t, "sched", NoObject)
        BY <2>3, <3>1 DEF Release
      <4>2. pc[t] \notin Waits /\ "sched" \notin Waits
        BY <4>1 DEF Runs, Waits
      <4>3. SamePlaces
        BY <1>1, <4>1, <4>2, GoesSamePlaces
      <4>. QED  BY <3>1, <4>1, <4>3, ServeRefines
    <3>2. CASE k.list[s] = <<>>
      BY <1>3, <2>3, <3>2 DEF Release
    <3>. QED  BY <3>1, <3>2
  <2>4. ASSUME NEW s \in Sem, Control(t, s) PROVE value' = value /\ Still
    <3>1. Runs(t, "run") /\ k' = k /\ value' = value /\ Goes(t, "irq_off", s)
      BY <2>4 DEF Control
    <3>2. pc[t] \notin Waits /\ "irq_off" \notin Waits
      BY <3>1 DEF Runs, Waits
    <3>3. SamePlaces
      BY <1>1, <3>1, <3>2, GoesSamePlaces
    <3>. QED  BY <3>1, <3>3, KernelStill
  <2>5. ASSUME NEW s \in Sem, SemCreate(t, s) PROVE Promise!Next
    <3>1. /\ k' = k /\ UNCHANGED <<pc, on>> /\ value' = [value EXCEPT ![s] = InitValue]
          /\ s \notin open /\ \A u \in Thread : on[u] # s
      BY <2>5 DEF SemCreate, Create
    <3>2. Still
      BY <1>2, <3>1, KernelStill
    <3>3. Waiting(s) = {}
      BY <1>1, <3>1, UnusedIsEmpty DEF Sem
    <3>4. k.list[s] = <<>>
      BY <1>1, <3>3, NobodyWaits
    <3>5. \A p \in Prio : AllLines[s][p] = <<>>
      BY <3>4, NobodyInLine
    <3>6. Deletable # {}
      BY <3>1 DEF RefInv, NoneDeleted, Sem
    <3>. QED  BY <3>1, <3>2, <3>5, <3>6, IsReset
  <2>6. CASE IpcCall(t) /\ UNCHANGED value
    BY <2>6, SharedRefines
  <2>. QED  BY <1>6, <2>1, <2>2, <2>3, <2>4, <2>5, <2>6 DEF Call
<1>. QED  BY <1>4, <1>5, <1>6 DEF Next

\* The refinement begins as it should.
LEMMA InitRefines ==
    ASSUME Init
    PROVE  RefInv /\ Promise!Init
<1>1. Inv /\ IpcInit /\ value = [s \in Sem |-> InitValue]
  BY InitInv DEF Init
<1>2. /\ \A l \in List : k.list[l] = <<>>
      /\ pc = [t \in Thread |-> "run"] /\ open = Object /\ k \in KernelInits(Thread)
  BY <1>1, InitCoherent DEF IpcInit
<1>3. k.prio = InitPrio
  BY <1>2 DEF KernelInits, InitialKernel
<1>4. \A o \in Object : Waiting(o) = {}
  BY <1>2 DEF Waiting, Object, ToSet
<1>5. WaitersClean
  BY <1>4 DEF WaitersClean
<1>6. HighestPrioFirst
  BY <1>2 DEF HighestPrioFirst, Object
<1>7. NoneDeleted
  BY <1>2 DEF NoneDeleted
<1>8. RefInv
  BY <1>1, <1>3, <1>5, <1>6, <1>7 DEF RefInv
<1>9. ASSUME NEW s \in Sem, NEW p \in Prio PROVE Line(k.list[s], Flag[s], p) = <<>>
  <2>1. SemList(k.list[s], Flag[s])
    BY <1>8, RefLists DEF ListsFit
  <2>2. k.list[s] = <<>>
    BY <1>2 DEF Sem, Object
  <2>. QED  BY <2>1, <2>2, LinesEmpty
<1>10. AllLines = [s \in Sem |-> [p \in Prio |-> <<>>]]
  BY <1>9 DEF AllLines
<1>11. \A s \in Sem, ok \in BOOLEAN : Leaving(s, ok) = {}
  BY <1>2 DEF Leaving
<1>12. Given = [s \in Sem |-> {}] /\ Refused = [s \in Sem |-> {}]
  BY <1>11 DEF Given, Refused
<1>13. Promise!Init
  BY <1>1, <1>10, <1>12 DEF Promise!Init, AllLines, Given, Refused
<1>. QED  BY <1>8, <1>13

\* As long as rt_thread_control changes no priority, the kernel code implements
\* the promise of a semaphore: no interleaving of takes, releases, timeouts,
\* resets and deletions forges a token, loses one, gives it to a thread that is
\* not next in line or lets a thread that was refused return with one.
THEOREM PromiseIsKept ==
    ASSUME NewPrio = {}
    PROVE  Spec => KeepsPromise
<1>1. Init => RefInv /\ Promise!Init
  BY InitRefines
<1>2. RefInv /\ Inv' /\ [Next]_vars => RefInv' /\ [Promise!Next]_<<value, AllLines, Given, Refused>>
  <2>1. ASSUME RefInv, Inv', Next
        PROVE  RefInv' /\ [Promise!Next]_<<value, AllLines, Given, Refused>>
    <3>1. RefInv'
      BY <2>1, RefStep
    <3>. QED  BY <2>1, <3>1, StepRefines DEF Still
  <2>2. ASSUME RefInv, Inv', UNCHANGED vars
        PROVE  RefInv' /\ UNCHANGED <<value, AllLines, Given, Refused>>
    <3>1. UNCHANGED <<k, pc, on, open, value>>
      BY <2>2 DEF vars, ipcVars
    <3>2. RefInv'
      BY <2>2, <3>1 DEF RefInv, WaitersClean, Waiting, HighestPrioFirst, NoneDeleted
    <3>. QED  BY <3>1, <3>2 DEF AllLines, Given, Refused, Leaving, Waiting
  <2>. QED  BY <2>1, <2>2
<1>. QED  BY <1>1, <1>2, Invariance, PTL DEF Spec, KeepsPromise, Promise!Spec, Promise!vars,
                                            AllLines, Given, Refused
=============================================================================
