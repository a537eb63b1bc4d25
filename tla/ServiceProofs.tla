--------------------------- MODULE ServiceProofs ---------------------------
(***************************************************************************)
(* The safety properties of modules Completion and MemPool, proved for     *)
(* every number of threads, priorities, completions, pools and blocks.     *)
(***************************************************************************)
EXTENDS MemPool, Completion, IpcProofs

-----------------------------------------------------------------------------
(* Completions *)

\* "only one thread can suspend on complete": who waits, or was resumed, is the
\* one thread of its completion.
OnlyWaiter ==
    \A u \in Thread : pc[u] \in Waits => on[u] \in Completions /\ u = Waiter[on[u]]

\* Who was resumed with RT_EOK and has not run yet finds the flag raised.
ResumedDone == \A c \in Object : Resumed(c) # {} => c \in completed

\* No thread sleeps on a completion that is done.
NoMissedDone == \A c \in completed : Waiting(c) = {}

\* The inductive invariant of completions.
DoneInv ==
    /\ IpcInv /\ WaitersClean /\ completed \subseteq Object
    /\ OnlyWaiter /\ ResumedDone /\ NoMissedDone

\* At most one thread is in a wait on a completion.
LEMMA OneWaiter ==
    ASSUME IpcInv, OnlyWaiter, NEW c \in Object
    PROVE  /\ \A u \in Waiting(c) : u = Waiter[c] /\ u \in Thread
           /\ \A u \in Resumed(c) : u = Waiter[c] /\ u \notin Waiting(c)
<1>1. WaitersWait
  BY IpcInvWaiters
<1>2. \A u \in Waiting(c) : u = Waiter[c] /\ u \in Thread
  BY <1>1 DEF WaitersWait, OnlyWaiter
<1>3. \A u \in Resumed(c) : u = Waiter[c] /\ u \notin Waiting(c)
  BY DEF Resumed, OnlyWaiter, Waits
<1>. QED  BY <1>2, <1>3

\* Before and after a step.
LEMMA OneWaiterStep ==
    ASSUME IpcInv', OnlyWaiter', NEW c \in Object
    PROVE  /\ \A u \in Waiting(c)' : u = Waiter[c] /\ u \in Thread
           /\ \A u \in Resumed(c)' : u = Waiter[c] /\ u \notin Waiting(c)'
<1>1. WaitersWait'
  BY IpcInvWaiters, PTL
<1>2. \A u \in Waiting(c)' : u = Waiter[c] /\ u \in Thread
  BY <1>1 DEF WaitersWait, OnlyWaiter
<1>3. \A u \in Resumed(c)' : u = Waiter[c] /\ u \notin Waiting(c)'
  BY DEF Resumed, OnlyWaiter, Waits
<1>. QED  BY <1>2, <1>3

\* A thread goes on to a place where it does not wait: whoever waits is still the
\* one thread of its completion.
LEMMA OnlyWaiterGoes ==
    ASSUME IpcInv, OnlyWaiter, NEW t \in App, NEW label, NEW o, Goes(t, label, o),
           label \in Waits => o \in Completions /\ t = Waiter[o]
    PROVE  OnlyWaiter'
<1>1. t \in Thread /\ pc \in [Thread -> PC] /\ on \in [Thread -> Object \cup {NoObject}]
  BY DEF IpcInv, IpcTypeOK, App
<1>2. \A u \in Thread : /\ pc'[u] = IF u = t THEN label ELSE pc[u]
                        /\ on'[u] = IF u = t THEN o ELSE on[u]
  BY <1>1 DEF Goes
<1>. QED  BY <1>2 DEF OnlyWaiter

\* A step that serves nobody and leaves the flags alone.
LEMMA QuietDone ==
    ASSUME DoneInv, IpcInv', NobodyServed, OnlyWaiter', UNCHANGED completed
    PROVE  DoneInv'
<1>1. WaitersClean'
  BY ServedClean DEF DoneInv
<1>2. ResumedDone'
  BY DEF DoneInv, ResumedDone, NobodyServed
<1>3. NoMissedDone'
  BY DEF DoneInv, NoMissedDone, NobodyServed, NoNewWaiter
<1>. QED  BY <1>1, <1>2, <1>3 DEF DoneInv

\* A step that lowers the flag of a completion on which nobody was resumed that
\* has not gone on.
LEMMA LoweredDone ==
    ASSUME DoneInv, IpcInv', WaitersClean', OnlyWaiter', NEW L, Leaves(L),
           NEW c, completed' = completed \ {c}, c \in Object => Resumed(c) \subseteq L
    PROVE  DoneInv'
<1>1. \A x \in Object : Waiting(x)' = Waiting(x) /\ Resumed(x)' = Resumed(x) \ L
  BY DEF Leaves
<1>2. ResumedDone'
  BY <1>1 DEF DoneInv, ResumedDone
<1>3. NoMissedDone'
  BY <1>1 DEF DoneInv, NoMissedDone
<1>. QED  BY <1>2, <1>3 DEF DoneInv

\* A step that raises the flag of a completion and resumes the thread that waits
\* for it, if there is one.
LEMMA RaisedDone ==
    ASSUME DoneInv, IpcInv', WaitersClean', OnlyWaiter', NEW L, NEW c \in Object,
           ServesOne(L, c), completed' = completed \cup {c}
    PROVE  DoneInv'
<1>1. Waiting(c)' = {}
  <2>1. CASE Waiting(c) = {}
    BY <2>1 DEF ServesOne, NoNewWaiter
  <2>2. CASE Waiting(c) # {}
    <3>1. PICK h \in Thread : Resumed(c)' = (Resumed(c) \ L) \cup {h}
      BY <2>2 DEF ServesOne
    <3>2. h \in Resumed(c)'
      BY <3>1
    <3>. QED  BY <3>2, OneWaiterStep
  <2>. QED  BY <2>1, <2>2
<1>2. NoMissedDone'
  BY <1>1 DEF DoneInv, NoMissedDone, ServesOne, NoNewWaiter
<1>3. ResumedDone'
  <2>1. ASSUME NEW x \in Object, Resumed(x)' # {}, x # c PROVE x \in completed
    BY <2>1 DEF ServesOne, DoneInv, ResumedDone
  <2>. QED  BY <2>1 DEF ResumedDone
<1>. QED  BY <1>2, <1>3 DEF DoneInv

\* The flags are lowered at the start and nobody waits.
LEMMA DoneInitInv ==
    ASSUME CpInit
    PROVE  DoneInv
<1>1. IpcInit /\ completed = {}
  BY DEF CpInit
<1>2. IpcInv
  BY <1>1, IpcInitInv
<1>3. \A u \in Thread : pc[u] = "run" /\ "run" \notin Waits
  BY <1>1 DEF IpcInit, Waits
<1>4. WaitersWait
  BY <1>2, IpcInvWaiters
<1>5. \A o \in Object : Waiting(o) = {} /\ Resumed(o) = {}
  BY <1>3, <1>4 DEF WaitersWait, Resumed, Waits
<1>. QED
  BY <1>1, <1>2, <1>3, <1>5
     DEF DoneInv, WaitersClean, OnlyWaiter, ResumedDone, NoMissedDone

\* The steps of a call keep the invariant.
LEMMA DoneStepInv ==
    ASSUME DoneInv, NEW t \in App, CpStep(t)
    PROVE  DoneInv'
<1>0. /\ IpcInv /\ WaitersClean /\ OnlyWaiter /\ t \in Thread
      /\ pc \in [Thread -> PC] /\ on \in [Thread -> Object \cup {NoObject}]
  BY DEF DoneInv, IpcInv, IpcTypeOK, App
<1>1. /\ "run" \in PC \ Waits /\ "run" \notin WorksOnObject
      /\ "done_set" \in PC \ Waits /\ "sched" \in PC \ Waits
      /\ "wait_sched" \in Waits /\ "wait_ret" \in Waits
  BY Labels DEF Waits
<1>2. CASE WaitReturn(t)
  <2>1. /\ Runs(t, "wait_ret") /\ Goes(t, "run", NoObject) /\ UNCHANGED k
        /\ UNCHANGED <<open, corrupt>> /\ completed' = completed \ {on[t]}
    BY <1>2 DEF WaitReturn, Returns
  <2>2. open' \subseteq Object /\ corrupt' \in BOOLEAN
    BY <1>0, <2>1 DEF IpcInv, IpcTypeOK
  <2>3. IpcInv' /\ WaitersClean' /\ Leaves({t})
    BY <1>0, <1>1, <2>1, <2>2, GoingStep
  <2>4. OnlyWaiter'
    BY <1>0, <1>1, <2>1, OnlyWaiterGoes
  <2>5. on[t] \in Object => Resumed(on[t]) \subseteq {t}
    <3>1. t = Waiter[on[t]]
      BY <1>0, <1>1, <2>1 DEF OnlyWaiter, Runs
    <3>. QED  BY <1>0, <3>1, OneWaiter
  <2>. QED  BY <2>1, <2>3, <2>4, <2>5, LoweredDone
<1>3. CASE DoneSet(t)
  <2>1. /\ Runs(t, "done_set") /\ completed' = completed \cup {on[t]}
        /\ ResumesOne(t, on[t]) /\ UNCHANGED <<open, corrupt>>
    BY <1>3 DEF DoneSet
  <2>2. on[t] \in Object
    BY <1>0, <2>1, Runner, Labels
  <2>3. PICK c \in Object : c = on[t]
    BY <2>2
  <2>4. IpcInv' /\ WaitersClean' /\ ServesOne({t}, c)
    BY <1>0, <2>1, <2>3, ServingStep
  <2>5. OnlyWaiter'
    <3>1. Goes(t, "sched", NoObject) \/ Goes(t, "run", NoObject)
      BY <2>1 DEF ResumesOne, Returns
    <3>. QED  BY <1>0, <1>1, <3>1, OnlyWaiterGoes
  <2>. QED  BY <2>1, <2>3, <2>4, <2>5, RaisedDone
<1>4. CASE (WaitSchedule(t) \/ Schedule(t)) /\ UNCHANGED completed
  <2>1. IpcInCall(t)
    BY <1>4 DEF IpcInCall
  <2>2. IpcInv' /\ NobodyServed
    BY <1>0, <2>1, IpcInCallInv, IpcInCallServes
  <2>3. OnlyWaiter'
    <3>1. CASE WaitSchedule(t)
      <4>1. Runs(t, "wait_sched") /\ Goes(t, "wait_ret", on[t])
        BY <3>1 DEF WaitSchedule
      <4>2. on[t] \in Completions /\ t = Waiter[on[t]]
        BY <1>0, <1>1, <4>1 DEF OnlyWaiter, Runs
      <4>. QED  BY <1>0, <4>1, <4>2, OnlyWaiterGoes
    <3>2. CASE Schedule(t)
      BY <1>0, <1>1, <3>2, OnlyWaiterGoes DEF Schedule, Returns
    <3>. QED  BY <1>4, <3>1, <3>2
  <2>. QED  BY <1>4, <2>2, <2>3, QuietDone
<1>5. ASSUME NEW c \in Completions, WaitCompleted(t, c) PROVE DoneInv'
  <2>1. /\ Runs(t, "run") /\ t = Waiter[c] /\ completed' = completed \ {c}
        /\ UNCHANGED <<k, open, pc, on, corrupt>>
    BY <1>5 DEF WaitCompleted, ipcVars
  <2>2. c \in Object /\ open' \subseteq Object /\ corrupt' \in BOOLEAN
    BY <1>0, <2>1, CompletionAssumption DEF IpcInv, IpcTypeOK
  <2>3. IpcInv' /\ WaitersClean' /\ NobodyServed
    BY <1>0, <2>1, <2>2, IdleStep
  <2>4. OnlyWaiter'
    BY <1>0, <2>1 DEF OnlyWaiter
  <2>5. Leaves({})
    <3>1. Leave({})
      BY <2>1 DEF Leave
    <3>. QED  BY <1>0, <2>1, <3>1, LeaveStep
  <2>6. Resumed(c) = {}
    <3>1. t \notin Resumed(c)
      BY <1>1, <2>1, <2>2, RunnerNotResumed DEF Runs
    <3>. QED  BY <1>0, <2>1, <2>2, <3>1, OneWaiter
  <2>. QED  BY <2>1, <2>3, <2>4, <2>5, <2>6, LoweredDone
<1>6. ASSUME NEW c \in Completions, DoneTest(t, c) PROVE DoneInv'
  <2>1. /\ Runs(t, "run") /\ Goes(t, "done_set", c) /\ UNCHANGED k
        /\ UNCHANGED <<open, corrupt, completed>>
    BY <1>6 DEF DoneTest
  <2>2. c \in Object /\ open' \subseteq Object /\ corrupt' \in BOOLEAN
    BY <1>0, <2>1, CompletionAssumption DEF IpcInv, IpcTypeOK
  <2>3. IpcInv' /\ WaitersClean' /\ Leaves({t})
    BY <1>0, <1>1, <2>1, <2>2, GoingStep
  <2>4. OnlyWaiter'
    BY <1>0, <1>1, <2>1, OnlyWaiterGoes
  <2>5. \A x \in Object : Waiting(x)' = Waiting(x) /\ Resumed(x)' \subseteq Resumed(x)
    BY <2>3 DEF Leaves
  <2>6. ResumedDone' /\ NoMissedDone'
    BY <2>1, <2>5 DEF DoneInv, ResumedDone, NoMissedDone
  <2>. QED  BY <2>1, <2>3, <2>4, <2>6 DEF DoneInv
<1>7. ASSUME NEW c \in Completions, NEW timed \in BOOLEAN, WaitSuspend(t, c, timed)
      PROVE  DoneInv'
  <2>1. /\ Runs(t, "run") /\ t = Waiter[c] /\ c \notin completed
        /\ k' = Wait([k EXCEPT !.error[t] = "EOK"], t, c, timed)
        /\ Goes(t, "wait_sched", c) /\ UNCHANGED <<open, corrupt>> /\ UNCHANGED completed
    BY <1>7 DEF WaitSuspend
  <2>2. c \in Object
    BY CompletionAssumption
  <2>3. IpcInv' /\ WaitersClean' /\ Blocks(t, c)
    BY <1>0, <2>1, <2>2, BlockingStep
  <2>4. OnlyWaiter'
    BY <1>0, <2>1, OnlyWaiterGoes
  <2>5. ResumedDone'
    BY <2>1, <2>3 DEF DoneInv, ResumedDone, Blocks
  <2>6. NoMissedDone'
    BY <2>1, <2>3 DEF DoneInv, NoMissedDone, Blocks
  <2>. QED  BY <2>1, <2>3, <2>4, <2>5, <2>6 DEF DoneInv
<1>. QED  BY <1>2, <1>3, <1>4, <1>5, <1>6, <1>7 DEF CpStep

\* So do an interrupt handler and a tick.
LEMMA DoneInterruptInv ==
    ASSUME DoneInv, (\E c \in Completions : DoneIsr(c)) \/ (Tick /\ UNCHANGED completed)
    PROVE  DoneInv'
<1>0. IpcInv /\ WaitersClean /\ OnlyWaiter
  BY DEF DoneInv
<1>1. ASSUME NEW c \in Completions, DoneIsr(c) PROVE DoneInv'
  <2>1. /\ completed' = completed \cup {c} /\ ResumesOneIsr(c)
        /\ UNCHANGED <<open, pc, on, corrupt>>
    BY <1>1 DEF DoneIsr
  <2>2. c \in Object
    BY CompletionAssumption
  <2>3. IpcInv' /\ WaitersClean' /\ ServesOne({}, c)
    BY <1>0, <2>1, <2>2, ServingIsr
  <2>4. OnlyWaiter'
    BY <1>0, <2>1 DEF OnlyWaiter
  <2>. QED  BY <2>1, <2>2, <2>3, <2>4, RaisedDone
<1>2. CASE Tick /\ UNCHANGED completed
  <2>1. IpcInv' /\ NobodyServed
    BY <1>0, <1>2, TickInv, TickServes
  <2>2. UNCHANGED <<pc, on>>
    BY <1>2 DEF Tick, SliceEnd, Timeout
  <2>3. OnlyWaiter'
    BY <1>0, <2>2 DEF OnlyWaiter
  <2>. QED  BY <1>2, <2>1, <2>3, QuietDone
<1>. QED  BY <1>1, <1>2

\* The invariant depends on the variables only.
LEMMA DoneStutter ==
    ASSUME DoneInv, UNCHANGED cpVars
    PROVE  DoneInv'
<1>1. UNCHANGED <<k, open, pc, on, corrupt>> /\ UNCHANGED completed
  BY DEF cpVars, ipcVars
<1>2. /\ IpcInv /\ WaitersClean /\ OnlyWaiter
      /\ open' \subseteq Object /\ corrupt' \in BOOLEAN
  BY <1>1 DEF DoneInv, IpcInv, IpcTypeOK
<1>3. IpcInv' /\ NobodyServed
  BY <1>1, <1>2, IdleStep
<1>4. OnlyWaiter'
  BY <1>1, <1>2 DEF OnlyWaiter
<1>. QED  BY <1>1, <1>3, <1>4, QuietDone

\* The invariant of completions holds in every state.
THEOREM DoneInvariance == CpSpec => []DoneInv
<1>1. CpInit => DoneInv
  BY DoneInitInv
<1>2. DoneInv /\ [CpNext]_cpVars => DoneInv'
  BY DoneStepInv, DoneInterruptInv, DoneStutter DEF CpNext
<1>. QED  BY <1>1, <1>2, PTL DEF CpSpec

\* A thread that returns from its sleep takes its own step.
LEMMA AwakesReturn ==
    ASSUME DoneInv, NEW t \in App, pc[t] = "wait_ret", pc'[t] = "run", CpNext
    PROVE  Runs(t, "wait_ret")
<1>1. pc \in [Thread -> PC] /\ t \in Thread
  BY DEF DoneInv, IpcInv, IpcTypeOK, App
<1>2. ASSUME NEW u \in App, NEW label, Runs(u, label),
             (\E l, o : Goes(u, l, o)) \/ UNCHANGED pc
      PROVE  Runs(t, label) /\ label = "wait_ret"
  BY <1>1, <1>2 DEF Goes, Runs, App
<1>3. ASSUME NEW u \in App, CpStep(u) PROVE Runs(t, "wait_ret")
  <2>1. \E label : Runs(u, label) /\ ((\E l, o : Goes(u, l, o)) \/ UNCHANGED pc)
    <3>1. CASE WaitReturn(u)
      BY <3>1 DEF WaitReturn, Returns
    <3>2. CASE DoneSet(u)
      BY <3>2 DEF DoneSet, ResumesOne, Returns
    <3>3. CASE WaitSchedule(u)
      BY <3>3 DEF WaitSchedule
    <3>4. CASE Schedule(u)
      BY <3>4 DEF Schedule, Returns
    <3>5. ASSUME NEW c \in Completions, WaitCompleted(u, c)
          PROVE  Runs(u, "run") /\ UNCHANGED pc
      BY <3>5 DEF WaitCompleted, ipcVars
    <3>6. ASSUME NEW c \in Completions, DoneTest(u, c)
          PROVE  Runs(u, "run") /\ Goes(u, "done_set", c)
      BY <3>6 DEF DoneTest
    <3>7. ASSUME NEW c \in Completions, NEW timed \in BOOLEAN, WaitSuspend(u, c, timed)
          PROVE  Runs(u, "run") /\ Goes(u, "wait_sched", c)
      BY <3>7 DEF WaitSuspend
    <3>. QED  BY <1>3, <3>1, <3>2, <3>3, <3>4, <3>5, <3>6, <3>7 DEF CpStep
  <2>. QED  BY <1>2, <2>1
<1>4. ASSUME UNCHANGED pc PROVE FALSE
  BY <1>4
<1>5. ASSUME NEW c \in Completions, DoneIsr(c) PROVE UNCHANGED pc
  BY <1>5 DEF DoneIsr
<1>6. Tick => UNCHANGED pc
  BY DEF Tick, SliceEnd, Timeout
<1>. QED  BY <1>3, <1>4, <1>5, <1>6 DEF CpNext

\* No thread sleeps on a completion that is done, and none returns from its sleep
\* with RT_EOK without a rt_completion_done of its own.
THEOREM DoneIsAlwaysSeen == CpSpec => DoneIsSeen
<1>1. DoneInv => \A c \in completed : Waiting(c) = {}
  BY DEF DoneInv, NoMissedDone
<1>2. DoneInv /\ [CpNext]_cpVars => [AwakesEarned]_cpVars
  <2>1. ASSUME DoneInv, CpNext, NEW t \in Awakes PROVE on[t] \in completed
    <3>1. /\ t \in App /\ pc[t] = "wait_ret" /\ pc'[t] = "run" /\ k.error[t] = "EOK"
          /\ on[t] \in Object
      BY CompletionAssumption DEF Awakes
    <3>2. IpcInv /\ Runs(t, "wait_ret")
      BY <2>1, <3>1, AwakesReturn DEF DoneInv
    <3>3. t \in Thread /\ k.stat[t] = "READY"
      BY <3>1, <3>2, Runner
    <3>4. t \notin Waiting(on[t])
      BY <3>1, <3>2, <3>3, IpcInvWaiters DEF WaitersWait
    <3>5. t \in Resumed(on[t])
      BY <3>1, <3>3, <3>4 DEF Resumed
    <3>. QED  BY <2>1, <3>1, <3>5 DEF DoneInv, ResumedDone
  <2>. QED  BY <2>1 DEF AwakesEarned
<1>. QED  BY <1>1, <1>2, DoneInvariance, PTL DEF CpSpec, DoneIsSeen

-----------------------------------------------------------------------------
(* Lists of blocks *)

\* Putting an element that is not there first.
LEMMA PutFirst ==
    ASSUME NEW S, NEW s \in Seq(S), IsInjective(s), NEW e \in S, e \notin ToSet(s)
    PROVE  /\ <<e>> \o s \in Seq(S) /\ IsInjective(<<e>> \o s)
           /\ ToSet(<<e>> \o s) = ToSet(s) \cup {e}
           /\ Len(<<e>> \o s) = Len(s) + 1
<1>. DEFINE r == <<e>> \o s
<1>1. /\ r \in Seq(S) /\ Len(r) = Len(s) + 1 /\ Len(s) \in Nat
      /\ \A j \in 1 .. Len(s) + 1 : r[j] = IF j = 1 THEN e ELSE s[j - 1]
  OBVIOUS
<1>. HIDE DEF r
<1>2. \A j \in 1 .. Len(s) : s[j] # e
  BY DEF ToSet
<1>3. \A i, j \in 1 .. Len(s) : s[i] = s[j] => i = j
  BY DEF IsInjective
<1>4. ASSUME NEW i \in 1 .. Len(r), NEW j \in 1 .. Len(r), r[i] = r[j] PROVE i = j
  <2>1. CASE i = 1 /\ j = 1
    BY <2>1
  <2>2. CASE i = 1 /\ j # 1
    BY <1>1, <1>2, <1>4, <2>2
  <2>3. CASE i # 1 /\ j = 1
    BY <1>1, <1>2, <1>4, <2>3
  <2>4. CASE i # 1 /\ j # 1
    <3>1. s[i - 1] = s[j - 1] /\ i - 1 \in 1 .. Len(s) /\ j - 1 \in 1 .. Len(s)
      BY <1>1, <1>4, <2>4
    <3>2. i - 1 = j - 1
      BY <1>3, <3>1
    <3>. QED  BY <3>2
  <2>. QED  BY <2>1, <2>2, <2>3, <2>4
<1>5. IsInjective(r)
  BY <1>1, <1>4 DEF IsInjective
<1>6. ASSUME NEW x \in ToSet(r) PROVE x \in ToSet(s) \cup {e}
  <2>1. PICK j \in 1 .. Len(r) : r[j] = x
    BY <1>1 DEF ToSet
  <2>2. CASE j = 1
    BY <1>1, <2>1, <2>2
  <2>3. CASE j # 1
    <3>1. j - 1 \in 1 .. Len(s) /\ s[j - 1] = x
      BY <1>1, <2>1, <2>3
    <3>. QED  BY <3>1 DEF ToSet
  <2>. QED  BY <2>2, <2>3
<1>7. ASSUME NEW x \in ToSet(s) PROVE x \in ToSet(r)
  <2>1. PICK j \in 1 .. Len(s) : s[j] = x
    BY DEF ToSet
  <2>2. j + 1 \in 1 .. Len(r) /\ r[j + 1] = x
    BY <1>1, <2>1
  <2>. QED  BY <1>1, <2>2 DEF ToSet
<1>8. e \in ToSet(r)
  <2>1. 1 \in 1 .. Len(r) /\ r[1] = e
    BY <1>1
  <2>. QED  BY <1>1, <2>1 DEF ToSet
<1>. QED  BY <1>1, <1>5, <1>6, <1>7, <1>8 DEF r

\* The free list of a new pool holds every block once.
LEMMA FreshHoldsAll ==
    /\ FreshBlocks \in Seq(Block) /\ IsInjective(FreshBlocks)
    /\ ToSet(FreshBlocks) = Block /\ Len(FreshBlocks) = Cardinality(Block)
    /\ Cardinality(Block) \in Nat
<1>. DEFINE n == Cardinality(Block)
<1>1. IsFiniteSet(Block)
  BY MemPoolAssumption
<1>2. n \in Nat /\ ExistsBijection(1 .. n, Block)
  BY <1>1, FS_CardinalityType
<1>. HIDE DEF n
<1>3. PICK b \in [1 .. n -> Block] : IsInjective(b)
  BY <1>2 DEF ExistsBijection, Bijection, Injection
<1>4. FreshBlocks \in [1 .. n -> Block] /\ IsInjective(FreshBlocks)
  BY <1>3 DEF FreshBlocks, n
<1>5. PICK f : f = FreshBlocks
  OBVIOUS
<1>6. f \in [1 .. n -> Block] /\ IsInjective(f)
  BY <1>4, <1>5
<1>7. f \in Seq(Block) /\ Len(f) = n /\ DOMAIN f = 1 .. n
  BY <1>2, <1>6
<1>8. ToSet(f) = Block
  <2>1. f \in Injection(1 .. n, Block)
    BY <1>6 DEF Injection
  <2>2. 1 \in Int /\ n \in Int
    BY <1>2
  <2>3. Cardinality(1 .. n) = IF 1 > n THEN 0 ELSE n - 1 + 1
    BY <2>2, FS_Interval
  <2>4. Cardinality(1 .. n) = n
    BY <1>2, <2>3
  <2>5. Cardinality(1 .. n) = Cardinality(Block) <=> f \in Surjection(1 .. n, Block)
    BY <1>1, <2>1, FS_Injection
  <2>6. f \in Surjection(1 .. n, Block)
    BY <2>4, <2>5 DEF n
  <2>7. \A x \in Block : \E i \in 1 .. n : f[i] = x
    BY <2>6 DEF Surjection
  <2>8. \A i \in 1 .. n : f[i] \in Block
    BY <1>6
  <2>. QED  BY <1>7, <2>7, <2>8 DEF ToSet
<1>. QED  BY <1>2, <1>5, <1>6, <1>7, <1>8 DEF n

-----------------------------------------------------------------------------
(* Memory pools *)

\* The types of the variables of a pool.
PoolTypeOK ==
    /\ block_list \in [Pool -> Seq(Block)]
    /\ block_free_count \in [Pool -> Nat]
    /\ held \in [Pool -> SUBSET Block]
    /\ suspend_thread_count \in [Pool -> Nat]

\* What PoolsSound says of the blocks of one pool, of its wake-ups and of its count
\* of waiting threads.
BlocksOf(mp) ==
    /\ IsInjective(block_list[mp])
    /\ ToSet(block_list[mp]) = Block \ held[mp]
    /\ block_free_count[mp] = Len(block_list[mp])
WakeupsOf(mp) ==
    mp \in open /\ ~corrupt /\ Waiting(mp) # {} =>
        block_free_count[mp] <= Cardinality(Resumed(mp))
CountOf(mp) == Cardinality(Waiting(mp)) <= suspend_thread_count[mp]

SoundPool(mp) == BlocksOf(mp) /\ WakeupsOf(mp) /\ CountOf(mp)

\* The inductive invariant of memory pools.
PoolInv == IpcInv /\ WaitersClean /\ PoolTypeOK /\ \A mp \in Pool : SoundPool(mp)

\* It says what PoolsSound says.
LEMMA SoundPools ==
    ASSUME \A mp \in Pool : SoundPool(mp)
    PROVE  PoolsSound
<1>1. BlocksAccounted
  BY DEF SoundPool, BlocksOf, BlocksAccounted
<1>2. NoLostWakeup
  BY DEF SoundPool, WakeupsOf, NoLostWakeup
<1>3. CountCovers
  BY DEF SoundPool, CountOf, CountCovers
<1>. QED  BY <1>1, <1>2, <1>3 DEF PoolsSound

\* What is counted can be counted, before and after a step.
LEMMA PoolSets ==
    ASSUME IpcInv, IpcInv', NEW mp \in Object
    PROVE  /\ Waiting(mp) \in SUBSET Thread /\ Waiting(mp)' \in SUBSET Thread
           /\ Resumed(mp) \in SUBSET Thread /\ Resumed(mp)' \in SUBSET Thread
<1>1. WaitersWait /\ WaitersWait'
  BY StepWaiters
<1>. QED  BY <1>1 DEF WaitersWait, Resumed

\* A subset counts less.
LEMMA FewerThreads ==
    ASSUME NEW R \in SUBSET Thread, NEW T \in SUBSET R
    PROVE  /\ Cardinality(T) \in Nat /\ Cardinality(R) \in Nat
           /\ Cardinality(T) <= Cardinality(R)
<1>1. IsFiniteSet(R)
  BY KernelAssumption, FS_Subset
<1>2. IsFiniteSet(T) /\ Cardinality(T) <= Cardinality(R)
  BY <1>1, FS_Subset
<1>. QED  BY <1>1, <1>2, FS_CardinalityType

\* The blocks of a pool and its count are left alone.
SameBlocks(mp) ==
    /\ block_list'[mp] = block_list[mp] /\ block_free_count'[mp] = block_free_count[mp]
    /\ held'[mp] = held[mp]

\* A step after which a pool is as before, but that threads may have left its list
\* with an error.
Kept(mp) ==
    /\ SameBlocks(mp) /\ suspend_thread_count'[mp] = suspend_thread_count[mp]
    /\ Waiting(mp)' \subseteq Waiting(mp) /\ Resumed(mp)' = Resumed(mp)

\* No pool that is gone comes back and a corrupt state stays corrupt.
NothingReopened(mp) == (mp \in open' => mp \in open) /\ (~corrupt' => ~corrupt)

\* A pool that is left alone stays sound.
LEMMA KeptSound ==
    ASSUME IpcInv, IpcInv', NEW mp \in Object, SoundPool(mp), Kept(mp), NothingReopened(mp),
           suspend_thread_count[mp] \in Nat
    PROVE  SoundPool(mp)'
<1>1. BlocksOf(mp)'
  BY DEF SoundPool, BlocksOf, Kept, SameBlocks
<1>2. WakeupsOf(mp)'
  BY DEF SoundPool, WakeupsOf, Kept, SameBlocks, NothingReopened
<1>3. CountOf(mp)'
  <2>1. Waiting(mp) \in SUBSET Thread /\ Waiting(mp)' \in SUBSET Waiting(mp)
    BY PoolSets DEF Kept
  <2>2. /\ Cardinality(Waiting(mp)') \in Nat /\ Cardinality(Waiting(mp)) \in Nat
        /\ Cardinality(Waiting(mp)') <= Cardinality(Waiting(mp))
    BY <2>1, FewerThreads
  <2>3. Cardinality(Waiting(mp)) <= suspend_thread_count[mp]
    BY DEF SoundPool, CountOf
  <2>4. suspend_thread_count'[mp] = suspend_thread_count[mp]
    BY DEF Kept
  <2>. QED  BY <2>2, <2>3, <2>4 DEF CountOf
<1>. QED  BY <1>1, <1>2, <1>3 DEF SoundPool

\* A step that serves nobody and leaves every pool alone.
LEMMA QuietPools ==
    ASSUME PoolInv, IpcInv', WaitersClean', UNCHANGED poolVars, NoNewWaiter,
           \A mp \in Pool : Resumed(mp)' = Resumed(mp) /\ NothingReopened(mp)
    PROVE  PoolInv'
<1>1. /\ block_list' = block_list /\ block_free_count' = block_free_count
      /\ held' = held /\ suspend_thread_count' = suspend_thread_count
  BY DEF poolVars, blocks
<1>2. PoolTypeOK'
  BY <1>1 DEF PoolInv, PoolTypeOK
<1>3. ASSUME NEW mp \in Pool PROVE SoundPool(mp)'
  <2>1. mp \in Object
    BY MemPoolAssumption
  <2>2. Kept(mp)
    BY <1>1, <2>1 DEF Kept, SameBlocks, NoNewWaiter
  <2>3. suspend_thread_count[mp] \in Nat
    BY DEF PoolInv, PoolTypeOK
  <2>. QED  BY <2>1, <2>2, <2>3, KeptSound DEF PoolInv
<1>. QED  BY <1>2, <1>3 DEF PoolInv

\* The other pools are left alone: mp may be any object of a call.
OthersKept(mp) == \A x \in Pool \ {mp} : Kept(x) /\ NothingReopened(x)

\* A step on one pool.
LEMMA OnePool ==
    ASSUME PoolInv, IpcInv', WaitersClean', PoolTypeOK', NEW mp, OthersKept(mp),
           mp \in Pool => SoundPool(mp)'
    PROVE  PoolInv'
<1>1. ASSUME NEW x \in Pool, x # mp PROVE SoundPool(x)'
  <2>1. x \in Object
    BY MemPoolAssumption
  <2>2. suspend_thread_count[x] \in Nat
    BY DEF PoolInv, PoolTypeOK
  <2>. QED  BY <1>1, <2>1, <2>2, KeptSound DEF PoolInv, OthersKept
<1>. QED  BY <1>1 DEF PoolInv

-----------------------------------------------------------------------------
(* A block is taken *)

\* One entry of a table of the pools is written; what is not a pool has no entry.
LEMMA Updated ==
    ASSUME NEW S, NEW f \in [Pool -> S], NEW mp, NEW e, mp \in Pool => e \in S,
           NEW g, g = [f EXCEPT ![mp] = e]
    PROVE  /\ g \in [Pool -> S] /\ \A x \in Pool \ {mp} : g[x] = f[x]
           /\ mp \in Pool => g[mp] = e
  OBVIOUS

\* What rt_mp_alloc does to the blocks.
LEMMA TakenBlocks ==
    ASSUME PoolTypeOK, NEW mp, TakeBlock(mp), UNCHANGED suspend_thread_count,
           mp \in Pool => BlocksOf(mp) /\ Available(mp)
    PROVE  /\ PoolTypeOK'
           /\ \A x \in Pool \ {mp} : SameBlocks(x)
           /\ mp \in Pool => BlocksOf(mp)' /\ block_free_count'[mp] = block_free_count[mp] - 1
<1>1. /\ block_free_count' = [block_free_count EXCEPT ![mp] = block_free_count[mp] - 1]
      /\ block_list' = [block_list EXCEPT ![mp] = Tail(block_list[mp])]
      /\ held' = [held EXCEPT ![mp] = held[mp] \cup {Head(block_list[mp])}]
  BY DEF TakeBlock
<1>2. /\ block_list \in [Pool -> Seq(Block)] /\ block_free_count \in [Pool -> Nat]
      /\ held \in [Pool -> SUBSET Block] /\ suspend_thread_count' \in [Pool -> Nat]
  BY DEF PoolTypeOK
<1>3. ASSUME mp \in Pool
      PROVE  /\ Tail(block_list[mp]) \in Seq(Block) /\ IsInjective(Tail(block_list[mp]))
             /\ ToSet(Tail(block_list[mp]))
                  = Block \ (held[mp] \cup {Head(block_list[mp])})
             /\ block_free_count[mp] - 1 = Len(Tail(block_list[mp]))
             /\ block_free_count[mp] - 1 \in Nat
             /\ held[mp] \cup {Head(block_list[mp])} \in SUBSET Block
  <2>1. PICK s : s = block_list[mp]
    OBVIOUS
  <2>2. /\ s \in Seq(Block) /\ IsInjective(s) /\ ToSet(s) = Block \ held[mp]
        /\ block_free_count[mp] = Len(s) /\ Len(s) # 0 /\ held[mp] \in SUBSET Block
    BY <1>2, <1>3, <2>1 DEF BlocksOf, Available
  <2>3. s # <<>> /\ Len(s) \in Nat
    BY <2>2
  <2>4. /\ Head(s) \in Block /\ Head(s) \in ToSet(s)
        /\ Tail(s) \in Seq(Block) /\ IsInjective(Tail(s))
        /\ ToSet(Tail(s)) = ToSet(s) \ {Head(s)}
    BY <2>2, <2>3, QueueHead
  <2>5. Len(Tail(s)) = Len(s) - 1
    BY <2>2, <2>3
  <2>6. ToSet(Tail(s)) = Block \ (held[mp] \cup {Head(s)})
    BY <2>2, <2>4
  <2>7. Len(s) - 1 \in Nat
    BY <2>2, <2>3
  <2>8. held[mp] \cup {Head(s)} \in SUBSET Block
    BY <2>2, <2>4
  <2>. QED  BY <2>1, <2>2, <2>4, <2>5, <2>6, <2>7, <2>8
<1>4. /\ block_list' \in [Pool -> Seq(Block)]
      /\ \A x \in Pool \ {mp} : block_list'[x] = block_list[x]
      /\ mp \in Pool => block_list'[mp] = Tail(block_list[mp])
  <2>1. PICK e : e = Tail(block_list[mp])
    OBVIOUS
  <2>2. mp \in Pool => e \in Seq(Block)
    BY <1>3, <2>1
  <2>3. block_list \in [Pool -> Seq(Block)]
    BY <1>2
  <2>4. block_list' = [block_list EXCEPT ![mp] = e]
    BY <1>1, <2>1
  <2>. QED  BY <2>1, <2>2, <2>3, <2>4, Updated
<1>5. /\ block_free_count' \in [Pool -> Nat]
      /\ \A x \in Pool \ {mp} : block_free_count'[x] = block_free_count[x]
      /\ mp \in Pool => block_free_count'[mp] = block_free_count[mp] - 1
  <2>1. PICK e : e = block_free_count[mp] - 1
    OBVIOUS
  <2>2. mp \in Pool => e \in Nat
    BY <1>3, <2>1
  <2>3. block_free_count \in [Pool -> Nat]
    BY <1>2
  <2>4. block_free_count' = [block_free_count EXCEPT ![mp] = e]
    BY <1>1, <2>1
  <2>. QED  BY <2>1, <2>2, <2>3, <2>4, Updated
<1>6. /\ held' \in [Pool -> SUBSET Block]
      /\ \A x \in Pool \ {mp} : held'[x] = held[x]
      /\ mp \in Pool => held'[mp] = held[mp] \cup {Head(block_list[mp])}
  <2>1. PICK e : e = held[mp] \cup {Head(block_list[mp])}
    OBVIOUS
  <2>2. mp \in Pool => e \in SUBSET Block
    BY <1>3, <2>1
  <2>3. PICK S : S = SUBSET Block
    OBVIOUS
  <2>4. held \in [Pool -> S] /\ (mp \in Pool => e \in S)
    BY <1>2, <2>2, <2>3
  <2>5. held' = [held EXCEPT ![mp] = e]
    BY <1>1, <2>1
  <2>6. /\ held' \in [Pool -> S] /\ \A x \in Pool \ {mp} : held'[x] = held[x]
        /\ mp \in Pool => held'[mp] = e
    BY <2>4, <2>5, Updated
  <2>. QED  BY <2>1, <2>3, <2>6
<1>7. PoolTypeOK'
  BY <1>2, <1>4, <1>5, <1>6 DEF PoolTypeOK
<1>8. \A x \in Pool \ {mp} : SameBlocks(x)
  BY <1>4, <1>5, <1>6 DEF SameBlocks
<1>9. ASSUME mp \in Pool PROVE BlocksOf(mp)'
  BY <1>3, <1>4, <1>5, <1>6, <1>9 DEF BlocksOf
<1>. QED  BY <1>5, <1>7, <1>8, <1>9

\* A block is taken by a thread that was resumed for it, or by one that overtakes.
LEMMA TakeStep ==
    ASSUME PoolInv, IpcInv', WaitersClean', NEW mp, TakeBlock(mp),
           UNCHANGED <<suspend_thread_count, open, corrupt>>,
           mp \in Pool => Available(mp), NEW t \in Thread,
           \A x \in Object : /\ Waiting(x)' = Waiting(x)
                             /\ x # mp => Resumed(x)' = Resumed(x)
                             /\ Resumed(x) \ {t} \subseteq Resumed(x)'
    PROVE  PoolInv'
<1>1. PoolTypeOK /\ (mp \in Pool => BlocksOf(mp) /\ Available(mp))
  BY DEF PoolInv, SoundPool
<1>2. /\ PoolTypeOK'
      /\ \A x \in Pool \ {mp} : SameBlocks(x)
      /\ mp \in Pool => BlocksOf(mp)' /\ block_free_count'[mp] = block_free_count[mp] - 1
  BY <1>1, TakenBlocks
<1>3. OthersKept(mp)
  <2>1. ASSUME NEW x \in Pool \ {mp} PROVE Kept(x) /\ NothingReopened(x)
    <3>1. x \in Object
      BY MemPoolAssumption
    <3>. QED  BY <1>2, <3>1 DEF Kept, NothingReopened
  <2>. QED  BY <2>1 DEF OthersKept
<1>4. ASSUME mp \in Pool PROVE SoundPool(mp)'
  <2>1. mp \in Object
    BY <1>4, MemPoolAssumption
  <2>2. SoundPool(mp) /\ IpcInv
    BY <1>4 DEF PoolInv
  <2>3. Resumed(mp) \in SUBSET Thread /\ Resumed(mp)' \in SUBSET Thread
    BY <2>1, <2>2, PoolSets
  <2>4. /\ Cardinality(Resumed(mp)) \in Nat
        /\ Cardinality(Resumed(mp) \ {t}) >= Cardinality(Resumed(mp)) - 1
    <3>1. IsFiniteSet(Resumed(mp))
      BY <2>3, KernelAssumption, FS_Subset
    <3>2. Cardinality(Resumed(mp)) \in Nat
      BY <3>1, FS_CardinalityType
    <3>3. Cardinality(Resumed(mp) \ {t})
            = IF t \in Resumed(mp) THEN Cardinality(Resumed(mp)) - 1
              ELSE Cardinality(Resumed(mp))
      BY <3>1, FS_RemoveElement
    <3>. QED  BY <3>2, <3>3
  <2>5. /\ Cardinality(Resumed(mp) \ {t}) \in Nat /\ Cardinality(Resumed(mp)') \in Nat
        /\ Cardinality(Resumed(mp) \ {t}) <= Cardinality(Resumed(mp)')
    <3>1. Resumed(mp) \ {t} \in SUBSET (Resumed(mp)')
      BY <2>1
    <3>. QED  BY <2>3, <3>1, FewerThreads
  <2>6. Cardinality(Resumed(mp)') >= Cardinality(Resumed(mp)) - 1
    BY <2>4, <2>5
  <2>7. block_free_count[mp] \in Nat /\ Waiting(mp)' = Waiting(mp)
    BY <1>1, <1>4, <2>1 DEF PoolTypeOK
  <2>8. WakeupsOf(mp)'
    <3>1. ASSUME mp \in open, ~corrupt, Waiting(mp) # {}
          PROVE  block_free_count'[mp] <= Cardinality(Resumed(mp)')
      <4>1. block_free_count[mp] <= Cardinality(Resumed(mp))
        BY <2>2, <3>1 DEF SoundPool, WakeupsOf
      <4>. QED  BY <1>2, <1>4, <2>4, <2>5, <2>6, <2>7, <4>1
    <3>. QED  BY <2>7, <3>1 DEF WakeupsOf
  <2>9. CountOf(mp)'
    BY <2>2, <2>7 DEF SoundPool, CountOf
  <2>. QED  BY <1>2, <1>4, <2>8, <2>9 DEF SoundPool
<1>. QED  BY <1>2, <1>3, <1>4, OnePool

-----------------------------------------------------------------------------
(* A thread waits for a block *)

\* rt_mp_alloc puts the thread at the head of the list of the pool.
LEMMA PoolQueues ==
    ASSUME IpcInv, WaitersClean, NEW t \in App, NEW label, Runs(t, label),
           label \notin {"wait_sched", "sleep_sched"}, NEW mp \in Object, NEW timed,
           WaitForBlock(t, mp, timed)
    PROVE  IpcInv' /\ WaitersClean' /\ Blocks(t, mp)
<1>1. PICK q : q = [k EXCEPT !.error[t] = "EOK"]
  OBVIOUS
<1>2. PICK r : r = rt_thread_suspend(q, t)
  OBVIOUS
<1>3. PICK n : n = <<t>> \o r.list[mp]
  OBVIOUS
<1>4. PICK s : s = [r EXCEPT !.list[mp] = n]
  OBVIOUS
<1>5. /\ k' = IF timed THEN rt_timer_start(s, t) ELSE s
      /\ Goes(t, "wait_sched", mp) /\ UNCHANGED <<open, corrupt>>
  BY <1>1, <1>2, <1>3, <1>4 DEF WaitForBlock
<1>6. CoherentState(k) /\ t \in Thread /\ t # Idle /\ k.stat[t] = "READY" /\ "EOK" \in Error
  BY Runner DEF App, Error
<1>7. CoherentState(q) /\ q.stat = k.stat
  BY <1>1, <1>6, ErrorCoherent
<1>8. q.stat[t] = "READY"
  BY <1>6, <1>7
<1>9. Suspended(q, t, r)
  BY <1>2, <1>6, <1>7, <1>8, SuspendCoherent
<1>10. CoherentState(r) /\ r.list[mp] = q.list[mp]
  BY <1>9 DEF Suspended, Object
<1>11. r.list[mp] \in Seq(Thread) /\ IsInjective(r.list[mp])
  BY <1>10, CoherentLists DEF KernelState, Object, ListsOK
<1>12. t \notin ToSet(r.list[mp])
  BY <1>6, <1>7, <1>8, <1>10, CoherentLists DEF Object
<1>13. n \in Seq(Thread) /\ IsInjective(n) /\ ToSet(n) = ToSet(r.list[mp]) \cup {t}
  BY <1>3, <1>6, <1>11, <1>12, PutFirst
<1>14. Enlisted(q, t, mp, s)
  <2>1. mp \in List
    BY DEF Object
  <2>. QED  BY <1>4, <1>6, <1>7, <1>8, <1>9, <1>13, <2>1, EnlistCoherent
<1>15. Queued(q, t, mp, k')
  BY <1>5, <1>6, <1>7, <1>14, EnlistedQueues
<1>. QED  BY <1>1, <1>5, <1>15, QueueingStep

\* A thread that finds no free block waits, and is counted.
LEMMA WaitPoolStep ==
    ASSUME PoolInv, NEW t \in App, NEW label, Runs(t, label),
           label \notin {"wait_sched", "sleep_sched"}, NEW mp \in Object, NEW timed,
           mp \in Pool => ~Available(mp), WaitForBlock(t, mp, timed),
           \A x \in Object \ {mp} : t \notin Resumed(x)
    PROVE  PoolInv'
<1>1. IpcInv /\ WaitersClean /\ PoolTypeOK
  BY DEF PoolInv
<1>2. IpcInv' /\ WaitersClean' /\ Blocks(t, mp)
  BY <1>1, PoolQueues
<1>3. PICK f : f = suspend_thread_count[mp] + 1
  OBVIOUS
<1>4. /\ suspend_thread_count' = [suspend_thread_count EXCEPT ![mp] = f]
      /\ block_list' = block_list /\ block_free_count' = block_free_count /\ held' = held
      /\ UNCHANGED <<open, corrupt>>
  BY <1>3 DEF WaitForBlock, blocks
<1>5. suspend_thread_count \in [Pool -> Nat] /\ (mp \in Pool => f \in Nat)
  BY <1>1, <1>3 DEF PoolTypeOK
<1>6. /\ suspend_thread_count' \in [Pool -> Nat]
      /\ \A x \in Pool \ {mp} : suspend_thread_count'[x] = suspend_thread_count[x]
      /\ mp \in Pool => suspend_thread_count'[mp] = f
  BY <1>4, <1>5, Updated
<1>7. PoolTypeOK'
  BY <1>1, <1>4, <1>6 DEF PoolTypeOK
<1>8. OthersKept(mp)
  <2>1. ASSUME NEW x \in Pool \ {mp} PROVE Kept(x) /\ NothingReopened(x)
    <3>1. x \in Object \ {mp}
      BY MemPoolAssumption
    <3>2. Waiting(x)' = Waiting(x) /\ Resumed(x)' = Resumed(x)
      BY <1>2, <3>1 DEF Blocks
    <3>. QED  BY <1>4, <1>6, <3>2 DEF Kept, SameBlocks, NothingReopened
  <2>. QED  BY <2>1 DEF OthersKept
<1>9. ASSUME mp \in Pool PROVE SoundPool(mp)'
  <2>1. SoundPool(mp) /\ block_free_count[mp] = 0
    BY <1>9 DEF PoolInv, Available
  <2>2. BlocksOf(mp)'
    BY <1>4, <2>1 DEF SoundPool, BlocksOf
  <2>3. WakeupsOf(mp)'
    <3>1. Resumed(mp)' \in SUBSET Thread
      BY <1>1, <1>2, PoolSets
    <3>2. Cardinality(Resumed(mp)') \in Nat
      BY <3>1, CountThreads
    <3>. QED  BY <1>4, <2>1, <3>2 DEF WakeupsOf
  <2>4. CountOf(mp)'
    <3>1. Waiting(mp) \in SUBSET Thread /\ Waiting(mp)' = Waiting(mp) \cup {t}
      BY <1>1, <1>2, PoolSets DEF Blocks
    <3>2. t \in Thread \ Waiting(mp)
      <4>1. t \in Thread /\ k.stat[t] = "READY"
        BY <1>1, Runner
      <4>. QED  BY <1>1, <4>1, IpcInvWaiters DEF WaitersWait
    <3>3. /\ Cardinality(Waiting(mp)) \in Nat
          /\ Cardinality(Waiting(mp)') = Cardinality(Waiting(mp)) + 1
      BY <3>1, <3>2, CountThreads
    <3>4. Cardinality(Waiting(mp)) <= suspend_thread_count[mp]
      BY <2>1 DEF SoundPool, CountOf
    <3>5. suspend_thread_count[mp] \in Nat
      BY <1>5, <1>9
    <3>. QED  BY <1>3, <1>6, <1>9, <3>3, <3>4, <3>5 DEF CountOf
  <2>. QED  BY <2>2, <2>3, <2>4 DEF SoundPool
<1>. QED  BY <1>2, <1>7, <1>8, <1>9, OnePool

-----------------------------------------------------------------------------
(* A block is freed *)

\* What rt_mp_free does to the blocks and to the count of waiting threads.
LEMMA PutBlocks ==
    ASSUME PoolTypeOK, NEW mp \in Pool, BlocksOf(mp), NEW b \in Block, b \in held[mp],
           PutBlock(mp, b)
    PROVE  /\ PoolTypeOK' /\ BlocksOf(mp)'
           /\ \A x \in Pool \ {mp} :
                SameBlocks(x) /\ suspend_thread_count'[x] = suspend_thread_count[x]
           /\ block_free_count'[mp] = block_free_count[mp] + 1
           /\ suspend_thread_count'[mp] = IF suspend_thread_count[mp] > 0
                                          THEN suspend_thread_count[mp] - 1
                                          ELSE suspend_thread_count[mp]
<1>1. PICK s : s = block_list[mp]
  OBVIOUS
<1>2. PICK c : c = IF suspend_thread_count[mp] > 0 THEN suspend_thread_count[mp] - 1
                   ELSE suspend_thread_count[mp]
  OBVIOUS
<1>3. PICK n : n = <<b>> \o s
  OBVIOUS
<1>4. /\ block_free_count' = [block_free_count EXCEPT ![mp] = block_free_count[mp] + 1]
      /\ block_list' = [block_list EXCEPT ![mp] = n]
      /\ held' = [held EXCEPT ![mp] = held[mp] \ {b}]
      /\ suspend_thread_count' = [suspend_thread_count EXCEPT ![mp] = c]
  BY <1>1, <1>2, <1>3 DEF PutBlock
<1>5. /\ block_list \in [Pool -> Seq(Block)] /\ block_free_count \in [Pool -> Nat]
      /\ held \in [Pool -> SUBSET Block] /\ suspend_thread_count \in [Pool -> Nat]
  BY DEF PoolTypeOK
<1>6. /\ s \in Seq(Block) /\ IsInjective(s) /\ ToSet(s) = Block \ held[mp]
      /\ block_free_count[mp] = Len(s) /\ held[mp] \in SUBSET Block
  BY <1>1, <1>5 DEF BlocksOf
<1>7. b \notin ToSet(s)
  BY <1>6
<1>8. n \in Seq(Block) /\ IsInjective(n) /\ ToSet(n) = ToSet(s) \cup {b} /\ Len(n) = Len(s) + 1
  BY <1>3, <1>6, <1>7, PutFirst
<1>9. ToSet(n) = Block \ (held[mp] \ {b})
  BY <1>6, <1>8
<1>10. block_free_count[mp] + 1 \in Nat /\ c \in Nat /\ held[mp] \ {b} \in SUBSET Block
  <2>1. suspend_thread_count[mp] \in Nat /\ block_free_count[mp] \in Nat
    BY <1>5
  <2>. QED  BY <1>2, <1>6, <2>1
<1>11. /\ block_list' \in [Pool -> Seq(Block)] /\ block_list'[mp] = n
       /\ \A x \in Pool \ {mp} : block_list'[x] = block_list[x]
  BY <1>4, <1>5, <1>8, Updated
<1>12. /\ block_free_count' \in [Pool -> Nat]
       /\ block_free_count'[mp] = block_free_count[mp] + 1
       /\ \A x \in Pool \ {mp} : block_free_count'[x] = block_free_count[x]
  BY <1>4, <1>5, <1>10, Updated
<1>13. /\ held' \in [Pool -> SUBSET Block] /\ held'[mp] = held[mp] \ {b}
       /\ \A x \in Pool \ {mp} : held'[x] = held[x]
  BY <1>4, <1>5, <1>10, Updated
<1>14. /\ suspend_thread_count' \in [Pool -> Nat] /\ suspend_thread_count'[mp] = c
       /\ \A x \in Pool \ {mp} : suspend_thread_count'[x] = suspend_thread_count[x]
  BY <1>4, <1>5, <1>10, Updated
<1>15. PoolTypeOK'
  BY <1>11, <1>12, <1>13, <1>14 DEF PoolTypeOK
<1>16. BlocksOf(mp)'
  BY <1>6, <1>8, <1>9, <1>11, <1>12, <1>13 DEF BlocksOf
<1>17. \A x \in Pool \ {mp} :
         SameBlocks(x) /\ suspend_thread_count'[x] = suspend_thread_count[x]
  BY <1>11, <1>12, <1>13, <1>14 DEF SameBlocks
<1>. QED  BY <1>2, <1>12, <1>14, <1>15, <1>16, <1>17

\* The block is for the thread that came last: it is resumed.
LEMMA FreeServes ==
    ASSUME PoolInv, IpcInv', WaitersClean', NEW mp \in Pool, NEW b \in Block, b \in held[mp],
           PutBlock(mp, b), Wakes(mp), UNCHANGED <<open, corrupt>>,
           NEW L \in SUBSET Thread, \A x \in Object : L \cap Resumed(x) = {},
           NEW h, Serves(L, mp, h)
    PROVE  PoolInv'
<1>1. IpcInv /\ PoolTypeOK /\ SoundPool(mp) /\ mp \in Object
  BY MemPoolAssumption DEF PoolInv
<1>2. /\ PoolTypeOK' /\ BlocksOf(mp)'
      /\ \A x \in Pool \ {mp} :
           SameBlocks(x) /\ suspend_thread_count'[x] = suspend_thread_count[x]
      /\ block_free_count'[mp] = block_free_count[mp] + 1
      /\ suspend_thread_count'[mp] = suspend_thread_count[mp] - 1
  <2>1. BlocksOf(mp) /\ suspend_thread_count[mp] > 0
    BY <1>1 DEF SoundPool, Wakes
  <2>. QED  BY <1>1, <2>1, PutBlocks
<1>3. OthersKept(mp)
  <2>1. ASSUME NEW x \in Pool \ {mp} PROVE Kept(x) /\ NothingReopened(x)
    <3>1. x \in Object \ {mp}
      BY MemPoolAssumption
    <3>2. Waiting(x)' = Waiting(x) /\ Resumed(x)' = Resumed(x)
      BY <3>1 DEF Serves
    <3>. QED  BY <1>2, <3>2 DEF Kept, NothingReopened
  <2>. QED  BY <2>1 DEF OthersKept
<1>4. /\ Waiting(mp) \in SUBSET Thread /\ Resumed(mp) \in SUBSET Thread
      /\ h \in Waiting(mp) /\ h \notin Resumed(mp)
      /\ Waiting(mp)' = Waiting(mp) \ {h} /\ Resumed(mp)' = Resumed(mp) \cup {h}
  BY <1>1, PoolSets DEF Serves, Resumed
<1>5. /\ Cardinality(Waiting(mp)) \in Nat
      /\ Cardinality(Waiting(mp)') = Cardinality(Waiting(mp)) - 1
  BY <1>4, CountThreads
<1>6. /\ Cardinality(Resumed(mp)) \in Nat
      /\ Cardinality(Resumed(mp)') = Cardinality(Resumed(mp)) + 1
  BY <1>4, CountThreads
<1>7. block_free_count[mp] \in Nat /\ suspend_thread_count[mp] \in Nat
  BY <1>1 DEF PoolTypeOK
<1>8. WakeupsOf(mp)'
  <2>1. ASSUME mp \in open, ~corrupt
        PROVE  block_free_count'[mp] <= Cardinality(Resumed(mp)')
    <3>1. block_free_count[mp] <= Cardinality(Resumed(mp))
      BY <1>1, <1>4, <2>1 DEF SoundPool, WakeupsOf
    <3>. QED  BY <1>2, <1>6, <1>7, <3>1
  <2>. QED  BY <2>1 DEF WakeupsOf
<1>9. CountOf(mp)'
  <2>1. Cardinality(Waiting(mp)) <= suspend_thread_count[mp]
    BY <1>1 DEF SoundPool, CountOf
  <2>. QED  BY <1>2, <1>5, <1>7, <2>1 DEF CountOf
<1>10. SoundPool(mp)'
  BY <1>2, <1>8, <1>9 DEF SoundPool
<1>. QED  BY <1>2, <1>3, <1>10, OnePool

\* Nobody is resumed only when nobody waits, whatever the count says.
LEMMA FreeIdles ==
    ASSUME PoolInv, NEW mp \in Pool, NEW b \in Block, b \in held[mp],
           PutBlock(mp, b), ~Wakes(mp), UNCHANGED <<k, open, pc, on>>, ~corrupt
    PROVE  PoolInv'
<1>1. IpcInv /\ WaitersClean /\ PoolTypeOK /\ SoundPool(mp) /\ mp \in Object
  BY MemPoolAssumption DEF PoolInv
<1>2. /\ PoolTypeOK' /\ BlocksOf(mp)'
      /\ \A x \in Pool \ {mp} :
           SameBlocks(x) /\ suspend_thread_count'[x] = suspend_thread_count[x]
      /\ suspend_thread_count'[mp] = IF suspend_thread_count[mp] > 0
                                     THEN suspend_thread_count[mp] - 1
                                     ELSE suspend_thread_count[mp]
  <2>1. BlocksOf(mp)
    BY <1>1 DEF SoundPool
  <2>. QED  BY <1>1, <2>1, PutBlocks
<1>3. IpcInv' /\ WaitersClean' /\ NobodyServed
  <2>1. open' \subseteq Object /\ corrupt' \in BOOLEAN
    BY <1>1 DEF PutBlock, IpcInv, IpcTypeOK
  <2>. QED  BY <1>1, <2>1, IdleStep
<1>4. OthersKept(mp)
  <2>1. ASSUME NEW x \in Pool \ {mp} PROVE Kept(x) /\ NothingReopened(x)
    <3>1. x \in Object
      BY MemPoolAssumption
    <3>2. Waiting(x)' \subseteq Waiting(x) /\ Resumed(x)' = Resumed(x)
      BY <1>3, <3>1 DEF NobodyServed, NoNewWaiter
    <3>. QED  BY <1>2, <3>2 DEF Kept, NothingReopened
  <2>. QED  BY <2>1 DEF OthersKept
<1>5. suspend_thread_count[mp] \in Nat
  BY <1>1 DEF PoolTypeOK
<1>6. Waiting(mp) = {}
  <2>1. CASE k.list[mp] = <<>>
    BY <1>1, <2>1, EmptyIsUnawaited
  <2>2. CASE ~(suspend_thread_count[mp] > 0)
    <3>1. Waiting(mp) \in SUBSET Thread
      BY <1>1, <1>3, PoolSets
    <3>2. IsFiniteSet(Waiting(mp))
      BY <3>1, KernelAssumption, FS_Subset
    <3>3. Cardinality(Waiting(mp)) \in Nat
      BY <3>2, FS_CardinalityType
    <3>4. Cardinality(Waiting(mp)) <= suspend_thread_count[mp]
      BY <1>1 DEF SoundPool, CountOf
    <3>5. Cardinality(Waiting(mp)) = 0
      BY <1>5, <2>2, <3>3, <3>4
    <3>. QED  BY <3>2, <3>5, FS_EmptySet
  <2>. QED  BY <2>1, <2>2 DEF Wakes
<1>7. Waiting(mp)' = {}
  BY <1>1, <1>3, <1>6 DEF NobodyServed, NoNewWaiter
<1>8. CountOf(mp)'
  <2>1. Cardinality(Waiting(mp)') = 0
    BY <1>7, FS_EmptySet
  <2>2. suspend_thread_count'[mp] >= 0
    BY <1>2, <1>5
  <2>. QED  BY <2>1, <2>2 DEF CountOf
<1>9. SoundPool(mp)'
  BY <1>2, <1>7, <1>8 DEF SoundPool, WakeupsOf
<1>. QED  BY <1>2, <1>3, <1>4, <1>9, OnePool

\* The thread that rt_mp_free resumes.
LEMMA PoolHead ==
    ASSUME IpcInv, NEW mp \in Object, k.list[mp] # <<>>
    PROVE  \E h \in Waiting(mp) : h \in Thread /\ Woken(k, h, "EOK", Served(mp))
<1>1. PICK h : h = Head(k.list[mp])
  OBVIOUS
<1>2. CoherentState(k) /\ mp \in List /\ "EOK" \in Error
  BY DEF IpcInv, IpcTypeOK, Coherent, CoherentState, Object, Error
<1>3. h \in Thread /\ h \in Waiting(mp) /\ k.stat[h] = "SUSPEND"
  BY <1>1, <1>2, HeadSuspended DEF Waiting
<1>4. Served(mp) = rt_thread_resume([k EXCEPT !.error[h] = "EOK"], h)
  BY <1>1 DEF Served
<1>5. Woken(k, h, "EOK", Served(mp))
  BY <1>2, <1>3, <1>4, ResumeWakes
<1>. QED  BY <1>3, <1>5

\* rt_mp_free keeps the invariant.
LEMMA FreeInv ==
    ASSUME PoolInv, NEW t \in App, NEW mp \in Pool, NEW b \in Block, Free(t, mp, b)
    PROVE  PoolInv'
<1>1. /\ Runs(t, "run") /\ b \in held[mp] /\ PutBlock(mp, b) /\ UNCHANGED open
      /\ ~corrupt /\ pc[t] = "run"
  BY DEF Free, Runs
<1>2. /\ IpcInv /\ WaitersClean /\ mp \in Object
      /\ corrupt \in BOOLEAN /\ open \subseteq Object
  BY MemPoolAssumption DEF PoolInv, IpcInv, IpcTypeOK
<1>3. CASE Wakes(mp)
  <2>1. k' = Served(mp) /\ Goes(t, "sched", NoObject)
    BY <1>3 DEF Free
  <2>2. k.list[mp] # <<>> /\ UNCHANGED corrupt
    BY <1>1, <1>2, <1>3 DEF Wakes, PutBlock
  <2>3. PICK h \in Waiting(mp) : h \in Thread /\ Woken(k, h, "EOK", k')
    BY <1>2, <2>1, <2>2, PoolHead
  <2>4. CoherentState(k) /\ k \in KernelState /\ t \in Thread /\ k.stat[t] = "READY"
    BY <1>1, <1>2, Runner
  <2>5. "sched" \in PC \ Waits /\ "sched" \notin WorksOnObject /\ "run" \notin Waits
    BY Labels DEF Waits
  <2>6. Eases(k, k')
    BY <2>3, <2>4, WokenEases
  <2>7. IpcInv'
    BY <1>1, <1>2, <2>1, <2>2, <2>5, <2>6, ReadyStep
  <2>8. Leave({t})
    BY <1>2, <2>1, <2>4, <2>5, GoesLeave
  <2>9. Serves({t}, mp, h)
    BY <1>2, <2>3, <2>4, <2>8, ServeStep
  <2>10. WaitersClean'
    BY <1>2, <2>4, <2>8, <2>9, ServesClean
  <2>11. \A x \in Object : {t} \cap Resumed(x) = {}
    BY <1>1, <2>5, RunnerNotResumed
  <2>12. {t} \in SUBSET Thread
    BY <2>4
  <2>. QED  BY <1>1, <1>3, <2>2, <2>7, <2>9, <2>10, <2>11, <2>12, FreeServes
<1>4. CASE ~Wakes(mp)
  BY <1>1, <1>4, FreeIdles DEF Free
<1>. QED  BY <1>3, <1>4

\* So does a rt_mp_free of an interrupt handler.
LEMMA FreeIsrInv ==
    ASSUME PoolInv, NEW mp \in Pool, NEW b \in Block, FreeIsr(mp, b)
    PROVE  PoolInv'
<1>1. /\ b \in held[mp] /\ PutBlock(mp, b) /\ UNCHANGED <<open, pc, on>> /\ ~corrupt
  BY DEF FreeIsr, Interruptible
<1>2. /\ IpcInv /\ WaitersClean /\ mp \in Object /\ corrupt \in BOOLEAN
      /\ CoherentState(k) /\ k.lock = 0 /\ k \in KernelState
  BY MemPoolAssumption DEF PoolInv, IpcInv, IpcTypeOK, Coherent, CoherentState, Started
<1>3. CASE Wakes(mp)
  <2>1. PICK q : q = Served(mp)
    OBVIOUS
  <2>2. k' = rt_schedule(q)
    BY <1>3, <2>1 DEF FreeIsr, Rescheduled
  <2>3. k.list[mp] # <<>> /\ UNCHANGED corrupt
    BY <1>1, <1>2, <1>3 DEF Wakes, PutBlock
  <2>4. PICK h \in Waiting(mp) : h \in Thread /\ Woken(k, h, "EOK", q)
    BY <1>2, <2>1, <2>3, PoolHead
  <2>5. Eases(k, q)
    BY <1>2, <2>4, WokenEases
  <2>6. CoherentState(q) /\ q.lock = 0
    BY <1>2, <2>5 DEF Eases
  <2>7. Eases(k, k')
    BY <1>2, <2>2, <2>5, <2>6, ScheduleEases, EasesTransitive
  <2>8. IpcInv'
    BY <1>1, <1>2, <2>3, <2>7, EasedKernel
  <2>9. Leave({})
    BY <1>1 DEF Leave
  <2>10. Serves({}, mp, h)
    BY <1>2, <2>2, <2>4, <2>9, ServeStep
  <2>11. WaitersClean'
    BY <1>2, <2>9, <2>10, ServesClean
  <2>. QED  BY <1>1, <1>3, <2>3, <2>8, <2>10, <2>11, FreeServes
<1>4. CASE ~Wakes(mp)
  BY <1>1, <1>4, FreeIdles DEF FreeIsr
<1>. QED  BY <1>3, <1>4

-----------------------------------------------------------------------------
(* The other calls *)

\* rt_mp_alloc that finds a block, in a thread or in an interrupt handler.
LEMMA AllocInv ==
    ASSUME PoolInv, NEW mp \in Pool, Available(mp), TakeBlock(mp),
           UNCHANGED <<ipcVars, suspend_thread_count>>
    PROVE  PoolInv'
<1>1. UNCHANGED <<k, open, pc, on, corrupt>> /\ UNCHANGED suspend_thread_count
  BY DEF ipcVars
<1>2. IpcInv /\ WaitersClean /\ open' \subseteq Object /\ corrupt' \in BOOLEAN
  BY <1>1 DEF PoolInv, IpcInv, IpcTypeOK
<1>3. IpcInv' /\ WaitersClean'
  BY <1>1, <1>2, IdleStep
<1>4. \A x \in Object : Waiting(x)' = Waiting(x) /\ Resumed(x)' = Resumed(x)
  BY <1>1 DEF Waiting, Resumed
<1>5. Idle \in Thread
  BY KernelAssumption
<1>. QED  BY <1>1, <1>3, <1>4, <1>5, TakeStep

\* A thread that was resumed, or that timed out, looks again.
LEMMA AllocAgainInv ==
    ASSUME PoolInv, NEW t \in App, AllocRetry(t) \/ AllocExpires(t) \/ AllocError(t)
    PROVE  PoolInv'
<1>1. Runs(t, "wait_ret") /\ pc[t] = "wait_ret"
  BY DEF AllocRetry, AllocExpires, AllocError, Runs
<1>2. /\ IpcInv /\ WaitersClean /\ open \subseteq Object /\ corrupt \in BOOLEAN
      /\ k \in KernelState
  BY DEF PoolInv, IpcInv, IpcTypeOK
<1>3. t \in Thread /\ on[t] \in Object
  BY <1>1, <1>2, Runner, Labels
<1>4. PICK mp \in Object : mp = on[t]
  BY <1>3
<1>5. \A x \in Object \ {mp} : t \notin Resumed(x)
  BY <1>4 DEF Resumed
<1>6. /\ "run" \in PC \ Waits /\ "run" \notin WorksOnObject
      /\ "wait_ret" \notin {"wait_sched", "sleep_sched"} /\ "ETIMEOUT" \in Error
  BY Labels DEF Waits, Error
<1>7. ASSUME Returns(t), UNCHANGED <<open, corrupt>>,
             UNCHANGED k \/ \E e \in Error : k' = [k EXCEPT !.error[t] = e]
      PROVE  /\ IpcInv' /\ WaitersClean'
             /\ \A x \in Object : /\ Waiting(x)' = Waiting(x)
                                  /\ Resumed(x)' = Resumed(x) \ {t}
  <2>1. Goes(t, "run", NoObject) /\ open' \subseteq Object /\ corrupt' \in BOOLEAN
    BY <1>2, <1>7 DEF Returns
  <2>2. IpcInv' /\ WaitersClean' /\ Leaves({t})
    BY <1>1, <1>2, <1>6, <1>7, <2>1, GoingStep
  <2>. QED  BY <2>2 DEF Leaves
<1>8. CASE AllocRetry(t) /\ TakeBlock(on[t])
  <2>1. CASE Available(on[t]) /\ Returns(t) /\ UNCHANGED <<k, open, corrupt, suspend_thread_count>>
    <3>1. /\ IpcInv' /\ WaitersClean'
          /\ \A x \in Object : /\ Waiting(x)' = Waiting(x)
                               /\ Resumed(x)' = Resumed(x) \ {t}
      BY <1>7, <2>1
    <3>2. \A x \in Object : /\ Waiting(x)' = Waiting(x)
                            /\ x # mp => Resumed(x)' = Resumed(x)
                            /\ Resumed(x) \ {t} \subseteq Resumed(x)'
      BY <1>5, <3>1
    <3>3. TakeBlock(mp) /\ Available(mp)
      BY <1>4, <1>8, <2>1
    <3>. QED  BY <1>3, <2>1, <3>1, <3>2, <3>3, TakeStep
  <2>2. CASE ~Available(on[t]) /\ WaitForBlock(t, on[t], t \in limit)
    BY <1>1, <1>4, <1>5, <1>6, <2>2, WaitPoolStep
  <2>. QED  BY <1>8, <2>1, <2>2 DEF AllocRetry
<1>9. CASE AllocRetry(t) /\ ~TakeBlock(on[t])
  <2>1. ~Available(on[t]) /\ WaitForBlock(t, on[t], t \in limit)
    BY <1>9 DEF AllocRetry
  <2>. QED  BY <1>1, <1>4, <1>5, <1>6, <2>1, WaitPoolStep
<1>10. CASE AllocExpires(t)
  <2>1. /\ ~Available(mp) /\ Returns(t) /\ UNCHANGED <<open, corrupt>>
        /\ k' = [k EXCEPT !.error[t] = "ETIMEOUT"]
        /\ block_list' = block_list /\ block_free_count' = block_free_count
        /\ held' = held /\ suspend_thread_count' = suspend_thread_count
    BY <1>4, <1>10 DEF AllocExpires, blocks
  <2>2. /\ IpcInv' /\ WaitersClean'
        /\ \A x \in Object : /\ Waiting(x)' = Waiting(x)
                             /\ Resumed(x)' = Resumed(x) \ {t}
    BY <1>6, <1>7, <2>1
  <2>3. PoolTypeOK'
    BY <2>1 DEF PoolInv, PoolTypeOK
  <2>4. OthersKept(mp)
    <3>1. ASSUME NEW x \in Pool \ {mp} PROVE Kept(x) /\ NothingReopened(x)
      <4>1. x \in Object \ {mp}
        BY MemPoolAssumption
      <4>2. Waiting(x)' = Waiting(x) /\ Resumed(x)' = Resumed(x)
        BY <1>5, <2>2, <4>1
      <4>. QED  BY <2>1, <4>2 DEF Kept, SameBlocks, NothingReopened
    <3>. QED  BY <3>1 DEF OthersKept
  <2>5. ASSUME mp \in Pool PROVE SoundPool(mp)'
    <3>1. SoundPool(mp) /\ block_free_count'[mp] = 0
      BY <2>1, <2>5 DEF PoolInv, Available
    <3>2. BlocksOf(mp)'
      BY <2>1, <3>1 DEF SoundPool, BlocksOf
    <3>3. Resumed(mp)' \in SUBSET Thread
      BY <1>2, <2>2, PoolSets
    <3>4. Cardinality(Resumed(mp)') \in Nat
      BY <3>3, CountThreads
    <3>5. WakeupsOf(mp)'
      BY <3>1, <3>4 DEF WakeupsOf
    <3>6. CountOf(mp)'
      BY <2>1, <2>2, <3>1 DEF SoundPool, CountOf
    <3>. QED  BY <3>2, <3>5, <3>6 DEF SoundPool
  <2>. QED  BY <2>2, <2>3, <2>4, <2>5, OnePool
<1>11. CASE AllocError(t)
  <2>1. /\ k.error[t] # "EOK" /\ Returns(t) /\ UNCHANGED <<open, corrupt>> /\ UNCHANGED k
        /\ UNCHANGED poolVars
    BY <1>11 DEF AllocError, poolVars
  <2>2. /\ IpcInv' /\ WaitersClean'
        /\ \A x \in Object : /\ Waiting(x)' = Waiting(x)
                             /\ Resumed(x)' = Resumed(x) \ {t}
    BY <1>7, <2>1
  <2>3. \A x \in Object : t \notin Resumed(x)
    BY <2>1 DEF Resumed
  <2>4. NoNewWaiter
    BY <2>2 DEF NoNewWaiter
  <2>5. \A x \in Pool : Resumed(x)' = Resumed(x) /\ NothingReopened(x)
    BY <2>1, <2>2, <2>3, MemPoolAssumption DEF NothingReopened
  <2>. QED  BY <2>1, <2>2, <2>4, <2>5, QuietPools
<1>. QED  BY <1>8, <1>9, <1>10, <1>11

\* One turn of the loop of rt_mp_delete: the count follows the list.
LEMMA MpDeleteOneInv ==
    ASSUME PoolInv, NEW t \in App, MpDeleteOne(t)
    PROVE  PoolInv'
<1>1. /\ DeleteOne(t) /\ Runs(t, "del_one") /\ ~corrupt
      /\ block_list' = block_list /\ block_free_count' = block_free_count /\ held' = held
      /\ UNCHANGED open
  BY DEF MpDeleteOne, DeleteOne, Runs, blocks
<1>2. IpcInv /\ WaitersClean /\ PoolTypeOK /\ corrupt = FALSE
  BY <1>1 DEF PoolInv, IpcInv, IpcTypeOK
<1>3. IpcInv' /\ NobodyServed
  <2>1. IpcInCall(t)
    BY <1>1 DEF IpcInCall
  <2>. QED  BY <1>2, <2>1, IpcInCallInv, IpcInCallServes
<1>4. WaitersClean' /\ NoNewWaiter
  BY <1>2, <1>3, ServedClean DEF NobodyServed
<1>5. CoherentState(k) /\ on[t] \in Object
  BY <1>1, <1>2, Runner, Labels
<1>6. PICK mp \in Object : mp = on[t]
  BY <1>5
<1>7. \A x \in Pool : /\ Waiting(x)' \subseteq Waiting(x) /\ Resumed(x)' = Resumed(x)
                      /\ NothingReopened(x)
  BY <1>1, <1>3, <1>4, MemPoolAssumption DEF NobodyServed, NoNewWaiter, NothingReopened
<1>8. CASE k.list[mp] = <<>>
  <2>1. corrupt' = TRUE
    BY <1>1, <1>6, <1>8 DEF DeleteOne
  <2>2. PICK c : c = suspend_thread_count[mp]
    OBVIOUS
  <2>3. suspend_thread_count' = [suspend_thread_count EXCEPT ![mp] = c]
    BY <1>6, <2>1, <2>2 DEF MpDeleteOne
  <2>4. suspend_thread_count' = suspend_thread_count
    BY <1>2, <2>2, <2>3 DEF PoolTypeOK
  <2>5. UNCHANGED poolVars
    BY <1>1, <2>4 DEF poolVars, blocks
  <2>. QED  BY <1>3, <1>4, <1>7, <2>5, QuietPools
<1>9. CASE k.list[mp] # <<>>
  <2>1. k' = ResumeFirst(mp) /\ corrupt' = FALSE
    BY <1>1, <1>2, <1>6, <1>9 DEF DeleteOne
  <2>2. PICK c : c = suspend_thread_count[mp] - 1
    OBVIOUS
  <2>3. suspend_thread_count' = [suspend_thread_count EXCEPT ![mp] = c]
    BY <1>6, <2>1, <2>2 DEF MpDeleteOne
  <2>4. PICK h : h = Head(k.list[mp])
    OBVIOUS
  <2>5. h \in Thread /\ h \in Waiting(mp) /\ k.stat[h] = "SUSPEND" /\ "ERROR" \in Error
    BY <1>5, <1>9, <2>4, HeadSuspended DEF Waiting, Object, Error
  <2>6. Woken(k, h, "ERROR", k')
    <3>1. k' = rt_thread_resume([k EXCEPT !.error[h] = "ERROR"], h)
      BY <2>1, <2>4 DEF ResumeFirst
    <3>. QED  BY <1>5, <2>5, <3>1, ResumeWakes
  <2>7. Waiting(mp)' = Waiting(mp) \ {h}
    BY <2>6 DEF Woken, Waiting, Object
  <2>8. Waiting(mp) \in SUBSET Thread
    BY <1>2, <1>3, PoolSets
  <2>9. /\ Cardinality(Waiting(mp)) \in Nat /\ Cardinality(Waiting(mp)') \in Nat
        /\ Cardinality(Waiting(mp)') = Cardinality(Waiting(mp)) - 1
    <3>1. Waiting(mp)' \in SUBSET Thread
      BY <2>7, <2>8
    <3>. QED  BY <2>5, <2>7, <2>8, <3>1, CountThreads
  <2>10. ASSUME mp \in Pool
         PROVE  c \in Nat /\ Cardinality(Waiting(mp)') <= c
    <3>1. Cardinality(Waiting(mp)) <= suspend_thread_count[mp]
      BY <2>10 DEF PoolInv, SoundPool, CountOf
    <3>2. suspend_thread_count[mp] \in Nat
      BY <1>2, <2>10 DEF PoolTypeOK
    <3>. QED  BY <2>2, <2>9, <3>1, <3>2
  <2>11. suspend_thread_count \in [Pool -> Nat] /\ (mp \in Pool => c \in Nat)
    BY <1>2, <2>10 DEF PoolTypeOK
  <2>12. /\ suspend_thread_count' \in [Pool -> Nat]
         /\ \A x \in Pool \ {mp} : suspend_thread_count'[x] = suspend_thread_count[x]
         /\ mp \in Pool => suspend_thread_count'[mp] = c
    BY <2>3, <2>11, Updated
  <2>13. PoolTypeOK'
    BY <1>1, <1>2, <2>12 DEF PoolTypeOK
  <2>14. OthersKept(mp)
    BY <1>1, <1>7, <2>12 DEF OthersKept, Kept, SameBlocks
  <2>15. ASSUME mp \in Pool PROVE SoundPool(mp)'
    <3>1. SoundPool(mp)
      BY <2>15 DEF PoolInv
    <3>2. BlocksOf(mp)'
      BY <1>1, <3>1 DEF SoundPool, BlocksOf
    <3>3. WakeupsOf(mp)'
      BY <1>1, <1>7, <2>15, <3>1 DEF SoundPool, WakeupsOf, NothingReopened
    <3>4. CountOf(mp)'
      BY <2>10, <2>12, <2>15 DEF CountOf
    <3>. QED  BY <3>2, <3>3, <3>4 DEF SoundPool
  <2>. QED  BY <1>3, <1>4, <2>13, <2>14, <2>15, OnePool
<1>. QED  BY <1>8, <1>9

\* rt_mp_init and rt_mp_create, on memory that nobody uses.
LEMMA MpCreateInv ==
    ASSUME PoolInv, NEW t \in App, NEW mp \in Pool, MpCreate(t, mp)
    PROVE  PoolInv'
<1>1. /\ UNCHANGED <<k, pc, on, corrupt>> /\ open' = open \cup {mp}
      /\ \A u \in Thread : on[u] # mp
      /\ block_list' = [block_list EXCEPT ![mp] = FreshBlocks]
      /\ block_free_count' = [block_free_count EXCEPT ![mp] = Cardinality(Block)]
      /\ suspend_thread_count' = [suspend_thread_count EXCEPT ![mp] = 0]
      /\ held' = [held EXCEPT ![mp] = {}]
  BY DEF MpCreate, Create
<1>2. /\ IpcInv /\ WaitersClean /\ mp \in Object /\ open \subseteq Object
      /\ corrupt \in BOOLEAN
  BY MemPoolAssumption DEF PoolInv, IpcInv, IpcTypeOK
<1>3. IpcInv' /\ WaitersClean' /\ NobodyServed
  <2>1. open' \subseteq Object /\ corrupt' \in BOOLEAN
    BY <1>1, <1>2
  <2>. QED  BY <1>1, <1>2, <2>1, IdleStep
<1>4. Waiting(mp)' = {}
  BY <1>1, <1>2, <1>3, UnusedIsEmpty DEF NobodyServed, NoNewWaiter
<1>5. /\ block_list \in [Pool -> Seq(Block)] /\ block_free_count \in [Pool -> Nat]
      /\ held \in [Pool -> SUBSET Block] /\ suspend_thread_count \in [Pool -> Nat]
  BY DEF PoolInv, PoolTypeOK
<1>6. /\ FreshBlocks \in Seq(Block) /\ Cardinality(Block) \in Nat
      /\ {} \in SUBSET Block /\ 0 \in Nat
  BY FreshHoldsAll
<1>7. /\ block_list' \in [Pool -> Seq(Block)] /\ block_list'[mp] = FreshBlocks
      /\ \A x \in Pool \ {mp} : block_list'[x] = block_list[x]
  BY <1>1, <1>5, <1>6, Updated
<1>8. /\ block_free_count' \in [Pool -> Nat] /\ block_free_count'[mp] = Cardinality(Block)
      /\ \A x \in Pool \ {mp} : block_free_count'[x] = block_free_count[x]
  BY <1>1, <1>5, <1>6, Updated
<1>9. /\ held' \in [Pool -> SUBSET Block] /\ held'[mp] = {}
      /\ \A x \in Pool \ {mp} : held'[x] = held[x]
  BY <1>1, <1>5, <1>6, Updated
<1>10. /\ suspend_thread_count' \in [Pool -> Nat] /\ suspend_thread_count'[mp] = 0
       /\ \A x \in Pool \ {mp} : suspend_thread_count'[x] = suspend_thread_count[x]
  BY <1>1, <1>5, <1>6, Updated
<1>11. PoolTypeOK'
  BY <1>7, <1>8, <1>9, <1>10 DEF PoolTypeOK
<1>12. OthersKept(mp)
  <2>1. ASSUME NEW x \in Pool \ {mp} PROVE Kept(x) /\ NothingReopened(x)
    <3>1. x \in Object
      BY MemPoolAssumption
    <3>2. Waiting(x)' \subseteq Waiting(x) /\ Resumed(x)' = Resumed(x)
      BY <1>3, <3>1 DEF NobodyServed, NoNewWaiter
    <3>3. NothingReopened(x)
      BY <1>1 DEF NothingReopened
    <3>. QED  BY <1>7, <1>8, <1>9, <1>10, <3>2, <3>3 DEF Kept, SameBlocks
  <2>. QED  BY <2>1 DEF OthersKept
<1>13. BlocksOf(mp)'
  <2>1. Block = Block \ held'[mp]
    BY <1>9
  <2>. QED  BY <1>7, <1>8, <2>1, FreshHoldsAll DEF BlocksOf
<1>14. CountOf(mp)'
  <2>1. Cardinality(Waiting(mp)') = 0
    BY <1>4, FS_EmptySet
  <2>. QED  BY <1>10, <2>1 DEF CountOf
<1>15. SoundPool(mp)'
  BY <1>4, <1>13, <1>14 DEF SoundPool, WakeupsOf
<1>. QED  BY <1>3, <1>11, <1>12, <1>15, OnePool

-----------------------------------------------------------------------------
(* The pools are sound *)

\* The steps that the pools share with the IPC objects.
LEMMA SharedPoolStep ==
    ASSUME PoolInv, NEW t \in App, IpcInCall(t) \/ IpcCall(t), UNCHANGED mpVars, UNCHANGED corrupt
    PROVE  PoolInv'
<1>1. IpcInv /\ WaitersClean
  BY DEF PoolInv
<1>2. IpcInv' /\ NobodyServed
  BY <1>1, IpcInCallInv, IpcInCallServes, IpcCallInv, IpcCallServes
<1>3. WaitersClean' /\ NoNewWaiter
  BY <1>1, <1>2, ServedClean DEF NobodyServed
<1>4. open' \subseteq open
  BY IpcOpen
<1>5. \A mp \in Pool : Resumed(mp)' = Resumed(mp) /\ NothingReopened(mp)
  BY <1>2, <1>4, MemPoolAssumption DEF NobodyServed, NothingReopened
<1>. QED  BY <1>2, <1>3, <1>5, QuietPools DEF mpVars

\* Resumed, and the pool is gone.
LEMMA ReadsDeletedInv ==
    ASSUME PoolInv, NEW t \in App, ReadsDeleted(t)
    PROVE  PoolInv'
<1>1. /\ UNCHANGED <<k, pc, on>> /\ UNCHANGED open /\ corrupt' = TRUE /\ UNCHANGED poolVars
  BY DEF ReadsDeleted, mpVars
<1>2. IpcInv /\ WaitersClean /\ open' \subseteq Object /\ corrupt' \in BOOLEAN
  BY <1>1 DEF PoolInv, IpcInv, IpcTypeOK
<1>3. IpcInv' /\ WaitersClean' /\ NobodyServed
  BY <1>1, <1>2, IdleStep
<1>4. \A mp \in Pool : Resumed(mp)' = Resumed(mp) /\ NothingReopened(mp)
  BY <1>1, <1>3, MemPoolAssumption DEF NobodyServed, NothingReopened
<1>5. NoNewWaiter
  BY <1>3 DEF NobodyServed
<1>. QED  BY <1>1, <1>3, <1>4, <1>5, QuietPools

\* Every block is free at the start and nobody waits.
LEMMA PoolInitInv ==
    ASSUME MpInit
    PROVE  PoolInv
<1>1. /\ IpcInit
      /\ block_list = [mp \in Pool |-> FreshBlocks]
      /\ block_free_count = [mp \in Pool |-> Cardinality(Block)]
      /\ suspend_thread_count = [mp \in Pool |-> 0]
      /\ held = [mp \in Pool |-> {}]
  BY DEF MpInit, PoolInit
<1>2. IpcInv
  BY <1>1, IpcInitInv
<1>3. \A o \in Object : Waiting(o) = {}
  <2>1. \A l \in List : k.list[l] = <<>>
    BY <1>1, InitCoherent DEF IpcInit
  <2>. QED  BY <2>1 DEF Waiting, Object, ToSet
<1>4. WaitersClean
  BY <1>3 DEF WaitersClean
<1>5. PoolTypeOK
  BY <1>1, FreshHoldsAll DEF PoolTypeOK
<1>6. ASSUME NEW mp \in Pool PROVE SoundPool(mp)
  <2>1. Waiting(mp) = {} /\ Cardinality({}) = 0
    BY <1>3, MemPoolAssumption, FS_EmptySet
  <2>2. CountOf(mp) /\ WakeupsOf(mp)
    BY <1>1, <2>1 DEF CountOf, WakeupsOf
  <2>3. /\ block_list[mp] = FreshBlocks /\ block_free_count[mp] = Cardinality(Block)
        /\ Block = Block \ held[mp]
    BY <1>1
  <2>4. BlocksOf(mp)
    BY <2>3, FreshHoldsAll DEF BlocksOf
  <2>. QED  BY <2>2, <2>4 DEF SoundPool
<1>. QED  BY <1>2, <1>4, <1>5, <1>6 DEF PoolInv

\* A step inside a call keeps the invariant.
LEMMA MpInCallInv ==
    ASSUME PoolInv, NEW t \in App, MpInCall(t)
    PROVE  PoolInv'
<1>1. CASE AllocRetry(t) \/ AllocExpires(t) \/ AllocError(t)
  BY <1>1, AllocAgainInv
<1>2. CASE ReadsDeleted(t)
  BY <1>2, ReadsDeletedInv
<1>3. CASE MpDeleteOne(t)
  BY <1>3, MpDeleteOneInv
<1>4. CASE /\ \/ WaitSchedule(t) \/ Schedule(t) \/ DeleteTest(t)
              \/ SleepSchedule(t) \/ SleepReturn(t)
           /\ UNCHANGED mpVars
  <2>1. IpcInCall(t) /\ UNCHANGED corrupt
    BY <1>4 DEF IpcInCall, WaitSchedule, Schedule, DeleteTest, SleepSchedule, SleepReturn
  <2>. QED  BY <1>4, <2>1, SharedPoolStep
<1>. QED  BY <1>1, <1>2, <1>3, <1>4 DEF MpInCall

\* So does the first section of a call.
LEMMA MpCallInv ==
    ASSUME PoolInv, NEW t \in App, MpCall(t)
    PROVE  PoolInv'
<1>1. ASSUME NEW mp \in Pool, Alloc(t, mp) PROVE PoolInv'
  BY <1>1, AllocInv DEF Alloc
<1>2. ASSUME NEW mp \in Pool, NEW timed \in BOOLEAN, AllocBlock(t, mp, timed) PROVE PoolInv'
  <2>1. Runs(t, "run") /\ pc[t] = "run" /\ ~Available(mp) /\ WaitForBlock(t, mp, timed)
    BY <1>2 DEF AllocBlock, Runs
  <2>2. mp \in Object /\ \A x \in Object \ {mp} : t \notin Resumed(x)
    BY <2>1, MemPoolAssumption DEF Resumed
  <2>3. "run" \notin {"wait_sched", "sleep_sched"}
    OBVIOUS
  <2>. QED  BY <2>1, <2>2, <2>3, WaitPoolStep
<1>3. ASSUME NEW mp \in Pool, NEW b \in Block, Free(t, mp, b) PROVE PoolInv'
  BY <1>3, FreeInv
<1>4. ASSUME NEW mp \in Pool, Delete(t, mp), UNCHANGED mpVars PROVE PoolInv'
  <2>1. IpcCall(t) /\ UNCHANGED corrupt
    BY <1>4, MemPoolAssumption DEF IpcCall, Delete
  <2>. QED  BY <1>4, <2>1, SharedPoolStep
<1>5. ASSUME NEW mp \in Pool, MpCreate(t, mp) PROVE PoolInv'
  BY <1>5, MpCreateInv
<1>6. CASE Sleep(t) /\ UNCHANGED mpVars
  <2>1. IpcCall(t) /\ UNCHANGED corrupt
    BY <1>6 DEF IpcCall, Sleep
  <2>. QED  BY <1>6, <2>1, SharedPoolStep
<1>. QED  BY <1>1, <1>2, <1>3, <1>4, <1>5, <1>6 DEF MpCall

\* So do the interrupt handlers and the tick.
LEMMA MpInterruptInv ==
    ASSUME PoolInv, MpInterrupt
    PROVE  PoolInv'
<1>1. ASSUME NEW mp \in Pool, AllocIsr(mp) PROVE PoolInv'
  BY <1>1, AllocInv DEF AllocIsr
<1>2. ASSUME NEW mp \in Pool, NEW b \in Block, FreeIsr(mp, b) PROVE PoolInv'
  BY <1>2, FreeIsrInv
<1>3. CASE Tick /\ UNCHANGED mpVars
  <2>1. IpcInv /\ WaitersClean
    BY DEF PoolInv
  <2>2. IpcInv' /\ NobodyServed
    BY <1>3, <2>1, TickInv, TickServes
  <2>3. WaitersClean' /\ NoNewWaiter
    BY <2>1, <2>2, ServedClean DEF NobodyServed
  <2>4. UNCHANGED <<open, corrupt>>
    BY <1>3 DEF Tick, SliceEnd, Timeout
  <2>5. \A mp \in Pool : Resumed(mp)' = Resumed(mp) /\ NothingReopened(mp)
    BY <2>2, <2>4, MemPoolAssumption DEF NobodyServed, NothingReopened
  <2>. QED  BY <1>3, <2>2, <2>3, <2>5, QuietPools DEF mpVars
<1>. QED  BY <1>1, <1>2, <1>3 DEF MpInterrupt

\* The invariant depends on the variables only.
LEMMA PoolStutter ==
    ASSUME PoolInv, UNCHANGED <<ipcVars, mpVars>>
    PROVE  PoolInv'
<1>1. UNCHANGED <<k, open, pc, on, corrupt>> /\ UNCHANGED poolVars
  BY DEF ipcVars, mpVars
<1>2. IpcInv /\ WaitersClean /\ open' \subseteq Object /\ corrupt' \in BOOLEAN
  BY <1>1 DEF PoolInv, IpcInv, IpcTypeOK
<1>3. IpcInv' /\ WaitersClean' /\ NobodyServed
  BY <1>1, <1>2, IdleStep
<1>4. \A mp \in Pool : Resumed(mp)' = Resumed(mp) /\ NothingReopened(mp)
  BY <1>1, <1>3, MemPoolAssumption DEF NobodyServed, NothingReopened
<1>5. NoNewWaiter
  BY <1>3 DEF NobodyServed
<1>. QED  BY <1>1, <1>3, <1>4, <1>5, QuietPools

\* The invariant of memory pools holds in every state.
THEOREM PoolInvariance == MpSpec => []PoolInv
<1>1. MpInit => PoolInv
  BY PoolInitInv
<1>2. PoolInv /\ [MpNext]_<<ipcVars, mpVars>> => PoolInv'
  BY MpInCallInv, MpCallInv, MpInterruptInv, PoolStutter DEF MpNext
<1>. QED  BY <1>1, <1>2, PTL DEF MpSpec

\* No block of a pool is lost or handed out twice, every free block has a thread on
\* its way to it while others wait, and the count that rt_mp_free trusts is never
\* too small: whatever overtakes, times out, waits again or is deleted.
THEOREM PoolsAreSound == MpSpec => []PoolsSound
<1>1. PoolInv => PoolsSound
  BY SoundPools DEF PoolInv
<1>. QED  BY <1>1, PoolInvariance, PTL

=============================================================================
