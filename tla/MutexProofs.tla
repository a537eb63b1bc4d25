---------------------------- MODULE MutexProofs ----------------------------
(***************************************************************************)
(* The safety properties of module Mutex, proved for every number of       *)
(* threads, priorities and mutexes and every nesting discipline; priority  *)
(* inheritance for threads that hold one mutex at a time.                  *)
(***************************************************************************)
EXTENDS Mutex, IpcProofs

\* What holds of a mutex that exists: its owner, hold and value agree with the
\* takes that returned, those who wait for it wait for somebody else, and the
\* priority to restore is one.
Sound(m) ==
    /\ owner[m] = NoThread <=> hold[m] = 0
    /\ value[m] = (IF owner[m] = NoThread THEN 1 ELSE 0)
    /\ \A t \in Thread :
         held[t][m] + (IF t \in Resumed(m) THEN 1 ELSE 0)
           = (IF owner[m] = t THEN hold[m] ELSE 0)
    /\ \A t \in Waiting(m) : owner[m] \notin {t, NoThread}
    /\ owner[m] # NoThread => original_priority[m] \in Prio

\* nest lists what held counts.
NestAgrees ==
    \A t \in Thread :
        IsInjective(nest[t]) /\ ToSet(nest[t]) = {m \in Mutexes : held[t][m] > 0}

\* The inductive invariant.
Inv ==
    /\ IpcInv /\ TypeOK
    /\ WaitersClean /\ NestAgrees
    /\ \A m \in open : Sound(m)

-----------------------------------------------------------------------------
(* The parts of a step *)

\* The history variables when a take returns RT_EOK.
LEMMA AcquiredHistory ==
    ASSUME TypeOK, NestAgrees, NEW t \in Thread, NEW m \in Mutexes, Acquired(t, m)
    PROVE  /\ held' \in [Thread -> [Mutexes -> Nat]] /\ nest' \in [Thread -> Seq(Mutexes)]
           /\ NestAgrees'
           /\ \A u \in Thread, n \in Mutexes :
                held'[u][n] = IF u = t /\ n = m THEN held[u][n] + 1 ELSE held[u][n]
<1>1. held \in [Thread -> [Mutexes -> Nat]] /\ nest \in [Thread -> Seq(Mutexes)]
  BY DEF TypeOK
<1>2. held' = [held EXCEPT ![t][m] = held[t][m] + 1]
  BY DEF Acquired
<1>3. /\ held' \in [Thread -> [Mutexes -> Nat]]
      /\ \A u \in Thread, n \in Mutexes :
           held'[u][n] = IF u = t /\ n = m THEN held[u][n] + 1 ELSE held[u][n]
  BY <1>1, <1>2
<1>4. ASSUME NEW u \in Thread
      PROVE  /\ nest'[u] \in Seq(Mutexes) /\ IsInjective(nest'[u])
             /\ ToSet(nest'[u]) = {n \in Mutexes : held'[u][n] > 0}
  <2>1. nest[u] \in Seq(Mutexes) /\ IsInjective(nest[u])
        /\ ToSet(nest[u]) = {n \in Mutexes : held[u][n] > 0}
    BY <1>1 DEF NestAgrees
  <2>2. \A n \in Mutexes : held[u][n] \in Nat
    BY <1>1
  <2>3. CASE u = t /\ held[t][m] = 0
    <3>1. nest'[u] = Append(nest[u], m)
      BY <1>1, <2>3 DEF Acquired
    <3>2. m \notin ToSet(nest[u])
      BY <2>1, <2>3
    <3>3. /\ nest'[u] \in Seq(Mutexes) /\ IsInjective(nest'[u])
          /\ ToSet(nest'[u]) = ToSet(nest[u]) \cup {m}
      BY <2>1, <3>1, <3>2, AppendToList
    <3>4. \A n \in Mutexes : held'[u][n] > 0 <=> held[u][n] > 0 \/ n = m
      BY <1>3, <2>2, <2>3
    <3>. QED  BY <2>1, <3>3, <3>4
  <2>4. CASE ~(u = t /\ held[t][m] = 0)
    <3>1. nest'[u] = nest[u]
      BY <1>1, <2>4 DEF Acquired
    <3>2. \A n \in Mutexes : held'[u][n] > 0 <=> held[u][n] > 0
      BY <1>3, <2>2, <2>4
    <3>. QED  BY <2>1, <3>1, <3>2
  <2>. QED  BY <2>3, <2>4
<1>5. nest' \in [Thread -> Seq(Mutexes)]
  <2>1. nest' = [u \in Thread |-> nest'[u]]
    BY <1>1 DEF Acquired
  <2>. QED  BY <1>4, <2>1
<1>. QED  BY <1>3, <1>4, <1>5 DEF NestAgrees

\* The history variables when a release ends a take.
LEMMA GivenHistory ==
    ASSUME TypeOK, NestAgrees, NEW t \in Thread, NEW m \in Mutexes, held[t][m] > 0, Given(t, m)
    PROVE  /\ held' \in [Thread -> [Mutexes -> Nat]] /\ nest' \in [Thread -> Seq(Mutexes)]
           /\ NestAgrees'
           /\ \A u \in Thread, n \in Mutexes :
                held'[u][n] = IF u = t /\ n = m THEN held[u][n] - 1 ELSE held[u][n]
<1>1. held \in [Thread -> [Mutexes -> Nat]] /\ nest \in [Thread -> Seq(Mutexes)]
  BY DEF TypeOK
<1>2. held' = [held EXCEPT ![t][m] = held[t][m] - 1] /\ held[t][m] - 1 \in Nat
  BY <1>1 DEF Given
<1>3. /\ held' \in [Thread -> [Mutexes -> Nat]]
      /\ \A u \in Thread, n \in Mutexes :
           held'[u][n] = IF u = t /\ n = m THEN held[u][n] - 1 ELSE held[u][n]
  BY <1>1, <1>2
<1>4. ASSUME NEW u \in Thread
      PROVE  /\ nest'[u] \in Seq(Mutexes) /\ IsInjective(nest'[u])
             /\ ToSet(nest'[u]) = {n \in Mutexes : held'[u][n] > 0}
  <2>1. nest[u] \in Seq(Mutexes) /\ IsInjective(nest[u])
        /\ ToSet(nest[u]) = {n \in Mutexes : held[u][n] > 0}
    BY <1>1 DEF NestAgrees
  <2>2. \A n \in Mutexes : held[u][n] \in Nat
    BY <1>1
  <2>3. CASE u = t /\ held[t][m] = 1
    <3>1. nest'[u] = RemoveFirst(nest[u], m)
      BY <1>1, <2>3 DEF Given
    <3>2. /\ nest'[u] \in Seq(Mutexes) /\ IsInjective(nest'[u])
          /\ ToSet(nest'[u]) = ToSet(nest[u]) \ {m}
      BY <2>1, <3>1, RemoveFirstProperties
    <3>3. \A n \in Mutexes : held'[u][n] > 0 <=> held[u][n] > 0 /\ n # m
      BY <1>3, <2>2, <2>3
    <3>. QED  BY <2>1, <3>2, <3>3
  <2>4. CASE ~(u = t /\ held[t][m] = 1)
    <3>1. nest'[u] = nest[u]
      BY <1>1, <2>4 DEF Given
    <3>2. \A n \in Mutexes : held'[u][n] > 0 <=> held[u][n] > 0
      BY <1>3, <2>2, <2>4
    <3>. QED  BY <2>1, <3>1, <3>2
  <2>. QED  BY <2>3, <2>4
<1>5. nest' \in [Thread -> Seq(Mutexes)]
  <2>1. nest' = [u \in Thread |-> nest'[u]]
    BY <1>1 DEF Given
  <2>. QED  BY <1>4, <2>1
<1>. QED  BY <1>3, <1>4, <1>5 DEF NestAgrees

\* A step that does not touch a mutex.
LEMMA SoundKept ==
    ASSUME NEW m \in Mutexes, Sound(m), Waiting(m)' \subseteq Waiting(m),
           Resumed(m)' = Resumed(m), owner'[m] = owner[m], value'[m] = value[m],
           hold'[m] = hold[m], original_priority'[m] = original_priority[m],
           \A u \in Thread : held'[u][m] = held[u][m]
    PROVE  Sound(m)'
  BY DEF Sound

\* A step that serves nobody and touches no mutex.
LEMMA QuietStep ==
    ASSUME Inv, IpcInv', NobodyServed, open' \subseteq open, UNCHANGED <<mutexVars, history>>
    PROVE  Inv'
<1>1. TypeOK'
  BY DEF Inv, IpcInv, TypeOK, mutexVars, history
<1>2. WaitersClean'
  BY ServedClean DEF Inv
<1>3. NestAgrees'
  BY DEF Inv, NestAgrees, history
<1>4. ASSUME NEW m \in open' PROVE Sound(m)'
  <2>1. m \in open /\ m \in Mutexes /\ Sound(m)
    BY DEF Inv, IpcInv, IpcTypeOK, Mutexes
  <2>2. Waiting(m)' \subseteq Waiting(m) /\ Resumed(m)' = Resumed(m)
    BY <2>1 DEF NobodyServed, NoNewWaiter, Mutexes
  <2>3. /\ owner'[m] = owner[m] /\ value'[m] = value[m] /\ hold'[m] = hold[m]
        /\ original_priority'[m] = original_priority[m]
        /\ \A u \in Thread : held'[u][m] = held[u][m]
    BY DEF mutexVars, history
  <2>. QED  BY <2>1, <2>2, <2>3, SoundKept
<1>. QED  BY <1>1, <1>2, <1>3, <1>4 DEF Inv

\* A step that writes the fields of one mutex, or of none.
LEMMA MutexStep ==
    ASSUME Inv, IpcInv', WaitersClean', NestAgrees', NEW m \in Mutexes,
           m \in open' => Sound(m)', open' \subseteq open \cup {m},
           NEW v \in {0, 1}, value' = [value EXCEPT ![m] = v],
           NEW w \in Thread \cup {NoThread}, owner' = [owner EXCEPT ![m] = w],
           NEW p \in Prio \cup {NO_PRIO},
           original_priority' = [original_priority EXCEPT ![m] = p],
           NEW h \in 0 .. HOLD_MAX, hold' = [hold EXCEPT ![m] = h],
           held' \in [Thread -> [Mutexes -> Nat]], nest' \in [Thread -> Seq(Mutexes)],
           \A n \in Mutexes \ {m} : /\ Waiting(n)' \subseteq Waiting(n)
                                    /\ Resumed(n)' = Resumed(n)
                                    /\ \A u \in Thread : held'[u][n] = held[u][n]
    PROVE  Inv'
<1>1. /\ value \in [Mutexes -> {0, 1}] /\ owner \in [Mutexes -> Thread \cup {NoThread}]
      /\ original_priority \in [Mutexes -> Prio \cup {NO_PRIO}]
      /\ hold \in [Mutexes -> 0 .. HOLD_MAX]
  BY DEF Inv, TypeOK
<1>2. TypeOK'
  BY <1>1 DEF IpcInv, TypeOK
<1>3. ASSUME NEW n \in open' PROVE Sound(n)'
  <2>1. CASE n = m
    BY <1>3, <2>1
  <2>2. CASE n # m
    <3>1. n \in open /\ n \in Mutexes /\ Sound(n)
      BY <2>2 DEF Inv, IpcInv, IpcTypeOK, Mutexes
    <3>2. /\ owner'[n] = owner[n] /\ value'[n] = value[n] /\ hold'[n] = hold[n]
          /\ original_priority'[n] = original_priority[n]
      BY <1>1, <2>2, <3>1
    <3>. QED  BY <2>2, <3>1, <3>2, SoundKept
  <2>. QED  BY <2>1, <2>2
<1>. QED  BY <1>2, <1>3 DEF Inv

-----------------------------------------------------------------------------
(* The actions *)

\* The invariant holds initially.
LEMMA InitInv ==
    ASSUME Init
    PROVE  Inv
<1>1. IpcInit /\ IpcInv
  BY IpcInitInv DEF Init
<1>2. \A o \in Object : Waiting(o) = {}
  <2>1. \A l \in List : k.list[l] = <<>>
    BY <1>1, InitCoherent DEF IpcInit
  <2>. QED  BY <2>1 DEF Waiting, Object, ToSet
<1>3. \A o \in Object : Resumed(o) = {}
  BY <1>1 DEF IpcInit, Resumed
<1>4. TypeOK
  BY <1>1, MutexAssumption DEF Init, IpcInv, TypeOK
<1>5. NestAgrees
  BY DEF Init, NestAgrees, IsInjective, ToSet
<1>6. WaitersClean
  BY <1>2 DEF WaitersClean
<1>7. ASSUME NEW m \in open PROVE Sound(m)
  <2>1. m \in Mutexes
    BY <1>1 DEF IpcInit, Mutexes
  <2>2. Waiting(m) = {} /\ Resumed(m) = {}
    BY <1>2, <1>3, <2>1 DEF Mutexes
  <2>3. /\ owner[m] = NoThread /\ hold[m] = 0 /\ value[m] = 1
        /\ \A t \in Thread : held[t][m] = 0
    BY <2>1 DEF Init
  <2>. QED  BY <2>2, <2>3, MutexAssumption DEF Sound
<1>. QED  BY <1>1, <1>4, <1>5, <1>6, <1>7 DEF Inv

\* What is known of a thread that calls a function of a mutex.
LEMMA Caller ==
    ASSUME Inv, NEW t \in App, NEW m \in Mutexes, Runs(t, "run"), Usable(m)
    PROVE  /\ IpcInv /\ CoherentState(k) /\ k \in KernelState /\ k.lock = 0
           /\ t \in Thread /\ t # Idle /\ t # NoThread /\ t = k.cur /\ k.stat[t] = "READY"
           /\ pc[t] = "run" /\ m \in open /\ m \in Object /\ m \in List /\ Sound(m)
           /\ k.prio[t] \in Prio
           /\ \A o \in Object : t \notin Resumed(o)
           /\ held[t][m] = IF owner[m] = t THEN hold[m] ELSE 0
           /\ value[m] \in {0, 1} /\ owner[m] \in Thread \cup {NoThread}
           /\ hold[m] \in 0 .. HOLD_MAX /\ hold[m] \in Nat
           /\ original_priority[m] \in Prio \cup {NO_PRIO}
           /\ \A u \in Thread : held[u][m] \in Nat
<1>1. /\ IpcInv /\ CoherentState(k) /\ k \in KernelState /\ k.lock = 0
      /\ t \in Thread /\ t # Idle /\ t # NoThread /\ t = k.cur /\ k.stat[t] = "READY"
      /\ pc[t] = "run"
  BY Runner, MutexAssumption DEF Inv, App
<1>2. m \in open /\ m \in Object /\ m \in List /\ Sound(m)
  BY DEF Inv, Usable, Mutexes, Object
<1>3. k.prio[t] \in Prio
  BY <1>1 DEF KernelState
<1>4. \A o \in Object : t \notin Resumed(o)
  BY <1>1, RunnerNotResumed DEF Waits
<1>5. /\ value[m] \in {0, 1} /\ owner[m] \in Thread \cup {NoThread}
      /\ hold[m] \in 0 .. HOLD_MAX /\ original_priority[m] \in Prio \cup {NO_PRIO}
      /\ \A u \in Thread : held[u][m] \in Nat
  BY DEF Inv, TypeOK
<1>6. hold[m] \in Nat
  BY <1>5, MutexAssumption
<1>7. held[t][m] = IF owner[m] = t THEN hold[m] ELSE 0
  <2>1. held[t][m] + 0 = IF owner[m] = t THEN hold[m] ELSE 0
    BY <1>1, <1>2, <1>4 DEF Sound
  <2>. QED  BY <1>1, <1>5, <2>1
<1>. QED  BY <1>1, <1>2, <1>3, <1>4, <1>5, <1>6, <1>7

\* A call that writes the error of its thread, and no other part of the kernel,
\* and stays outside.
LEMMA ErrorStep ==
    ASSUME Inv, NEW t \in App, Runs(t, "run"), NEW e \in Error,
           k' = [k EXCEPT !.error[t] = e], UNCHANGED <<open, pc, on, corrupt>>
    PROVE  /\ IpcInv' /\ WaitersClean'
           /\ \A o \in Object : Waiting(o)' = Waiting(o) /\ Resumed(o)' = Resumed(o)
<1>1. /\ IpcInv /\ CoherentState(k) /\ k \in KernelState /\ t \in Thread
      /\ k.stat[t] = "READY" /\ pc[t] = "run"
  BY Runner DEF Inv
<1>2. /\ CoherentState(k')
      /\ k'.stat = k.stat /\ k'.prio = k.prio /\ k'.cur = k.cur /\ k'.lock = k.lock
      /\ k'.timer = k.timer /\ k'.list = k.list
  BY <1>1, ErrorCoherent
<1>3. Eases(k, k')
  BY <1>2 DEF Eases
<1>4. IpcInv'
  BY <1>1, <1>3, EasedKernel
<1>5. \A u \in Thread \ {t} : k'.error[u] = k.error[u]
  BY <1>1 DEF KernelState
<1>6. Leave({t})
  BY <1>1 DEF Leave, Waits
<1>7. Leaves({t})
  BY <1>1, <1>2, <1>5, <1>6, LeaveStep
<1>8. WaitersClean'
  BY <1>1, <1>6, <1>7, LeavesClean DEF Inv
<1>9. \A o \in Object : t \notin Resumed(o)
  BY <1>1, RunnerNotResumed DEF Waits
<1>. QED  BY <1>4, <1>7, <1>8, <1>9 DEF Leaves

\* rt_mutex_take of a mutex that the thread owns.
LEMMA TakeAgainInv ==
    ASSUME Inv, NEW t \in App, NEW m \in Mutexes, TakeAgain(t, m)
    PROVE  Inv'
<1>1. /\ Runs(t, "run") /\ Usable(m) /\ owner[m] = t /\ hold[m] < HOLD_MAX
      /\ k' = [k EXCEPT !.error[t] = "EOK"] /\ hold' = [hold EXCEPT ![m] = hold[m] + 1]
      /\ Acquired(t, m) /\ UNCHANGED <<value, owner, original_priority>>
      /\ UNCHANGED <<open, pc, on, corrupt>>
  BY DEF TakeAgain
<1>2. "EOK" \in Error
  BY DEF Error
<1>3. /\ IpcInv' /\ WaitersClean'
      /\ \A o \in Object : Waiting(o)' = Waiting(o) /\ Resumed(o)' = Resumed(o)
  BY <1>1, <1>2, ErrorStep
<1>4. /\ t \in Thread /\ t # NoThread /\ m \in open /\ m \in Object /\ Sound(m)
      /\ hold[m] \in 0 .. HOLD_MAX /\ \A u \in Thread : held[u][m] \in Nat
      /\ value[m] \in {0, 1} /\ owner[m] \in Thread \cup {NoThread}
      /\ original_priority[m] \in Prio \cup {NO_PRIO}
      /\ held[t][m] = hold[m]
  BY <1>1, Caller
<1>5. /\ held' \in [Thread -> [Mutexes -> Nat]] /\ nest' \in [Thread -> Seq(Mutexes)]
      /\ NestAgrees'
      /\ \A u \in Thread, n \in Mutexes :
           held'[u][n] = IF u = t /\ n = m THEN held[u][n] + 1 ELSE held[u][n]
  BY <1>1, <1>4, AcquiredHistory DEF Inv
<1>6. hold[m] + 1 \in 0 .. HOLD_MAX /\ hold[m] \in Nat /\ HOLD_MAX \in Nat
  BY <1>1, <1>4, MutexAssumption
<1>7. value' = [value EXCEPT ![m] = value[m]] /\ owner' = [owner EXCEPT ![m] = owner[m]]
      /\ original_priority' = [original_priority EXCEPT ![m] = original_priority[m]]
  BY <1>1 DEF Inv, TypeOK
<1>8. Sound(m)'
  <2>1. owner'[m] = t /\ value'[m] = value[m] /\ hold'[m] = hold[m] + 1
        /\ original_priority'[m] = original_priority[m]
    BY <1>1 DEF Inv, TypeOK
  <2>2. Waiting(m)' = Waiting(m) /\ Resumed(m)' = Resumed(m)
    BY <1>3, <1>4
  <2>3. ASSUME NEW u \in Thread
        PROVE  held'[u][m] + (IF u \in Resumed(m) THEN 1 ELSE 0)
                 = (IF owner'[m] = u THEN hold'[m] ELSE 0)
    <3>1. held[u][m] + (IF u \in Resumed(m) THEN 1 ELSE 0)
            = (IF owner[m] = u THEN hold[m] ELSE 0)
      BY <1>4 DEF Sound
    <3>2. held'[u][m] = IF u = t THEN held[u][m] + 1 ELSE held[u][m]
      BY <1>5
    <3>. QED  BY <1>1, <1>4, <1>6, <2>1, <3>1, <3>2
  <2>4. hold'[m] # 0
    BY <1>6, <2>1
  <2>. QED  BY <1>1, <1>4, <2>1, <2>2, <2>3, <2>4 DEF Sound
<1>9. \A n \in Mutexes \ {m} : /\ Waiting(n)' \subseteq Waiting(n)
                               /\ Resumed(n)' = Resumed(n)
                               /\ \A u \in Thread : held'[u][n] = held[u][n]
  BY <1>3, <1>5 DEF Mutexes
<1>. QED  BY <1>1, <1>3, <1>4, <1>5, <1>6, <1>7, <1>8, <1>9, MutexStep

\* rt_mutex_take of a mutex that is free.
LEMMA TakeFreeInv ==
    ASSUME Inv, NEW t \in App, NEW m \in Mutexes, TakeFree(t, m)
    PROVE  Inv'
<1>1. /\ Runs(t, "run") /\ Usable(m) /\ owner[m] # t /\ value[m] > 0
      /\ k' = [k EXCEPT !.error[t] = "EOK"]
      /\ value' = [value EXCEPT ![m] = value[m] - 1]
      /\ owner' = [owner EXCEPT ![m] = t]
      /\ original_priority' = [original_priority EXCEPT ![m] = k.prio[t]]
      /\ hold' = [hold EXCEPT ![m] = hold[m] + 1]
      /\ Acquired(t, m) /\ UNCHANGED <<open, pc, on, corrupt>>
  BY DEF TakeFree
<1>2. "EOK" \in Error
  BY DEF Error
<1>3. /\ IpcInv' /\ WaitersClean'
      /\ \A o \in Object : Waiting(o)' = Waiting(o) /\ Resumed(o)' = Resumed(o)
  BY <1>1, <1>2, ErrorStep
<1>4. /\ t \in Thread /\ t # NoThread /\ m \in open /\ m \in Object /\ Sound(m)
      /\ hold[m] \in 0 .. HOLD_MAX /\ \A u \in Thread : held[u][m] \in Nat
      /\ value[m] \in {0, 1} /\ k.prio[t] \in Prio
  BY <1>1, Caller
<1>5. value[m] = 1 /\ owner[m] = NoThread /\ hold[m] = 0
  BY <1>1, <1>4 DEF Sound
<1>6. /\ held' \in [Thread -> [Mutexes -> Nat]] /\ nest' \in [Thread -> Seq(Mutexes)]
      /\ NestAgrees'
      /\ \A u \in Thread, n \in Mutexes :
           held'[u][n] = IF u = t /\ n = m THEN held[u][n] + 1 ELSE held[u][n]
  BY <1>1, <1>4, AcquiredHistory DEF Inv
<1>7. hold[m] + 1 \in 0 .. HOLD_MAX /\ value[m] - 1 \in {0, 1}
  BY <1>5, MutexAssumption
<1>8. Sound(m)'
  <2>1. owner'[m] = t /\ value'[m] = 0 /\ hold'[m] = 1 /\ original_priority'[m] = k.prio[t]
    BY <1>1, <1>5 DEF Inv, TypeOK
  <2>2. Waiting(m)' = Waiting(m) /\ Resumed(m)' = Resumed(m)
    BY <1>3, <1>4
  <2>3. Waiting(m) = {}
    BY <1>4, <1>5 DEF Sound
  <2>4. ASSUME NEW u \in Thread
        PROVE  held'[u][m] + (IF u \in Resumed(m) THEN 1 ELSE 0)
                 = (IF owner'[m] = u THEN hold'[m] ELSE 0)
    <3>1. held[u][m] + (IF u \in Resumed(m) THEN 1 ELSE 0) = 0
      BY <1>4, <1>5, MutexAssumption DEF Sound
    <3>2. held'[u][m] = IF u = t THEN held[u][m] + 1 ELSE held[u][m]
      BY <1>6
    <3>. QED  BY <1>4, <2>1, <3>1, <3>2
  <2>. QED  BY <1>4, <2>1, <2>2, <2>3, <2>4 DEF Sound
<1>9. \A n \in Mutexes \ {m} : /\ Waiting(n)' \subseteq Waiting(n)
                               /\ Resumed(n)' = Resumed(n)
                               /\ \A u \in Thread : held'[u][n] = held[u][n]
  BY <1>3, <1>6 DEF Mutexes
<1>. QED  BY <1>1, <1>3, <1>4, <1>6, <1>7, <1>8, <1>9, MutexStep

\* The calls that return an error at once.
LEMMA RefusedInv ==
    ASSUME Inv, NEW t \in App, NEW m \in Mutexes, TakeBusy(t, m) \/ ReleaseNotOwner(t, m)
    PROVE  Inv'
<1>1. PICK e \in Error : k' = [k EXCEPT !.error[t] = e]
  BY DEF TakeBusy, ReleaseNotOwner, Error
<1>2. Runs(t, "run") /\ UNCHANGED <<open, pc, on, corrupt>> /\ UNCHANGED <<mutexVars, history>>
  BY DEF TakeBusy, ReleaseNotOwner
<1>3. /\ IpcInv' /\ WaitersClean'
      /\ \A o \in Object : Waiting(o)' = Waiting(o) /\ Resumed(o)' = Resumed(o)
  BY <1>1, <1>2, ErrorStep
<1>4. NobodyServed
  BY <1>3 DEF NobodyServed, NoNewWaiter, WaitersClean, Inv
<1>. QED  BY <1>2, <1>3, <1>4, QuietStep

\* What a change of priority leaves alone.
LEMMA PriorityChanged ==
    ASSUME NEW q, CoherentState(q), NEW u \in Thread, NEW p \in Prio,
           NEW r, r = rt_thread_change_priority(q, u, p)
    PROVE  /\ Eases(q, r)
           /\ r.stat = q.stat /\ r.cur = q.cur /\ r.error = q.error
           /\ \A l \in List : r.list[l] = q.list[l]
           /\ \A v \in Thread : r.prio[v] = IF v = u THEN p ELSE q.prio[v]
<1>. DEFINE s == rt_thread_change_priority(q, u, p)
<1>1. /\ CoherentState(s)
      /\ s.stat = q.stat /\ s.prio = [q.prio EXCEPT ![u] = p]
      /\ s.cur = q.cur /\ s.lock = q.lock /\ s.error = q.error /\ s.timer = q.timer
      /\ \A l \in List : s.list[l] = q.list[l]
  BY ChangePriorityCoherent
<1>2. Eases(q, s)
  BY ChangePriorityEases
<1>3. q.prio \in [Thread -> Prio]
  BY DEF CoherentState, KernelState
<1>. HIDE DEF s
<1>. QED  BY <1>1, <1>2, <1>3 DEF s

\* The owner inherits a priority: nothing else changes.
LEMMA InheritEases ==
    ASSUME NEW q, CoherentState(q), NEW t \in Thread, NEW m \in Mutexes,
           owner[m] \in Thread, NEW r, r = Inherit(q, t, m)
    PROVE  /\ Eases(q, r) /\ CoherentState(r)
           /\ r.stat = q.stat /\ r.cur = q.cur /\ r.error = q.error
           /\ \A l \in List : r.list[l] = q.list[l]
           /\ \A v \in Thread :
                r.prio[v] = IF v = owner[m] /\ q.prio[t] < q.prio[v]
                            THEN q.prio[t] ELSE q.prio[v]
<1>1. CASE q.prio[t] < q.prio[owner[m]]
  <2>1. r = rt_thread_change_priority(q, owner[m], q.prio[t]) /\ q.prio[t] \in Prio
    BY <1>1 DEF Inherit, CoherentState, KernelState
  <2>2. PICK u \in Thread : u = owner[m]
    OBVIOUS
  <2>3. PICK p \in Prio : p = q.prio[t]
    BY <2>1
  <2>4. r = rt_thread_change_priority(q, u, p)
    BY <2>1, <2>2, <2>3
  <2>5. /\ Eases(q, r)
        /\ r.stat = q.stat /\ r.cur = q.cur /\ r.error = q.error
        /\ \A l \in List : r.list[l] = q.list[l]
        /\ \A v \in Thread : r.prio[v] = IF v = u THEN p ELSE q.prio[v]
    BY <2>4, PriorityChanged
  <2>6. CoherentState(r)
    BY <2>5 DEF Eases
  <2>7. \A v \in Thread : r.prio[v] = IF v = owner[m] /\ q.prio[t] < q.prio[v]
                                       THEN q.prio[t] ELSE q.prio[v]
    BY <1>1, <2>2, <2>3, <2>5
  <2>. QED  BY <2>5, <2>6, <2>7
<1>2. CASE ~(q.prio[t] < q.prio[owner[m]])
  BY <1>2, EasesReflexive DEF Inherit
<1>. QED  BY <1>1, <1>2

\* What rt_mutex_take of a mutex that another thread owns does: in q that
\* thread has inherited the priority of the caller, which then waits.
LEMMA TakeBlockEffect ==
    ASSUME Inv, NEW t \in App, NEW m \in Mutexes, NEW timed, TakeBlock(t, m, timed)
    PROVE  /\ owner[m] \in Thread \ {t} /\ IpcInv' /\ Blocks(t, m)
           /\ \E q : /\ CoherentState(q) /\ q.stat = k.stat /\ k'.prio = q.prio
                     /\ \A l \in List : q.list[l] = k.list[l]
                     /\ k' = Wait(q, t, m, timed)
                     /\ \A v \in Thread :
                          q.prio[v] = IF v = owner[m] /\ k.prio[t] < k.prio[v]
                                      THEN k.prio[t] ELSE k.prio[v]
<1> DEFINE q1 == [k EXCEPT !.error[t] = "EOK"]
           q == Inherit(q1, t, m)
<1>1. /\ Runs(t, "run") /\ Usable(m) /\ owner[m] # t /\ value[m] = 0
      /\ k' = Wait(q, t, m, timed) /\ Goes(t, "wait_sched", m)
      /\ UNCHANGED <<open, corrupt>>
  BY DEF TakeBlock
<1>2. /\ IpcInv /\ CoherentState(k) /\ k \in KernelState /\ t \in Thread /\ t # Idle
      /\ t = k.cur /\ k.stat[t] = "READY" /\ m \in open /\ m \in Object /\ Sound(m)
      /\ owner[m] \in Thread \cup {NoThread}
  BY <1>1, Caller
<1>3. owner[m] \in Thread \ {t}
  BY <1>1, <1>2 DEF Sound
<1>4. /\ CoherentState(q1) /\ q1.stat = k.stat /\ q1.prio = k.prio /\ q1.cur = k.cur
      /\ q1.lock = k.lock /\ q1.timer = k.timer /\ q1.list = k.list
      /\ q1.error = [k.error EXCEPT ![t] = "EOK"]
  <2>1. "EOK" \in Error
    BY DEF Error
  <2>2. q1.error = [k.error EXCEPT ![t] = "EOK"]
    BY <1>2 DEF KernelState
  <2>. QED  BY <1>2, <2>1, <2>2, ErrorCoherent
<1>5. Eases(k, q1)
  BY <1>4 DEF Eases
<1>. HIDE DEF q1
<1>6. /\ Eases(q1, q) /\ CoherentState(q)
      /\ q.stat = q1.stat /\ q.cur = q1.cur /\ q.error = q1.error
      /\ \A l \in List : q.list[l] = q1.list[l]
      /\ \A v \in Thread : q.prio[v] = IF v = owner[m] /\ q1.prio[t] < q1.prio[v]
                                       THEN q1.prio[t] ELSE q1.prio[v]
  <2>1. CoherentState(q1) /\ t \in Thread /\ owner[m] \in Thread /\ q = Inherit(q1, t, m)
    BY <1>2, <1>3, <1>4
  <2>. HIDE DEF q
  <2>. QED  BY <2>1, InheritEases
<1>. HIDE DEF q
<1>7. Eases(k, q)
  BY <1>2, <1>5, <1>6, EasesTransitive
<1>8. IpcInv'
  BY <1>1, <1>2, <1>4, <1>6, <1>7, WaitStep
<1>9. Queued(q, t, m, k')
  BY <1>1, <1>2, <1>4, <1>6, WaitQueues
<1>10. Blocks(t, m)
  BY <1>1, <1>2, <1>4, <1>6, <1>8, <1>9, BlockStep
<1>11. k'.prio = q.prio
  BY <1>9 DEF Queued
<1>. QED  BY <1>1, <1>3, <1>4, <1>6, <1>8, <1>10, <1>11

\* It keeps the invariant.
LEMMA TakeBlockInv ==
    ASSUME Inv, NEW t \in App, NEW m \in Mutexes, NEW timed, TakeBlock(t, m, timed)
    PROVE  Inv'
<1>1. /\ Runs(t, "run") /\ Usable(m)
      /\ UNCHANGED <<mutexVars, history>> /\ UNCHANGED <<open, corrupt>>
  BY DEF TakeBlock
<1>2. /\ IpcInv /\ t \in Thread /\ m \in open /\ m \in Object /\ Sound(m)
      /\ \A o \in Object : t \notin Resumed(o)
  BY <1>1, Caller
<1>3. owner[m] \in Thread \ {t} /\ IpcInv' /\ Blocks(t, m)
  BY TakeBlockEffect
<1>4. WaitersClean'
  BY <1>2, <1>3, BlocksClean DEF Inv
<1>5. Sound(m)'
  <2>1. Waiting(m)' = Waiting(m) \cup {t} /\ Resumed(m)' = Resumed(m)
    BY <1>2, <1>3 DEF Blocks
  <2>. QED  BY <1>1, <1>2, <1>3, <2>1, MutexAssumption DEF Sound, mutexVars, history
<1>6. ASSUME NEW n \in Mutexes \ {m}
      PROVE  Waiting(n)' = Waiting(n) /\ Resumed(n)' = Resumed(n)
  <2>1. n \in Object \ {m} /\ t \notin Resumed(n)
    BY <1>2 DEF Mutexes
  <2>2. Waiting(n)' = Waiting(n) /\ Resumed(n)' = Resumed(n) \ {t}
    BY <1>3, <2>1 DEF Blocks
  <2>. QED  BY <2>1, <2>2
<1>7. TypeOK' /\ NestAgrees'
  BY <1>1, <1>3 DEF Inv, IpcInv, TypeOK, NestAgrees, mutexVars, history
<1>8. ASSUME NEW n \in open' PROVE Sound(n)'
  <2>1. CASE n = m
    BY <1>5, <2>1
  <2>2. CASE n # m
    <3>1. n \in Mutexes /\ Sound(n)
      BY <1>1 DEF Inv, IpcInv, IpcTypeOK, Mutexes
    <3>2. /\ owner'[n] = owner[n] /\ value'[n] = value[n] /\ hold'[n] = hold[n]
          /\ original_priority'[n] = original_priority[n]
          /\ \A u \in Thread : held'[u][n] = held[u][n]
      BY <1>1 DEF mutexVars, history
    <3>. QED  BY <1>6, <2>2, <3>1, <3>2, SoundKept
  <2>. QED  BY <2>1, <2>2
<1>. QED  BY <1>3, <1>4, <1>7, <1>8 DEF Inv

\* The end of a take that waited.
LEMMA TakeReturnInv ==
    ASSUME Inv, NEW t \in App, TakeReturn(t)
    PROVE  Inv'
<1>0. PICK m \in Object : m = on[t]
  <2>1. Runs(t, "wait_ret")
    BY DEF TakeReturn
  <2>. QED  BY <2>1, Runner DEF Inv, WorksOnObject, Waits
<1>1. /\ Runs(t, "wait_ret") /\ Goes(t, "run", NoObject) /\ UNCHANGED k
      /\ UNCHANGED mutexVars /\ UNCHANGED <<open, corrupt>>
      /\ IF k.error[t] = "EOK" THEN Acquired(t, m) ELSE UNCHANGED history
  BY <1>0 DEF TakeReturn, Returns
<1>2. /\ IpcInv /\ CoherentState(k) /\ t \in Thread /\ pc[t] = "wait_ret" /\ m \in Object
      /\ k.stat[t] = "READY" /\ m \in Mutexes
  BY <1>0, <1>1, Runner DEF Inv, Mutexes
<1>3. IpcInv'
  <2>1. Eases(k, k')
    BY <1>1, <1>2, EasesReflexive
  <2>. QED  BY <1>1, <1>2, <2>1, ReadyStep, Labels
<1>4. Leave({t})
  BY <1>1, <1>2, GoesLeave DEF Waits
<1>5. Leaves({t})
  BY <1>1, <1>2, <1>4, LeaveStep
<1>6. WaitersClean'
  BY <1>2, <1>4, <1>5, LeavesClean DEF Inv
<1>7. \A o \in Object : Waiting(o)' = Waiting(o) /\ Resumed(o)' = Resumed(o) \ {t}
  BY <1>5 DEF Leaves
<1>8. \A n \in Object \ {m} : t \notin Resumed(n)
  BY <1>0 DEF Resumed
<1>9. CASE k.error[t] # "EOK"
  <2>1. \A o \in Object : Resumed(o)' = Resumed(o)
    BY <1>7, <1>9 DEF Resumed
  <2>2. NobodyServed
    BY <1>1, <1>7, <2>1 DEF NobodyServed, NoNewWaiter
  <2>. QED  BY <1>1, <1>3, <1>9, <2>2, QuietStep
<1>10. CASE k.error[t] = "EOK"
  <2>1. t \in Resumed(m)
    <3>1. t \notin Waiting(m)
      BY <1>2, CoherentLists DEF Waiting, Object
    <3>. QED  BY <1>0, <1>2, <1>10, <3>1 DEF Resumed
  <2>2. /\ held' \in [Thread -> [Mutexes -> Nat]] /\ nest' \in [Thread -> Seq(Mutexes)]
        /\ NestAgrees'
        /\ \A u \in Thread, n \in Mutexes :
             held'[u][n] = IF u = t /\ n = m THEN held[u][n] + 1 ELSE held[u][n]
    BY <1>1, <1>2, <1>10, AcquiredHistory DEF Inv
  <2>3. /\ value' = [value EXCEPT ![m] = value[m]] /\ value[m] \in {0, 1}
        /\ owner' = [owner EXCEPT ![m] = owner[m]] /\ owner[m] \in Thread \cup {NoThread}
        /\ original_priority' = [original_priority EXCEPT ![m] = original_priority[m]]
        /\ original_priority[m] \in Prio \cup {NO_PRIO}
        /\ hold' = [hold EXCEPT ![m] = hold[m]] /\ hold[m] \in 0 .. HOLD_MAX
    BY <1>1, <1>2 DEF Inv, TypeOK, mutexVars
  <2>4. ASSUME m \in open' PROVE Sound(m)'
    <3>1. Sound(m)
      BY <1>1, <2>4 DEF Inv
    <3>2. Waiting(m)' = Waiting(m) /\ Resumed(m)' = Resumed(m) \ {t}
      BY <1>2, <1>7
    <3>3. ASSUME NEW u \in Thread
          PROVE  held'[u][m] + (IF u \in Resumed(m) \ {t} THEN 1 ELSE 0)
                   = (IF owner[m] = u THEN hold[m] ELSE 0)
      <4>1. held[u][m] + (IF u \in Resumed(m) THEN 1 ELSE 0)
              = (IF owner[m] = u THEN hold[m] ELSE 0)
        BY <3>1 DEF Sound
      <4>2. held'[u][m] = (IF u = t THEN held[u][m] + 1 ELSE held[u][m])
            /\ held[u][m] \in Nat
        BY <1>2, <2>2 DEF Inv, TypeOK
      <4>3. CASE u = t
        BY <2>1, <4>1, <4>2, <4>3
      <4>4. CASE u # t
        BY <4>1, <4>2, <4>4
      <4>. QED  BY <4>3, <4>4
    <3>4. /\ owner'[m] = owner[m] /\ value'[m] = value[m] /\ hold'[m] = hold[m]
          /\ original_priority'[m] = original_priority[m]
      BY <1>1 DEF mutexVars
    <3>. QED  BY <3>1, <3>2, <3>3, <3>4 DEF Sound
  <2>5. \A n \in Mutexes \ {m} : /\ Waiting(n)' \subseteq Waiting(n)
                                 /\ Resumed(n)' = Resumed(n)
                                 /\ \A u \in Thread : held'[u][n] = held[u][n]
    <3>1. ASSUME NEW n \in Mutexes \ {m} PROVE Resumed(n)' = Resumed(n)
      <4>1. n \in Object \ {m}
        BY DEF Mutexes
      <4>2. t \notin Resumed(n) /\ Resumed(n)' = Resumed(n) \ {t}
        BY <1>7, <1>8, <4>1
      <4>. QED  BY <4>2
    <3>. QED  BY <1>7, <2>2, <3>1 DEF Mutexes
  <2>6. open' \subseteq open \cup {m}
    BY <1>1
  <2>. QED  BY <1>2, <1>3, <1>6, <2>2, <2>3, <2>4, <2>5, <2>6, MutexStep
<1>. QED  BY <1>9, <1>10

\* A release that ends a nested take.
LEMMA ReleaseInnerInv ==
    ASSUME Inv, NEW t \in App, NEW m \in Mutexes, ReleaseInner(t, m)
    PROVE  Inv'
<1>1. /\ Runs(t, "run") /\ Usable(m) /\ owner[m] = t /\ hold[m] > 1
      /\ hold' = [hold EXCEPT ![m] = hold[m] - 1] /\ Given(t, m)
      /\ UNCHANGED <<value, owner, original_priority>> /\ UNCHANGED ipcVars
  BY DEF ReleaseInner
<1>2. /\ IpcInv /\ CoherentState(k) /\ t \in Thread /\ t # NoThread /\ m \in open
      /\ Sound(m) /\ hold[m] \in 0 .. HOLD_MAX /\ hold[m] \in Nat
      /\ value[m] \in {0, 1} /\ owner[m] \in Thread \cup {NoThread}
      /\ original_priority[m] \in Prio \cup {NO_PRIO}
      /\ held[t][m] = hold[m] /\ \A u \in Thread : held[u][m] \in Nat
  BY <1>1, Caller
<1>3. IpcInv'
  <2>1. Eases(k, k')
    BY <1>1, <1>2, EasesReflexive DEF ipcVars
  <2>. QED  BY <1>1, <1>2, <2>1, EasedKernel DEF ipcVars
<1>4. \A o : Waiting(o)' = Waiting(o) /\ Resumed(o)' = Resumed(o)
  BY <1>1 DEF Waiting, Resumed, ipcVars
<1>5. WaitersClean'
  BY <1>1 DEF Inv, WaitersClean, Waiting, ipcVars
<1>6. /\ held' \in [Thread -> [Mutexes -> Nat]] /\ nest' \in [Thread -> Seq(Mutexes)]
      /\ NestAgrees'
      /\ \A u \in Thread, n \in Mutexes :
           held'[u][n] = IF u = t /\ n = m THEN held[u][n] - 1 ELSE held[u][n]
  <2>1. held[t][m] > 0
    BY <1>1, <1>2
  <2>. QED  BY <1>1, <1>2, <2>1, GivenHistory DEF Inv
<1>7. hold[m] - 1 \in 0 .. HOLD_MAX /\ hold[m] - 1 # 0
  BY <1>1, <1>2, MutexAssumption
<1>8. /\ value' = [value EXCEPT ![m] = value[m]] /\ owner' = [owner EXCEPT ![m] = owner[m]]
      /\ original_priority' = [original_priority EXCEPT ![m] = original_priority[m]]
  BY <1>1 DEF Inv, TypeOK
<1>9. Sound(m)'
  <2>1. owner'[m] = t /\ value'[m] = value[m] /\ hold'[m] = hold[m] - 1
        /\ original_priority'[m] = original_priority[m]
    BY <1>1 DEF Inv, TypeOK
  <2>2. ASSUME NEW u \in Thread
        PROVE  held'[u][m] + (IF u \in Resumed(m) THEN 1 ELSE 0)
                 = (IF owner'[m] = u THEN hold'[m] ELSE 0)
    <3>1. held[u][m] + (IF u \in Resumed(m) THEN 1 ELSE 0)
            = (IF owner[m] = u THEN hold[m] ELSE 0)
      BY <1>2 DEF Sound
    <3>2. held'[u][m] = IF u = t THEN held[u][m] - 1 ELSE held[u][m]
      BY <1>6
    <3>. QED  BY <1>1, <1>2, <2>1, <3>1, <3>2
  <2>. QED  BY <1>1, <1>2, <1>4, <1>7, <2>1, <2>2 DEF Sound
<1>10. \A n \in Mutexes \ {m} : /\ Waiting(n)' \subseteq Waiting(n)
                                /\ Resumed(n)' = Resumed(n)
                                /\ \A u \in Thread : held'[u][n] = held[u][n]
  BY <1>4, <1>6
<1>11. open' \subseteq open \cup {m}
  BY <1>1 DEF ipcVars
<1>. QED  BY <1>1, <1>2, <1>3, <1>5, <1>6, <1>7, <1>8, <1>9, <1>10, <1>11, MutexStep

\* The owner's priority is restored: nothing else changes.
LEMMA RestoreEases ==
    ASSUME CoherentState(k), NEW t \in Thread, NEW m \in Mutexes,
           original_priority[m] \in Prio, NEW r, r = Restore(t, m)
    PROVE  /\ Eases(k, r) /\ CoherentState(r)
           /\ r.stat = k.stat /\ r.cur = k.cur /\ r.error = k.error
           /\ \A l \in List : r.list[l] = k.list[l]
           /\ \A v \in Thread : r.prio[v] = IF v = t THEN original_priority[m] ELSE k.prio[v]
<1>1. CASE original_priority[m] # k.prio[t]
  <2>1. r = rt_thread_change_priority(k, t, original_priority[m])
    BY <1>1 DEF Restore
  <2>. QED  BY <2>1, PriorityChanged DEF Eases
<1>2. CASE original_priority[m] = k.prio[t]
  BY <1>2, EasesReflexive DEF Restore
<1>. QED  BY <1>1, <1>2

\* What the last release of a mutex for which somebody waits does: in r the
\* priority of the caller is restored, then the first waiting thread is resumed
\* and becomes the owner.
LEMMA HandOverEffect ==
    ASSUME Inv, NEW t \in App, NEW m \in Mutexes, ReleaseLast(t, m), k.list[m] # <<>>
    PROVE  LET next == Head(k.list[m])
           IN  /\ next \in Thread /\ IpcInv' /\ Leave({t}) /\ Serves({t}, m, next)
               /\ owner' = [owner EXCEPT ![m] = next] /\ UNCHANGED <<value, hold>>
               /\ k.prio[next] \in Prio
               /\ original_priority' = [original_priority EXCEPT ![m] = k.prio[next]]
               /\ \E r : /\ CoherentState(r) /\ \A l \in List : r.list[l] = k.list[l]
                         /\ k' = rt_ipc_list_resume(r, m)
                         /\ \A v \in Thread :
                              r.prio[v] = IF v = t THEN original_priority[m] ELSE k.prio[v]
<1> DEFINE next == Head(k.list[m])
<1>1. Runs(t, "run") /\ Usable(m) /\ owner[m] = t /\ hold[m] = 1 /\ Given(t, m)
      /\ UNCHANGED <<open, corrupt>>
  BY DEF ReleaseLast
<1>2. /\ IpcInv /\ CoherentState(k) /\ t \in Thread /\ t # NoThread /\ m \in open
      /\ m \in Object /\ m \in List /\ k.stat[t] = "READY" /\ Sound(m) /\ pc[t] = "run"
  BY <1>1, Caller
<1>3. original_priority[m] \in Prio
  BY <1>1, <1>2 DEF Sound
<1>4. PICK r : r = Restore(t, m)
  OBVIOUS
<1>5. /\ Eases(k, r) /\ CoherentState(r) /\ r.error = k.error
      /\ \A l \in List : r.list[l] = k.list[l]
      /\ \A v \in Thread : r.prio[v] = IF v = t THEN original_priority[m] ELSE k.prio[v]
  BY <1>2, <1>3, <1>4, RestoreEases
<1>6. r.list[m] = k.list[m]
  BY <1>2, <1>5
<1>7. /\ owner' = [owner EXCEPT ![m] = next]
      /\ original_priority' = [original_priority EXCEPT ![m] = r.prio[next]]
      /\ k' = rt_ipc_list_resume(r, m) /\ Goes(t, "sched", NoObject)
      /\ UNCHANGED <<value, hold>>
  BY <1>4, <1>6 DEF ReleaseLast
<1>8. next \in Thread /\ next \in Waiting(m) /\ k.error[next] = "EOK"
  BY <1>2, HeadSuspended DEF Waiting, Inv, WaitersClean
<1>9. IpcInv'
  <2>1. Eases(r, k')
    BY <1>2, <1>5, <1>6, <1>7, ListResumeEases
  <2>2. Eases(k, k')
    BY <1>2, <1>5, <2>1, EasesTransitive
  <2>. QED  BY <1>1, <1>2, <1>7, <2>2, ReadyStep, Labels
<1>10. Leave({t})
  BY <1>2, <1>7, GoesLeave DEF Waits
<1>11. Serves({t}, m, next)
  BY <1>2, <1>5, <1>7, <1>8, <1>10, ListResumeServes
<1>12. r.prio[next] = k.prio[next] /\ k.prio[next] \in Prio
  <2>1. next # t
    BY <1>11 DEF Serves
  <2>2. k.prio \in [Thread -> Prio]
    BY <1>2 DEF CoherentState, KernelState
  <2>. HIDE DEF next
  <2>. QED  BY <1>5, <1>8, <2>1, <2>2
<1>. QED  BY <1>5, <1>7, <1>8, <1>9, <1>10, <1>11, <1>12

\* It keeps the invariant.
LEMMA HandOverInv ==
    ASSUME Inv, NEW t \in App, NEW m \in Mutexes, ReleaseLast(t, m), k.list[m] # <<>>
    PROVE  Inv'
<1>1. Runs(t, "run") /\ Usable(m) /\ owner[m] = t /\ hold[m] = 1 /\ Given(t, m)
      /\ UNCHANGED <<open, corrupt>>
  BY DEF ReleaseLast
<1>2. /\ IpcInv /\ t \in Thread /\ t # NoThread /\ m \in open /\ m \in Object /\ Sound(m)
      /\ hold[m] \in 0 .. HOLD_MAX /\ value[m] \in {0, 1} /\ held[t][m] = hold[m]
      /\ \A u \in Thread : held[u][m] \in Nat
      /\ \A o \in Object : t \notin Resumed(o)
  BY <1>1, Caller
<1>3. PICK next \in Thread :
         /\ IpcInv' /\ Leave({t}) /\ Serves({t}, m, next)
         /\ owner' = [owner EXCEPT ![m] = next] /\ UNCHANGED <<value, hold>>
         /\ k.prio[next] \in Prio
         /\ original_priority' = [original_priority EXCEPT ![m] = k.prio[next]]
  BY HandOverEffect
<1>4. WaitersClean'
  BY <1>2, <1>3, ServesClean DEF Inv
<1>5. /\ held' \in [Thread -> [Mutexes -> Nat]] /\ nest' \in [Thread -> Seq(Mutexes)]
       /\ NestAgrees'
       /\ \A u \in Thread, n \in Mutexes :
            held'[u][n] = IF u = t /\ n = m THEN held[u][n] - 1 ELSE held[u][n]
  BY <1>1, <1>2, GivenHistory DEF Inv
<1>6. /\ Waiting(m)' = Waiting(m) \ {next} /\ Resumed(m)' = Resumed(m) \cup {next}
       /\ next # t
  BY <1>2, <1>3 DEF Serves
<1>7. Sound(m)'
  <2>1. owner'[m] = next /\ value'[m] = 0 /\ hold'[m] = 1
        /\ original_priority'[m] = k.prio[next]
    BY <1>1, <1>2, <1>3 DEF Inv, TypeOK, Sound
  <2>2. ASSUME NEW u \in Thread
        PROVE  held'[u][m] + (IF u \in Resumed(m) \cup {next} THEN 1 ELSE 0)
                 = (IF u = next THEN 1 ELSE 0)
    <3>1. held[u][m] + (IF u \in Resumed(m) THEN 1 ELSE 0) = (IF t = u THEN 1 ELSE 0)
      BY <1>1, <1>2 DEF Sound
    <3>2. held'[u][m] = (IF u = t THEN held[u][m] - 1 ELSE held[u][m]) /\ held[u][m] \in Nat
      BY <1>2, <1>5
    <3>3. u = next => u \notin Resumed(m)
      BY <1>3 DEF Resumed, Serves
    <3>4. t \notin Resumed(m)
      BY <1>2
    <3>5. CASE u = t
      BY <1>6, <3>1, <3>2, <3>4, <3>5
    <3>6. CASE u = next
      BY <1>6, <3>1, <3>2, <3>3, <3>6
    <3>7. CASE u # t /\ u # next
      BY <3>1, <3>2, <3>7
    <3>. QED  BY <3>5, <3>6, <3>7
  <2>3. next # NoThread
    BY <1>3, MutexAssumption
  <2>. QED  BY <1>3, <1>6, <2>1, <2>2, <2>3 DEF Sound
<1>8. ASSUME NEW n \in Mutexes \ {m}
       PROVE  /\ Waiting(n)' \subseteq Waiting(n) /\ Resumed(n)' = Resumed(n)
              /\ \A u \in Thread : held'[u][n] = held[u][n]
  <2>1. n \in Object \ {m} /\ t \notin Resumed(n)
    BY <1>2 DEF Mutexes
  <2>2. Waiting(n)' = Waiting(n) /\ Resumed(n)' = Resumed(n) \ {t}
    BY <1>3, <2>1 DEF Serves
  <2>. QED  BY <1>5, <2>1, <2>2
<1>9. /\ value' = [value EXCEPT ![m] = value[m]] /\ hold' = [hold EXCEPT ![m] = hold[m]]
       /\ open' \subseteq open \cup {m}
  BY <1>1, <1>3 DEF Inv, TypeOK
<1>10. next \in Thread \cup {NoThread} /\ k.prio[next] \in Prio \cup {NO_PRIO}
  BY <1>3
<1>. QED  BY <1>2, <1>3, <1>4, <1>5, <1>7, <1>8, <1>9, <1>10, MutexStep

\* The last release of a mutex for which nobody waits: it is free.
LEMMA FreeInv ==
    ASSUME Inv, NEW t \in App, NEW m \in Mutexes, ReleaseLast(t, m), k.list[m] = <<>>
    PROVE  Inv'
<1>1. Runs(t, "run") /\ Usable(m) /\ owner[m] = t /\ hold[m] = 1 /\ Given(t, m)
      /\ UNCHANGED <<open, corrupt>>
  BY DEF ReleaseLast
<1>2. /\ IpcInv /\ CoherentState(k) /\ t \in Thread /\ t # NoThread /\ m \in open
      /\ m \in Object /\ m \in List /\ Sound(m) /\ pc[t] = "run"
      /\ value[m] \in {0, 1} /\ held[t][m] = hold[m]
      /\ \A u \in Thread : held[u][m] \in Nat
      /\ \A o \in Object : t \notin Resumed(o)
  BY <1>1, Caller
<1>3. original_priority[m] \in Prio /\ value[m] = 0
  BY <1>1, <1>2 DEF Sound
<1>4. PICK r : r = Restore(t, m)
  OBVIOUS
<1>5. /\ Eases(k, r) /\ CoherentState(r) /\ r.error = k.error
      /\ \A l \in List : r.list[l] = k.list[l]
  BY <1>2, <1>3, <1>4, RestoreEases
<1>6. /\ value' = [value EXCEPT ![m] = 1] /\ owner' = [owner EXCEPT ![m] = NoThread]
      /\ original_priority' = [original_priority EXCEPT ![m] = NO_PRIO]
      /\ hold' = [hold EXCEPT ![m] = 0] /\ k' = r /\ UNCHANGED <<pc, on>>
  <2>1. r.list[m] = <<>>
    BY <1>2, <1>5
  <2>. QED  BY <1>3, <1>4, <2>1 DEF ReleaseLast
<1>7. IpcInv'
  BY <1>1, <1>2, <1>5, <1>6, EasedKernel
<1>8. \A o \in Object : Waiting(o)' = Waiting(o) /\ Resumed(o)' = Resumed(o)
  BY <1>5, <1>6 DEF Waiting, Resumed, Object
<1>9. WaitersClean'
  BY <1>5, <1>6, <1>8 DEF Inv, WaitersClean
<1>10. /\ held' \in [Thread -> [Mutexes -> Nat]] /\ nest' \in [Thread -> Seq(Mutexes)]
       /\ NestAgrees'
       /\ \A u \in Thread, n \in Mutexes :
            held'[u][n] = IF u = t /\ n = m THEN held[u][n] - 1 ELSE held[u][n]
  BY <1>1, <1>2, GivenHistory DEF Inv
<1>11. Sound(m)'
  <2>1. owner'[m] = NoThread /\ value'[m] = 1 /\ hold'[m] = 0
    BY <1>2, <1>6 DEF Inv, TypeOK
  <2>2. Waiting(m)' = {} /\ Resumed(m)' = Resumed(m)
    <3>1. Waiting(m) = {}
      BY DEF Waiting, ToSet
    <3>. QED  BY <1>2, <1>8, <3>1
  <2>3. ASSUME NEW u \in Thread
        PROVE  held'[u][m] + (IF u \in Resumed(m) THEN 1 ELSE 0) = 0
    <3>1. held[u][m] + (IF u \in Resumed(m) THEN 1 ELSE 0) = (IF t = u THEN 1 ELSE 0)
      BY <1>1, <1>2 DEF Sound
    <3>2. held'[u][m] = IF u = t THEN held[u][m] - 1 ELSE held[u][m]
      BY <1>10
    <3>. QED  BY <1>2, <3>1, <3>2
  <2>. QED  BY <2>1, <2>2, <2>3, MutexAssumption DEF Sound
<1>12. \A n \in Mutexes \ {m} : /\ Waiting(n)' \subseteq Waiting(n)
                                /\ Resumed(n)' = Resumed(n)
                                /\ \A u \in Thread : held'[u][n] = held[u][n]
  BY <1>8, <1>10 DEF Mutexes
<1>13. 0 \in 0 .. HOLD_MAX /\ open' \subseteq open \cup {m}
  BY <1>1, MutexAssumption
<1>. QED  BY <1>2, <1>6, <1>7, <1>9, <1>10, <1>11, <1>12, <1>13, MutexStep

\* rt_mutex_init of a mutex that was deleted.
LEMMA MutexCreateInv ==
    ASSUME Inv, NEW t \in App, NEW m \in Mutexes, MutexCreate(t, m)
    PROVE  Inv'
<1>1. /\ Create(t, m)
      /\ value' = [value EXCEPT ![m] = 1] /\ owner' = [owner EXCEPT ![m] = NoThread]
      /\ original_priority' = [original_priority EXCEPT ![m] = NO_PRIO]
      /\ hold' = [hold EXCEPT ![m] = 0]
      /\ held' = [u \in Thread |-> [held[u] EXCEPT ![m] = 0]]
      /\ nest' = [u \in Thread |-> RemoveFirst(nest[u], m)]
  BY DEF MutexCreate
<1>2. /\ m \notin open /\ (\A u \in Thread : on[u] # m) /\ open' = open \cup {m}
      /\ UNCHANGED <<k, pc, on, corrupt>>
  BY <1>1 DEF Create
<1>3. IpcInv'
  BY <1>1, CreateInv DEF Inv, Mutexes
<1>4. \A o : Waiting(o)' = Waiting(o) /\ Resumed(o)' = Resumed(o)
  BY <1>2 DEF Waiting, Resumed
<1>5. WaitersClean'
  BY <1>2 DEF Inv, WaitersClean, Waiting
<1>6. held \in [Thread -> [Mutexes -> Nat]] /\ nest \in [Thread -> Seq(Mutexes)]
  BY DEF Inv, TypeOK
<1>7. /\ held' \in [Thread -> [Mutexes -> Nat]]
      /\ \A u \in Thread, n \in Mutexes : held'[u][n] = IF n = m THEN 0 ELSE held[u][n]
  BY <1>1, <1>6
<1>8. ASSUME NEW u \in Thread
      PROVE  /\ nest'[u] \in Seq(Mutexes) /\ IsInjective(nest'[u])
             /\ ToSet(nest'[u]) = {n \in Mutexes : held'[u][n] > 0}
  <2>1. nest[u] \in Seq(Mutexes) /\ IsInjective(nest[u])
        /\ ToSet(nest[u]) = {n \in Mutexes : held[u][n] > 0}
    BY <1>6 DEF Inv, NestAgrees
  <2>2. nest'[u] = RemoveFirst(nest[u], m)
    BY <1>1
  <2>3. /\ nest'[u] \in Seq(Mutexes) /\ IsInjective(nest'[u])
        /\ ToSet(nest'[u]) = ToSet(nest[u]) \ {m}
    BY <2>1, <2>2, RemoveFirstProperties
  <2>4. \A n \in Mutexes : held'[u][n] > 0 <=> held[u][n] > 0 /\ n # m
    BY <1>7
  <2>. QED  BY <2>1, <2>3, <2>4
<1>9. nest' \in [Thread -> Seq(Mutexes)] /\ NestAgrees'
  BY <1>1, <1>8 DEF NestAgrees
<1>10. Sound(m)'
  <2>1. owner'[m] = NoThread /\ value'[m] = 1 /\ hold'[m] = 0
    BY <1>1 DEF Inv, TypeOK
  <2>2. Waiting(m)' = {} /\ Resumed(m)' = {}
    BY <1>2, <1>4, UnusedIsEmpty DEF Inv, Mutexes
  <2>3. \A u \in Thread : held'[u][m] = 0
    BY <1>7
  <2>. QED  BY <2>1, <2>2, <2>3, MutexAssumption DEF Sound
<1>11. \A n \in Mutexes \ {m} : /\ Waiting(n)' \subseteq Waiting(n)
                                /\ Resumed(n)' = Resumed(n)
                                /\ \A u \in Thread : held'[u][n] = held[u][n]
  BY <1>4, <1>7
<1>12. 0 \in 0 .. HOLD_MAX /\ open' \subseteq open \cup {m}
  BY <1>2, MutexAssumption
<1>. QED  BY <1>1, <1>3, <1>5, <1>7, <1>9, <1>10, <1>11, <1>12, MutexStep

\* Every step preserves the invariant.
LEMMA NextInv ==
    ASSUME Inv, [Next]_vars
    PROVE  Inv'
<1>1. ASSUME UNCHANGED vars PROVE Inv'
  <2>1. UNCHANGED <<k, open, pc, on, corrupt>> /\ UNCHANGED <<mutexVars, history>>
    BY <1>1 DEF vars, ipcVars
  <2>2. IpcInv' /\ NoNewWaiter
    <3>1. Eases(k, k')
      BY <2>1, EasesReflexive DEF Inv, IpcInv, IpcTypeOK, CoherentState, Coherent
    <3>. QED  BY <2>1, <3>1, EasedKernel DEF Inv
  <2>3. NobodyServed
    BY <2>1, <2>2 DEF NobodyServed, Resumed, Waiting
  <2>. QED  BY <2>1, <2>2, <2>3, QuietStep
<1>2. ASSUME Interrupt PROVE Inv'
  <2>1. IpcInv' /\ NobodyServed /\ open' \subseteq open
    BY <1>2, TickInv, TickServes, IpcOpen DEF Inv, Interrupt
  <2>. QED  BY <1>2, <2>1, QuietStep DEF Interrupt
<1>3. ASSUME NEW t \in App, InCall(t) PROVE Inv'
  <2>1. CASE TakeReturn(t)
    BY <2>1, TakeReturnInv
  <2>2. CASE IpcInCall(t) /\ UNCHANGED <<mutexVars, history>>
    <3>1. IpcInv' /\ NobodyServed /\ open' \subseteq open
      BY <2>2, IpcInCallInv, IpcInCallServes, IpcOpen DEF Inv
    <3>. QED  BY <2>2, <3>1, QuietStep
  <2>. QED  BY <1>3, <2>1, <2>2 DEF InCall
<1>4. ASSUME NEW t \in App, Call(t) PROVE Inv'
  <2>1. CASE IpcCall(t) /\ UNCHANGED <<mutexVars, history>>
    <3>1. IpcInv' /\ NobodyServed /\ open' \subseteq open
      BY <2>1, IpcCallInv, IpcCallServes, IpcOpen DEF Inv
    <3>. QED  BY <2>1, <3>1, QuietStep
  <2>2. ASSUME NEW m \in Mutexes, Take(t, m) PROVE Inv'
    BY <2>2, TakeAgainInv, TakeFreeInv, RefusedInv, TakeBlockInv DEF Take
  <2>3. ASSUME NEW m \in Mutexes, Release(t, m) PROVE Inv'
    BY <2>3, ReleaseInnerInv, HandOverInv, FreeInv DEF Release
  <2>4. ASSUME NEW m \in Mutexes, ReleaseNotOwner(t, m) PROVE Inv'
    BY <2>4, RefusedInv
  <2>5. ASSUME NEW m \in Mutexes, MutexCreate(t, m) PROVE Inv'
    BY <2>5, MutexCreateInv
  <2>. QED  BY <1>4, <2>1, <2>2, <2>3, <2>4, <2>5 DEF Call
<1>. QED  BY <1>1, <1>2, <1>3, <1>4 DEF Next

-----------------------------------------------------------------------------
\* The inductive invariant holds in every reachable state.
THEOREM Invariance == Spec => []Inv
<1>1. Init => Inv
  BY InitInv
<1>2. Inv /\ [Next]_vars => Inv'
  BY NextInv
<1>. QED  BY <1>1, <1>2, PTL DEF Spec

\* Every variable keeps its type: mutex->value stays 0 or 1, mutex->hold in the
\* range of its 8 bits, and the priority to restore is a priority or the mark
\* that there is none.
THEOREM TypeCorrect == Spec => []TypeOK
<1>1. Inv => TypeOK
  BY DEF Inv
<1>. QED  BY <1>1, Invariance, PTL

\* mutex->owner, mutex->hold and mutex->value agree with the takes that returned
\* RT_EOK and the one that a release has just served, whatever timeouts and
\* deletions race with the hand-over in rt_mutex_release.
THEOREM OwnerAlwaysKnows == Spec => []OwnerKnows
<1>1. Inv => OwnerKnows
  BY DEF Inv, Sound, OwnerKnows
<1>. QED  BY <1>1, Invariance, PTL

\* Two threads never hold a mutex at the same time.
THEOREM Excludes == Spec => []MutualExclusion
<1>1. Inv => MutualExclusion
  <2>. SUFFICES ASSUME Inv, NEW m \in open, NEW t \in Thread, NEW u \in Thread,
                       held[t][m] > 0, held[u][m] > 0
                PROVE  t = u
    BY DEF MutualExclusion
  <2>1. m \in Mutexes
    BY DEF Inv, TypeOK, IpcTypeOK, Mutexes
  <2>2. held[t][m] \in Nat /\ held[u][m] \in Nat
    BY <2>1 DEF Inv, TypeOK
  <2>3. \A v \in Thread : held[v][m] + (IF v \in Resumed(m) THEN 1 ELSE 0)
                            = (IF owner[m] = v THEN hold[m] ELSE 0)
    BY DEF Inv, Sound
  <2>4. owner[m] = t
    BY <2>2, <2>3
  <2>5. owner[m] = u
    BY <2>2, <2>3
  <2>. QED  BY <2>4, <2>5
<1>. QED  BY <1>1, Invariance, PTL

\* The kernel stays coherent under priority inheritance, nobody is stranded, and
\* whoever waits for a mutex waits for another thread that owns it.
THEOREM KernelIsKept == Spec => []KernelKept
<1>1. Inv => KernelKept
  <2>. SUFFICES ASSUME Inv PROVE KernelKept
    OBVIOUS
  <2>1. Coherent /\ NobodyStranded
    BY DEF Inv, IpcInv
  <2>2. NoSelfWait
    BY DEF Inv, Sound, NoSelfWait
  <2>. QED  BY <2>1, <2>2 DEF KernelKept
<1>. QED  BY <1>1, Invariance, PTL

-----------------------------------------------------------------------------
(* Priority inheritance.  It works for threads that hold one mutex at a time, *)
(* with mutexes that are never deleted and give their list in the order of    *)
(* the priorities, and while rt_thread_control changes no priority.           *)

OneAtATime ==
    /\ Discipline = "single" /\ Deletable = {} /\ NewPrio = {}
    /\ \A m \in Mutexes : Flag[m] = "PRIO"

NothingDeleted ==
    open = Object /\ \A t \in Thread : pc[t] \notin {"del", "del_one"}

\* A thread owns one mutex, or waits for one, or neither; the priority to
\* restore is the one it was created with.
OwnsOne ==
    /\ \A m, n \in Mutexes : owner[m] # NoThread /\ owner[m] = owner[n] => m = n
    /\ \A o \in Object : \A t \in Waiting(o) : \A m \in Mutexes : owner[m] # t
    /\ \A m \in Mutexes : owner[m] # NoThread => original_priority[m] = InitPrio[owner[m]]

\* The inductive invariant for such threads.
SingleInv ==
    Inv /\ NothingDeleted /\ OwnsOne /\ Inherited /\ Restored /\ HighestPrioFirst

\* What a step of the running thread does to the places.
LEMMA Places ==
    ASSUME IpcInv, NEW t \in App, NEW label, label \notin {"del", "del_one"}, NEW o,
           Goes(t, label, o), \A u \in Thread : pc[u] \notin {"del", "del_one"}
    PROVE  \A u \in Thread : pc'[u] \notin {"del", "del_one"}
<1>1. t \in Thread /\ pc \in [Thread -> PC]
  BY DEF IpcInv, IpcTypeOK, App
<1>2. pc' = [pc EXCEPT ![t] = label]
  BY DEF Goes
<1>. QED  BY <1>1, <1>2

\* No mutex is ever deleted, so none is created.
LEMMA NothingDeletedStep ==
    ASSUME Deletable = {}, IpcInv, NothingDeleted, Next
    PROVE  NothingDeleted'
<1>1. ASSUME NEW t \in App, NEW label, label \notin {"del", "del_one"}, NEW o,
             Goes(t, label, o), UNCHANGED open
      PROVE  NothingDeleted'
  BY <1>1, Places DEF NothingDeleted
<1>2. ASSUME UNCHANGED <<open, pc>> PROVE NothingDeleted'
  BY <1>2 DEF NothingDeleted
<1>3. CASE Interrupt
  BY <1>2, <1>3 DEF Interrupt, Tick, SliceEnd, Timeout
<1>4. ASSUME NEW t \in App, InCall(t) PROVE NothingDeleted'
  <2>1. pc[t] \notin {"del", "del_one"}
    BY DEF NothingDeleted, App
  <2>2. ~DeleteTest(t) /\ ~DeleteOne(t)
    BY <2>1 DEF DeleteTest, DeleteOne, Runs
  <2>3. \/ TakeReturn(t) \/ WaitSchedule(t) \/ Schedule(t)
        \/ SleepSchedule(t) \/ SleepReturn(t)
    BY <1>4, <2>2 DEF InCall, IpcInCall
  <2>. QED  BY <1>1, <2>3 DEF TakeReturn, WaitSchedule, Schedule, SleepSchedule, SleepReturn,
                              Returns
<1>5. ASSUME NEW t \in App, Call(t) PROVE NothingDeleted'
  <2>1. \A o \in Object : ~Delete(t, o) /\ ~MutexCreate(t, o)
    BY DEF Delete, MutexCreate, Create, NothingDeleted
  <2>2. ASSUME NEW m \in Mutexes, Take(t, m) \/ Release(t, m) \/ ReleaseNotOwner(t, m)
        PROVE  NothingDeleted'
    <3>1. \/ UNCHANGED <<open, pc>>
          \/ UNCHANGED open /\ (Goes(t, "wait_sched", m) \/ Goes(t, "sched", NoObject))
      BY <2>2 DEF Take, Release, TakeAgain, TakeFree, TakeBusy, TakeBlock, ReleaseInner,
                  ReleaseLast, ReleaseNotOwner, ipcVars
    <3>. QED  BY <1>1, <1>2, <3>1
  <2>3. CASE IpcCall(t)
    BY <1>1, <1>2, <2>1, <2>3 DEF IpcCall, Sleep, ChangePriority
  <2>. QED  BY <1>5, <2>1, <2>2, <2>3 DEF Call, Mutexes
<1>. QED  BY <1>3, <1>4, <1>5 DEF Next

\* A step that changes no priority and no owner and queues nobody.
LEMMA SingleQuiet ==
    ASSUME SingleInv, Inv', NothingDeleted', Prunes(k, k'), NoNewWaiter,
           UNCHANGED <<owner, original_priority>>
    PROVE  SingleInv'
<1>1. k \in KernelState /\ k'.prio = k.prio
  BY DEF SingleInv, Inv, IpcInv, IpcTypeOK, Prunes
<1>2. HighestPrioFirst'
  BY <1>1, PrunedSorted, SortedFirst DEF SingleInv
<1>3. \A o \in Object : Waiting(o)' \subseteq Waiting(o)
  BY DEF NoNewWaiter
<1>4. open = Object /\ open' = Object
  BY DEF SingleInv, NothingDeleted
<1>5. OwnsOne'
  BY <1>3 DEF SingleInv, OwnsOne
<1>6. Inherited'
  BY <1>1, <1>3, <1>4 DEF SingleInv, Inherited
<1>7. Restored'
  BY <1>1 DEF SingleInv, Restored
<1>. QED  BY <1>2, <1>5, <1>6, <1>7 DEF SingleInv

\* The lists stay sorted when the priority of a thread that waits nowhere changes.
LEMMA SortedElsewhere ==
    ASSUME NEW q, q \in KernelState, PrioSorted(q), NEW r,
           \A l \in List : r.list[l] = q.list[l],
           NEW w \in Thread, \A l \in List : w \notin ToSet(q.list[l]),
           \A v \in Thread \ {w} : r.prio[v] = q.prio[v]
    PROVE  PrioSorted(r)
<1>. SUFFICES ASSUME NEW o \in Object, Flag[o] = "PRIO",
                     NEW i \in 1 .. Len(q.list[o]), NEW j \in 1 .. Len(q.list[o]), i < j
              PROVE  r.prio[q.list[o][i]] <= r.prio[q.list[o][j]]
  BY DEF PrioSorted, Sorted, Object
<1>1. q.list[o] \in Seq(Thread) /\ o \in List
  BY DEF KernelState, Object
<1>2. q.list[o][i] \in Thread \ {w} /\ q.list[o][j] \in Thread \ {w}
  BY <1>1 DEF ToSet
<1>3. q.prio[q.list[o][i]] <= q.prio[q.list[o][j]]
  BY DEF PrioSorted, Sorted
<1>. QED  BY <1>2, <1>3

\* A thread in no call that may take a mutex it does not own owns none.
LEMMA TakerOwnsNone ==
    ASSUME Discipline = "single", SingleInv, NEW t \in App, NEW m \in Mutexes,
           Runs(t, "run"), MayTake(t, m), owner[m] # t
    PROVE  \A n \in Mutexes : owner[n] # t
<1>. SUFFICES ASSUME NEW n \in Mutexes, owner[n] = t PROVE FALSE
  OBVIOUS
<1>1. Usable(n)
  BY DEF SingleInv, NothingDeleted, Usable, Mutexes
<1>2. /\ t \in Thread /\ t # NoThread /\ Sound(n) /\ held[t][n] = hold[n] /\ hold[n] \in Nat
  BY <1>1, Caller DEF SingleInv
<1>3. held[t][n] > 0
  BY <1>2 DEF Sound
<1>4. n \in ToSet(nest[t])
  BY <1>2, <1>3 DEF SingleInv, Inv, NestAgrees
<1>. QED  BY <1>4 DEF MayTake

\* rt_mutex_take of a mutex that is free.
LEMMA TakeFreeSingle ==
    ASSUME OneAtATime, SingleInv, Inv', NothingDeleted',
           NEW t \in App, NEW m \in Mutexes, TakeFree(t, m)
    PROVE  SingleInv'
<1>1. /\ Runs(t, "run") /\ Usable(m) /\ MayTake(t, m) /\ owner[m] # t /\ value[m] > 0
      /\ k' = [k EXCEPT !.error[t] = "EOK"]
      /\ owner' = [owner EXCEPT ![m] = t]
      /\ original_priority' = [original_priority EXCEPT ![m] = k.prio[t]]
      /\ UNCHANGED <<pc, on, open, corrupt>>
  BY DEF TakeFree
<1>2. /\ CoherentState(k) /\ k \in KernelState /\ t \in Thread /\ t # NoThread
      /\ k.stat[t] = "READY" /\ Sound(m)
  BY <1>1, Caller DEF SingleInv
<1>3. \A n \in Mutexes : owner[n] # t
  BY <1>1, TakerOwnsNone DEF OneAtATime
<1>4. owner[m] = NoThread /\ Waiting(m) = {}
  BY <1>1, <1>2 DEF Sound
<1>5. k.prio[t] = InitPrio[t]
  BY <1>2, <1>3 DEF SingleInv, Restored
<1>6. k'.prio = k.prio /\ k'.list = k.list
  BY <1>1, <1>2 DEF KernelState
<1>7. \A o : Waiting(o)' = Waiting(o)
  BY <1>6 DEF Waiting
<1>8. /\ \A n \in Mutexes : owner'[n] = IF n = m THEN t ELSE owner[n]
      /\ \A n \in Mutexes : original_priority'[n] =
                              IF n = m THEN InitPrio[t] ELSE original_priority[n]
  BY <1>1, <1>5 DEF SingleInv, Inv, TypeOK
<1>9. \A o \in Object : t \notin Waiting(o)
  BY <1>2, CoherentLists DEF Waiting, Object
<1>10. open' = Object /\ open = Object /\ Mutexes = Object
  BY DEF SingleInv, NothingDeleted, Mutexes
<1>11. OwnsOne'
  <2>1. \A x, y \in Mutexes : owner'[x] # NoThread /\ owner'[x] = owner'[y] => x = y
    BY <1>3, <1>8 DEF SingleInv, OwnsOne
  <2>2. \A o \in Object : \A u \in Waiting(o)' : \A n \in Mutexes : owner'[n] # u
    BY <1>7, <1>8, <1>9 DEF SingleInv, OwnsOne
  <2>3. \A n \in Mutexes : owner'[n] # NoThread => original_priority'[n] = InitPrio[owner'[n]]
    BY <1>8 DEF SingleInv, OwnsOne
  <2>. QED  BY <2>1, <2>2, <2>3 DEF OwnsOne
<1>12. Inherited'
  BY <1>4, <1>6, <1>7, <1>8, <1>10 DEF SingleInv, Inherited
<1>13. Restored'
  BY <1>4, <1>6, <1>8, MutexAssumption DEF SingleInv, Restored
<1>14. HighestPrioFirst'
  BY <1>6 DEF SingleInv, HighestPrioFirst
<1>. QED  BY <1>11, <1>12, <1>13, <1>14 DEF SingleInv

\* rt_mutex_take of a mutex that another thread owns: that thread inherits.
LEMMA TakeBlockSingle ==
    ASSUME OneAtATime, SingleInv, Inv', NothingDeleted',
           NEW t \in App, NEW m \in Mutexes, NEW timed, TakeBlock(t, m, timed)
    PROVE  SingleInv'
<1>1. /\ Runs(t, "run") /\ Usable(m) /\ MayTake(t, m) /\ owner[m] # t
      /\ UNCHANGED mutexVars
  BY DEF TakeBlock
<1>2. /\ CoherentState(k) /\ k \in KernelState /\ t \in Thread /\ t # Idle
      /\ k.stat[t] = "READY" /\ m \in Object
  BY <1>1, Caller DEF SingleInv
<1>3. \A n \in Mutexes : owner[n] # t
  BY <1>1, TakerOwnsNone DEF OneAtATime
<1>4. PICK w \in Thread : w = owner[m]
  BY TakeBlockEffect DEF SingleInv
<1>5. PICK q : /\ CoherentState(q) /\ q.stat = k.stat /\ k'.prio = q.prio
               /\ \A l \in List : q.list[l] = k.list[l]
               /\ k' = Wait(q, t, m, timed)
               /\ \A v \in Thread : q.prio[v] = IF v = w /\ k.prio[t] < k.prio[v]
                                                THEN k.prio[t] ELSE k.prio[v]
  BY <1>4, TakeBlockEffect DEF SingleInv
<1>6. /\ Waiting(m)' = Waiting(m) \cup {t}
      /\ \A x \in Object \ {m} : Waiting(x)' = Waiting(x)
  BY TakeBlockEffect DEF SingleInv, Blocks
<1>7. /\ \A n \in Mutexes : owner'[n] = owner[n] /\ original_priority'[n] = original_priority[n]
      /\ open' = Object /\ open = Object /\ Mutexes = Object
  BY <1>1 DEF mutexVars, SingleInv, NothingDeleted, Mutexes
<1>8. \A o \in Object : w \notin Waiting(o) /\ w # t
  BY <1>1, <1>4 DEF SingleInv, OwnsOne
<1>9. \A v \in Thread : k.prio[v] \in Int
  BY <1>2 DEF KernelState, Prio
<1>10. /\ \A v \in Thread \ {w} : k'.prio[v] = k.prio[v]
       /\ k'.prio[w] \in Int /\ k'.prio[w] <= k.prio[w] /\ k'.prio[w] <= k.prio[t]
  BY <1>2, <1>5, <1>9
<1>11. OwnsOne'
  <2>1. \A o \in Object : \A u \in Waiting(o)' : \A n \in Mutexes : owner'[n] # u
    BY <1>3, <1>6, <1>7 DEF SingleInv, OwnsOne
  <2>2. \A x, y \in Mutexes : owner'[x] # NoThread /\ owner'[x] = owner'[y] => x = y
    BY <1>7 DEF SingleInv, OwnsOne
  <2>3. \A n \in Mutexes : owner'[n] # NoThread => original_priority'[n] = InitPrio[owner'[n]]
    BY <1>7 DEF SingleInv, OwnsOne
  <2>. QED  BY <2>1, <2>2, <2>3 DEF OwnsOne
<1>12. Inherited'
  <2>. SUFFICES ASSUME NEW n \in Object, NEW u \in Waiting(n)'
                PROVE  k'.prio[owner[n]] <= k'.prio[u]
    BY <1>7 DEF Inherited
  <2>1. u \in Thread \ {w} /\ (u \in Waiting(n) \/ (n = m /\ u = t))
    <3>1. Waiting(n) \subseteq Thread
      BY IpcInvWaiters DEF SingleInv, Inv, WaitersWait
    <3>. QED  BY <1>2, <1>6, <1>8, <3>1
  <2>2. CASE u \in Waiting(n)
    <3>1. k.prio[owner[n]] <= k.prio[u] /\ owner[n] # NoThread /\ owner[n] \in Thread
      BY <1>7, <2>2 DEF SingleInv, Inv, Inherited, Sound, TypeOK
    <3>2. CASE owner[n] = w
      BY <1>9, <1>10, <2>1, <3>1, <3>2
    <3>3. CASE owner[n] # w
      BY <1>10, <2>1, <3>1, <3>3
    <3>. QED  BY <3>2, <3>3
  <2>3. CASE n = m /\ u = t
    BY <1>4, <1>8, <1>10, <2>1, <2>3
  <2>. QED  BY <2>1, <2>2, <2>3
<1>13. Restored'
  <2>. SUFFICES ASSUME NEW u \in Thread, \A n \in Mutexes : owner[n] # u
                PROVE  k'.prio[u] = InitPrio[u]
    BY <1>7 DEF Restored
  <2>1. u # w
    BY <1>4
  <2>. QED  BY <1>10, <2>1 DEF SingleInv, Restored
<1>14. HighestPrioFirst'
  <2>1. PrioSorted(k)
    BY SortedFirst DEF SingleInv
  <2>2. \A l \in List : w \notin ToSet(k.list[l])
    BY <1>8 DEF Waiting, Object
  <2>3. \A v \in Thread \ {w} : q.prio[v] = k.prio[v]
    BY <1>5
  <2>4. PrioSorted(q)
    BY <1>2, <1>5, <2>1, <2>2, <2>3, SortedElsewhere
  <2>5. PrioSorted(k')
    BY <1>2, <1>5, <2>4, WaitSorted
  <2>. QED  BY <2>5, SortedFirst
<1>. QED  BY <1>11, <1>12, <1>13, <1>14 DEF SingleInv

\* The last release of a mutex for which somebody waits.
LEMMA HandOverSingle ==
    ASSUME OneAtATime, SingleInv, Inv', NothingDeleted',
           NEW t \in App, NEW m \in Mutexes, ReleaseLast(t, m), k.list[m] # <<>>
    PROVE  SingleInv'
<1>1. Runs(t, "run") /\ Usable(m) /\ owner[m] = t
  BY DEF ReleaseLast
<1>2. /\ CoherentState(k) /\ k \in KernelState /\ t \in Thread /\ t # NoThread
      /\ k.stat[t] = "READY" /\ m \in Object /\ m \in List
  BY <1>1, Caller DEF SingleInv
<1>3. PICK next \in Thread :
         /\ next = Head(k.list[m]) /\ Serves({t}, m, next)
         /\ owner' = [owner EXCEPT ![m] = next]
         /\ original_priority' = [original_priority EXCEPT ![m] = k.prio[next]]
  BY HandOverEffect DEF SingleInv
<1>4. PICK r : /\ CoherentState(r) /\ \A l \in List : r.list[l] = k.list[l]
               /\ k' = rt_ipc_list_resume(r, m)
               /\ \A v \in Thread : r.prio[v] = IF v = t THEN original_priority[m]
                                                ELSE k.prio[v]
  BY HandOverEffect DEF SingleInv
<1>5. /\ next \in Waiting(m) /\ next # t /\ Waiting(m)' = Waiting(m) \ {next}
      /\ \A x \in Object \ {m} : Waiting(x)' = Waiting(x)
  BY <1>3 DEF Serves
<1>6. /\ WaitersWait /\ \A o \in Object : t \notin Waiting(o)
  BY <1>2, CoherentLists, IpcInvWaiters DEF SingleInv, Inv, Waiting, Object
<1>7. \A n \in Mutexes : owner[n] # next
  BY <1>2, <1>5 DEF SingleInv, OwnsOne
<1>8. Prunes(r, k') /\ k'.prio = r.prio
  <2>1. r.list[m] # <<>>
    BY <1>2, <1>4
  <2>. QED  BY <1>2, <1>4, <2>1, ResumePrunes DEF Prunes
<1>9. original_priority[m] = InitPrio[t] /\ k.prio[next] = InitPrio[next]
  BY <1>1, <1>2, <1>3, <1>7 DEF SingleInv, OwnsOne, Restored
<1>10. k'.prio[t] = InitPrio[t] /\ \A v \in Thread \ {t} : k'.prio[v] = k.prio[v]
  BY <1>2, <1>4, <1>8, <1>9
<1>11. /\ \A n \in Mutexes : owner'[n] = IF n = m THEN next ELSE owner[n]
       /\ \A n \in Mutexes : original_priority'[n] =
                               IF n = m THEN InitPrio[next] ELSE original_priority[n]
       /\ open' = Object /\ open = Object /\ Mutexes = Object
  BY <1>3, <1>9 DEF SingleInv, Inv, TypeOK, NothingDeleted, Mutexes
<1>12. OwnsOne'
  <2>1. \A x, y \in Mutexes : owner'[x] # NoThread /\ owner'[x] = owner'[y] => x = y
    BY <1>7, <1>11 DEF SingleInv, OwnsOne
  <2>2. ASSUME NEW o \in Object, NEW u \in Waiting(o)', NEW n \in Mutexes PROVE owner'[n] # u
    <3>1. u \in Waiting(o) /\ (o = m => u # next)
      BY <1>5
    <3>2. u # next
      BY <1>2, <1>5, <1>6, <3>1 DEF WaitersWait
    <3>3. owner[n] # u
      BY <3>1 DEF SingleInv, OwnsOne
    <3>. QED  BY <1>11, <3>2, <3>3
  <2>3. \A n \in Mutexes : owner'[n] # NoThread => original_priority'[n] = InitPrio[owner'[n]]
    BY <1>11 DEF SingleInv, OwnsOne
  <2>. QED  BY <2>1, <2>2, <2>3 DEF OwnsOne
<1>13. Inherited'
  <2>. SUFFICES ASSUME NEW n \in Object, NEW u \in Waiting(n)'
                PROVE  k'.prio[owner'[n]] <= k'.prio[u]
    BY <1>11 DEF Inherited
  <2>1. u \in Waiting(n) /\ u \in Thread /\ u # t /\ k'.prio[u] = k.prio[u]
    BY <1>5, <1>6, <1>10 DEF WaitersWait
  <2>2. CASE n = m
    <3>1. k.list[m] \in Seq(Thread) /\ Sorted(k.prio, k.list[m])
      BY <1>2, SortedFirst DEF SingleInv, PrioSorted, OneAtATime, Mutexes, KernelState
    <3>2. PICK j \in 1 .. Len(k.list[m]) : k.list[m][j] = u
      BY <2>1, <2>2, <3>1 DEF Waiting, ToSet
    <3>3. next = k.list[m][1] /\ 1 \in 1 .. Len(k.list[m])
      BY <1>3, <3>1, <3>2
    <3>4. u # next
      BY <1>5, <2>2
    <3>5. k.prio[next] <= k.prio[u]
      <4>1. 1 < j
        BY <3>2, <3>3, <3>4
      <4>. QED  BY <3>1, <3>2, <3>3, <4>1 DEF Sorted
    <3>. QED  BY <1>5, <1>10, <1>11, <2>1, <2>2, <3>5
  <2>3. CASE n # m
    <3>1. k.prio[owner[n]] <= k.prio[u] /\ owner[n] # NoThread /\ owner[n] \in Thread
      BY <1>11, <2>1 DEF SingleInv, Inv, Inherited, Sound, TypeOK
    <3>2. owner[n] # t
      BY <1>1, <1>2, <1>11, <2>3 DEF SingleInv, OwnsOne
    <3>. QED  BY <1>10, <1>11, <2>1, <2>3, <3>1, <3>2
  <2>. QED  BY <2>2, <2>3
<1>14. Restored'
  <2>. SUFFICES ASSUME NEW u \in Thread, \A n \in Mutexes : owner'[n] # u
                PROVE  k'.prio[u] = InitPrio[u]
    BY DEF Restored
  <2>1. CASE u = t
    BY <1>10, <2>1
  <2>2. CASE u # t
    <3>1. \A n \in Mutexes : owner[n] # u
      BY <1>1, <1>11, <2>2
    <3>. QED  BY <1>10, <2>2, <3>1 DEF SingleInv, Restored
  <2>. QED  BY <2>1, <2>2
<1>15. HighestPrioFirst'
  <2>1. PrioSorted(k)
    BY SortedFirst DEF SingleInv
  <2>2. \A l \in List : t \notin ToSet(k.list[l])
    BY <1>6 DEF Waiting, Object
  <2>3. \A v \in Thread \ {t} : r.prio[v] = k.prio[v]
    BY <1>4
  <2>4. PrioSorted(r)
    BY <1>2, <1>4, <2>1, <2>2, <2>3, SortedElsewhere
  <2>5. PrioSorted(k')
    BY <1>4, <1>8, <2>4, PrunedSorted DEF CoherentState
  <2>. QED  BY <2>5, SortedFirst
<1>. QED  BY <1>12, <1>13, <1>14, <1>15 DEF SingleInv

\* The last release of a mutex for which nobody waits.
LEMMA FreeSingle ==
    ASSUME OneAtATime, SingleInv, Inv', NothingDeleted',
           NEW t \in App, NEW m \in Mutexes, ReleaseLast(t, m), k.list[m] = <<>>
    PROVE  SingleInv'
<1>1. Runs(t, "run") /\ Usable(m) /\ owner[m] = t
  BY DEF ReleaseLast
<1>2. /\ CoherentState(k) /\ k \in KernelState /\ t \in Thread /\ t # NoThread
      /\ k.stat[t] = "READY" /\ m \in Object /\ m \in List
  BY <1>1, Caller DEF SingleInv
<1>3. original_priority[m] = InitPrio[t] /\ InitPrio[t] \in Prio
  BY <1>1, <1>2, KernelAssumption DEF SingleInv, OwnsOne
<1>4. PICK r : r = Restore(t, m)
  OBVIOUS
<1>5. /\ \A l \in List : r.list[l] = k.list[l]
      /\ \A v \in Thread : r.prio[v] = IF v = t THEN InitPrio[t] ELSE k.prio[v]
  BY <1>2, <1>3, <1>4, RestoreEases
<1>6. /\ owner' = [owner EXCEPT ![m] = NoThread]
      /\ original_priority' = [original_priority EXCEPT ![m] = NO_PRIO] /\ k' = r
  <2>1. r.list[m] = <<>>
    BY <1>2, <1>5
  <2>. QED  BY <1>4, <2>1 DEF ReleaseLast
<1>7. \A o \in Object : Waiting(o)' = Waiting(o) /\ t \notin Waiting(o)
  BY <1>2, <1>5, <1>6, CoherentLists DEF Waiting, Object
<1>8. /\ \A n \in Mutexes : owner'[n] = IF n = m THEN NoThread ELSE owner[n]
      /\ \A n \in Mutexes \ {m} : original_priority'[n] = original_priority[n]
      /\ open' = Object /\ open = Object /\ Mutexes = Object
  BY <1>6 DEF SingleInv, Inv, TypeOK, NothingDeleted, Mutexes
<1>9. k'.prio[t] = InitPrio[t] /\ \A v \in Thread \ {t} : k'.prio[v] = k.prio[v]
  BY <1>2, <1>5, <1>6
<1>10. \A o \in Object : Waiting(o) \subseteq Thread
  BY IpcInvWaiters DEF SingleInv, Inv, WaitersWait
<1>11. OwnsOne'
  <2>1. \A x, y \in Mutexes : owner'[x] # NoThread /\ owner'[x] = owner'[y] => x = y
    BY <1>8 DEF SingleInv, OwnsOne
  <2>2. \A o \in Object : \A u \in Waiting(o)' : \A n \in Mutexes : owner'[n] # u
    BY <1>7, <1>8, <1>10, MutexAssumption DEF SingleInv, OwnsOne
  <2>3. \A n \in Mutexes : owner'[n] # NoThread => original_priority'[n] = InitPrio[owner'[n]]
    BY <1>8 DEF SingleInv, OwnsOne
  <2>. QED  BY <2>1, <2>2, <2>3 DEF OwnsOne
<1>12. Inherited'
  <2>. SUFFICES ASSUME NEW n \in Object, NEW u \in Waiting(n)'
                PROVE  k'.prio[owner'[n]] <= k'.prio[u]
    BY <1>8 DEF Inherited
  <2>1. u \in Waiting(n) /\ u \in Thread \ {t}
    BY <1>7, <1>10
  <2>2. n # m
    BY <2>1 DEF Waiting, ToSet
  <2>3. k.prio[owner[n]] <= k.prio[u] /\ owner[n] # NoThread /\ owner[n] \in Thread
    BY <1>8, <2>1 DEF SingleInv, Inv, Inherited, Sound, TypeOK
  <2>4. owner[n] # t
    BY <1>1, <1>2, <1>8, <2>2 DEF SingleInv, OwnsOne
  <2>. QED  BY <1>8, <1>9, <2>1, <2>2, <2>3, <2>4
<1>13. Restored'
  <2>. SUFFICES ASSUME NEW u \in Thread, \A n \in Mutexes : owner'[n] # u
                PROVE  k'.prio[u] = InitPrio[u]
    BY DEF Restored
  <2>1. CASE u = t
    BY <1>9, <2>1
  <2>2. CASE u # t
    <3>1. \A n \in Mutexes : owner[n] # u
      BY <1>1, <1>8, <2>2
    <3>. QED  BY <1>9, <2>2, <3>1 DEF SingleInv, Restored
  <2>. QED  BY <2>1, <2>2
<1>14. HighestPrioFirst'
  <2>1. PrioSorted(k)
    BY SortedFirst DEF SingleInv
  <2>2. \A l \in List : t \notin ToSet(k.list[l])
    BY <1>7 DEF Waiting, Object
  <2>3. \A v \in Thread \ {t} : r.prio[v] = k.prio[v]
    BY <1>5
  <2>4. PrioSorted(k')
    BY <1>2, <1>5, <1>6, <2>1, <2>2, <2>3, SortedElsewhere
  <2>. QED  BY <2>4, SortedFirst
<1>. QED  BY <1>11, <1>12, <1>13, <1>14 DEF SingleInv

\* One step keeps what the inheritance promises.
LEMMA SingleStep ==
    ASSUME OneAtATime, SingleInv, Inv', Next
    PROVE  SingleInv'
<1>1. IpcInv /\ k \in KernelState
  BY DEF SingleInv, Inv, IpcInv, IpcTypeOK
<1>2. NothingDeleted'
  BY <1>1, NothingDeletedStep DEF OneAtATime, SingleInv
<1>3. ASSUME k'.prio = k.prio, k'.list = k.list, UNCHANGED <<owner, original_priority>>
      PROVE  SingleInv'
  <2>1. Prunes(k, k') /\ NoNewWaiter
    BY <1>3 DEF Prunes, NoNewWaiter, Waiting
  <2>. QED  BY <1>2, <1>3, <2>1, SingleQuiet
<1>4. ASSUME NEW t, NEW e, k' = [k EXCEPT !.error[t] = e],
             UNCHANGED <<owner, original_priority>>
      PROVE  SingleInv'
  <2>1. k'.prio = k.prio /\ k'.list = k.list
    BY <1>1, <1>4 DEF KernelState
  <2>. QED  BY <1>3, <1>4, <2>1
<1>5. CASE Interrupt
  <2>1. Prunes(k, k') /\ NoNewWaiter
    BY <1>1, <1>5, TickPrunes, TickInv DEF Interrupt
  <2>. QED  BY <1>2, <1>5, <2>1, SingleQuiet DEF Interrupt, mutexVars
<1>6. ASSUME NEW t \in App, InCall(t) PROVE SingleInv'
  <2>1. CASE TakeReturn(t)
    BY <1>3, <2>1 DEF TakeReturn, mutexVars
  <2>2. CASE IpcInCall(t) /\ UNCHANGED <<mutexVars, history>>
    <3>1. Prunes(k, k') /\ NoNewWaiter
      BY <1>1, <2>2, SharedPrunes, IpcInCallInv
    <3>. QED  BY <1>2, <2>2, <3>1, SingleQuiet DEF mutexVars
  <2>. QED  BY <1>6, <2>1, <2>2 DEF InCall
<1>7. ASSUME NEW t \in App, Call(t) PROVE SingleInv'
  <2>1. CASE IpcCall(t) /\ UNCHANGED <<mutexVars, history>>
    <3>1. Prunes(k, k') /\ NoNewWaiter
      BY <1>1, <2>1, SharedPrunes, IpcCallInv DEF OneAtATime
    <3>. QED  BY <1>2, <2>1, <3>1, SingleQuiet DEF mutexVars
  <2>2. ASSUME NEW m \in Mutexes, Take(t, m) PROVE SingleInv'
    <3>1. CASE TakeAgain(t, m)
      BY <1>4, <3>1 DEF TakeAgain
    <3>2. CASE TakeFree(t, m)
      BY <1>2, <3>2, TakeFreeSingle
    <3>3. CASE TakeBusy(t, m)
      BY <1>4, <3>3 DEF TakeBusy, mutexVars
    <3>4. ASSUME NEW timed \in BOOLEAN, TakeBlock(t, m, timed) PROVE SingleInv'
      BY <1>2, <3>4, TakeBlockSingle
    <3>. QED  BY <2>2, <3>1, <3>2, <3>3, <3>4 DEF Take
  <2>3. ASSUME NEW m \in Mutexes, Release(t, m) PROVE SingleInv'
    <3>1. CASE ReleaseInner(t, m)
      BY <1>3, <3>1 DEF ReleaseInner, ipcVars
    <3>2. CASE ReleaseLast(t, m)
      BY <1>2, <3>2, HandOverSingle, FreeSingle
    <3>. QED  BY <2>3, <3>1, <3>2 DEF Release
  <2>4. ASSUME NEW m \in Mutexes, ReleaseNotOwner(t, m) PROVE SingleInv'
    BY <1>4, <2>4 DEF ReleaseNotOwner, mutexVars
  <2>5. \A m \in Mutexes : ~MutexCreate(t, m)
    BY DEF MutexCreate, Create, SingleInv, NothingDeleted, Mutexes
  <2>. QED  BY <1>7, <2>1, <2>2, <2>3, <2>4, <2>5 DEF Call
<1>. QED  BY <1>5, <1>6, <1>7 DEF Next

\* The inheritance is right when the scheduler starts.
LEMMA SingleInit ==
    ASSUME Init
    PROVE  SingleInv
<1>1. Inv
  BY InitInv
<1>2. /\ \A o \in Object : k.list[o] = <<>>
      /\ k.prio = InitPrio
  <2>1. k \in KernelInits(Thread)
    BY DEF Init, IpcInit
  <2>2. k.prio = InitPrio
    BY <2>1 DEF KernelInits, InitialKernel
  <2>. QED  BY <2>1, <2>2, InitCoherent DEF Object
<1>3. /\ \A m \in Mutexes : owner[m] = NoThread
      /\ open = Object /\ \A t \in Thread : pc[t] = "run"
  BY DEF Init, IpcInit
<1>4. \A o \in Object : Waiting(o) = {} /\ Len(k.list[o]) = 0
  BY <1>2 DEF Waiting, ToSet
<1>5. NothingDeleted /\ OwnsOne /\ Restored
  BY <1>2, <1>3, <1>4 DEF NothingDeleted, OwnsOne, Restored
<1>6. Inherited
  BY <1>3, <1>4 DEF Inherited
<1>7. HighestPrioFirst
  BY <1>4 DEF HighestPrioFirst
<1>. QED  BY <1>1, <1>5, <1>6, <1>7 DEF SingleInv

\* SingleInv is an invariant of threads that hold one mutex at a time.
THEOREM SingleInvariance ==
    ASSUME OneAtATime
    PROVE  Spec => []SingleInv
<1>1. Init => SingleInv
  BY SingleInit
<1>2. SingleInv /\ Inv' /\ [Next]_vars => SingleInv'
  <2>1. ASSUME SingleInv, Inv', UNCHANGED vars PROVE SingleInv'
    <3>1. UNCHANGED <<k, open, pc, owner, original_priority>>
      BY <2>1 DEF vars, ipcVars, mutexVars
    <3>2. NothingDeleted' /\ OwnsOne' /\ Inherited' /\ Restored' /\ HighestPrioFirst'
      BY <2>1, <3>1 DEF SingleInv, NothingDeleted, OwnsOne, Inherited, Restored,
                        HighestPrioFirst, Waiting
    <3>. QED  BY <2>1, <3>2 DEF SingleInv
  <2>. QED  BY <2>1, SingleStep
<1>. QED  BY <1>1, <1>2, Invariance, PTL DEF Spec

\* The priority inheritance of rt_mutex_take works for threads that hold one
\* mutex at a time: the owner runs at least at the priority of whoever waits.
THEOREM InheritsAlways ==
    ASSUME OneAtATime
    PROVE  Spec => []Inherited
<1>1. SingleInv => Inherited
  BY DEF SingleInv
<1>. QED  BY <1>1, SingleInvariance, PTL

\* The priority that rt_mutex_release restores is the one the thread was created
\* with, for threads that hold one mutex at a time.
THEOREM RestoresAlways ==
    ASSUME OneAtATime
    PROVE  Spec => []Restored
<1>1. SingleInv => Restored
  BY DEF SingleInv
<1>. QED  BY <1>1, SingleInvariance, PTL

\* Inheritance never changes the priority of a queued thread under the wrong
\* place in its list: for threads that hold one mutex at a time,
\* rt_mutex_release gives the mutex to a thread of the highest priority.
THEOREM HighestIsFirst ==
    ASSUME OneAtATime
    PROVE  Spec => []HighestPrioFirst
<1>1. SingleInv => HighestPrioFirst
  BY DEF SingleInv
<1>. QED  BY <1>1, SingleInvariance, PTL

=============================================================================
