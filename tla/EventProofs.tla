---------------------------- MODULE EventProofs ----------------------------
(***************************************************************************)
(* The event sets: no event is missed, whoever is woken has earned it, and *)
(* a bit that is received with RT_EVENT_FLAG_CLEAR is consumed, for every  *)
(* number of threads, priorities, event sets and bits.                     *)
(*                                                                         *)
(* The core is an induction over the loop of rt_event_send: what its first *)
(* i turns leave.                                                          *)
(***************************************************************************)
EXTENDS Event, IpcProofs

\* The types of the variables of this module.
EventTypeOK ==
    /\ set \in [Object -> SUBSET Bit]
    /\ event_set \in [Thread -> SUBSET Bit]
    /\ event_info \in [Thread -> Option]
    /\ asked \in [Thread -> SUBSET Bit]

\* The inductive invariant.
Inv == IpcInv /\ WaitersClean /\ EventTypeOK /\ NoMissedEvent /\ WakesEarned

-----------------------------------------------------------------------------
(* The loop of rt_event_send *)

\* w[i] is what the first i turns leave, for i up to n.
Turns(w, e, bits, n) ==
    w = [i \in 0 .. n |->
           IF i = 0 THEN Start(e, bits) ELSE SendTo(w[i - 1], k.list[e][i])]

\* Every number of turns leaves something.
LEMMA TurnsExist ==
    ASSUME NEW e, NEW bits, NEW n \in Nat
    PROVE  \E w : Turns(w, e, bits, n)
<1>. DEFINE Bad == {i \in Nat : ~\E w : Turns(w, e, bits, i)}
<1>1. ASSUME Bad # {} PROVE FALSE
  <2>1. Bad \in SUBSET Nat
    OBVIOUS
  <2>2. PICK m \in Bad : \A i \in Bad : m <= i
    BY <1>1, <2>1, MinProperties
  <2>3. m \in Nat /\ ~\E w : Turns(w, e, bits, m)
    OBVIOUS
  <2>4. CASE m = 0
    <3>1. Turns([i \in 0 .. 0 |-> Start(e, bits)], e, bits, 0)
      BY DEF Turns
    <3>. QED  BY <2>3, <2>4, <3>1
  <2>5. CASE m # 0
    <3>1. m - 1 \in Nat /\ ~(m <= m - 1)
      BY <2>3, <2>5
    <3>2. m - 1 \notin Bad
      BY <2>2, <3>1
    <3>3. PICK v : Turns(v, e, bits, m - 1)
      BY <3>1, <3>2
    <3>4. PICK w : w = [i \in 0 .. m |-> IF i = m THEN SendTo(v[m - 1], k.list[e][m]) ELSE v[i]]
      OBVIOUS
    <3>5. \A i \in 0 .. m - 1 :
            v[i] = IF i = 0 THEN Start(e, bits) ELSE SendTo(v[i - 1], k.list[e][i])
      BY <3>1, <3>3 DEF Turns
    <3>6. ASSUME NEW i \in 0 .. m
          PROVE  w[i] = IF i = 0 THEN Start(e, bits) ELSE SendTo(w[i - 1], k.list[e][i])
      <4>1. CASE i = m
        <5>1. w[m] = SendTo(v[m - 1], k.list[e][m]) /\ w[m - 1] = v[m - 1]
          BY <3>1, <3>4
        <5>. QED  BY <2>5, <4>1, <5>1
      <4>2. CASE i # m
        <5>1. i \in 0 .. m - 1 /\ w[i] = v[i]
          BY <2>3, <3>4, <4>2
        <5>2. i # 0 => i - 1 \in 0 .. m /\ i - 1 # m
          BY <2>3, <4>2
        <5>3. i # 0 => w[i - 1] = v[i - 1]
          BY <3>4, <5>2
        <5>4. v[i] = IF i = 0 THEN Start(e, bits) ELSE SendTo(v[i - 1], k.list[e][i])
          BY <3>5, <5>1
        <5>. QED  BY <5>1, <5>3, <5>4
      <4>. QED  BY <4>1, <4>2
    <3>7. Turns(w, e, bits, m)
      BY <3>4, <3>6 DEF Turns
    <3>. QED  BY <2>3, <3>7
  <2>. QED  BY <2>4, <2>5
<1>2. n \notin Bad
  BY <1>1
<1>. QED  BY <1>2

\* rt_event_send does as many turns as threads wait.
LEMMA SentToTurns ==
    ASSUME NEW e, NEW bits, Len(k.list[e]) \in Nat
    PROVE  \E w : /\ SentTo(e, bits) = w[Len(k.list[e])] /\ w[0] = Start(e, bits)
                  /\ \A i \in 1 .. Len(k.list[e]) : w[i] = SendTo(w[i - 1], k.list[e][i])
<1>1. PICK n \in Nat : n = Len(k.list[e])
  OBVIOUS
<1>2. \E h : h = [i \in 0 .. n |->
                    IF i = 0 THEN Start(e, bits) ELSE SendTo(h[i - 1], k.list[e][i])]
  <2>1. \E h : Turns(h, e, bits, n)
    BY TurnsExist
  <2>. QED  BY <2>1 DEF Turns
<1>3. PICK w : w = CHOOSE h : h = [i \in 0 .. n |->
                     IF i = 0 THEN Start(e, bits) ELSE SendTo(h[i - 1], k.list[e][i])]
  OBVIOUS
<1>4. w = [i \in 0 .. n |-> IF i = 0 THEN Start(e, bits) ELSE SendTo(w[i - 1], k.list[e][i])]
  BY <1>2, <1>3, Zenon
<1>5. SentTo(e, bits) = w[n]
  BY <1>1, <1>3, Zenon DEF SentTo
<1>6. w[0] = Start(e, bits)
  BY <1>4
<1>7. ASSUME NEW i \in 1 .. n PROVE w[i] = SendTo(w[i - 1], k.list[e][i])
  <2>1. i \in 0 .. n /\ i # 0
    OBVIOUS
  <2>. QED  BY <1>4, <2>1
<1>. QED  BY <1>1, <1>5, <1>6, <1>7

\* The threads the loop has woken so far.
Woke(acc, e) == Waiting(e) \ ToSet(acc.k.list[e])

\* What i turns do to the kernel: they wake threads of the list of e, none
\* that has not had its turn.
KernelWalked(acc, e, i) ==
    /\ Eases(k, acc.k) /\ acc.k.cur = k.cur /\ acc.k.error = k.error
    /\ \A x \in Object \ {e} : ToSet(acc.k.list[x]) = ToSet(k.list[x])
    /\ \A j \in 1 .. Len(k.list[e]) : j > i => k.list[e][j] \in ToSet(acc.k.list[e])

\* A thread that is woken has what it asked for.
Earned(acc, u) ==
    IF event_info[u].all THEN acc.event_set[u] = event_set[u]
    ELSE acc.event_set[u] # {} /\ acc.event_set[u] \subseteq event_set[u]

\* What a thread received and cleared is gone, and nobody else has it.
Consumed(acc, e) ==
    \A u \in Woke(acc, e) : event_info[u].clear =>
        /\ acc.event_set[u] \cap acc.set = {}
        /\ \A v \in Woke(acc, e) \ {u} :
             event_info[v].clear => acc.event_set[u] \cap acc.event_set[v] = {}

\* What i turns do to the bits.
BitsWalked(acc, e, bits, i) ==
    /\ acc.set \subseteq set[e] \cup bits
    /\ acc.event_set \in [Thread -> SUBSET Bit]
    /\ \A u \in Thread \ Woke(acc, e) : acc.event_set[u] = event_set[u]
    /\ \A j \in 1 .. i : k.list[e][j] \in ToSet(acc.k.list[e]) =>
          ~Satisfied(event_set[k.list[e][j]], event_info[k.list[e][j]], acc.set)
    /\ \A u \in Woke(acc, e) : Earned(acc, u)
    /\ Consumed(acc, e)

\* With fewer bits fewer threads are satisfied.
LEMMA SatisfiedMonotone ==
    ASSUME NEW wanted, NEW option, NEW less, NEW more, less \subseteq more,
           Satisfied(wanted, option, less)
    PROVE  Satisfied(wanted, option, more)
  BY DEF Satisfied

\* The list a send walks.
LEMMA WaitList ==
    ASSUME IpcInv, NEW e \in Object
    PROVE  /\ k.list[e] \in Seq(Thread) /\ Len(k.list[e]) \in Nat
           /\ Waiting(e) = ToSet(k.list[e]) /\ Waiting(e) \subseteq Thread
           /\ \A i \in 1 .. Len(k.list[e]) : k.list[e][i] \in Waiting(e)
           /\ \A i, j \in 1 .. Len(k.list[e]) : k.list[e][i] = k.list[e][j] => i = j
           /\ \A u \in Waiting(e) : \E i \in 1 .. Len(k.list[e]) : u = k.list[e][i]
<1>1. k.list[e] \in Seq(Thread) /\ IsInjective(k.list[e])
  BY DEF IpcInv, Coherent, KernelCoherent, SuspendListsCoherent, IpcTypeOK, KernelState, Object
<1>2. Len(k.list[e]) \in Nat /\ \A i \in 1 .. Len(k.list[e]) : k.list[e][i] \in Thread
  BY <1>1
<1>. QED  BY <1>1, <1>2 DEF Waiting, ToSet, IsInjective

\* Before the first turn.
LEMMA WalkStarts ==
    ASSUME IpcInv, EventTypeOK, NEW e \in Object, NEW bits \in SUBSET Bit
    PROVE  KernelWalked(Start(e, bits), e, 0) /\ BitsWalked(Start(e, bits), e, bits, 0)
<1>1. PICK acc : acc = Start(e, bits)
  OBVIOUS
<1>2. acc.k = k /\ acc.set = set[e] \cup bits /\ acc.event_set = event_set
  BY <1>1 DEF Start
<1>3. CoherentState(k)
  BY DEF IpcInv, Coherent, CoherentState, IpcTypeOK
<1>4. Eases(k, acc.k)
  BY <1>2, <1>3, EasesReflexive
<1>5. Woke(acc, e) = {}
  BY <1>2 DEF Woke, Waiting
<1>6. KernelWalked(acc, e, 0)
  BY <1>2, <1>4, WaitList DEF KernelWalked, Waiting
<1>7. BitsWalked(acc, e, bits, 0)
  BY <1>2, <1>5 DEF BitsWalked, Consumed, EventTypeOK
<1>. QED  BY <1>1, <1>6, <1>7

\* One turn that wakes nobody.
LEMMA TurnPasses ==
    ASSUME IpcInv, EventTypeOK, NEW e \in Object, NEW bits \in SUBSET Bit,
           NEW i \in 1 .. Len(k.list[e]), NEW acc, NEW t, t = k.list[e][i],
           KernelWalked(acc, e, i - 1), BitsWalked(acc, e, bits, i - 1),
           ~Satisfied(acc.event_set[t], event_info[t], acc.set)
    PROVE  KernelWalked(acc, e, i) /\ BitsWalked(acc, e, bits, i)
<1>1. Len(k.list[e]) \in Nat /\ i \in Nat /\ t \in Thread
  BY WaitList
<1>2. KernelWalked(acc, e, i)
  BY <1>1 DEF KernelWalked
<1>3. t \in ToSet(acc.k.list[e])
  BY <1>1 DEF KernelWalked
<1>4. acc.event_set[t] = event_set[t]
  BY <1>1, <1>3 DEF BitsWalked, Woke
<1>5. ASSUME NEW j \in 1 .. i, k.list[e][j] \in ToSet(acc.k.list[e])
      PROVE  ~Satisfied(event_set[k.list[e][j]], event_info[k.list[e][j]], acc.set)
  <2>1. CASE j = i
    BY <1>4, <2>1
  <2>2. CASE j # i
    <3>1. j \in 1 .. i - 1
      BY <1>1, <2>2
    <3>. QED  BY <1>5, <3>1 DEF BitsWalked
  <2>. QED  BY <2>1, <2>2
<1>6. BitsWalked(acc, e, bits, i)
  BY <1>5 DEF BitsWalked
<1>. QED  BY <1>2, <1>6

\* One turn that wakes its thread.
LEMMA TurnWakes ==
    ASSUME IpcInv, EventTypeOK, NEW e \in Object, NEW bits \in SUBSET Bit,
           NEW i \in 1 .. Len(k.list[e]), NEW acc, NEW t, t = k.list[e][i],
           KernelWalked(acc, e, i - 1), BitsWalked(acc, e, bits, i - 1),
           Satisfied(acc.event_set[t], event_info[t], acc.set),
           NEW r, r = SendTo(acc, t)
    PROVE  KernelWalked(r, e, i) /\ BitsWalked(r, e, bits, i)
<1>1. Len(k.list[e]) \in Nat /\ i \in Nat /\ t \in Thread /\ t \in Waiting(e)
  BY WaitList
<1>2. t \in ToSet(acc.k.list[e]) /\ CoherentState(acc.k)
  BY <1>1 DEF KernelWalked, Eases
<1>3. acc.event_set[t] = event_set[t]
  BY <1>1, <1>2 DEF BitsWalked, Woke
<1>4. PICK received : received = event_set[t] \cap acc.set
  OBVIOUS
<1>5. /\ r.k = rt_thread_resume(acc.k, t)
      /\ r.set = IF event_info[t].clear THEN acc.set \ received ELSE acc.set
      /\ r.event_set = [acc.event_set EXCEPT ![t] = received]
  BY <1>3, <1>4 DEF SendTo
<1>6. acc.k.stat[t] = "SUSPEND"
  BY <1>1, <1>2, CoherentLists DEF Object
<1>7. Woken(acc.k, t, acc.k.error[t], r.k)
  BY <1>1, <1>2, <1>5, <1>6, PlainResumeWakes
<1>8. /\ ToSet(r.k.list[e]) = ToSet(acc.k.list[e]) \ {t}
      /\ \A x \in Object \ {e} : ToSet(r.k.list[x]) = ToSet(acc.k.list[x])
  <2>1. \A x \in Object : ToSet(r.k.list[x]) = ToSet(acc.k.list[x]) \ {t}
    BY <1>7 DEF Woken, Object
  <2>2. ASSUME NEW x \in Object \ {e} PROVE ToSet(r.k.list[x]) = ToSet(acc.k.list[x])
    <3>1. t \notin ToSet(acc.k.list[x])
      BY <1>2 DEF CoherentState, KernelCoherent, SuspendListsCoherent, Object
    <3>. QED  BY <1>7, <3>1 DEF Woken, Object
  <2>3. ToSet(r.k.list[e]) = ToSet(acc.k.list[e]) \ {t}
    BY <2>1
  <2>. QED  BY <2>2, <2>3
<1>9. KernelWalked(r, e, i)
  <2>1. CoherentState(k)
    BY DEF IpcInv, Coherent, CoherentState, IpcTypeOK
  <2>2. Eases(k, r.k)
    <3>1. Eases(acc.k, r.k)
      BY <1>1, <1>2, <1>7, WokenEases
    <3>. QED  BY <2>1, <3>1, EasesTransitive DEF KernelWalked
  <2>3. r.k.cur = k.cur /\ r.k.error = k.error
    <3>1. acc.k.error \in [Thread -> Error]
      BY <1>2 DEF CoherentState, KernelState
    <3>. QED  BY <1>7, <3>1 DEF Woken, KernelWalked
  <2>4. ASSUME NEW j \in 1 .. Len(k.list[e]), j > i PROVE k.list[e][j] \in ToSet(r.k.list[e])
    <3>1. k.list[e][j] # t /\ j > i - 1
      BY <1>1, <2>4, WaitList
    <3>. QED  BY <1>8, <3>1 DEF KernelWalked
  <2>. QED  BY <1>8, <2>2, <2>3, <2>4 DEF KernelWalked
<1>10. Woke(r, e) = Woke(acc, e) \cup {t} /\ t \notin Woke(acc, e)
  BY <1>1, <1>2, <1>8 DEF Woke
<1>11. r.set \subseteq acc.set /\ received \in SUBSET Bit
  BY <1>1, <1>4, <1>5 DEF EventTypeOK
<1>12. /\ r.event_set \in [Thread -> SUBSET Bit] /\ r.event_set[t] = received
       /\ \A u \in Thread \ {t} : r.event_set[u] = acc.event_set[u]
  BY <1>1, <1>5, <1>11 DEF BitsWalked
<1>13. ASSUME NEW j \in 1 .. i, k.list[e][j] \in ToSet(r.k.list[e])
       PROVE  ~Satisfied(event_set[k.list[e][j]], event_info[k.list[e][j]], r.set)
  <2>1. j # i /\ k.list[e][j] \in ToSet(acc.k.list[e])
    BY <1>8, <1>13
  <2>2. j \in 1 .. i - 1
    BY <1>1, <2>1
  <2>3. ~Satisfied(event_set[k.list[e][j]], event_info[k.list[e][j]], acc.set)
    BY <2>1, <2>2 DEF BitsWalked
  <2>. QED  BY <1>11, <2>3, SatisfiedMonotone
<1>14. ASSUME NEW u \in Woke(r, e) PROVE Earned(r, u)
  <2>1. CASE u = t
    BY <1>3, <1>4, <1>12, <2>1 DEF Earned, Satisfied
  <2>2. CASE u # t
    <3>1. u \in Woke(acc, e) /\ u \in Thread
      BY <1>10, <2>2, WaitList DEF Woke
    <3>. QED  BY <1>12, <2>2, <3>1 DEF BitsWalked, Earned
  <2>. QED  BY <2>1, <2>2
<1>15. Consumed(r, e)
  <2>1. Woke(r, e) \subseteq Thread /\ received \subseteq acc.set
    BY <1>4, WaitList DEF Woke
  <2>2. ASSUME NEW u \in Woke(acc, e), event_info[u].clear
        PROVE  /\ r.event_set[u] = acc.event_set[u] /\ acc.event_set[u] \cap acc.set = {}
               /\ \A v \in Woke(acc, e) \ {u} : event_info[v].clear =>
                    acc.event_set[u] \cap acc.event_set[v] = {}
    BY <1>10, <1>12, <2>1, <2>2 DEF BitsWalked, Consumed
  <2>3. ASSUME NEW u \in Woke(r, e), event_info[u].clear
        PROVE  /\ r.event_set[u] \cap r.set = {}
               /\ \A v \in Woke(r, e) \ {u} : event_info[v].clear =>
                    r.event_set[u] \cap r.event_set[v] = {}
    <3>1. CASE u = t
      <4>1. r.event_set[u] = received /\ r.set = acc.set \ received
        BY <1>5, <1>12, <2>3, <3>1
      <4>2. ASSUME NEW v \in Woke(r, e) \ {u}, event_info[v].clear
            PROVE  r.event_set[u] \cap r.event_set[v] = {}
        <5>1. v \in Woke(acc, e)
          BY <1>10, <3>1
        <5>2. r.event_set[v] \cap acc.set = {}
          BY <2>2, <4>2, <5>1
        <5>. QED  BY <2>1, <4>1, <5>2
      <4>. QED  BY <4>1, <4>2
    <3>2. CASE u # t
      <4>1. u \in Woke(acc, e)
        BY <1>10, <3>2
      <4>2. r.event_set[u] = acc.event_set[u] /\ acc.event_set[u] \cap acc.set = {}
        BY <2>2, <2>3, <4>1
      <4>3. ASSUME NEW v \in Woke(r, e) \ {u}, event_info[v].clear
            PROVE  r.event_set[u] \cap r.event_set[v] = {}
        <5>1. CASE v = t
          BY <1>12, <2>1, <4>2, <5>1
        <5>2. CASE v # t
          <6>1. v \in Woke(acc, e) \ {u}
            BY <1>10, <5>2
          <6>2. r.event_set[v] = acc.event_set[v]
            BY <2>2, <4>3, <6>1
          <6>. QED  BY <2>2, <2>3, <4>1, <4>2, <4>3, <6>1, <6>2
        <5>. QED  BY <5>1, <5>2
      <4>. QED  BY <1>11, <4>2, <4>3
    <3>. QED  BY <3>1, <3>2
  <2>. QED  BY <2>3 DEF Consumed
<1>16. \A u \in Thread \ Woke(r, e) : r.event_set[u] = event_set[u]
  BY <1>10, <1>12 DEF BitsWalked
<1>17. r.set \subseteq set[e] \cup bits
  BY <1>11 DEF BitsWalked
<1>18. BitsWalked(r, e, bits, i)
  BY <1>12, <1>13, <1>14, <1>15, <1>16, <1>17 DEF BitsWalked
<1>. QED  BY <1>9, <1>18

\* The whole loop.
LEMMA Walked ==
    ASSUME IpcInv, EventTypeOK, NEW e \in Object, NEW bits \in SUBSET Bit
    PROVE  /\ KernelWalked(SentTo(e, bits), e, Len(k.list[e]))
           /\ BitsWalked(SentTo(e, bits), e, bits, Len(k.list[e]))
<1>1. PICK n \in Nat : n = Len(k.list[e])
  BY WaitList
<1>2. PICK w : /\ SentTo(e, bits) = w[n] /\ w[0] = Start(e, bits)
               /\ \A i \in 1 .. n : w[i] = SendTo(w[i - 1], k.list[e][i])
  BY <1>1, SentToTurns
<1>. DEFINE Good(i) == KernelWalked(w[i], e, i) /\ BitsWalked(w[i], e, bits, i)
            Bad == {i \in 0 .. n : ~Good(i)}
<1>3. Good(0)
  BY <1>2, WalkStarts
<1>4. ASSUME NEW i \in 1 .. n, Good(i - 1) PROVE Good(i)
  <2>1. PICK acc, t, r : acc = w[i - 1] /\ t = k.list[e][i] /\ r = w[i] /\ r = SendTo(acc, t)
    BY <1>2
  <2>2. KernelWalked(acc, e, i - 1) /\ BitsWalked(acc, e, bits, i - 1) /\ i \in 1 .. Len(k.list[e])
    BY <1>1, <1>4, <2>1
  <2>3. CASE Satisfied(acc.event_set[t], event_info[t], acc.set)
    BY <2>1, <2>2, <2>3, TurnWakes
  <2>4. CASE ~Satisfied(acc.event_set[t], event_info[t], acc.set)
    <3>1. r = acc
      BY <2>1, <2>4 DEF SendTo
    <3>. QED  BY <2>1, <2>2, <2>4, <3>1, TurnPasses
  <2>. QED  BY <2>3, <2>4
<1>. HIDE DEF Good
<1>5. ASSUME Bad # {} PROVE FALSE
  <2>1. Bad \in SUBSET Nat
    OBVIOUS
  <2>2. PICK m \in Bad : \A i \in Bad : m <= i
    BY <1>5, <2>1, MinProperties
  <2>3. m \in 0 .. n /\ ~Good(m) /\ m # 0
    BY <1>3
  <2>4. m \in 1 .. n /\ m - 1 \in 0 .. n /\ ~(m <= m - 1)
    BY <2>3
  <2>5. Good(m - 1)
    BY <2>2, <2>4
  <2>. QED  BY <1>4, <2>3, <2>4, <2>5
<1>6. Good(n)
  BY <1>5
<1>. QED  BY <1>1, <1>2, <1>6 DEF Good

-----------------------------------------------------------------------------
(* The steps *)

\* What ClearConsumes says of one step.
ConsumesNow ==
    \A e \in Object :
        LET cleared == {t \in Resumed(e)' \ Resumed(e) : event_info[t].clear}
        IN  \A t \in cleared :
              /\ event_set'[t] \cap set'[e] = {}
              /\ \A u \in cleared \ {t} : event_set'[t] \cap event_set'[u] = {}

\* The invariant holds when the scheduler starts.
LEMMA InitInv ==
    ASSUME Init
    PROVE  Inv
<1>1. IpcInv
  BY IpcInitInv DEF Init
<1>2. \A o \in Object : Waiting(o) = {} /\ Resumed(o) = {}
  <2>1. \A l \in List : k.list[l] = <<>>
    BY InitCoherent DEF Init, IpcInit
  <2>2. \A u \in Thread : pc[u] = "run"
    BY DEF Init, IpcInit
  <2>. QED  BY <2>1, <2>2 DEF Waiting, Resumed, Object, ToSet
<1>3. EventTypeOK
  BY DEF Init, EventTypeOK, Option, NoOption
<1>. QED  BY <1>1, <1>2, <1>3 DEF Inv, WaitersClean, NoMissedEvent, WakesEarned

\* The request of a thread that waits, or was resumed, and what it received are
\* left alone.
Kept(u) == event_set'[u] = event_set[u] /\ event_info'[u] = event_info[u] /\ asked'[u] = asked[u]

\* A step that queues nobody, serves nobody and sets no bit.
LEMMA QuietStep ==
    ASSUME Inv, IpcInv', WaitersClean', EventTypeOK',
           \A x \in Object : /\ Waiting(x)' \subseteq Waiting(x)
                             /\ Resumed(x)' \subseteq Resumed(x)
                             /\ set'[x] \subseteq set[x],
           \A x \in Object : \A u \in Waiting(x)' \cup Resumed(x)' : Kept(u)
    PROVE  Inv' /\ ConsumesNow
<1>1. ASSUME NEW x \in Object, NEW u \in Waiting(x)'
      PROVE  ~Satisfied(event_set'[u], event_info'[u], set'[x]) /\ event_set'[u] = asked'[u]
  <2>1. ~Satisfied(event_set[u], event_info[u], set[x]) /\ event_set[u] = asked[u]
    BY <1>1 DEF Inv, NoMissedEvent, WakesEarned
  <2>2. Kept(u) /\ set'[x] \subseteq set[x]
    OBVIOUS
  <2>3. ~Satisfied(event_set[u], event_info[u], set'[x])
    BY <2>1, <2>2, SatisfiedMonotone
  <2>. QED  BY <2>1, <2>2, <2>3 DEF Kept
<1>2. NoMissedEvent'
  BY <1>1 DEF NoMissedEvent
<1>3. ASSUME NEW x \in Object, NEW u \in Resumed(x)'
      PROVE  IF event_info'[u].all THEN event_set'[u] = asked'[u]
             ELSE event_set'[u] # {} /\ event_set'[u] \subseteq asked'[u]
  BY <1>3 DEF Inv, WakesEarned, Kept
<1>4. WakesEarned'
  BY <1>1, <1>3 DEF WakesEarned
<1>5. ConsumesNow
  BY DEF ConsumesNow
<1>. QED  BY <1>2, <1>4, <1>5 DEF Inv

\* A step that serves nobody and leaves the variables of the event sets alone.
LEMMA IdlingStep ==
    ASSUME Inv, IpcInv', NobodyServed, UNCHANGED eventVars
    PROVE  Inv' /\ ConsumesNow
<1>1. WaitersClean'
  BY ServedClean DEF Inv
<1>2. \A x \in Object : Waiting(x)' \subseteq Waiting(x) /\ Resumed(x)' \subseteq Resumed(x)
  BY DEF NobodyServed, NoNewWaiter
<1>3. EventTypeOK' /\ UNCHANGED <<set, event_set, event_info, asked>>
  BY DEF Inv, EventTypeOK, eventVars
<1>. QED  BY <1>1, <1>2, <1>3, QuietStep DEF Kept

\* A send, of a thread or of an interrupt handler.
LEMMA SendingStep ==
    ASSUME Inv, IpcInv', NEW e \in Object, NEW bits \in SUBSET Bit,
           NEW r, r = SentTo(e, bits), k' = r.k \/ k' = rt_schedule(r.k),
           set' = [set EXCEPT ![e] = r.set], event_set' = r.event_set,
           UNCHANGED <<event_info, asked>>, SamePlaces
    PROVE  Inv' /\ ConsumesNow
<1>1. /\ KernelWalked(r, e, Len(k.list[e])) /\ BitsWalked(r, e, bits, Len(k.list[e]))
      /\ IpcInv /\ EventTypeOK
  BY Walked DEF Inv
<1>2. CoherentState(r.k) /\ r.k.error = k.error
  BY <1>1 DEF KernelWalked, Eases
<1>3. k'.error = k.error /\ \A x \in Object : Waiting(x)' = ToSet(r.k.list[x])
  <2>1. CASE k' = r.k
    BY <1>2, <2>1 DEF Waiting
  <2>2. CASE k' = rt_schedule(r.k)
    BY <1>2, <2>2, ScheduleCoherent DEF Waiting, Object, SameThreads
  <2>. QED  BY <2>1, <2>2
<1>4. /\ Waiting(e)' \subseteq Waiting(e)
      /\ \A x \in Object \ {e} : Waiting(x)' = Waiting(x)
  BY <1>1, <1>3 DEF KernelWalked, Eases, Waiting, Object
<1>5. Woke(r, e) = Waiting(e) \ Waiting(e)'
  BY <1>3 DEF Woke
<1>6. WaitersClean'
  BY <1>3, <1>4 DEF Inv, WaitersClean
<1>7. /\ set'[e] = r.set /\ \A x \in Object \ {e} : set'[x] = set[x]
      /\ set' \in [Object -> SUBSET Bit]
  BY <1>1 DEF BitsWalked, EventTypeOK
<1>8. EventTypeOK'
  BY <1>1, <1>7 DEF BitsWalked, EventTypeOK
<1>9. ASSUME NEW x \in Object, NEW u \in Waiting(x)'
      PROVE  u \in Waiting(x) /\ u \in Thread /\ event_set'[u] = event_set[u]
  <2>1. u \in Waiting(x) /\ u \in Thread
    BY <1>1, <1>4, WaitList
  <2>2. u \notin Woke(r, e)
    <3>1. CASE x = e
      BY <1>5, <3>1
    <3>2. CASE x # e
      <4>1. u \notin Waiting(e)
        BY <1>1, <2>1, <3>2, IpcInvWaiters DEF WaitersWait
      <4>. QED  BY <1>5, <4>1
    <3>. QED  BY <3>1, <3>2
  <2>. QED  BY <1>1, <2>1, <2>2 DEF BitsWalked
<1>10. ASSUME NEW x \in Object, NEW u \in Waiting(x)'
       PROVE  ~Satisfied(event_set'[u], event_info'[u], set'[x])
  <2>1. CASE x = e
    <3>1. PICK j \in 1 .. Len(k.list[e]) : u = k.list[e][j]
      BY <1>1, <1>9, <2>1, WaitList
    <3>2. u \in ToSet(r.k.list[e])
      BY <1>3, <2>1
    <3>3. ~Satisfied(event_set[u], event_info[u], r.set)
      BY <1>1, <3>1, <3>2 DEF BitsWalked
    <3>. QED  BY <1>7, <1>9, <2>1, <3>3
  <2>2. CASE x # e
    <3>1. ~Satisfied(event_set[u], event_info[u], set[x])
      BY <1>9 DEF Inv, NoMissedEvent
    <3>. QED  BY <1>7, <1>9, <2>2, <3>1
  <2>. QED  BY <2>1, <2>2
<1>11. NoMissedEvent'
  BY <1>10 DEF NoMissedEvent
<1>12. WaitersWait /\ WaitersWait'
  BY <1>1, StepWaiters
<1>13. ASSUME NEW x \in Object, NEW u \in Resumed(x)', u \notin Resumed(x)
       PROVE  x = e /\ u \in Woke(r, e)
  <2>1. u \in Thread /\ u \notin Waiting(x)' /\ pc'[u] \in Waits /\ on'[u] = x /\ k'.error[u] = "EOK"
    BY <1>13 DEF Resumed, Waits
  <2>2. pc[u] \in Waits /\ on[u] = x /\ k.error[u] = "EOK"
    BY <1>3, <2>1 DEF SamePlaces
  <2>3. u \in Waiting(x)
    BY <1>13, <2>1, <2>2 DEF Resumed, Waits
  <2>. QED  BY <1>4, <1>5, <2>1, <2>3
<1>14. ASSUME NEW x \in Object, NEW u \in Resumed(x)'
       PROVE  IF event_info'[u].all THEN event_set'[u] = asked'[u]
              ELSE event_set'[u] # {} /\ event_set'[u] \subseteq asked'[u]
  <2>1. CASE u \in Resumed(x)
    <3>1. u \in Thread /\ u \notin Waiting(e)
      BY <1>12, <2>1 DEF Resumed, WaitersWait
    <3>2. event_set'[u] = event_set[u]
      BY <1>1, <1>5, <3>1 DEF BitsWalked
    <3>. QED  BY <2>1, <3>2 DEF Inv, WakesEarned
  <2>2. CASE u \notin Resumed(x)
    <3>1. u \in Woke(r, e)
      BY <1>13, <2>2
    <3>2. Earned(r, u) /\ event_set[u] = asked[u]
      BY <1>1, <1>5, <3>1 DEF BitsWalked, Inv, WakesEarned
    <3>. QED  BY <3>2 DEF Earned
  <2>. QED  BY <2>1, <2>2
<1>15. WakesEarned'
  <2>1. \A x \in Object : \A u \in Waiting(x)' : event_set'[u] = asked'[u]
    BY <1>9 DEF Inv, WakesEarned
  <2>. QED  BY <1>14, <2>1 DEF WakesEarned
<1>16. ConsumesNow
  <2>1. Consumed(r, e)
    BY <1>1 DEF BitsWalked
  <2>2. ASSUME NEW x \in Object,
               NEW t \in {u \in Resumed(x)' \ Resumed(x) : event_info[u].clear}
        PROVE  /\ event_set'[t] \cap set'[x] = {}
               /\ \A u \in {v \in Resumed(x)' \ Resumed(x) : event_info[v].clear} \ {t} :
                    event_set'[t] \cap event_set'[u] = {}
    BY <1>7, <1>13, <2>1 DEF Consumed
  <2>. QED  BY <2>2 DEF ConsumesNow
<1>. QED  BY <1>6, <1>8, <1>11, <1>15, <1>16 DEF Inv

\* The running thread goes on in its call, or returns, and sets no bit; its own
\* request may be forgotten.
LEMMA GoesInv ==
    ASSUME Inv, NEW t \in App, NEW label, Runs(t, label),
           label \notin {"wait_sched", "sleep_sched"},
           UNCHANGED k \/ \E e \in Error : k' = [k EXCEPT !.error[t] = e],
           NEW after \in PC \ Waits, NEW o \in Object \cup {NoObject}, Goes(t, after, o),
           after \in WorksOnObject => o \in Object,
           UNCHANGED <<open, corrupt>>,
           EventTypeOK', \A x \in Object : set'[x] \subseteq set[x],
           \A u \in Thread \ {t} : Kept(u)
    PROVE  Inv' /\ ConsumesNow
<1>1. /\ open' \subseteq Object /\ corrupt' \in BOOLEAN /\ IpcInv /\ WaitersClean
      /\ k.stat[t] = "READY" /\ t \in Thread
  BY Runner DEF Inv
<1>2. IpcInv' /\ WaitersClean' /\ Leaves({t})
  BY <1>1, GoingStep
<1>3. ASSUME NEW x \in Object
      PROVE  /\ Waiting(x)' = Waiting(x) /\ Waiting(x) \subseteq Thread /\ t \notin Waiting(x)
             /\ Resumed(x)' = Resumed(x) \ {t} /\ Resumed(x) \subseteq Thread
  BY <1>1, <1>2, IpcInvWaiters DEF Leaves, WaitersWait, Resumed
<1>4. \A x \in Object : \A u \in Waiting(x)' \cup Resumed(x)' : Kept(u)
  BY <1>3
<1>5. \A x \in Object : Waiting(x)' \subseteq Waiting(x) /\ Resumed(x)' \subseteq Resumed(x)
  BY <1>3
<1>. QED  BY <1>2, <1>4, <1>5, QuietStep

\* A thread that stays where it is goes there.
LEMMA StaysHere ==
    ASSUME IpcInv, NEW t \in App, Runs(t, "run"), UNCHANGED <<pc, on>>
    PROVE  Goes(t, "run", on[t]) /\ on[t] \in Object \cup {NoObject}
  BY DEF IpcInv, IpcTypeOK, App, Runs, Goes

\* rt_event_send of a thread.
LEMMA SendInv ==
    ASSUME Inv, NEW t \in App, NEW e \in Object, NEW bits \in Bits, Send(t, e, bits)
    PROVE  Inv' /\ ConsumesNow
<1>1. PICK r : r = SentTo(e, bits)
  OBVIOUS
<1>2. /\ Runs(t, "run") /\ k' = r.k /\ set' = [set EXCEPT ![e] = r.set]
      /\ event_set' = r.event_set /\ UNCHANGED <<event_info, asked>> /\ UNCHANGED <<open, corrupt>>
      /\ Goes(t, "sched", NoObject) \/ UNCHANGED <<pc, on>>
  BY <1>1 DEF Send
<1>3. bits \in SUBSET Bit /\ IpcInv /\ EventTypeOK
  BY DEF Bits, Inv
<1>4. Eases(k, k')
  BY <1>1, <1>2, <1>3, Walked DEF KernelWalked
<1>5. "sched" \in PC /\ "sched" \notin Waits /\ "sched" \notin WorksOnObject
  BY Labels DEF Waits
<1>6. IpcInv' /\ SamePlaces
  <2>1. CASE Goes(t, "sched", NoObject)
    <3>1. pc[t] \notin Waits
      BY <1>2 DEF Runs, Waits
    <3>. QED  BY <1>2, <1>3, <1>4, <1>5, <2>1, <3>1, ReadyStep, GoesSamePlaces
  <2>2. CASE UNCHANGED <<pc, on>>
    BY <1>2, <1>3, <1>4, <2>2, EasedKernel DEF SamePlaces
  <2>. QED  BY <1>2, <2>1, <2>2
<1>. QED  BY <1>1, <1>2, <1>3, <1>6, SendingStep

\* rt_event_send in an interrupt handler.
LEMMA SendIsrInv ==
    ASSUME Inv, NEW e \in Object, NEW bits \in Bits, SendIsr(e, bits)
    PROVE  Inv' /\ ConsumesNow
<1>1. PICK r : r = SentTo(e, bits)
  OBVIOUS
<1>2. /\ k' = r.k \/ k' = rt_schedule(r.k)
      /\ set' = [set EXCEPT ![e] = r.set] /\ event_set' = r.event_set
      /\ UNCHANGED <<event_info, asked>> /\ UNCHANGED <<open, pc, on, corrupt>>
  BY <1>1 DEF SendIsr
<1>3. bits \in SUBSET Bit /\ IpcInv /\ EventTypeOK /\ CoherentState(k) /\ k.lock = 0
  BY DEF Bits, Inv, IpcInv, IpcTypeOK, Coherent, CoherentState, Started
<1>4. Eases(k, r.k)
  BY <1>1, <1>3, Walked DEF KernelWalked
<1>5. Eases(k, k')
  <2>1. CASE k' = r.k
    BY <1>4, <2>1
  <2>2. CASE k' = rt_schedule(r.k)
    <3>1. CoherentState(r.k) /\ r.k.lock = 0
      BY <1>3, <1>4 DEF Eases
    <3>2. Eases(r.k, k')
      BY <2>2, <3>1, ScheduleEases
    <3>. QED  BY <1>3, <1>4, <3>2, EasesTransitive
  <2>. QED  BY <1>2, <2>1, <2>2
<1>6. IpcInv' /\ SamePlaces
  BY <1>2, <1>3, <1>5, EasedKernel DEF SamePlaces
<1>. QED  BY <1>1, <1>2, <1>3, <1>6, SendingStep

\* rt_event_recv finds its bits.
LEMMA RecvInv ==
    ASSUME Inv, NEW t \in App, NEW e \in Object, NEW wanted, NEW option,
           Recv(t, e, wanted, option)
    PROVE  Inv' /\ ConsumesNow
<1>1. /\ Runs(t, "run") /\ k' = [k EXCEPT !.error[t] = "EOK"] /\ "EOK" \in Error
      /\ UNCHANGED <<open, corrupt>> /\ UNCHANGED <<pc, on>>
      /\ UNCHANGED <<event_set, event_info, asked>>
  BY DEF Recv, Error
<1>2. Goes(t, "run", on[t]) /\ on[t] \in Object \cup {NoObject}
  BY <1>1, StaysHere DEF Inv
<1>3. "run" \in PC \ Waits /\ "run" \notin WorksOnObject
  BY Labels DEF Waits
<1>4. PICK left : left = (IF option.clear THEN set[e] \ wanted ELSE set[e])
  OBVIOUS
<1>5. set' = [set EXCEPT ![e] = left] /\ left \subseteq set[e] /\ set \in [Object -> SUBSET Bit]
  BY <1>4 DEF Recv, Inv, EventTypeOK
<1>6. set' \in [Object -> SUBSET Bit] /\ \A x \in Object : set'[x] \subseteq set[x]
  BY <1>5
<1>7. EventTypeOK'
  BY <1>1, <1>6 DEF Inv, EventTypeOK
<1>. QED  BY <1>1, <1>2, <1>3, <1>6, <1>7, GoesInv DEF Kept

\* rt_event_recv does not find them and waits.
LEMMA RecvBlockInv ==
    ASSUME Inv, NEW t \in App, NEW e \in Object, NEW wanted \in Bits, NEW option \in Option,
           NEW timed, RecvBlock(t, e, wanted, option, timed)
    PROVE  Inv' /\ ConsumesNow
<1>1. /\ Runs(t, "run") /\ ~Satisfied(wanted, option, set[e])
      /\ k' = Wait([k EXCEPT !.error[t] = "EOK"], t, e, timed)
      /\ Goes(t, "wait_sched", e) /\ UNCHANGED <<open, corrupt>> /\ UNCHANGED set
  BY DEF RecvBlock
<1>2. IpcInv' /\ WaitersClean' /\ Blocks(t, e)
  BY <1>1, BlockingStep DEF Inv
<1>3. EventTypeOK /\ t \in Thread /\ wanted \in SUBSET Bit /\ IpcInv
  BY DEF Inv, App, Bits
<1>4. /\ event_set' = [event_set EXCEPT ![t] = wanted]
      /\ event_info' = [event_info EXCEPT ![t] = option]
      /\ asked' = [asked EXCEPT ![t] = wanted]
  BY DEF RecvBlock
<1>5. EventTypeOK'
  BY <1>1, <1>3, <1>4 DEF EventTypeOK
<1>6. /\ event_set'[t] = wanted /\ event_info'[t] = option /\ asked'[t] = wanted
      /\ \A u \in Thread \ {t} : Kept(u)
  BY <1>3, <1>4 DEF EventTypeOK, Kept
<1>7. ASSUME NEW x \in Object
      PROVE  /\ Waiting(x)' \subseteq Waiting(x) \cup {t} /\ (t \in Waiting(x)' => x = e)
             /\ Waiting(x) \subseteq Thread /\ Resumed(x)' = Resumed(x) \ {t}
             /\ Resumed(x) \subseteq Thread
  <2>1. k.stat[t] = "READY"
    BY <1>1, <1>3, Runner
  <2>2. t \notin Waiting(x) /\ Waiting(x) \subseteq Thread
    BY <1>3, <2>1, IpcInvWaiters DEF WaitersWait
  <2>3. Waiting(x)' = IF x = e THEN Waiting(x) \cup {t} ELSE Waiting(x)
    BY <1>2 DEF Blocks
  <2>. QED  BY <1>2, <2>2, <2>3 DEF Blocks, Resumed
<1>8. ASSUME NEW x \in Object, NEW u \in Waiting(x)'
      PROVE  ~Satisfied(event_set'[u], event_info'[u], set'[x]) /\ event_set'[u] = asked'[u]
  <2>1. CASE u = t
    BY <1>1, <1>6, <1>7, <2>1
  <2>2. CASE u # t
    <3>1. u \in Waiting(x) /\ u \in Thread
      BY <1>7, <2>2
    <3>2. ~Satisfied(event_set[u], event_info[u], set[x]) /\ event_set[u] = asked[u]
      BY <3>1 DEF Inv, NoMissedEvent, WakesEarned
    <3>. QED  BY <1>1, <1>6, <2>2, <3>1, <3>2 DEF Kept
  <2>. QED  BY <2>1, <2>2
<1>9. ASSUME NEW x \in Object, NEW u \in Resumed(x)'
      PROVE  IF event_info'[u].all THEN event_set'[u] = asked'[u]
             ELSE event_set'[u] # {} /\ event_set'[u] \subseteq asked'[u]
  <2>1. u \in Resumed(x) /\ u \in Thread \ {t}
    BY <1>7
  <2>. QED  BY <1>6, <2>1 DEF Inv, WakesEarned, Kept
<1>10. NoMissedEvent' /\ WakesEarned'
  BY <1>8, <1>9 DEF NoMissedEvent, WakesEarned
<1>11. ConsumesNow
  BY <1>7 DEF ConsumesNow
<1>. QED  BY <1>2, <1>5, <1>10, <1>11 DEF Inv

\* rt_event_recv ends a wait.
LEMMA RecvReturnInv ==
    ASSUME Inv, NEW t \in App, RecvReturn(t)
    PROVE  Inv' /\ ConsumesNow
<1>1. /\ Runs(t, "wait_ret") /\ Goes(t, "run", NoObject) /\ UNCHANGED <<open, corrupt>>
      /\ UNCHANGED k /\ UNCHANGED set
      /\ event_set' = [event_set EXCEPT ![t] = {}]
      /\ event_info' = [event_info EXCEPT ![t] = NoOption]
      /\ asked' = [asked EXCEPT ![t] = {}]
  BY DEF RecvReturn, Returns
<1>2. "run" \in PC \ Waits /\ "run" \notin WorksOnObject
  BY Labels DEF Waits
<1>3. EventTypeOK /\ NoOption \in Option
  BY DEF Inv, NoOption, Option
<1>4. EventTypeOK' /\ \A u \in Thread \ {t} : Kept(u)
  BY <1>1, <1>3 DEF EventTypeOK, Kept
<1>. QED  BY <1>1, <1>2, <1>4, GoesInv

\* rt_event_control: one turn of its loop, and its end.
LEMMA ControlLoopInv ==
    ASSUME Inv, NEW t \in App, ControlLoop(t)
    PROVE  Inv' /\ ConsumesNow
<1>1. /\ Runs(t, "irq_off") /\ UNCHANGED <<open, corrupt>> /\ IpcInv /\ WaitersClean
      /\ UNCHANGED <<event_set, event_info, asked>>
  BY DEF ControlLoop, Inv
<1>2. PICK e \in Object : e = on[t]
  BY <1>1, Runner, Labels
<1>3. CASE k.list[e] # <<>>
  <2>1. k' = ResumeFirst(e) /\ UNCHANGED <<pc, on>> /\ UNCHANGED set
    BY <1>2, <1>3 DEF ControlLoop
  <2>2. IpcInv' /\ NobodyServed
    BY <1>1, <1>3, <2>1, RefusingStep
  <2>. QED  BY <1>1, <2>1, <2>2, IdlingStep DEF eventVars
<1>4. CASE k.list[e] = <<>>
  <2>1. set' = [set EXCEPT ![e] = {}] /\ Goes(t, "sched", NoObject) /\ UNCHANGED k
    BY <1>2, <1>4 DEF ControlLoop
  <2>2. "sched" \in PC \ Waits /\ "sched" \notin WorksOnObject
    BY Labels DEF Waits
  <2>3. set \in [Object -> SUBSET Bit]
    BY DEF Inv, EventTypeOK
  <2>4. set' \in [Object -> SUBSET Bit] /\ \A x \in Object : set'[x] \subseteq set[x]
    BY <2>1, <2>3
  <2>5. EventTypeOK'
    BY <1>1, <2>4 DEF Inv, EventTypeOK
  <2>. QED  BY <1>1, <2>1, <2>2, <2>4, <2>5, GoesInv DEF Kept
<1>. QED  BY <1>3, <1>4

\* rt_event_init of an event set that was deleted.
LEMMA EventCreateInv ==
    ASSUME Inv, NEW t \in App, NEW e \in Object, EventCreate(t, e)
    PROVE  Inv' /\ ConsumesNow
<1>1. /\ Create(t, e) /\ UNCHANGED <<k, pc, on>> /\ set' = [set EXCEPT ![e] = {}]
      /\ UNCHANGED <<event_set, event_info, asked>>
  BY DEF EventCreate, Create
<1>2. IpcInv'
  BY <1>1, CreateInv DEF Inv
<1>3. \A x \in Object : Waiting(x)' = Waiting(x) /\ Resumed(x)' = Resumed(x)
  BY <1>1 DEF Waiting, Resumed
<1>4. WaitersClean'
  BY <1>1, <1>3 DEF Inv, WaitersClean
<1>5. set \in [Object -> SUBSET Bit]
  BY DEF Inv, EventTypeOK
<1>6. set' \in [Object -> SUBSET Bit] /\ \A x \in Object : set'[x] \subseteq set[x]
  BY <1>1, <1>5
<1>7. EventTypeOK'
  BY <1>1, <1>6 DEF Inv, EventTypeOK
<1>. QED  BY <1>1, <1>2, <1>3, <1>4, <1>6, <1>7, QuietStep DEF Kept

\* Every step preserves the invariant and consumes what it clears.
LEMMA NextInv ==
    ASSUME Inv, [Next]_vars
    PROVE  Inv' /\ ConsumesNow
<1>1. IpcInv /\ WaitersClean /\ open \subseteq Object /\ corrupt \in BOOLEAN
  BY DEF Inv, IpcInv, IpcTypeOK
<1>2. {"run", "irq_off"} \subseteq PC \ Waits /\ "run" \notin WorksOnObject
  BY Labels DEF Waits
<1>3. ASSUME UNCHANGED eventVars
      PROVE  /\ EventTypeOK' /\ (\A x \in Object : set'[x] \subseteq set[x])
             /\ \A u \in Thread : Kept(u)
  BY <1>3 DEF Inv, EventTypeOK, eventVars, Kept
<1>4. CASE UNCHANGED vars
  <2>1. UNCHANGED <<k, open, pc, on>> /\ UNCHANGED corrupt /\ UNCHANGED eventVars
    BY <1>4 DEF vars, ipcVars
  <2>2. IpcInv' /\ NobodyServed
    BY <1>1, <2>1, IdleStep
  <2>. QED  BY <2>1, <2>2, IdlingStep
<1>5. CASE Interrupt
  <2>1. CASE Tick /\ UNCHANGED eventVars
    BY <1>1, <2>1, TickInv, TickServes, IdlingStep
  <2>. QED  BY <1>5, <2>1, SendIsrInv DEF Interrupt
<1>6. ASSUME NEW t \in App, InCall(t) PROVE Inv' /\ ConsumesNow
  <2>1. CASE IpcInCall(t) /\ UNCHANGED eventVars
    BY <1>1, <2>1, IpcInCallInv, IpcInCallServes, IdlingStep
  <2>. QED  BY <1>6, <2>1, RecvReturnInv, ControlLoopInv DEF InCall
<1>7. ASSUME NEW t \in App, Call(t) PROVE Inv' /\ ConsumesNow
  <2>1. ASSUME NEW e \in Object, NEW wanted, NEW option, RecvNothing(t, e, wanted, option)
        PROVE  Inv' /\ ConsumesNow
    <3>1. /\ Runs(t, "run") /\ k' = [k EXCEPT !.error[t] = "ETIMEOUT"] /\ "ETIMEOUT" \in Error
          /\ UNCHANGED <<open, corrupt>> /\ UNCHANGED <<pc, on>> /\ UNCHANGED eventVars
      BY <2>1 DEF RecvNothing, Error
    <3>2. Goes(t, "run", on[t]) /\ on[t] \in Object \cup {NoObject}
      BY <1>1, <3>1, StaysHere
    <3>. QED  BY <1>2, <1>3, <3>1, <3>2, GoesInv
  <2>2. ASSUME NEW e \in Object, Control(t, e) PROVE Inv' /\ ConsumesNow
    <3>1. /\ Runs(t, "run") /\ UNCHANGED k /\ Goes(t, "irq_off", e)
          /\ UNCHANGED <<open, corrupt>> /\ UNCHANGED eventVars
      BY <2>2 DEF Control
    <3>. QED  BY <1>2, <1>3, <3>1, GoesInv
  <2>3. CASE IpcCall(t) /\ UNCHANGED eventVars
    BY <1>1, <2>3, IpcCallInv, IpcCallServes, IdlingStep
  <2>. QED  BY <1>7, <2>1, <2>2, <2>3, SendInv, RecvInv, RecvBlockInv, EventCreateInv DEF Call
<1>. QED  BY <1>4, <1>5, <1>6, <1>7 DEF Next

-----------------------------------------------------------------------------
\* The inductive invariant holds in every reachable state.
THEOREM Invariance == Spec => []Inv
<1>1. Init => Inv
  BY InitInv
<1>2. Inv /\ [Next]_vars => Inv'
  BY NextInv
<1>. QED  BY <1>1, <1>2, PTL DEF Spec

\* No event is missed: nobody waits for bits that are set, whichever thread
\* earlier in the list cleared some of them and whatever sends, timeouts, resets
\* and deletions interleave.
THEOREM NothingIsMissed == Spec => []NoMissedEvent
<1>1. Inv => NoMissedEvent
  BY DEF Inv
<1>. QED  BY <1>1, Invariance, PTL

\* A thread that a send woke has in event_set all the bits it asked for, or some
\* of them with RT_EVENT_FLAG_OR, until it reads them in rt_event_recv.
THEOREM WakesAreEarned == Spec => []WakesEarned
<1>1. Inv => WakesEarned
  BY DEF Inv
<1>. QED  BY <1>1, Invariance, PTL

\* A bit that rt_event_send hands to a thread with RT_EVENT_FLAG_CLEAR goes to no
\* other such thread and is no longer set.
THEOREM ClearingConsumes == Spec => ClearConsumes
<1>1. Inv /\ [Next]_vars => [ConsumesNow]_vars
  BY NextInv
<1>2. Spec => [][ConsumesNow]_vars
  BY <1>1, Invariance, PTL DEF Spec
<1>. QED  BY <1>2 DEF ClearConsumes, ConsumesNow

\* The kernel stays coherent and nobody is stranded, however many threads one
\* send wakes.
THEOREM KernelIsKept == Spec => [](Coherent /\ NobodyStranded)
<1>1. Inv => Coherent /\ NobodyStranded
  BY DEF Inv, IpcInv
<1>. QED  BY <1>1, Invariance, PTL
=============================================================================
