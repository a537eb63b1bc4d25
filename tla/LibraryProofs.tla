---------------------------- MODULE LibraryProofs ---------------------------
(***************************************************************************)
(* Proofs about the services of module Libraries: the barrier and the      *)
(* reader-writer lock for any number of threads, the ring buffer for any   *)
(* size, and the heap for any size and any number of threads.              *)
(***************************************************************************)
EXTENDS Libraries, IpcProofs

-----------------------------------------------------------------------------
(* Counting *)

\* The subsets of a finite set, and what one element more or less does to them.
LEMMA CountMembers ==
    ASSUME NEW S, IsFiniteSet(S), NEW R \in SUBSET S
    PROVE  /\ IsFiniteSet(R)
           /\ Cardinality(R) \in Nat
           /\ Cardinality(R) = 0 <=> R = {}
           /\ \A x \in S \ R : Cardinality(R \cup {x}) = Cardinality(R) + 1
           /\ \A x \in R : Cardinality(R \ {x}) = Cardinality(R) - 1
<1>1. IsFiniteSet(R)
  BY FS_Subset
<1>2. Cardinality(R) \in Nat /\ (Cardinality(R) = 0 <=> R = {})
  BY <1>1, FS_CardinalityType, FS_EmptySet
<1>3. \A x \in S \ R : Cardinality(R \cup {x}) = Cardinality(R) + 1
  BY <1>1, FS_AddElement
<1>4. \A x \in R : Cardinality(R \ {x}) = Cardinality(R) - 1
  BY <1>1, FS_RemoveElement
<1>. QED  BY <1>1, <1>2, <1>3, <1>4

\* The members of a list with one more.
LEMMA AppendSet ==
    ASSUME NEW S, NEW q \in Seq(S), NEW e \in S
    PROVE  ToSet(Append(q, e)) = ToSet(q) \cup {e}
<1>. DEFINE r == Append(q, e)
<1>1. /\ r \in Seq(S) /\ Len(r) = Len(q) + 1 /\ Len(q) \in Nat
      /\ \A j \in 1 .. Len(q) : r[j] = q[j]
      /\ r[Len(q) + 1] = e
  OBVIOUS
<1>. HIDE DEF r
<1>2. ASSUME NEW x \in ToSet(r) PROVE x \in ToSet(q) \cup {e}
  BY <1>1 DEF ToSet
<1>3. ASSUME NEW x \in ToSet(q) PROVE x \in ToSet(r)
  BY <1>1 DEF ToSet
<1>4. e \in ToSet(r)
  <2>1. Len(q) + 1 \in 1 .. Len(r)
    BY <1>1
  <2>. QED  BY <1>1, <2>1 DEF ToSet
<1>. QED  BY <1>2, <1>3, <1>4 DEF r

\* The instances use the same operators on sets and sequences.
LEMMA SameOperators ==
    /\ \A S : BA!Cardinality(S) = Cardinality(S) /\ RW!Cardinality(S) = Cardinality(S)
    /\ \A q : BA!ToSet(q) = ToSet(q) /\ RW!ToSet(q) = ToSet(q)
<1>1. \A S : BA!Cardinality(S) = Cardinality(S)
  BY DEF BA!Cardinality, Cardinality
<1>2. \A S : RW!Cardinality(S) = Cardinality(S)
  BY DEF RW!Cardinality, Cardinality
<1>3. \A q : BA!ToSet(q) = ToSet(q) /\ RW!ToSet(q) = ToSet(q)
  BY DEF BA!ToSet, RW!ToSet, ToSet
<1>. QED  BY <1>1, <1>2, <1>3

-----------------------------------------------------------------------------
(* The barrier *)

\* The threads that have arrived in time, those of them that have not yet taken the
\* semaphore of the condition, and those that it has not let through.
Arrived == {t \in Clients : ppc[t] \notin {"run", "refused"}}
OnTheWay == {t \in Clients : ppc[t] = "wait"}
Behind == {t \in Clients : ppc[t] \in {"wait", "asleep"}}

\* The barrier's types, and its queue: the threads that sleep.
BarrierTypes ==
    /\ ppc \in [Clients -> {"run", "wait", "asleep", "woken", "passed", "refused"}]
    /\ count \in Nat /\ total \in Nat /\ late \in Nat
    /\ cond \in [value : Nat, queue : Seq(Clients)]
    /\ \A t \in Clients : ppc[t] = "asleep" <=> t \in ToSet(cond.queue)

\* count is what is missing; until it is 0 nobody has been let through and there
\* is no token; then those behind were late, one of them has a token or has passed,
\* and nobody sleeps beside a token.
BarrierInv ==
    /\ BarrierTypes
    /\ count = total - Cardinality(Arrived)
    /\ count > 0 =>
          /\ cond.value = 0
          /\ \A t \in Clients : ppc[t] \notin {"woken", "passed", "refused"}
    /\ count = 0 =>
          /\ Cardinality(Behind) <= IF late = 0 THEN 0 ELSE late - 1 + cond.value
          /\ (\E t \in Clients : ppc[t] = "asleep") => cond.value = 0

\* The sets of threads are counted.
LEMMA BarrierSets ==
    /\ Cardinality(Arrived) \in Nat /\ Cardinality(OnTheWay) \in Nat
    /\ Cardinality(Behind) \in Nat /\ (Cardinality(Behind) = 0 <=> Behind = {})
<1>1. Arrived \in SUBSET Clients /\ OnTheWay \in SUBSET Clients /\ Behind \in SUBSET Clients
  BY DEF Arrived, OnTheWay, Behind
<1>. QED  BY <1>1, CountMembers, LibrariesAssumption

\* A new barrier.
LEMMA BarrierInit == BA!Init => BarrierInv
<1>. SUFFICES ASSUME BA!Init PROVE BarrierInv
  OBVIOUS
<1>1. /\ total \in 1 .. COUNT /\ count = total /\ late = 0
      /\ cond = [value |-> 0, queue |-> <<>>] /\ ppc = [t \in Clients |-> "run"]
  BY DEF BA!Init, BA!NewCond
<1>2. Arrived = {}
  BY <1>1 DEF Arrived
<1>3. ToSet(<<>>) = {}
  BY DEF ToSet
<1>4. BarrierTypes
  BY <1>1, <1>3, LibrariesAssumption DEF BarrierTypes
<1>5. count > 0 /\ count = total - Cardinality(Arrived)
  BY <1>1, <1>2, LibrariesAssumption, FS_EmptySet
<1>. QED  BY <1>1, <1>4, <1>5 DEF BarrierInv

\* A thread that comes late is refused.
LEMMA LateArrival ==
    ASSUME BarrierInv, NEW t \in Clients, ppc[t] = "run", count = 0,
           ppc' = [ppc EXCEPT ![t] = "refused"], UNCHANGED <<count, cond, total, late>>
    PROVE  BarrierInv'
<1>1. Arrived' = Arrived /\ Behind' = Behind
  BY DEF Arrived, Behind, BarrierInv, BarrierTypes
<1>2. BarrierTypes'
  BY DEF BarrierInv, BarrierTypes
<1>3. \A u \in Clients : ppc'[u] = "asleep" => ppc[u] = "asleep"
  BY DEF BarrierInv, BarrierTypes
<1>. QED  BY <1>1, <1>2, <1>3 DEF BarrierInv

\* A thread that comes early goes to wait.
LEMMA EarlyArrival ==
    ASSUME BarrierInv, NEW t \in Clients, ppc[t] = "run", count > 1,
           count' = count - 1, ppc' = [ppc EXCEPT ![t] = "wait"], UNCHANGED <<cond, total, late>>
    PROVE  BarrierInv'
<1>1. Arrived' = Arrived \cup {t} /\ t \notin Arrived
  BY DEF Arrived, BarrierInv, BarrierTypes
<1>2. Cardinality(Arrived') = Cardinality(Arrived) + 1 /\ Cardinality(Arrived) \in Nat
  <2>1. Arrived \in SUBSET Clients
    BY DEF Arrived
  <2>. QED  BY <1>1, <2>1, CountMembers, LibrariesAssumption
<1>3. BarrierTypes'
  BY DEF BarrierInv, BarrierTypes
<1>4. count' = total' - Cardinality(Arrived') /\ count' > 0
  BY <1>2 DEF BarrierInv, BarrierTypes
<1>5. /\ cond'.value = 0
      /\ \A u \in Clients : ppc'[u] \notin {"woken", "passed", "refused"}
  BY DEF BarrierInv, BarrierTypes
<1>. QED  BY <1>3, <1>4, <1>5 DEF BarrierInv

\* The last thread broadcasts: those in the queue are let through, and a token is
\* left for one of those on the way.
LEMMA LastArrival ==
    ASSUME BarrierInv, NEW t \in Clients, ppc[t] = "run", count = 1,
           count' = 0, late' = Cardinality(OnTheWay), total' = total,
           cond' = [value |-> IF cond.value = 0 THEN 1 ELSE cond.value, queue |-> <<>>],
           ppc' = [u \in Clients |-> IF u = t THEN "passed"
                                     ELSE IF u \in ToSet(cond.queue) THEN "woken" ELSE ppc[u]]
    PROVE  BarrierInv'
<1>1. Arrived' = Arrived \cup {t} /\ t \notin Arrived
  BY DEF Arrived, BarrierInv, BarrierTypes
<1>2. Cardinality(Arrived') = Cardinality(Arrived) + 1 /\ Cardinality(Arrived) \in Nat
  <2>1. Arrived \in SUBSET Clients
    BY DEF Arrived
  <2>. QED  BY <1>1, <2>1, CountMembers, LibrariesAssumption
<1>3. cond'.value = 1 /\ cond'.queue = <<>> /\ cond' \in [value : Nat, queue : Seq(Clients)]
  BY DEF BarrierInv, BarrierTypes
<1>4. BarrierTypes' /\ \A u \in Clients : ppc'[u] # "asleep"
  <2>1. ToSet(<<>>) = {}
    BY DEF ToSet
  <2>2. late' \in Nat
    BY BarrierSets
  <2>. QED  BY <1>3, <2>1, <2>2 DEF BarrierInv, BarrierTypes
<1>5. Behind' = OnTheWay
  <2>1. \A u \in Clients : ppc'[u] \in {"wait", "asleep"} <=> ppc[u] = "wait"
    BY DEF BarrierInv, BarrierTypes
  <2>. QED  BY <2>1 DEF OnTheWay, Behind
<1>6. Cardinality(Behind') <= IF late' = 0 THEN 0 ELSE late' - 1 + cond'.value
  BY <1>3, <1>5, BarrierSets
<1>7. count' = total' - Cardinality(Arrived')
  BY <1>2 DEF BarrierInv, BarrierTypes
<1>. QED  BY <1>4, <1>6, <1>7 DEF BarrierInv

\* A thread takes a token of the semaphore.
LEMMA BarrierToken ==
    ASSUME BarrierInv, NEW t \in Clients, ppc[t] = "wait", cond.value > 0,
           cond' = [cond EXCEPT !.value = @ - 1], ppc' = [ppc EXCEPT ![t] = "woken"],
           UNCHANGED <<count, total, late>>
    PROVE  BarrierInv'
<1>1. Arrived' = Arrived /\ Behind' = Behind \ {t} /\ t \in Behind
  BY DEF Arrived, Behind, BarrierInv, BarrierTypes
<1>2. Cardinality(Behind') = Cardinality(Behind) - 1 /\ Cardinality(Behind) \in Nat /\ Cardinality(Behind) # 0
  <2>1. Behind \in SUBSET Clients
    BY DEF Behind
  <2>. QED  BY <1>1, <2>1, CountMembers, LibrariesAssumption
<1>3. BarrierTypes' /\ cond'.value = cond.value - 1
  BY DEF BarrierInv, BarrierTypes
<1>4. count' = count /\ count = total - Cardinality(Arrived) /\ count = total - Cardinality(Arrived')
  BY <1>1 DEF BarrierInv
<1>5. count = 0 /\ count \in Nat
  BY DEF BarrierInv, BarrierTypes
<1>6. /\ Cardinality(Behind) <= IF late = 0 THEN 0 ELSE late - 1 + cond.value
      /\ cond.value \in Nat /\ late \in Nat
      /\ \A u \in Clients : ppc[u] # "asleep"
  BY <1>5 DEF BarrierInv, BarrierTypes
<1>7. Cardinality(Behind') <= IF late' = 0 THEN 0 ELSE late' - 1 + cond'.value
  BY <1>2, <1>3, <1>6
<1>8. \A u \in Clients : ppc'[u] # "asleep"
  BY <1>6 DEF BarrierInv, BarrierTypes
<1>. QED  BY <1>3, <1>4, <1>5, <1>7, <1>8 DEF BarrierInv

\* A thread finds no token and sleeps: the barrier has not been passed yet, or it is
\* one latecomer too many.
LEMMA BarrierSleep ==
    ASSUME BarrierInv, NEW t \in Clients, ppc[t] = "wait", cond.value = 0,
           cond' = [cond EXCEPT !.queue = Append(@, t)], ppc' = [ppc EXCEPT ![t] = "asleep"],
           UNCHANGED <<count, total, late>>
    PROVE  BarrierInv'
<1>1. Arrived' = Arrived /\ Behind' = Behind
  BY DEF Arrived, Behind, BarrierInv, BarrierTypes
<1>2. /\ cond'.value = 0 /\ cond'.queue = Append(cond.queue, t)
      /\ cond' \in [value : Nat, queue : Seq(Clients)]
  <2>1. cond \in [value : Nat, queue : Seq(Clients)] /\ cond.queue \in Seq(Clients)
    BY DEF BarrierInv, BarrierTypes
  <2>2. Append(cond.queue, t) \in Seq(Clients)
    BY <2>1
  <2>. QED  BY <2>1, <2>2
<1>3. ToSet(Append(cond.queue, t)) = ToSet(cond.queue) \cup {t}
  <2>1. cond.queue \in Seq(Clients)
    BY DEF BarrierInv, BarrierTypes
  <2>. QED  BY <2>1, AppendSet
<1>4. BarrierTypes'
  BY <1>2, <1>3 DEF BarrierInv, BarrierTypes
<1>5. count > 0 => \A u \in Clients : ppc'[u] \notin {"woken", "passed", "refused"}
  BY DEF BarrierInv, BarrierTypes
<1>. QED  BY <1>1, <1>2, <1>4, <1>5 DEF BarrierInv

\* A woken thread returns.
LEMMA BarrierPass ==
    ASSUME BarrierInv, NEW t \in Clients, ppc[t] = "woken",
           ppc' = [ppc EXCEPT ![t] = "passed"], UNCHANGED <<count, cond, total, late>>
    PROVE  BarrierInv'
<1>1. Arrived' = Arrived /\ Behind' = Behind
  BY DEF Arrived, Behind, BarrierInv, BarrierTypes
<1>2. BarrierTypes' /\ count = 0
  BY DEF BarrierInv, BarrierTypes
<1>3. \A u \in Clients : ppc'[u] = "asleep" => ppc[u] = "asleep"
  BY DEF BarrierInv, BarrierTypes
<1>. QED  BY <1>1, <1>2, <1>3 DEF BarrierInv

\* Every step of the barrier keeps its invariant.
LEMMA BarrierStep ==
    ASSUME BarrierInv, [BA!Next]_<<count, cond, total, late, ppc>>
    PROVE  BarrierInv'
<1>1. CASE UNCHANGED <<count, cond, total, late, ppc>>
  BY <1>1 DEF BarrierInv, BarrierTypes, Arrived, Behind
<1>2. ASSUME NEW t \in Clients, BA!Arrive(t) PROVE BarrierInv'
  <2>1. CASE count = 0
    BY <1>2, <2>1, LateArrival DEF BA!Arrive
  <2>2. CASE count = 1
    <3>1. BA!ToSet(cond.queue) = ToSet(cond.queue)
      BY SameOperators
    <3>2. BA!Cardinality(BA!At({"wait"})) = Cardinality(OnTheWay)
      <4>1. BA!At({"wait"}) = OnTheWay
        BY DEF BA!At, OnTheWay
      <4>. QED  BY <4>1, SameOperators
    <3>. QED  BY <1>2, <2>2, <3>1, <3>2, LastArrival DEF BA!Arrive, BA!pthread_cond_broadcast
  <2>3. CASE count > 1
    BY <1>2, <2>3, EarlyArrival DEF BA!Arrive
  <2>. QED  BY <2>1, <2>2, <2>3 DEF BarrierInv, BarrierTypes
<1>3. ASSUME NEW t \in Clients, BA!Take(t) PROVE BarrierInv'
  <2>1. CASE cond.value > 0
    BY <1>3, <2>1, BarrierToken DEF BA!Take, BA!Takes
  <2>2. CASE cond.value = 0
    BY <1>3, <2>2, BarrierSleep DEF BA!Take, BA!Queues
  <2>. QED  BY <2>1, <2>2 DEF BarrierInv, BarrierTypes
<1>4. ASSUME NEW t \in Clients, BA!Pass(t) PROVE BarrierInv'
  BY <1>4, BarrierPass DEF BA!Pass
<1>. QED  BY <1>1, <1>2, <1>3, <1>4 DEF BA!Next

\* The invariant implies what the barrier promises.
LEMMA BarrierSafe == BarrierInv => BA!TogetherOrNotAtAll
<1>. SUFFICES ASSUME BarrierInv PROVE BA!TogetherOrNotAtAll
  OBVIOUS
<1>1. /\ BA!At({"wait", "asleep"}) = Behind
      /\ Clients \ BA!At({"run", "refused"}) = Arrived
      /\ \A t : t \in BA!At({"woken", "passed"}) => t \in Clients /\ ppc[t] \in {"woken", "passed"}
      /\ BA!At({"asleep"}) # {} => Behind # {} /\ \E t \in Clients : ppc[t] = "asleep"
  BY DEF BA!At, Behind, Arrived
<1>2. BA!At({"woken", "passed"}) # {} => Cardinality(Arrived) = total
  BY <1>1, BarrierSets DEF BarrierInv, BarrierTypes
<1>3. count = 0 =>
        /\ Cardinality(Behind) <= IF late = 0 THEN 0 ELSE late - 1 + cond.value
        /\ BA!At({"asleep"}) # {} => cond.value = 0
  BY <1>1 DEF BarrierInv
<1>4. count = 0 /\ late <= 1 => BA!At({"asleep"}) = {}
  <2>. SUFFICES ASSUME count = 0, late <= 1, BA!At({"asleep"}) # {} PROVE FALSE
    OBVIOUS
  <2>1. cond.value = 0 /\ late \in Nat
    BY <1>3 DEF BarrierInv, BarrierTypes
  <2>2. Cardinality(Behind) <= 0
    BY <1>3, <2>1, BarrierSets
  <2>. QED  BY <1>1, <2>2, BarrierSets
<1>5. BA!Cardinality(Arrived) = Cardinality(Arrived) /\ BA!Cardinality(Behind) = Cardinality(Behind)
  BY SameOperators
<1>. QED  BY <1>1, <1>2, <1>3, <1>4, <1>5 DEF BA!TogetherOrNotAtAll

-----------------------------------------------------------------------------
(* The reader-writer lock *)

\* The threads in a call of mode m, in its wait; those that hold the lock.
Callers(m) == {t \in Clients : ppc[t] # "run" /\ mode[t] = m}
Having(m) == {t \in Clients : holds[t] = m}

\* The types of the lock's state.
RwTypes ==
    /\ rw_refcount \in Int
    /\ rw_nwait \in [{"read", "write"} -> Int]
    /\ rw_cond \in [{"read", "write"} -> [value : Nat, queue : Seq(Clients)]]
    /\ ppc \in [Clients -> {"run", "wait", "asleep", "woken", "expired"}]
    /\ mode \in [Clients -> {"read", "write"}]
    /\ timed \in [Clients -> BOOLEAN]
    /\ holds \in [Clients -> {"none", "read", "write"}]

\* The queue of a condition holds the threads that sleep on it, each once.
RwQueues ==
    \A m \in {"read", "write"} :
        /\ IsInjective(rw_cond[m].queue)
        /\ \A t \in Clients :
              t \in ToSet(rw_cond[m].queue) <=> ppc[t] = "asleep" /\ mode[t] = m

\* A thread in a call does not hold the lock.
RwCalls == \A t \in Clients : ppc[t] # "run" => holds[t] = "none"

\* A writer is alone, and rw_refcount says who holds the lock.
RwHolders ==
    /\ \A t, u \in Clients : holds[t] = "write" /\ holds[u] # "none" => t = u
    /\ rw_refcount = IF Having("write") # {} THEN -1 ELSE Cardinality(Having("read"))

\* rw_nwaitreaders and rw_nwaitwriters count the threads in a call.
RwCounts == \A m \in {"read", "write"} : rw_nwait[m] = Cardinality(Callers(m))

\* A thread of mode m waits and has not been woken; one of them has been, or is on
\* the way to a token.
Unserved(m) == \E t \in Clients : mode[t] = m /\ ppc[t] \in {"wait", "asleep"}
Granted(m) ==
    \E t \in Clients : /\ mode[t] = m
                       /\ ppc[t] = "woken" \/ (ppc[t] = "wait" /\ rw_cond[m].value > 0)

\* When the lock is free and writers are counted, one of them has been woken; if none
\* is counted, a waiting reader has been.
RwServed ==
    rw_refcount = 0 /\ ~missed =>
        /\ rw_nwait["write"] # 0 => Granted("write")
        /\ rw_nwait["write"] = 0 /\ Unserved("read") => Granted("read")

\* The inductive invariant of the lock.
RwInv == RwTypes /\ RwQueues /\ RwCalls /\ RwHolders /\ RwCounts /\ RwServed

\* A new lock.
LEMMA RwInit == RW!Init => RwInv
<1>. SUFFICES ASSUME RW!Init PROVE RwInv
  OBVIOUS
<1>1. /\ rw_refcount = 0 /\ rw_nwait = [m \in {"read", "write"} |-> 0]
      /\ rw_cond = [m \in {"read", "write"} |-> [value |-> 0, queue |-> <<>>]]
      /\ ppc = [t \in Clients |-> "run"] /\ holds = [t \in Clients |-> "none"]
      /\ mode = [t \in Clients |-> "read"] /\ timed = [t \in Clients |-> FALSE]
  BY DEF RW!Init, RW!NewCond, RW!Mode
<1>2. RwTypes
  BY <1>1 DEF RwTypes
<1>3. RwQueues
  <2>1. ToSet(<<>>) = {} /\ IsInjective(<<>>)
    BY DEF ToSet, IsInjective
  <2>. QED  BY <1>1, <2>1 DEF RwQueues
<1>4. RwCalls
  BY <1>1 DEF RwCalls
<1>5. RwHolders
  <2>1. Having("write") = {} /\ Having("read") = {}
    BY <1>1 DEF Having
  <2>. QED  BY <1>1, <2>1, FS_EmptySet DEF RwHolders
<1>6. RwCounts
  <2>1. \A m \in {"read", "write"} : Callers(m) = {}
    BY <1>1 DEF Callers
  <2>. QED  BY <1>1, <2>1, FS_EmptySet DEF RwCounts
<1>7. RwServed
  BY <1>1 DEF RwServed, Unserved
<1>. QED  BY <1>2, <1>3, <1>4, <1>5, <1>6, <1>7 DEF RwInv

\* A thread gets the lock: it was not held, or by readers only.
LEMMA RwGets ==
    ASSUME RwTypes, RwHolders, NEW t \in Clients, holds[t] = "none", NEW m \in {"read", "write"},
           m = "read" => ~(rw_refcount < 0), m = "write" => rw_refcount = 0,
           rw_refcount' = IF m = "read" THEN rw_refcount + 1 ELSE -1,
           holds' = [holds EXCEPT ![t] = m]
    PROVE  RwHolders' /\ rw_refcount' # 0
<1>1. Having("read") \in SUBSET Clients /\ Having("write") \in SUBSET Clients
  BY DEF Having
<1>2. /\ IsFiniteSet(Having("read")) /\ Cardinality(Having("read")) \in Nat
      /\ Cardinality(Having("read")) = 0 <=> Having("read") = {}
  BY <1>1, CountMembers, LibrariesAssumption
<1>3. Having("write") = {} /\ rw_refcount = Cardinality(Having("read"))
  BY <1>2 DEF RwHolders
<1>4. CASE m = "read"
  <2>1. Having("write")' = {} /\ Having("read")' = Having("read") \cup {t} /\ t \notin Having("read")
    BY <1>3, <1>4 DEF Having, RwTypes
  <2>2. Cardinality(Having("read")') = Cardinality(Having("read")) + 1
    BY <1>1, <2>1, CountMembers, LibrariesAssumption
  <2>3. \A u, v \in Clients : holds'[u] = "write" /\ holds'[v] # "none" => u = v
    BY <2>1 DEF Having
  <2>. QED  BY <1>2, <1>3, <1>4, <2>1, <2>2, <2>3 DEF RwHolders
<1>5. CASE m = "write"
  <2>1. Having("read") = {}
    BY <1>2, <1>3, <1>5
  <2>2. \A u \in Clients : holds[u] = "none"
    BY <1>3, <2>1 DEF Having, RwTypes
  <2>3. \A u \in Clients : holds'[u] = IF u = t THEN "write" ELSE "none"
    BY <1>5, <2>2 DEF RwTypes
  <2>4. t \in Having("write")'
    BY <2>3 DEF Having
  <2>. QED  BY <1>5, <2>3, <2>4 DEF RwHolders
<1>. QED  BY <1>4, <1>5

\* A thread in no call gets the lock.
LEMMA RwLockGets ==
    ASSUME RwInv, NEW t \in Clients, NEW m \in {"read", "write"}, NEW tm \in BOOLEAN,
           ppc[t] = "run", holds[t] = "none",
           mode' = [mode EXCEPT ![t] = m], timed' = [timed EXCEPT ![t] = tm],
           UNCHANGED <<rw_cond, missed>>, RW!Acquires(t, m, rw_nwait)
    PROVE  RwInv'
<1>1. /\ m = "read" => ~(rw_refcount < 0)
      /\ m = "write" => rw_refcount = 0
      /\ rw_refcount' = IF m = "read" THEN rw_refcount + 1 ELSE -1
      /\ holds' = [holds EXCEPT ![t] = m]
      /\ rw_nwait' = rw_nwait
      /\ ppc' = [ppc EXCEPT ![t] = "run"]
  BY DEF RW!Acquires, RW!MustWait, RW!Goes
<1>2. RwTypes'
  BY <1>1 DEF RwInv, RwTypes
<1>3. ppc' = ppc /\ \A u \in Clients : u # t => mode'[u] = mode[u] /\ holds'[u] = holds[u] /\ timed'[u] = timed[u]
  BY <1>1 DEF RwInv, RwTypes
<1>4. RwQueues'
  BY <1>3 DEF RwInv, RwQueues
<1>5. RwCalls'
  BY <1>1, <1>3 DEF RwInv, RwTypes, RwCalls
<1>6. RwHolders' /\ rw_refcount' # 0
  BY <1>1, RwGets DEF RwInv
<1>7. RwCounts'
  <2>1. \A l \in {"read", "write"} : Callers(l)' = Callers(l)
    BY <1>3 DEF Callers
  <2>. QED  BY <1>1, <2>1 DEF RwInv, RwCounts
<1>8. RwServed'
  BY <1>6 DEF RwServed
<1>. QED  BY <1>2, <1>4, <1>5, <1>6, <1>7, <1>8 DEF RwInv

\* A thread in no call goes to wait.  When the lock is free it is a reader that
\* lets a writer pass.
LEMMA RwLockWaits ==
    ASSUME RwInv, NEW t \in Clients, NEW m \in {"read", "write"}, NEW tm \in BOOLEAN,
           ppc[t] = "run", holds[t] = "none",
           mode' = [mode EXCEPT ![t] = m], timed' = [timed EXCEPT ![t] = tm],
           UNCHANGED <<rw_cond, missed>>, RW!Waits(t, m, rw_nwait)
    PROVE  RwInv'
<1>1. /\ IF m = "read" THEN rw_refcount < 0 \/ rw_nwait["write"] > 0 ELSE rw_refcount # 0
      /\ rw_nwait' = [rw_nwait EXCEPT ![m] = @ + 1]
      /\ ppc' = [ppc EXCEPT ![t] = "wait"]
      /\ rw_refcount' = rw_refcount /\ holds' = holds
  BY DEF RW!Waits, RW!MustWait, RW!Goes
<1>2. RwTypes'
  BY <1>1 DEF RwInv, RwTypes
<1>3. /\ ppc'[t] = "wait" /\ mode'[t] = m /\ timed'[t] = tm
      /\ \A u \in Clients : u # t => /\ ppc'[u] = ppc[u] /\ mode'[u] = mode[u]
                                     /\ timed'[u] = timed[u]
  BY <1>1 DEF RwInv, RwTypes
<1>4. RwQueues'
  BY <1>3 DEF RwInv, RwQueues
<1>5. RwCalls'
  BY <1>1, <1>3 DEF RwInv, RwCalls
<1>6. RwHolders'
  BY <1>1 DEF RwInv, RwHolders, Having
<1>7. RwCounts'
  <2>1. Callers(m)' = Callers(m) \cup {t} /\ t \in Clients \ Callers(m) /\ Callers(m) \in SUBSET Clients
    BY <1>3 DEF Callers
  <2>2. Cardinality(Callers(m)') = Cardinality(Callers(m)) + 1
    BY <2>1, CountMembers, LibrariesAssumption
  <2>3. \A l \in {"read", "write"} : l # m => Callers(l)' = Callers(l)
    BY <1>3 DEF Callers
  <2>4. \A l \in {"read", "write"} : rw_nwait'[l] = IF l = m THEN rw_nwait[l] + 1 ELSE rw_nwait[l]
    BY <1>1 DEF RwInv, RwTypes
  <2>. QED  BY <2>2, <2>3, <2>4 DEF RwInv, RwCounts
<1>8. RwServed'
  <2>. SUFFICES ASSUME rw_refcount' = 0, ~missed
                PROVE  Granted("write")' /\ rw_nwait'["write"] # 0
    BY DEF RwServed
  <2>1. m = "read" /\ rw_nwait["write"] > 0 /\ rw_refcount = 0
    BY <1>1
  <2>2. rw_nwait'["write"] = rw_nwait["write"]
    BY <1>1, <2>1 DEF RwInv, RwTypes
  <2>3. Granted("write") => Granted("write")'
    BY <1>3, <2>1 DEF Granted
  <2>4. rw_nwait["write"] # 0
    BY <2>1 DEF RwInv, RwTypes
  <2>. QED  BY <2>1, <2>2, <2>3, <2>4 DEF RwInv, RwServed
<1>. QED  BY <1>2, <1>4, <1>5, <1>6, <1>7, <1>8 DEF RwInv

\* rdlock and wrlock and their kind, up to the wait.
LEMMA RwLocks ==
    ASSUME RwInv, NEW t \in Clients, NEW m \in {"read", "write"}, NEW tm \in BOOLEAN,
           RW!Lock(t, m, tm)
    PROVE  RwInv'
BY RwLockGets, RwLockWaits DEF RW!Lock

\* Nobody is forgotten in a step that leaves the counts and wakes, or keeps awake,
\* whoever the waiting threads rely on.
LEMMA RwSteady ==
    ASSUME RwServed, rw_refcount' = rw_refcount, rw_nwait'["write"] = rw_nwait["write"],
           missed' = missed,
           \A m \in {"read", "write"} : /\ Unserved(m)' => Unserved(m)
                                        /\ Granted(m) => Granted(m)'
    PROVE  RwServed'
BY DEF RwServed

\* A thread in the wait takes a token.
LEMMA RwToken ==
    ASSUME RwInv, NEW t \in Clients, NEW m, m = mode[t], ppc[t] = "wait", rw_cond[m].value > 0,
           rw_cond' = [rw_cond EXCEPT ![m] = [rw_cond[m] EXCEPT !.value = @ - 1]],
           ppc' = [ppc EXCEPT ![t] = "woken"],
           UNCHANGED <<rw_refcount, rw_nwait, mode, timed, holds, missed>>
    PROVE  RwInv'
<1>1. m \in {"read", "write"}
  BY DEF RwInv, RwTypes
<1>2. /\ ppc'[t] = "woken"
      /\ \A u \in Clients : u # t => ppc'[u] = ppc[u]
      /\ ppc' \in [Clients -> {"run", "wait", "asleep", "woken", "expired"}]
  BY DEF RwInv, RwTypes
<1>3. /\ rw_cond' \in [{"read", "write"} -> [value : Nat, queue : Seq(Clients)]]
      /\ \A l \in {"read", "write"} : rw_cond'[l].queue = rw_cond[l].queue
      /\ \A l \in {"read", "write"} : l # m => rw_cond'[l] = rw_cond[l]
  <2>1. /\ rw_cond \in [{"read", "write"} -> [value : Nat, queue : Seq(Clients)]]
        /\ rw_cond[m] \in [value : Nat, queue : Seq(Clients)]
    BY <1>1 DEF RwInv, RwTypes
  <2>2. PICK d : d = [rw_cond[m] EXCEPT !.value = @ - 1]
    OBVIOUS
  <2>3. d \in [value : Nat, queue : Seq(Clients)] /\ d.queue = rw_cond[m].queue
    <3>1. PICK c : c = rw_cond[m]
      OBVIOUS
    <3>2. c \in [value : Nat, queue : Seq(Clients)] /\ c.value > 0
      BY <2>1, <3>1
    <3>3. d = [value |-> c.value - 1, queue |-> c.queue]
      BY <2>2, <3>1, <3>2
    <3>4. d.value \in Nat /\ d.queue = c.queue /\ c.queue \in Seq(Clients)
      BY <3>2, <3>3
    <3>. QED  BY <3>1, <3>3, <3>4
  <2>4. rw_cond' = [rw_cond EXCEPT ![m] = d]
    BY <2>2
  <2>. QED  BY <1>1, <2>1, <2>3, <2>4
<1>4. RwTypes'
  BY <1>2, <1>3 DEF RwInv, RwTypes
<1>5. RwQueues'
  BY <1>2, <1>3 DEF RwInv, RwQueues
<1>6. RwCalls'
  BY <1>2 DEF RwInv, RwCalls
<1>7. RwHolders'
  BY DEF RwInv, RwHolders, Having
<1>8. RwCounts'
  <2>1. \A l \in {"read", "write"} : Callers(l)' = Callers(l)
    BY <1>2 DEF Callers
  <2>. QED  BY <2>1 DEF RwInv, RwCounts
<1>9. RwServed'
  <2>1. \A l \in {"read", "write"} : Unserved(l)' => Unserved(l)
    BY <1>2 DEF Unserved
  <2>2. \A l \in {"read", "write"} : Granted(l) => Granted(l)'
    BY <1>2, <1>3 DEF Granted
  <2>. QED  BY <2>1, <2>2, RwSteady DEF RwInv
<1>. QED  BY <1>4, <1>5, <1>6, <1>7, <1>8, <1>9 DEF RwInv

\* A thread in the wait finds no token and sleeps.
LEMMA RwSleep ==
    ASSUME RwInv, NEW t \in Clients, NEW m, m = mode[t], ppc[t] = "wait", rw_cond[m].value = 0,
           rw_cond' = [rw_cond EXCEPT ![m] = [rw_cond[m] EXCEPT !.queue = Append(@, t)]],
           ppc' = [ppc EXCEPT ![t] = "asleep"],
           UNCHANGED <<rw_refcount, rw_nwait, mode, timed, holds, missed>>
    PROVE  RwInv'
<1>1. m \in {"read", "write"}
  BY DEF RwInv, RwTypes
<1>2. /\ ppc'[t] = "asleep"
      /\ \A u \in Clients : u # t => ppc'[u] = ppc[u]
      /\ ppc' \in [Clients -> {"run", "wait", "asleep", "woken", "expired"}]
  BY DEF RwInv, RwTypes
<1>3. /\ rw_cond[m].queue \in Seq(Clients)
      /\ rw_cond' \in [{"read", "write"} -> [value : Nat, queue : Seq(Clients)]]
      /\ rw_cond'[m].queue = Append(rw_cond[m].queue, t)
      /\ \A l \in {"read", "write"} : rw_cond'[l].value = rw_cond[l].value
      /\ \A l \in {"read", "write"} : l # m => rw_cond'[l] = rw_cond[l]
  <2>1. /\ rw_cond \in [{"read", "write"} -> [value : Nat, queue : Seq(Clients)]]
        /\ rw_cond[m] \in [value : Nat, queue : Seq(Clients)]
    BY <1>1 DEF RwInv, RwTypes
  <2>2. PICK d : d = [rw_cond[m] EXCEPT !.queue = Append(@, t)]
    OBVIOUS
  <2>3. Append(rw_cond[m].queue, t) \in Seq(Clients)
    BY <2>1
  <2>4. /\ d \in [value : Nat, queue : Seq(Clients)] /\ d.queue = Append(rw_cond[m].queue, t)
        /\ d.value = rw_cond[m].value
    BY <2>1, <2>2, <2>3
  <2>5. rw_cond' = [rw_cond EXCEPT ![m] = d]
    BY <2>2
  <2>. QED  BY <1>1, <2>1, <2>4, <2>5
<1>4. RwTypes'
  BY <1>2, <1>3 DEF RwInv, RwTypes
<1>5. RwQueues'
  <2>1. IsInjective(rw_cond[m].queue) /\ t \notin ToSet(rw_cond[m].queue)
    BY <1>1 DEF RwInv, RwQueues
  <2>2. /\ IsInjective(rw_cond'[m].queue)
        /\ ToSet(rw_cond'[m].queue) = ToSet(rw_cond[m].queue) \cup {t}
    BY <1>3, <2>1, AppendToList
  <2>3. \A u \in Clients : u \in ToSet(rw_cond'[m].queue) <=> ppc'[u] = "asleep" /\ mode'[u] = m
    BY <1>1, <1>2, <2>2 DEF RwInv, RwQueues
  <2>4. \A l \in {"read", "write"} : l # m =>
          /\ IsInjective(rw_cond'[l].queue)
          /\ \A u \in Clients : u \in ToSet(rw_cond'[l].queue) <=> ppc'[u] = "asleep" /\ mode'[u] = l
    BY <1>2, <1>3 DEF RwInv, RwQueues
  <2>. QED  BY <2>2, <2>3, <2>4 DEF RwQueues
<1>6. RwCalls'
  BY <1>2 DEF RwInv, RwCalls
<1>7. RwHolders'
  BY DEF RwInv, RwHolders, Having
<1>8. RwCounts'
  <2>1. \A l \in {"read", "write"} : Callers(l)' = Callers(l)
    BY <1>2 DEF Callers
  <2>. QED  BY <2>1 DEF RwInv, RwCounts
<1>9. RwServed'
  <2>1. \A l \in {"read", "write"} : Unserved(l)' => Unserved(l)
    BY <1>2 DEF Unserved
  <2>2. \A l \in {"read", "write"} : Granted(l) => Granted(l)'
    BY <1>2, <1>3 DEF Granted
  <2>. QED  BY <2>1, <2>2, RwSteady DEF RwInv
<1>. QED  BY <1>4, <1>5, <1>6, <1>7, <1>8, <1>9 DEF RwInv

\* The time of a waiting thread is over, before or after it was queued.
LEMMA RwLapse ==
    ASSUME RwInv, NEW t \in Clients, NEW m, m = mode[t], timed[t],
           \/ ppc[t] = "wait" /\ rw_cond[m].value = 0 /\ rw_cond' = rw_cond
           \/ /\ ppc[t] = "asleep"
              /\ rw_cond' = [rw_cond EXCEPT ![m] = [rw_cond[m] EXCEPT !.queue = RemoveFirst(rw_cond[m].queue, t)]],
           ppc' = [ppc EXCEPT ![t] = "expired"],
           UNCHANGED <<rw_refcount, rw_nwait, mode, timed, holds, missed>>
    PROVE  RwInv'
<1>1. m \in {"read", "write"}
  BY DEF RwInv, RwTypes
<1>2. /\ ppc'[t] = "expired"
      /\ \A u \in Clients : u # t => ppc'[u] = ppc[u]
      /\ ppc' \in [Clients -> {"run", "wait", "asleep", "woken", "expired"}]
  BY DEF RwInv, RwTypes
<1>3. /\ rw_cond \in [{"read", "write"} -> [value : Nat, queue : Seq(Clients)]]
      /\ rw_cond[m] \in [value : Nat, queue : Seq(Clients)]
      /\ IsInjective(rw_cond[m].queue)
  BY <1>1 DEF RwInv, RwTypes, RwQueues
<1>4. PICK z : z = RemoveFirst(rw_cond[m].queue, t)
  OBVIOUS
<1>5. z \in Seq(Clients) /\ IsInjective(z) /\ ToSet(z) = ToSet(rw_cond[m].queue) \ {t}
  BY <1>3, <1>4, RemoveFirstProperties
<1>6. /\ rw_cond' \in [{"read", "write"} -> [value : Nat, queue : Seq(Clients)]]
      /\ \A l \in {"read", "write"} : rw_cond'[l].value = rw_cond[l].value
      /\ \A l \in {"read", "write"} : l # m => rw_cond'[l] = rw_cond[l]
      /\ rw_cond'[m].queue = IF ppc[t] = "wait" THEN rw_cond[m].queue ELSE z
  <2>1. CASE ppc[t] = "wait"
    BY <1>3, <2>1
  <2>2. CASE ppc[t] = "asleep"
    <3>1. PICK d : d = [rw_cond[m] EXCEPT !.queue = RemoveFirst(@, t)]
      OBVIOUS
    <3>2. d \in [value : Nat, queue : Seq(Clients)] /\ d.queue = z /\ d.value = rw_cond[m].value
      BY <1>3, <1>4, <1>5, <3>1
    <3>3. rw_cond' = [rw_cond EXCEPT ![m] = d]
      BY <2>2, <3>1
    <3>. QED  BY <1>1, <1>3, <2>2, <3>2, <3>3
  <2>. QED  BY <2>1, <2>2
<1>7. RwTypes'
  BY <1>2, <1>6 DEF RwInv, RwTypes
<1>8. RwQueues'
  <2>1. IsInjective(rw_cond'[m].queue)
    BY <1>3, <1>5, <1>6
  <2>2. ToSet(rw_cond'[m].queue) = ToSet(rw_cond[m].queue) \ {t}
    <3>1. ppc[t] = "wait" => t \notin ToSet(rw_cond[m].queue)
      BY <1>1 DEF RwInv, RwQueues
    <3>. QED  BY <1>5, <1>6, <3>1
  <2>3. \A u \in Clients : u \in ToSet(rw_cond'[m].queue) <=> ppc'[u] = "asleep" /\ mode'[u] = m
    BY <1>1, <1>2, <2>2 DEF RwInv, RwQueues
  <2>4. \A l \in {"read", "write"} : l # m =>
          /\ IsInjective(rw_cond'[l].queue)
          /\ \A u \in Clients : u \in ToSet(rw_cond'[l].queue) <=> ppc'[u] = "asleep" /\ mode'[u] = l
    BY <1>2, <1>6 DEF RwInv, RwQueues
  <2>. QED  BY <2>1, <2>3, <2>4 DEF RwQueues
<1>9. RwCalls'
  BY <1>1, <1>2 DEF RwInv, RwCalls
<1>10. RwHolders'
  BY DEF RwInv, RwHolders, Having
<1>11. RwCounts'
  <2>1. \A l \in {"read", "write"} : Callers(l)' = Callers(l)
    BY <1>2 DEF Callers
  <2>. QED  BY <2>1 DEF RwInv, RwCounts
<1>12. RwServed'
  <2>1. \A l \in {"read", "write"} : Unserved(l)' => Unserved(l)
    BY <1>2 DEF Unserved
  <2>2. \A l \in {"read", "write"} : Granted(l) => Granted(l)'
    BY <1>2, <1>6 DEF Granted
  <2>. QED  BY <2>1, <2>2, RwSteady DEF RwInv
<1>. QED  BY <1>7, <1>8, <1>9, <1>10, <1>11, <1>12 DEF RwInv

\* rt_sem_take in the wait, and the timeout of the sleep.
LEMMA RwTakes ==
    ASSUME RwInv, NEW t \in Clients, RW!Take(t) \/ RW!Timeout(t)
    PROVE  RwInv'
<1>1. CASE RW!Take(t)
  <2>1. PICK m : m = mode[t]
    OBVIOUS
  <2>2. /\ ppc[t] = "wait"
        /\ UNCHANGED <<rw_refcount, rw_nwait, mode, timed, holds, missed>>
        /\ \/ /\ rw_cond[m].value > 0
              /\ rw_cond' = [rw_cond EXCEPT ![m] = [rw_cond[m] EXCEPT !.value = @ - 1]]
              /\ ppc' = [ppc EXCEPT ![t] = "woken"]
           \/ /\ rw_cond[m].value = 0
              /\ rw_cond' = [rw_cond EXCEPT ![m] = [rw_cond[m] EXCEPT !.queue = Append(@, t)]]
              /\ ppc' = [ppc EXCEPT ![t] = "asleep"]
           \/ /\ rw_cond[m].value = 0 /\ timed[t]
              /\ ppc' = [ppc EXCEPT ![t] = "expired"] /\ UNCHANGED rw_cond
    BY <1>1, <2>1 DEF RW!Take, RW!Takes, RW!Queues, RW!Goes
  <2>. QED  BY <2>1, <2>2, RwToken, RwSleep, RwLapse
<1>2. CASE RW!Timeout(t)
  <2>1. PICK m : m = mode[t]
    OBVIOUS
  <2>2. /\ ppc[t] = "asleep" /\ timed[t]
        /\ rw_cond' = [rw_cond EXCEPT ![m] = [rw_cond[m] EXCEPT !.queue = RW!RemoveFirst(rw_cond[m].queue, t)]]
        /\ ppc' = [ppc EXCEPT ![t] = "expired"]
        /\ UNCHANGED <<rw_refcount, rw_nwait, mode, timed, holds, missed>>
    BY <1>2, <2>1 DEF RW!Timeout, RW!TimesOut, RW!Goes
  <2>3. \A q : RW!RemoveFirst(q, t) = RemoveFirst(q, t)
    <3>. TAKE q
    <3>. DEFINE places == {i \in 1 .. Len(q) : q[i] = t}
    <3>1. RW!Min(places) = Min(places)
      BY DEF RW!Min, Min
    <3>2. RW!SelectInSeq(q, LAMBDA e : e = t) = SelectInSeq(q, LAMBDA e : e = t)
      BY <3>1 DEF RW!SelectInSeq, SelectInSeq
    <3>. QED  BY <3>2 DEF RW!RemoveFirst, RemoveFirst, RW!RemoveAt, RemoveAt
  <2>4. rw_cond' = [rw_cond EXCEPT ![m] = [rw_cond[m] EXCEPT !.queue = RemoveFirst(rw_cond[m].queue, t)]]
    BY <2>2, <2>3
  <2>. QED  BY <2>1, <2>2, <2>4, RwLapse
<1>. QED  BY <1>1, <1>2

\* A woken thread gets the lock.
LEMMA RwRelockGets ==
    ASSUME RwInv, NEW t \in Clients, NEW m, m = mode[t], ppc[t] = "woken",
           NEW n, n = [rw_nwait EXCEPT ![m] = @ - 1], RW!Acquires(t, m, n),
           UNCHANGED <<rw_cond, mode, timed, missed>>
    PROVE  RwInv'
<1>1. m \in {"read", "write"} /\ holds[t] = "none"
  BY DEF RwInv, RwTypes, RwCalls
<1>2. /\ m = "read" => ~(rw_refcount < 0)
      /\ m = "write" => rw_refcount = 0
      /\ rw_refcount' = IF m = "read" THEN rw_refcount + 1 ELSE -1
      /\ holds' = [holds EXCEPT ![t] = m]
      /\ rw_nwait' = n
      /\ ppc' = [ppc EXCEPT ![t] = "run"]
  BY <1>1 DEF RW!Acquires, RW!MustWait, RW!Goes
<1>3. RwTypes'
  BY <1>1, <1>2 DEF RwInv, RwTypes
<1>4. /\ ppc'[t] = "run" /\ \A u \in Clients : u # t => ppc'[u] = ppc[u] /\ holds'[u] = holds[u]
      /\ \A l \in {"read", "write"} : rw_nwait'[l] = IF l = m THEN rw_nwait[l] - 1 ELSE rw_nwait[l]
  BY <1>2 DEF RwInv, RwTypes
<1>5. RwQueues'
  BY <1>4 DEF RwInv, RwQueues
<1>6. RwCalls'
  BY <1>4 DEF RwInv, RwCalls
<1>7. RwHolders' /\ rw_refcount' # 0
  BY <1>1, <1>2, RwGets DEF RwInv
<1>8. RwCounts'
  <2>1. Callers(m)' = Callers(m) \ {t} /\ t \in Callers(m) /\ Callers(m) \in SUBSET Clients
    BY <1>4 DEF Callers
  <2>2. Cardinality(Callers(m)') = Cardinality(Callers(m)) - 1
    BY <2>1, CountMembers, LibrariesAssumption
  <2>3. \A l \in {"read", "write"} : l # m => Callers(l)' = Callers(l)
    BY <1>4 DEF Callers
  <2>. QED  BY <1>4, <2>2, <2>3 DEF RwInv, RwCounts
<1>9. RwServed'
  BY <1>7 DEF RwServed
<1>. QED  BY <1>3, <1>5, <1>6, <1>7, <1>8, <1>9 DEF RwInv

\* A woken thread goes to wait again; when the lock is free it is a reader that
\* lets a writer pass.
LEMMA RwRelockWaits ==
    ASSUME RwInv, NEW t \in Clients, NEW m, m = mode[t], ppc[t] = "woken",
           NEW n, n = [rw_nwait EXCEPT ![m] = @ - 1], RW!Waits(t, m, n),
           UNCHANGED <<rw_cond, mode, timed, missed>>
    PROVE  RwInv'
<1>1. m \in {"read", "write"} /\ holds[t] = "none"
  BY DEF RwInv, RwTypes, RwCalls
<1>2. /\ IF m = "read" THEN rw_refcount < 0 \/ n["write"] > 0 ELSE rw_refcount # 0
      /\ rw_nwait' = [n EXCEPT ![m] = @ + 1]
      /\ ppc' = [ppc EXCEPT ![t] = "wait"]
      /\ rw_refcount' = rw_refcount /\ holds' = holds
  BY DEF RW!Waits, RW!MustWait, RW!Goes
<1>3. /\ ppc'[t] = "wait" /\ \A u \in Clients : u # t => ppc'[u] = ppc[u]
      /\ \A l \in {"read", "write"} : rw_nwait'[l] = rw_nwait[l]
      /\ m = "read" => n["write"] = rw_nwait["write"]
      /\ rw_nwait' \in [{"read", "write"} -> Int]
  BY <1>1, <1>2 DEF RwInv, RwTypes
<1>4. RwTypes'
  BY <1>2, <1>3 DEF RwInv, RwTypes
<1>5. RwQueues'
  BY <1>3 DEF RwInv, RwQueues
<1>6. RwCalls'
  BY <1>2, <1>3 DEF RwInv, RwCalls
<1>7. RwHolders'
  BY <1>2 DEF RwInv, RwHolders, Having
<1>8. RwCounts'
  <2>1. \A l \in {"read", "write"} : Callers(l)' = Callers(l)
    BY <1>3 DEF Callers
  <2>. QED  BY <1>3, <2>1 DEF RwInv, RwCounts
<1>9. RwServed'
  <2>. SUFFICES ASSUME rw_refcount' = 0, ~missed
                PROVE  Granted("write")' /\ rw_nwait'["write"] # 0
    BY DEF RwServed
  <2>1. m = "read" /\ rw_nwait["write"] > 0 /\ rw_refcount = 0
    BY <1>1, <1>2, <1>3
  <2>2. rw_nwait'["write"] # 0
    BY <1>3, <2>1 DEF RwInv, RwTypes
  <2>3. Granted("write") => Granted("write")'
    BY <1>3, <2>1 DEF Granted
  <2>4. rw_nwait["write"] # 0
    BY <2>1 DEF RwInv, RwTypes
  <2>. QED  BY <2>1, <2>2, <2>3, <2>4 DEF RwInv, RwServed
<1>. QED  BY <1>4, <1>5, <1>6, <1>7, <1>8, <1>9 DEF RwInv

\* A thread returns ETIMEDOUT.  A writer that does so while the lock is free leaves
\* another one behind that was woken.
LEMMA RwExpire ==
    ASSUME RwInv, NEW t \in Clients, RW!Expire(t)
    PROVE  RwInv'
<1>1. PICK m : m = mode[t]
  OBVIOUS
<1>2. /\ ppc[t] = "expired"
      /\ rw_nwait' = [rw_nwait EXCEPT ![m] = @ - 1]
      /\ ppc' = [ppc EXCEPT ![t] = "run"]
      /\ UNCHANGED <<rw_refcount, rw_cond, mode, timed, holds, missed>>
  BY <1>1 DEF RW!Expire, RW!Goes
<1>3. m \in {"read", "write"}
  BY <1>1 DEF RwInv, RwTypes
<1>4. /\ ppc'[t] = "run" /\ \A u \in Clients : u # t => ppc'[u] = ppc[u]
      /\ \A l \in {"read", "write"} : rw_nwait'[l] = IF l = m THEN rw_nwait[l] - 1 ELSE rw_nwait[l]
  BY <1>2, <1>3 DEF RwInv, RwTypes
<1>5. RwTypes'
  BY <1>2, <1>3 DEF RwInv, RwTypes
<1>6. RwQueues'
  BY <1>2, <1>4 DEF RwInv, RwQueues
<1>7. RwCalls'
  BY <1>2, <1>4 DEF RwInv, RwCalls
<1>8. RwHolders'
  BY <1>2 DEF RwInv, RwHolders, Having
<1>9. RwCounts'
  <2>1. Callers(m)' = Callers(m) \ {t} /\ t \in Callers(m) /\ Callers(m) \in SUBSET Clients
    BY <1>1, <1>2, <1>4 DEF Callers
  <2>2. Cardinality(Callers(m)') = Cardinality(Callers(m)) - 1
    BY <2>1, CountMembers, LibrariesAssumption
  <2>3. \A l \in {"read", "write"} : l # m => Callers(l)' = Callers(l)
    BY <1>1, <1>2, <1>4 DEF Callers
  <2>. QED  BY <1>4, <2>2, <2>3 DEF RwInv, RwCounts
<1>10. RwServed'
  <2>1. \A l \in {"read", "write"} : Unserved(l)' => Unserved(l)
    BY <1>2, <1>4 DEF Unserved
  <2>2. \A l \in {"read", "write"} : Granted(l) => Granted(l)'
    BY <1>2, <1>4 DEF Granted
  <2>3. rw_nwait["write"] = 0 => rw_nwait'["write"] = 0
    <3>1. CASE m = "write"
      <4>1. t \in Callers("write") /\ Callers("write") \in SUBSET Clients
        BY <1>1, <1>2, <3>1 DEF Callers
      <4>2. rw_nwait["write"] # 0
        BY <4>1, CountMembers, LibrariesAssumption DEF RwInv, RwCounts
      <4>. QED  BY <4>2
    <3>2. CASE m # "write"
      BY <1>4, <3>2
    <3>. QED  BY <3>1, <3>2
  <2>4. rw_nwait["write"] # 0 /\ Granted("write") => rw_nwait'["write"] # 0
    <3>. SUFFICES ASSUME Granted("write")' PROVE rw_nwait'["write"] # 0
      BY <2>2
    <3>1. Callers("write")' # {} /\ Callers("write")' \in SUBSET Clients
      BY DEF Granted, Callers
    <3>2. Cardinality(Callers("write")') # 0
      BY <3>1, CountMembers, LibrariesAssumption
    <3>. QED  BY <1>9, <3>2 DEF RwCounts
  <2>. QED  BY <1>2, <2>1, <2>2, <2>3, <2>4 DEF RwInv, RwServed
<1>. QED  BY <1>5, <1>6, <1>7, <1>8, <1>9, <1>10 DEF RwInv

\* A thread that holds the lock gives it back.
LEMMA RwReleases ==
    ASSUME RwTypes, RwHolders, NEW t \in Clients, holds[t] # "none",
           rw_refcount' = (IF rw_refcount > 0 THEN rw_refcount - 1 ELSE 0),
           holds' = [holds EXCEPT ![t] = "none"]
    PROVE  RwHolders' /\ rw_refcount' \in Int
<1>1. Having("read") \in SUBSET Clients
  BY DEF Having
<1>2. Cardinality(Having("read")) \in Nat
  BY <1>1, CountMembers, LibrariesAssumption
<1>3. /\ holds'[t] = "none"
      /\ \A u \in Clients : u # t => holds'[u] = holds[u]
  BY DEF RwTypes
<1>4. \A u, v \in Clients : holds'[u] = "write" /\ holds'[v] # "none" => u = v
  BY <1>3 DEF RwHolders
<1>5. CASE holds[t] = "write"
  <2>1. \A u \in Clients : u # t => holds[u] = "none"
    BY <1>5 DEF RwHolders
  <2>2. Having("write")' = {} /\ Having("read")' = {} /\ t \in Having("write")
    BY <1>3, <1>5, <2>1 DEF Having
  <2>3. rw_refcount' = 0
    BY <2>2 DEF RwHolders
  <2>4. Cardinality(Having("read")') = 0
    BY <2>2, FS_EmptySet
  <2>. QED  BY <1>4, <2>2, <2>3, <2>4 DEF RwHolders
<1>6. CASE holds[t] = "read"
  <2>1. Having("write") = {} /\ t \in Having("read")
    BY <1>6 DEF Having, RwHolders
  <2>2. Having("write")' = {} /\ Having("read")' = Having("read") \ {t}
    BY <1>3, <1>6, <2>1 DEF Having
  <2>3. Cardinality(Having("read")') = Cardinality(Having("read")) - 1 /\ Cardinality(Having("read")) # 0
    BY <1>1, <2>1, <2>2, CountMembers, LibrariesAssumption
  <2>4. rw_refcount = Cardinality(Having("read"))
    BY <2>1 DEF RwHolders
  <2>5. rw_refcount' = Cardinality(Having("read")')
    BY <1>2, <2>3, <2>4
  <2>. QED  BY <1>2, <1>4, <2>2, <2>3, <2>5 DEF RwHolders
<1>. QED  BY <1>5, <1>6 DEF RwTypes

\* What an unlock that wakes the threads V of the queues does not disturb.
LEMMA RwWakes ==
    ASSUME RwInv, NEW t \in Clients, ppc[t] = "run", holds' = [holds EXCEPT ![t] = "none"],
           NEW V, \A u \in V \cap Clients : ppc[u] = "asleep",
           ppc' = [u \in Clients |-> IF u \in V THEN "woken" ELSE ppc[u]],
           UNCHANGED <<rw_nwait, mode, timed>>
    PROVE  RwCalls' /\ RwCounts' /\ \A m \in {"read", "write"} : Unserved(m)' => Unserved(m)
<1>1. \A u \in Clients : ppc'[u] = IF u \in V THEN "woken" ELSE ppc[u]
  OBVIOUS
<1>2. \A u \in Clients : holds[u] = "none" => holds'[u] = "none"
  BY DEF RwInv, RwTypes
<1>3. RwCalls'
  BY <1>1, <1>2 DEF RwInv, RwCalls
<1>4. RwCounts'
  <2>1. \A l \in {"read", "write"} : Callers(l)' = Callers(l)
    BY <1>1 DEF Callers
  <2>. QED  BY <2>1 DEF RwInv, RwCounts
<1>5. \A m \in {"read", "write"} : Unserved(m)' => Unserved(m)
  BY <1>1 DEF Unserved
<1>. QED  BY <1>3, <1>4, <1>5

\* Where nobody of mode m is counted, nobody waits.
LEMMA NoneWaiting ==
    ASSUME RwInv, NEW m \in {"read", "write"}, ~(rw_nwait[m] > 0)
    PROVE  ~Unserved(m) /\ rw_nwait[m] = 0
<1>1. Callers(m) \in SUBSET Clients
  BY DEF Callers
<1>2. Cardinality(Callers(m)) \in Nat /\ (Cardinality(Callers(m)) = 0 <=> Callers(m) = {})
  BY <1>1, CountMembers, LibrariesAssumption
<1>3. Callers(m) = {} /\ rw_nwait[m] = 0
  BY <1>2 DEF RwInv, RwCounts
<1>. QED  BY <1>3 DEF Callers, Unserved

\* An unlock that wakes nobody: readers still hold the lock and a writer waits, or
\* nobody does.
LEMMA RwUnlockQuiet ==
    ASSUME RwInv, NEW t \in Clients, ppc[t] = "run", holds[t] # "none",
           rw_refcount' = (IF rw_refcount > 0 THEN rw_refcount - 1 ELSE 0),
           holds' = [holds EXCEPT ![t] = "none"],
           ~(rw_nwait["write"] > 0) => ~(rw_nwait["read"] > 0),
           rw_nwait["write"] > 0 => rw_refcount' # 0,
           UNCHANGED <<rw_cond, rw_nwait, mode, timed>>,
           ppc' = [u \in Clients |-> ppc[u]]
    PROVE  RwInv'
<1>1. ppc' = ppc
  BY DEF RwInv, RwTypes
<1>2. RwHolders' /\ rw_refcount' \in Int
  BY RwReleases DEF RwInv
<1>3. RwTypes'
  BY <1>1, <1>2 DEF RwInv, RwTypes
<1>4. RwQueues'
  BY <1>1 DEF RwInv, RwQueues
<1>5. RwCalls' /\ RwCounts' /\ \A m \in {"read", "write"} : Unserved(m)' => Unserved(m)
  <2>1. PICK V : V = {}
    OBVIOUS
  <2>2. ppc' = [u \in Clients |-> IF u \in V THEN "woken" ELSE ppc[u]]
    BY <2>1
  <2>3. \A u \in V \cap Clients : ppc[u] = "asleep"
    BY <2>1
  <2>. QED  BY <2>2, <2>3, RwWakes
<1>6. RwServed'
  <2>1. CASE rw_nwait["write"] > 0
    BY <2>1 DEF RwServed
  <2>2. CASE ~(rw_nwait["write"] > 0)
    <3>1. ~Unserved("read") /\ rw_nwait["write"] = 0
      BY <2>2, NoneWaiting
    <3>. QED  BY <1>5, <3>1 DEF RwServed
  <2>. QED  BY <2>1, <2>2
<1>. QED  BY <1>2, <1>3, <1>4, <1>5, <1>6 DEF RwInv

\* An unlock that signals a writer: the first that sleeps is woken, or a token is
\* left for one on the way, unless all have timed out.
LEMMA RwUnlockWriter ==
    ASSUME RwInv, NEW t \in Clients, ppc[t] = "run", holds[t] # "none",
           rw_refcount' = (IF rw_refcount > 0 THEN rw_refcount - 1 ELSE 0),
           holds' = [holds EXCEPT ![t] = "none"], rw_nwait["write"] > 0,
           rw_cond' = [m \in {"read", "write"} |->
              IF m \notin {"write"} THEN rw_cond[m] ELSE RW!pthread_cond_signal(rw_cond[m])],
           ppc' = [u \in Clients |->
              IF u \in RW!Signalled(rw_cond["write"]) THEN "woken" ELSE ppc[u]],
           UNCHANGED <<rw_nwait, mode, timed>>,
           missed' = (missed \/ RW!At({"wait", "asleep", "woken"}, "write") = {})
    PROVE  RwInv'
<1>. DEFINE q == rw_cond["write"].queue
<1>1. RwHolders' /\ rw_refcount' \in Int
  BY RwReleases DEF RwInv
<1>2. /\ rw_cond["write"] \in [value : Nat, queue : Seq(Clients)] /\ q \in Seq(Clients)
      /\ rw_cond["write"].value \in Nat
      /\ IsInjective(q)
      /\ \A u \in Clients : u \in ToSet(q) <=> ppc[u] = "asleep" /\ mode[u] = "write"
  BY DEF RwInv, RwTypes, RwQueues
<1>3. /\ rw_cond'["read"] = rw_cond["read"]
      /\ rw_cond'["write"] = RW!pthread_cond_signal(rw_cond["write"])
      /\ DOMAIN rw_cond' = {"read", "write"}
  OBVIOUS
<1>4. CASE q = <<>>
  <2>. PICK V : V = {}
    OBVIOUS
  <2>1. /\ ppc' = [u \in Clients |-> IF u \in V THEN "woken" ELSE ppc[u]]
        /\ \A u \in V \cap Clients : ppc[u] = "asleep"
    BY <1>4 DEF RW!Signalled
  <2>2. ppc' = ppc
    BY <2>1 DEF RwInv, RwTypes
  <2>3. /\ rw_cond'["write"] \in [value : Nat, queue : Seq(Clients)]
        /\ rw_cond'["write"].queue = q /\ rw_cond'["write"].value > 0
    BY <1>2, <1>3, <1>4 DEF RW!pthread_cond_signal
  <2>4. RwTypes'
    <3>1. rw_cond' \in [{"read", "write"} -> [value : Nat, queue : Seq(Clients)]]
      BY <1>3, <2>3 DEF RwInv, RwTypes
    <3>. QED  BY <1>1, <2>2, <3>1 DEF RwInv, RwTypes
  <2>5. RwQueues'
    BY <1>3, <2>2, <2>3 DEF RwInv, RwQueues
  <2>6. RwCalls' /\ RwCounts'
    BY <2>1, RwWakes
  <2>7. ~missed' => Granted("write")'
    <3>. SUFFICES ASSUME ~missed' PROVE Granted("write")'
      OBVIOUS
    <3>1. ToSet(q) = {}
      BY <1>4 DEF ToSet
    <3>2. PICK u \in Clients : ppc[u] \in {"wait", "asleep", "woken"} /\ mode[u] = "write"
      BY DEF RW!At
    <3>. QED  BY <1>2, <2>2, <2>3, <3>1, <3>2 DEF Granted
  <2>8. RwServed'
    BY <2>7 DEF RwServed
  <2>. QED  BY <1>1, <2>4, <2>5, <2>6, <2>8 DEF RwInv
<1>5. CASE q # <<>>
  <2>1. PICK w : w = Head(q)
    OBVIOUS
  <2>2. /\ w \in Clients /\ w \in ToSet(q)
        /\ Tail(q) \in Seq(Clients) /\ IsInjective(Tail(q)) /\ ToSet(Tail(q)) = ToSet(q) \ {w}
    BY <1>2, <1>5, <2>1, QueueHead
  <2>3. ppc' = [u \in Clients |-> IF u \in {w} THEN "woken" ELSE ppc[u]]
    BY <1>5, <2>1 DEF RW!Signalled
  <2>4. ppc[w] = "asleep" /\ mode[w] = "write" /\ \A u \in {w} \cap Clients : ppc[u] = "asleep"
    BY <1>2, <2>2
  <2>5. /\ rw_cond'["write"] \in [value : Nat, queue : Seq(Clients)]
        /\ rw_cond'["write"].queue = Tail(q)
    <3>1. rw_cond'["write"] = [rw_cond["write"] EXCEPT !.queue = Tail(q)]
      BY <1>3, <1>5 DEF RW!pthread_cond_signal
    <3>. QED  BY <1>2, <2>2, <3>1
  <2>6. RwTypes'
    <3>1. rw_cond' \in [{"read", "write"} -> [value : Nat, queue : Seq(Clients)]]
      BY <1>3, <2>5 DEF RwInv, RwTypes
    <3>. QED  BY <1>1, <2>3, <3>1 DEF RwInv, RwTypes
  <2>7. RwQueues'
    <3>1. \A u \in Clients : u \in ToSet(rw_cond'["write"].queue) <=> ppc'[u] = "asleep" /\ mode'[u] = "write"
      BY <1>2, <2>2, <2>3, <2>5
    <3>2. \A u \in Clients : u \in ToSet(rw_cond'["read"].queue) <=> ppc'[u] = "asleep" /\ mode'[u] = "read"
      BY <1>3, <2>3, <2>4 DEF RwInv, RwQueues
    <3>3. IsInjective(rw_cond'["write"].queue) /\ IsInjective(rw_cond'["read"].queue)
      BY <1>3, <2>2, <2>5 DEF RwInv, RwQueues
    <3>. QED  BY <3>1, <3>2, <3>3 DEF RwQueues
  <2>8. RwCalls' /\ RwCounts'
    BY <2>3, <2>4, RwWakes
  <2>9. Granted("write")'
    BY <2>2, <2>3, <2>4 DEF Granted
  <2>10. RwServed'
    BY <2>9 DEF RwServed
  <2>. QED  BY <1>1, <2>6, <2>7, <2>8, <2>10 DEF RwInv
<1>. QED  BY <1>4, <1>5

\* An unlock that wakes the readers: all that sleep, and a token is left for one on
\* the way.
LEMMA RwUnlockReaders ==
    ASSUME RwInv, NEW t \in Clients, ppc[t] = "run", holds[t] # "none",
           rw_refcount' = (IF rw_refcount > 0 THEN rw_refcount - 1 ELSE 0),
           holds' = [holds EXCEPT ![t] = "none"],
           ~(rw_nwait["write"] > 0), NEW V, V = ToSet(rw_cond["read"].queue),
           rw_cond' = [m \in {"read", "write"} |->
              IF m \notin {"read"} THEN rw_cond[m] ELSE RW!pthread_cond_broadcast(rw_cond[m])],
           ppc' = [u \in Clients |-> IF u \in V THEN "woken" ELSE ppc[u]],
           UNCHANGED <<rw_nwait, mode, timed>>
    PROVE  RwInv'
<1>1. RwHolders' /\ rw_refcount' \in Int
  BY RwReleases DEF RwInv
<1>2. /\ rw_cond["read"].value \in Nat
      /\ \A u \in Clients : u \in V <=> ppc[u] = "asleep" /\ mode[u] = "read"
  BY DEF RwInv, RwTypes, RwQueues
<1>3. /\ rw_cond'["write"] = rw_cond["write"]
      /\ rw_cond'["read"] = RW!pthread_cond_broadcast(rw_cond["read"])
      /\ DOMAIN rw_cond' = {"read", "write"}
  OBVIOUS
<1>4. /\ rw_cond'["read"] \in [value : Nat, queue : Seq(Clients)]
      /\ rw_cond'["read"].queue = <<>> /\ rw_cond'["read"].value > 0
  BY <1>2, <1>3 DEF RW!pthread_cond_broadcast
<1>5. RwTypes'
  <2>1. rw_cond' \in [{"read", "write"} -> [value : Nat, queue : Seq(Clients)]]
    BY <1>3, <1>4 DEF RwInv, RwTypes
  <2>. QED  BY <1>1, <2>1 DEF RwInv, RwTypes
<1>6. RwQueues'
  <2>1. ToSet(<<>>) = {} /\ IsInjective(<<>>)
    BY DEF ToSet, IsInjective
  <2>2. \A u \in Clients : ~(ppc'[u] = "asleep" /\ mode'[u] = "read")
    BY <1>2
  <2>3. \A u \in Clients : u \in ToSet(rw_cond'["write"].queue) <=> ppc'[u] = "asleep" /\ mode'[u] = "write"
    BY <1>2, <1>3 DEF RwInv, RwQueues
  <2>4. IsInjective(rw_cond'["write"].queue)
    BY <1>3 DEF RwInv, RwQueues
  <2>. QED  BY <1>4, <2>1, <2>2, <2>3, <2>4 DEF RwQueues
<1>7. RwCalls' /\ RwCounts' /\ \A m \in {"read", "write"} : Unserved(m)' => Unserved(m)
  <2>1. \A u \in V \cap Clients : ppc[u] = "asleep"
    BY <1>2
  <2>. QED  BY <2>1, RwWakes
<1>8. Unserved("read") => Granted("read")'
  BY <1>2, <1>4 DEF Unserved, Granted
<1>9. RwServed'
  <2>1. rw_nwait'["write"] = 0
    BY NoneWaiting
  <2>. QED  BY <1>7, <1>8, <2>1 DEF RwServed
<1>. QED  BY <1>1, <1>5, <1>6, <1>7, <1>9 DEF RwInv

\* pthread_rwlock_unlock.
LEMMA RwUnlock ==
    ASSUME RwInv, NEW t \in Clients, RW!pthread_rwlock_unlock(t)
    PROVE  RwInv'
<1>. DEFINE r == IF rw_refcount > 0 THEN rw_refcount - 1 ELSE 0
            W == RW!Wakes(r)
            V == IF "write" \in W THEN RW!Signalled(rw_cond["write"])
                 ELSE IF "read" \in W THEN RW!ToSet(rw_cond["read"].queue) ELSE {}
<1>1. /\ ppc[t] = "run" /\ holds[t] # "none"
      /\ rw_refcount' = r
      /\ rw_cond' = [m \in {"read", "write"} |->
            IF m \notin W THEN rw_cond[m]
            ELSE IF m = "write" THEN RW!pthread_cond_signal(rw_cond[m])
            ELSE RW!pthread_cond_broadcast(rw_cond[m])]
      /\ ppc' = [u \in Clients |-> IF u \in V THEN "woken" ELSE ppc[u]]
      /\ holds' = [holds EXCEPT ![t] = "none"]
      /\ missed' = (missed \/ ("write" \in W /\ RW!At({"wait", "asleep", "woken"}, "write") = {}))
      /\ UNCHANGED <<rw_nwait, mode, timed>>
  BY DEF RW!pthread_rwlock_unlock, RW!Mode
<1>2. W = IF rw_nwait["write"] > 0 THEN IF r = 0 THEN {"write"} ELSE {}
          ELSE IF rw_nwait["read"] > 0 THEN {"read"} ELSE {}
  BY DEF RW!Wakes
<1>. HIDE DEF W
<1>3. CASE W = {"write"}
  <2>1. V = RW!Signalled(rw_cond["write"])
    BY <1>3
  <2>2. rw_nwait["write"] > 0
    BY <1>2, <1>3
  <2>3. rw_cond' = [m \in {"read", "write"} |->
          IF m \notin {"write"} THEN rw_cond[m] ELSE RW!pthread_cond_signal(rw_cond[m])]
    BY <1>1, <1>3
  <2>4. ppc' = [u \in Clients |->
          IF u \in RW!Signalled(rw_cond["write"]) THEN "woken" ELSE ppc[u]]
    BY <1>1, <2>1
  <2>5. /\ rw_refcount' = (IF rw_refcount > 0 THEN rw_refcount - 1 ELSE 0)
        /\ ppc[t] = "run" /\ holds[t] # "none" /\ holds' = [holds EXCEPT ![t] = "none"]
        /\ UNCHANGED <<rw_nwait, mode, timed>>
        /\ missed' = (missed \/ RW!At({"wait", "asleep", "woken"}, "write") = {})
    BY <1>1, <1>3
  <2>. HIDE DEF V
  <2>. QED  BY <2>2, <2>3, <2>4, <2>5, RwUnlockWriter
<1>4. CASE W = {"read"}
  <2>1. V = ToSet(rw_cond["read"].queue)
    BY <1>4, SameOperators
  <2>2. ~(rw_nwait["write"] > 0)
    BY <1>2, <1>4
  <2>3. rw_cond' = [m \in {"read", "write"} |->
          IF m \notin {"read"} THEN rw_cond[m] ELSE RW!pthread_cond_broadcast(rw_cond[m])]
    BY <1>1, <1>4
  <2>. HIDE DEF V
  <2>. QED  BY <1>1, <2>1, <2>2, <2>3, RwUnlockReaders
<1>5. CASE W = {}
  <2>1. /\ ~(rw_nwait["write"] > 0) => ~(rw_nwait["read"] > 0)
        /\ rw_nwait["write"] > 0 => rw_refcount' # 0
    BY <1>1, <1>2, <1>5
  <2>2. rw_cond' = rw_cond
    BY <1>1, <1>5 DEF RwInv, RwTypes
  <2>3. ppc' = [u \in Clients |-> ppc[u]]
    BY <1>1, <1>5
  <2>. QED  BY <1>1, <2>1, <2>2, <2>3, RwUnlockQuiet
<1>. QED  BY <1>2, <1>3, <1>4, <1>5

\* Every step of the lock keeps its invariant.
LEMMA RwStep ==
    ASSUME RwInv, [RW!Next]_<<rwVars, ppc>>
    PROVE  RwInv'
<1>1. CASE UNCHANGED <<rwVars, ppc>>
  BY <1>1 DEF rwVars, RwInv, RwTypes, RwQueues, RwCalls, RwHolders, RwCounts, RwServed,
              Unserved, Granted, Callers, Having
<1>2. ASSUME NEW t \in Clients, NEW m \in {"read", "write"}, NEW tm \in BOOLEAN, RW!Lock(t, m, tm)
      PROVE  RwInv'
  BY <1>2, RwLocks
<1>3. ASSUME NEW t \in Clients, RW!Take(t) \/ RW!Timeout(t) PROVE RwInv'
  BY <1>3, RwTakes
<1>4. ASSUME NEW t \in Clients, RW!Relock(t) PROVE RwInv'
  <2>1. PICK m, n : m = mode[t] /\ n = [rw_nwait EXCEPT ![m] = @ - 1]
    OBVIOUS
  <2>2. /\ ppc[t] = "woken" /\ UNCHANGED <<rw_cond, mode, timed, missed>>
        /\ RW!Acquires(t, m, n) \/ RW!Waits(t, m, n)
    BY <1>4, <2>1 DEF RW!Relock
  <2>. QED  BY <2>1, <2>2, RwRelockGets, RwRelockWaits
<1>5. ASSUME NEW t \in Clients, RW!Expire(t) PROVE RwInv'
  BY <1>5, RwExpire
<1>6. ASSUME NEW t \in Clients, RW!pthread_rwlock_unlock(t) PROVE RwInv'
  BY <1>6, RwUnlock
<1>. QED  BY <1>1, <1>2, <1>3, <1>4, <1>5, <1>6 DEF RW!Next, RW!Mode

\* The invariant implies what the lock promises.
LEMMA RwSafe == RwInv => RW!Exclusion /\ RW!NobodyForgotten
<1>. SUFFICES ASSUME RwInv PROVE RW!Exclusion /\ RW!NobodyForgotten
  OBVIOUS
<1>1. RW!Holders("write") = Having("write") /\ RW!Holders("read") = Having("read")
  BY DEF RW!Holders, Having
<1>2. \A m \in {"read", "write"} : RW!At({"wait", "asleep", "woken", "expired"}, m) = Callers(m)
  BY DEF RW!At, Callers, RwInv, RwTypes
<1>3. \A S : RW!Cardinality(S) = Cardinality(S)
  BY SameOperators
<1>4. Having("write") # {} => Cardinality(Having("write") \cup Having("read")) = 1
  <2>. SUFFICES ASSUME NEW t \in Having("write") PROVE Cardinality(Having("write") \cup Having("read")) = 1
    OBVIOUS
  <2>1. Having("write") \cup Having("read") = {t}
    BY DEF Having, RwInv, RwHolders
  <2>. QED  BY <2>1, FS_Singleton
<1>5. RW!Exclusion
  BY <1>1, <1>2, <1>3, <1>4 DEF RW!Exclusion, RW!Mode, RwInv, RwHolders, RwCounts
<1>6. RW!NobodyForgotten
  <2>. SUFFICES ASSUME rw_refcount = 0, ~missed, NEW t \in Clients, ppc[t] = "asleep"
                PROVE  \E m \in {"read", "write"} : Granted(m)
    BY DEF RW!NobodyForgotten, RW!At, RW!Mode, Granted
  <2>1. CASE rw_nwait["write"] # 0
    BY <2>1 DEF RwInv, RwServed
  <2>2. CASE rw_nwait["write"] = 0
    <3>1. ~Unserved("write")
      BY <2>2, NoneWaiting
    <3>2. mode[t] = "read"
      BY <3>1 DEF Unserved, RwInv, RwTypes
    <3>3. Unserved("read")
      BY <3>2 DEF Unserved
    <3>. QED  BY <2>2, <3>3 DEF RwInv, RwServed
  <2>. QED  BY <2>1, <2>2
<1>. QED  BY <1>5, <1>6

-----------------------------------------------------------------------------
(* The part of the composed specification, and the theorem *)

\* The lock and the barrier keep their invariants in the composition.
PthreadsInv ==
    /\ part = "rwlock" => RwInv
    /\ part = "barrier" => BarrierInv

\* A step of the composition is one of the part, or leaves its variables alone.
LEMMA PthreadsStep ==
    ASSUME PthreadsInv, [LibrariesNext /\ UNCHANGED part]_<<part, libraryVars>>
    PROVE  PthreadsInv'
<1>1. part' = part
  BY DEF libraryVars
<1>2. CASE part = "rwlock"
  <2>1. [RW!Next]_<<rwVars, ppc>>
    BY <1>2 DEF LibrariesNext, libraryVars, rwVars
  <2>. QED  BY <1>1, <1>2, <2>1, RwStep DEF PthreadsInv
<1>3. CASE part = "barrier"
  <2>1. [BA!Next]_<<count, cond, total, late, ppc>>
    BY <1>3 DEF LibrariesNext, libraryVars, barVars
  <2>. QED  BY <1>1, <1>3, <2>1, BarrierStep DEF PthreadsInv
<1>4. CASE part \notin {"rwlock", "barrier"}
  BY <1>1, <1>4 DEF PthreadsInv
<1>. QED  BY <1>2, <1>3, <1>4

\* pthread_rwlock.c and pthread_barrier.c, for any number of threads, timed calls of
\* both modes and barriers of any count: a writer is alone, the counters are exact,
\* and nobody sleeps while the lock is free and no other thread is on its way to it,
\* until an unlock signals a writer and all that wait have timed out; nobody passes
\* a barrier before all have arrived, and then all pass but the latecomers without a
\* token, of which there are none when at most one was on its way to sleep.
THEOREM PthreadsAreSound == LibrariesSpec => []PthreadsSound
<1>1. LibrariesInit => PthreadsInv
  BY RwInit, BarrierInit DEF LibrariesInit, PthreadsInv
<1>2. PthreadsInv /\ [LibrariesNext /\ UNCHANGED part]_<<part, libraryVars>> => PthreadsInv'
  BY PthreadsStep
<1>3. PthreadsInv => PthreadsSound
  BY RwSafe, BarrierSafe DEF PthreadsInv, PthreadsSound
<1>. QED  BY <1>1, <1>2, <1>3, PTL DEF LibrariesSpec

-----------------------------------------------------------------------------
(* The ends of the ring buffer *)

\* The remainder, for numbers less than one turn away from the buffer.
LEMMA Turn ==
    ASSUME NEW x \in Int, -BUFFER_SIZE <= x, x < 2 * BUFFER_SIZE
    PROVE  x % BUFFER_SIZE = IF x < 0 THEN x + BUFFER_SIZE
                             ELSE IF x < BUFFER_SIZE THEN x ELSE x - BUFFER_SIZE
<1>. BUFFER_SIZE \in Nat \ {0}
  BY LibrariesAssumption
<1>1. CASE x < 0
  BY <1>1
<1>2. CASE x >= 0 /\ x < BUFFER_SIZE
  BY <1>2
<1>3. CASE x >= BUFFER_SIZE
  BY <1>3
<1>. QED  BY <1>1, <1>2, <1>3

\* One end of the buffer.
End == [mirror : {0, 1}, index : 0 .. BUFFER_SIZE - 1]

\* The write end w is n characters ahead of the read end r.
Ahead(w, r, n) ==
    /\ n \in 0 .. BUFFER_SIZE
    /\ w.index = IF w.mirror = r.mirror THEN r.index + n ELSE r.index + n - BUFFER_SIZE

\* An end moves n characters on, turning its mirror bit at the end of the buffer.
LEMMA AdvanceIs ==
    ASSUME NEW e \in End, NEW n \in 0 .. BUFFER_SIZE
    PROVE  /\ RB!Advance(e, n) \in End
           /\ RB!Advance(e, n).index = IF e.index + n < BUFFER_SIZE THEN e.index + n
                                       ELSE e.index + n - BUFFER_SIZE
           /\ RB!Advance(e, n).mirror = IF e.index + n < BUFFER_SIZE THEN e.mirror ELSE 1 - e.mirror
<1>. BUFFER_SIZE \in Nat \ {0}
  BY LibrariesAssumption
<1>1. e.index \in 0 .. BUFFER_SIZE - 1 /\ e.mirror \in {0, 1}
      /\ e = [mirror |-> e.mirror, index |-> e.index]
  BY DEF End
<1>2. PICK i : i = (e.index + n) % BUFFER_SIZE
  OBVIOUS
<1>3. i = IF e.index + n < BUFFER_SIZE THEN e.index + n ELSE e.index + n - BUFFER_SIZE
  BY <1>1, <1>2, Turn
<1>4. CASE e.index + n < BUFFER_SIZE
  <2>1. RB!Advance(e, n) = [e EXCEPT !.index = i]
    BY <1>1, <1>2, <1>4 DEF RB!Advance, RB!Wraps, RB!Move
  <2>. QED  BY <1>1, <1>3, <1>4, <2>1 DEF End
<1>5. CASE ~(e.index + n < BUFFER_SIZE)
  <2>1. PICK f : f = [e EXCEPT !.mirror = 1 - e.mirror]
    OBVIOUS
  <2>2. f \in End /\ f.index = e.index /\ f.mirror = 1 - e.mirror
    BY <1>1, <2>1 DEF End
  <2>3. RB!Advance(e, n) = [f EXCEPT !.index = i]
    BY <1>1, <1>2, <1>5, <2>1, <2>2 DEF RB!Advance, RB!Wraps, RB!Move, RB!Flip
  <2>. QED  BY <1>1, <1>3, <1>5, <2>2, <2>3 DEF End
<1>. QED  BY <1>4, <1>5

\* The two stores of a call that passes the end, and the one store of another.
LEMMA StoresAdvance ==
    ASSUME NEW e \in End, NEW n \in 0 .. BUFFER_SIZE
    PROVE  /\ RB!Flip(e) \in End /\ RB!Flip(e).index = e.index
           /\ RB!Wraps(e, n) <=> e.index + n >= BUFFER_SIZE
           /\ RB!Wraps(e, n) => RB!Advance(e, n) = RB!Move(RB!Flip(e), n)
           /\ ~RB!Wraps(e, n) => RB!Advance(e, n) = RB!Move(e, n)
           /\ RB!Move(e, n) \in End
<1>. BUFFER_SIZE \in Nat \ {0}
  BY LibrariesAssumption
<1>1. e.index \in 0 .. BUFFER_SIZE - 1 /\ e.mirror \in {0, 1}
  BY DEF End
<1>2. (e.index + n) % BUFFER_SIZE \in 0 .. BUFFER_SIZE - 1
  BY <1>1
<1>3. RB!Move(e, n) \in End
  BY <1>2 DEF RB!Move, End
<1>4. RB!Flip(e) \in End /\ RB!Flip(e).index = e.index
  BY <1>1 DEF RB!Flip, End
<1>5. RB!Wraps(e, n) <=> e.index + n >= BUFFER_SIZE
  BY <1>1 DEF RB!Wraps
<1>. QED  BY <1>3, <1>4, <1>5 DEF RB!Advance

\* rt_ringbuffer_data_len and rt_ringbuffer_space_len are exact.
LEMMA DataLenIs ==
    ASSUME NEW r \in End, NEW w \in End
    PROVE  /\ RB!rt_ringbuffer_data_len(r, w) \in 0 .. BUFFER_SIZE
           /\ RB!rt_ringbuffer_space_len(r, w) = BUFFER_SIZE - RB!rt_ringbuffer_data_len(r, w)
           /\ \A n : Ahead(w, r, n) => RB!rt_ringbuffer_data_len(r, w) = n
<1>. BUFFER_SIZE \in Nat \ {0}
  BY LibrariesAssumption
<1>1. /\ r.index \in 0 .. BUFFER_SIZE - 1 /\ w.index \in 0 .. BUFFER_SIZE - 1
  BY DEF End
<1>2. RB!rt_ringbuffer_data_len(r, w) \in 0 .. BUFFER_SIZE
  BY <1>1 DEF RB!rt_ringbuffer_data_len
<1>3. \A n : Ahead(w, r, n) => RB!rt_ringbuffer_data_len(r, w) = n
  BY <1>1 DEF RB!rt_ringbuffer_data_len, Ahead
<1>. QED  BY <1>2, <1>3 DEF RB!rt_ringbuffer_space_len

\* The distance of the ends after one of them has moved.
LEMMA AheadMoves ==
    ASSUME NEW r \in End, NEW w \in End, NEW n, Ahead(w, r, n), NEW x \in Nat
    PROVE  /\ n + x <= BUFFER_SIZE => Ahead(RB!Advance(w, x), r, n + x)
           /\ x <= n => Ahead(w, RB!Advance(r, x), n - x)
<1>. BUFFER_SIZE \in Nat \ {0}
  BY LibrariesAssumption
<1>1. /\ r.index \in 0 .. BUFFER_SIZE - 1 /\ w.index \in 0 .. BUFFER_SIZE - 1
      /\ r.mirror \in {0, 1} /\ w.mirror \in {0, 1} /\ n \in 0 .. BUFFER_SIZE
  BY DEF End, Ahead
<1>2. ASSUME n + x <= BUFFER_SIZE PROVE Ahead(RB!Advance(w, x), r, n + x)
  <2>1. x \in 0 .. BUFFER_SIZE
    BY <1>1, <1>2
  <2>2. PICK e : e = RB!Advance(w, x)
    OBVIOUS
  <2>3. /\ e.index = IF w.index + x < BUFFER_SIZE THEN w.index + x ELSE w.index + x - BUFFER_SIZE
        /\ e.mirror = IF w.index + x < BUFFER_SIZE THEN w.mirror ELSE 1 - w.mirror
    BY <2>1, <2>2, AdvanceIs
  <2>4. Ahead(e, r, n + x)
    BY <1>1, <1>2, <2>3 DEF Ahead
  <2>. QED  BY <2>2, <2>4
<1>3. ASSUME x <= n PROVE Ahead(w, RB!Advance(r, x), n - x)
  <2>1. x \in 0 .. BUFFER_SIZE
    BY <1>1, <1>3
  <2>2. PICK e : e = RB!Advance(r, x)
    OBVIOUS
  <2>3. /\ e.index = IF r.index + x < BUFFER_SIZE THEN r.index + x ELSE r.index + x - BUFFER_SIZE
        /\ e.mirror = IF r.index + x < BUFFER_SIZE THEN r.mirror ELSE 1 - r.mirror
    BY <2>1, <2>2, AdvanceIs
  <2>4. Ahead(w, e, n - x)
    BY <1>1, <1>3, <2>3 DEF Ahead
  <2>. QED  BY <2>2, <2>4
<1>. QED  BY <1>2, <1>3

\* The buffer bf holds the characters ct from the read end r up to the write end w.
Stored(bf, r, ct) == \A j \in 1 .. Len(ct) : ct[j] = bf[(r.index + j - 1) % BUFFER_SIZE]
RingHolds(bf, r, w, ct) ==
    /\ r \in End /\ w \in End /\ ct \in Seq(Nat)
    /\ Ahead(w, r, Len(ct)) /\ Stored(bf, r, ct)

\* The arithmetic of places: ri and wi are the indices of the ends, n apart, p is
\* the place of the j-th character and y its distance from the write end.
LEMMA PlaceArithmetic ==
    ASSUME NEW B \in Nat \ {0}, NEW ri \in 0 .. B - 1, NEW wi \in 0 .. B - 1, NEW n \in 0 .. B,
           NEW j \in 1 .. B, wi = ri + n \/ wi = ri + n - B,
           NEW p, p = IF ri + j - 1 < B THEN ri + j - 1 ELSE ri + j - 1 - B,
           NEW y, y = IF p - wi < 0 THEN p - wi + B ELSE IF p - wi < B THEN p - wi ELSE p - wi - B
    PROVE  y = IF j <= n THEN j - 1 - n + B ELSE j - 1 - n
OBVIOUS

\* Going n and then j characters on is going n + j on.
LEMMA StepsArithmetic ==
    ASSUME NEW B \in Nat \ {0}, NEW ri \in 0 .. B - 1, NEW n \in Nat, NEW j \in Nat \ {0},
           n + j <= B, NEW m, m = n + j, NEW ei, ei = IF ri + n < B THEN ri + n ELSE ri + n - B,
           NEW x, x = IF ri + m - 1 < B THEN ri + m - 1 ELSE ri + m - 1 - B,
           NEW y, y = IF ei + j - 1 < B THEN ei + j - 1 ELSE ei + j - 1 - B
    PROVE  x = y
OBVIOUS

\* The remainder of a place that is at most one turn on.
LEMMA TurnOn ==
    ASSUME NEW i \in 0 .. BUFFER_SIZE - 1, NEW j \in 1 .. BUFFER_SIZE
    PROVE  (i + j - 1) % BUFFER_SIZE =
             IF i + j - 1 < BUFFER_SIZE THEN i + j - 1 ELSE i + j - 1 - BUFFER_SIZE
<1>1. PICK x : x = i + j - 1
  OBVIOUS
<1>2. x \in Nat /\ x < 2 * BUFFER_SIZE /\ -BUFFER_SIZE <= x
  BY <1>1, LibrariesAssumption
<1>3. x % BUFFER_SIZE = IF x < BUFFER_SIZE THEN x ELSE x - BUFFER_SIZE
  BY <1>2, Turn, LibrariesAssumption
<1>. QED  BY <1>1, <1>3, LibrariesAssumption

\* Where the j-th character is, seen from the two ends.
LEMMA PlaceIs ==
    ASSUME NEW r \in End, NEW w \in End, NEW n \in Nat, Ahead(w, r, n),
           NEW j \in 1 .. BUFFER_SIZE, NEW p, p = (r.index + j - 1) % BUFFER_SIZE
    PROVE  /\ p \in 0 .. BUFFER_SIZE - 1
           /\ p = IF r.index + j - 1 < BUFFER_SIZE THEN r.index + j - 1
                  ELSE r.index + j - 1 - BUFFER_SIZE
           /\ (p - w.index) % BUFFER_SIZE = IF j <= n THEN j - 1 - n + BUFFER_SIZE ELSE j - 1 - n
<1>. BUFFER_SIZE \in Nat \ {0}
  BY LibrariesAssumption
<1>1. /\ r.index \in 0 .. BUFFER_SIZE - 1 /\ w.index \in 0 .. BUFFER_SIZE - 1
      /\ n \in 0 .. BUFFER_SIZE
      /\ w.index = r.index + n \/ w.index = r.index + n - BUFFER_SIZE
  BY DEF End, Ahead
<1>2. p = IF r.index + j - 1 < BUFFER_SIZE THEN r.index + j - 1 ELSE r.index + j - 1 - BUFFER_SIZE
  BY <1>1, TurnOn
<1>3. p \in 0 .. BUFFER_SIZE - 1
  BY <1>1, <1>2
<1>4. PICK x : x = p - w.index
  OBVIOUS
<1>5. x \in Int /\ -BUFFER_SIZE <= x /\ x < 2 * BUFFER_SIZE
  BY <1>1, <1>3, <1>4
<1>6. x % BUFFER_SIZE = IF x < 0 THEN x + BUFFER_SIZE
                        ELSE IF x < BUFFER_SIZE THEN x ELSE x - BUFFER_SIZE
  BY <1>5, Turn
<1>7. x % BUFFER_SIZE = IF j <= n THEN j - 1 - n + BUFFER_SIZE ELSE j - 1 - n
  <2>1. PICK y, ri, wi : y = x % BUFFER_SIZE /\ ri = r.index /\ wi = w.index
    OBVIOUS
  <2>2. /\ y = IF p - wi < 0 THEN p - wi + BUFFER_SIZE
                ELSE IF p - wi < BUFFER_SIZE THEN p - wi ELSE p - wi - BUFFER_SIZE
        /\ p = IF ri + j - 1 < BUFFER_SIZE THEN ri + j - 1 ELSE ri + j - 1 - BUFFER_SIZE
        /\ wi = ri + n \/ wi = ri + n - BUFFER_SIZE
        /\ ri \in 0 .. BUFFER_SIZE - 1 /\ wi \in 0 .. BUFFER_SIZE - 1 /\ n \in 0 .. BUFFER_SIZE
    BY <1>1, <1>2, <1>4, <1>6, <2>1
  <2>3. y = IF j <= n THEN j - 1 - n + BUFFER_SIZE ELSE j - 1 - n
    BY <2>2, PlaceArithmetic
  <2>. QED  BY <2>1, <2>3
<1>. QED  BY <1>2, <1>3, <1>4, <1>7

\* Characters that fit are put behind the others and over none of them.
LEMMA PutHolds ==
    ASSUME NEW bf, NEW r, NEW w, NEW ct, RingHolds(bf, r, w, ct),
           NEW cs \in Seq(Nat), NEW n, n = Len(cs), Len(ct) + n <= BUFFER_SIZE,
           NEW bn, \A i \in 0 .. BUFFER_SIZE - 1 :
              bn[i] = IF (i - w.index) % BUFFER_SIZE < n THEN cs[((i - w.index) % BUFFER_SIZE) + 1]
                      ELSE bf[i]
    PROVE  RingHolds(bn, r, RB!Advance(w, n), ct \o cs)
<1>. BUFFER_SIZE \in Nat \ {0}
  BY LibrariesAssumption
<1>1. /\ r \in End /\ w \in End /\ ct \in Seq(Nat) /\ Ahead(w, r, Len(ct)) /\ Stored(bf, r, ct)
      /\ Len(ct) \in Nat /\ n \in 0 .. BUFFER_SIZE
  BY DEF RingHolds
<1>2. PICK cn : cn = ct \o cs
  OBVIOUS
<1>3. /\ cn \in Seq(Nat) /\ Len(cn) = Len(ct) + n
      /\ \A j \in 1 .. Len(cn) : cn[j] = IF j <= Len(ct) THEN ct[j] ELSE cs[j - Len(ct)]
  BY <1>1, <1>2
<1>4. RB!Advance(w, n) \in End /\ Ahead(RB!Advance(w, n), r, Len(cn))
  <2>1. RB!Advance(w, n) \in End
    BY <1>1, AdvanceIs
  <2>2. PICK l : l = Len(ct)
    OBVIOUS
  <2>3. l \in Nat /\ n \in Nat /\ l + n <= BUFFER_SIZE /\ Ahead(w, r, l)
    BY <1>1, <2>2
  <2>4. l + n <= BUFFER_SIZE => Ahead(RB!Advance(w, n), r, l + n)
    BY <1>1, <2>3, AheadMoves
  <2>. QED  BY <1>3, <2>1, <2>2, <2>3, <2>4
<1>5. Stored(bn, r, cn)
  <2>. SUFFICES ASSUME NEW j \in 1 .. Len(cn)
                PROVE  cn[j] = bn[(r.index + j - 1) % BUFFER_SIZE]
    BY DEF Stored
  <2>1. PICK p : p = (r.index + j - 1) % BUFFER_SIZE
    OBVIOUS
  <2>2. j \in 1 .. BUFFER_SIZE
    BY <1>1, <1>3
  <2>3. /\ p \in 0 .. BUFFER_SIZE - 1
        /\ (p - w.index) % BUFFER_SIZE =
             IF j <= Len(ct) THEN j - 1 - Len(ct) + BUFFER_SIZE ELSE j - 1 - Len(ct)
    BY <1>1, <2>1, <2>2, PlaceIs
  <2>4. PICK d : d = (p - w.index) % BUFFER_SIZE
    OBVIOUS
  <2>5. bn[p] = IF d < n THEN cs[d + 1] ELSE bf[p]
    BY <2>3, <2>4
  <2>6. d = IF j <= Len(ct) THEN j - 1 - Len(ct) + BUFFER_SIZE ELSE j - 1 - Len(ct)
    BY <2>3, <2>4
  <2>7. CASE j <= Len(ct)
    <3>1. ~(d < n)
      BY <1>1, <2>2, <2>6, <2>7
    <3>2. cn[j] = ct[j] /\ ct[j] = bf[p]
      BY <1>1, <1>3, <2>1, <2>7 DEF Stored
    <3>. QED  BY <2>1, <2>5, <3>1, <3>2
  <2>8. CASE ~(j <= Len(ct))
    <3>1. d < n /\ d + 1 = j - Len(ct)
      BY <1>1, <1>3, <2>6, <2>8
    <3>2. cn[j] = cs[j - Len(ct)]
      BY <1>3, <2>8
    <3>. QED  BY <2>1, <2>5, <3>1, <3>2
  <2>. QED  BY <2>7, <2>8
<1>. QED  BY <1>1, <1>2, <1>3, <1>4, <1>5 DEF RingHolds

\* The oldest characters are got, and the others stay.
LEMMA GetHolds ==
    ASSUME NEW bf, NEW r, NEW w, NEW ct, RingHolds(bf, r, w, ct), NEW n \in Nat, n <= Len(ct)
    PROVE  /\ RingHolds(bf, RB!Advance(r, n), w, SubSeq(ct, n + 1, Len(ct)))
           /\ [j \in 1 .. n |-> bf[(r.index + j - 1) % BUFFER_SIZE]] = SubSeq(ct, 1, n)
           /\ Len(SubSeq(ct, n + 1, Len(ct))) = Len(ct) - n
<1>. BUFFER_SIZE \in Nat \ {0}
  BY LibrariesAssumption
<1>1. /\ r \in End /\ w \in End /\ ct \in Seq(Nat) /\ Ahead(w, r, Len(ct)) /\ Stored(bf, r, ct)
      /\ Len(ct) \in Nat /\ n \in 0 .. BUFFER_SIZE /\ Len(ct) <= BUFFER_SIZE
  BY DEF RingHolds, Ahead
<1>2. PICK cn, e : cn = SubSeq(ct, n + 1, Len(ct)) /\ e = RB!Advance(r, n)
  OBVIOUS
<1>3. /\ cn \in Seq(Nat) /\ Len(cn) = Len(ct) - n
      /\ \A j \in 1 .. Len(cn) : cn[j] = ct[n + j]
  BY <1>1, <1>2
<1>4. e \in End /\ Ahead(w, e, Len(cn))
  <2>1. e \in End
    BY <1>1, <1>2, AdvanceIs
  <2>2. Ahead(w, e, Len(ct) - n)
    BY <1>1, <1>2, AheadMoves
  <2>. QED  BY <1>3, <2>1, <2>2
<1>5. Stored(bf, e, cn)
  <2>. SUFFICES ASSUME NEW j \in 1 .. Len(cn)
                PROVE  cn[j] = bf[(e.index + j - 1) % BUFFER_SIZE]
    BY DEF Stored
  <2>1. n + j \in 1 .. Len(ct) /\ cn[j] = ct[n + j]
    BY <1>1, <1>3
  <2>2. ct[n + j] = bf[(r.index + (n + j) - 1) % BUFFER_SIZE]
    BY <1>1, <2>1 DEF Stored
  <2>3. e.index = IF r.index + n < BUFFER_SIZE THEN r.index + n ELSE r.index + n - BUFFER_SIZE
    BY <1>1, <1>2, AdvanceIs
  <2>4. /\ r.index \in 0 .. BUFFER_SIZE - 1 /\ e.index \in 0 .. BUFFER_SIZE - 1
        /\ n + j <= BUFFER_SIZE /\ j \in 1 .. BUFFER_SIZE
    BY <1>1, <1>4, <2>1 DEF End
  <2>5. PICK m : m = n + j
    OBVIOUS
  <2>6. m \in 1 .. BUFFER_SIZE
    BY <1>1, <2>4, <2>5
  <2>7. PICK x, y : x = (r.index + m - 1) % BUFFER_SIZE /\ y = (e.index + j - 1) % BUFFER_SIZE
    OBVIOUS
  <2>8. /\ x = IF r.index + m - 1 < BUFFER_SIZE THEN r.index + m - 1 ELSE r.index + m - 1 - BUFFER_SIZE
        /\ y = IF e.index + j - 1 < BUFFER_SIZE THEN e.index + j - 1 ELSE e.index + j - 1 - BUFFER_SIZE
    BY <2>4, <2>6, <2>7, TurnOn
  <2>9. x = y
    <3>1. PICK ri, ei : ri = r.index /\ ei = e.index
      OBVIOUS
    <3>2. /\ ri \in 0 .. BUFFER_SIZE - 1 /\ j \in Nat \ {0} /\ n + j <= BUFFER_SIZE
          /\ ei = IF ri + n < BUFFER_SIZE THEN ri + n ELSE ri + n - BUFFER_SIZE
          /\ x = IF ri + m - 1 < BUFFER_SIZE THEN ri + m - 1 ELSE ri + m - 1 - BUFFER_SIZE
          /\ y = IF ei + j - 1 < BUFFER_SIZE THEN ei + j - 1 ELSE ei + j - 1 - BUFFER_SIZE
      BY <2>3, <2>4, <2>8, <3>1
    <3>. QED  BY <2>5, <3>2, StepsArithmetic
  <2>. QED  BY <2>1, <2>2, <2>5, <2>7, <2>9
<1>6. [j \in 1 .. n |-> bf[(r.index + j - 1) % BUFFER_SIZE]] = SubSeq(ct, 1, n)
  <2>1. PICK z : z = SubSeq(ct, 1, n)
    OBVIOUS
  <2>2. z \in Seq(Nat) /\ Len(z) = n /\ \A j \in 1 .. n : z[j] = ct[j]
    BY <1>1, <2>1
  <2>3. z = [j \in 1 .. n |-> z[j]]
    BY <2>2
  <2>4. ASSUME NEW j \in 1 .. n PROVE z[j] = bf[(r.index + j - 1) % BUFFER_SIZE]
    <3>1. j \in 1 .. Len(ct)
      BY <1>1
    <3>. QED  BY <1>1, <2>2, <3>1 DEF Stored
  <2>. QED  BY <2>1, <2>3, <2>4
<1>. QED  BY <1>1, <1>2, <1>3, <1>4, <1>5, <1>6 DEF RingHolds

-----------------------------------------------------------------------------
(* The ring buffer *)

\* What a thread at the write end has found out and is still right, as long as the
\* read end does not pass the end of the buffer: it takes no full buffer for an
\* empty one, and no space for more than it is.
PutReads ==
    /\ rpc = "mirror" /\ rd.mirror = wr.mirror => Len(content) = 0
    /\ rpc = "above" => rd.mirror = wr.mirror
    /\ rpc = "below" => wr.index <= rd.index

\* The same at the read end, as long as the write end does not pass the end.
GetReads ==
    /\ rpc = "mirror" /\ rd.mirror # wr.mirror => Len(content) = BUFFER_SIZE
    /\ rpc = "compare" => Len(content) > 0
    /\ rpc = "above" => rd.mirror = wr.mirror
    /\ rpc = "below" => rd.mirror # wr.mirror

\* The thread at the write end, between its steps: what it puts fits; once it has
\* copied it the contents end where it will set the write end, and until it turns
\* the mirror bit the handler sees the contents without it.  In the window between
\* the two stores there are as many characters to get as the thread puts, less what
\* the handler has got.
RingPut ==
    /\ PutReads
    /\ rpc = "copy" => Len(content) + len <= BUFFER_SIZE
    /\ rpc = "flip" =>
          /\ RingHolds(buffer, rd, RB!Advance(wr, len), content) /\ RB!Wraps(wr, len)
          /\ len <= Len(content) /\ Ahead(wr, rd, Len(content) - len)
    /\ rpc = "index" =>
          /\ RingHolds(buffer, rd, RB!Move(wr, len), content)
          /\ RB!Wraps(wr, len) => len <= Len(content) + hits
          /\ ~RB!Wraps(wr, len) => len <= Len(content) /\ Ahead(wr, rd, Len(content) - len)

\* The same for the thread at the read end.
RingGet ==
    /\ GetReads
    /\ rpc = "copy" => len <= Len(content)
    /\ rpc = "flip" =>
          /\ RingHolds(buffer, RB!Advance(rd, len), wr, content) /\ RB!Wraps(rd, len)
          /\ Len(content) + len <= BUFFER_SIZE /\ Ahead(wr, rd, Len(content) + len)
    /\ rpc = "index" =>
          /\ RingHolds(buffer, RB!Move(rd, len), wr, content)
          /\ RB!Wraps(rd, len) => Len(content) + len <= BUFFER_SIZE + hits
          /\ ~RB!Wraps(rd, len) =>
                Len(content) + len <= BUFFER_SIZE /\ Ahead(wr, rd, Len(content) + len)

\* The types of the ring buffer's state.
RingTypes ==
    /\ role \in {"put", "get", "alone"}
    /\ rpc \in {"idle", "mirror", "compare", "above", "below", "copy", "flip", "index"}
    /\ rd \in End /\ wr \in End
    /\ len \in Nat /\ hits \in Nat /\ next \in Nat
    /\ rpc # "idle" => len >= 1 /\ role # "alone"
    /\ rpc \in {"copy", "flip", "index"} => len <= BUFFER_SIZE

\* The inductive invariant of the ring buffer, as long as torn is false.
RingInv ==
    /\ RingTypes /\ got = due
    /\ rpc \notin {"flip", "index"} => RingHolds(buffer, rd, wr, content)
    /\ role = "put" => RingPut
    /\ role = "get" => RingGet

\* The least of two numbers.
LEMMA RingMin ==
    ASSUME NEW x \in Nat, NEW y \in Nat
    PROVE  RB!Min({x, y}) = IF x <= y THEN x ELSE y
<1>1. RB!Min({x, y}) = Min({x, y})
  BY DEF RB!Min, Min
<1>2. Min({x, y}) \in {x, y} /\ \A z \in {x, y} : Min({x, y}) <= z
  BY MinProperties
<1>. QED  BY <1>1, <1>2

\* A new buffer.
LEMMA RingInit == RB!Init => RingInv
<1>. SUFFICES ASSUME RB!Init PROVE RingInv
  OBVIOUS
<1>. BUFFER_SIZE \in Nat \ {0}
  BY LibrariesAssumption
<1>1. /\ role \in {"put", "get", "alone"} /\ rpc = "idle" /\ len = 0 /\ hits = 0
      /\ rd = [mirror |-> 0, index |-> 0] /\ wr = rd
      /\ content = <<>> /\ next = 0 /\ got = <<>> /\ due = <<>>
  BY DEF RB!Init
<1>2. rd \in End /\ wr \in End
  BY <1>1 DEF End
<1>3. RingHolds(buffer, rd, wr, content)
  <2>1. content \in Seq(Nat) /\ Len(content) = 0
    BY <1>1
  <2>2. Ahead(wr, rd, 0)
    BY <1>1, <1>2 DEF Ahead, End
  <2>3. Stored(buffer, rd, content)
    BY <2>1 DEF Stored
  <2>. QED  BY <1>2, <2>1, <2>2, <2>3 DEF RingHolds
<1>4. RingTypes
  BY <1>1, <1>2 DEF RingTypes
<1>. QED  BY <1>1, <1>3, <1>4 DEF RingInv, RingPut, RingGet, PutReads, GetReads

\* Characters that fit are put at the write end.
LEMMA RingPuts ==
    ASSUME next \in Nat, NEW r, RingHolds(buffer, r, wr, content), NEW n \in Nat,
           Len(content) + n <= BUFFER_SIZE, RB!Puts(n)
    PROVE  /\ RingHolds(buffer', r, RB!Advance(wr, n), content')
           /\ Len(content') = Len(content) + n
           /\ next' \in Nat /\ got' = got /\ due' = due
<1>. DEFINE cs == RB!Chars(n)
<1>1. RB!Cardinality(Value) \in Nat \ {0}
  <2>1. RB!Cardinality(Value) = Cardinality(Value)
    BY DEF RB!Cardinality, Cardinality
  <2>2. Cardinality(Value) \in Nat /\ Cardinality(Value) # 0
    BY LibrariesAssumption, FS_CardinalityType, FS_EmptySet
  <2>. QED  BY <2>1, <2>2
<1>2. cs \in Seq(Nat) /\ Len(cs) = n
  <2>1. cs = [j \in 1 .. n |-> (next + j - 1) % RB!Cardinality(Value)]
    BY DEF RB!Chars
  <2>2. \A j \in 1 .. n : (next + j - 1) % RB!Cardinality(Value) \in Nat
    BY <1>1
  <2>. HIDE DEF cs
  <2>. QED  BY <2>1, <2>2
<1>3. /\ buffer' = [i \in 0 .. BUFFER_SIZE - 1 |->
            IF (i - wr.index) % BUFFER_SIZE < n THEN cs[((i - wr.index) % BUFFER_SIZE) + 1] ELSE buffer[i]]
      /\ content' = content \o cs
      /\ next' = (next + n) % RB!Cardinality(Value)
      /\ got' = got /\ due' = due
  BY DEF RB!Puts, RB!Copied, RB!Pos
<1>4. next' \in Nat
  BY <1>1, <1>3
<1>. HIDE DEF cs
<1>5. RingHolds(buffer', r, RB!Advance(wr, n), content \o cs)
  <2>1. PICK bn : bn = buffer'
    OBVIOUS
  <2>2. \A i \in 0 .. BUFFER_SIZE - 1 :
          bn[i] = IF (i - wr.index) % BUFFER_SIZE < n THEN cs[((i - wr.index) % BUFFER_SIZE) + 1]
                  ELSE buffer[i]
    BY <1>3, <2>1
  <2>. QED  BY <1>2, <2>1, <2>2, PutHolds
<1>6. Len(content \o cs) = Len(content) + n
  BY <1>2 DEF RingHolds
<1>. QED  BY <1>3, <1>4, <1>5, <1>6

\* Characters that are there are got at the read end, and are the oldest.
LEMMA RingGets ==
    ASSUME NEW w, RingHolds(buffer, rd, w, content), NEW n \in Nat, n <= Len(content), RB!Gets(n)
    PROVE  /\ RingHolds(buffer', RB!Advance(rd, n), w, content')
           /\ Len(content') = Len(content) - n
           /\ got' = due' /\ next' = next
<1>1. Len(content) \in Nat
  BY DEF RingHolds
<1>2. RB!Min({n, Len(content)}) = n
  BY <1>1, RingMin
<1>3. /\ got' = [j \in 1 .. n |-> buffer[(rd.index + j - 1) % BUFFER_SIZE]]
      /\ due' = SubSeq(content, 1, n)
      /\ content' = SubSeq(content, n + 1, Len(content))
      /\ buffer' = buffer /\ next' = next
  BY <1>2 DEF RB!Gets, RB!Read
<1>. QED  BY <1>3, GetHolds

\* The thread compares the indices.
LEMMA RingCall ==
    ASSUME RingInv, NEW n \in 1 .. BUFFER_SIZE + 1, RB!ThreadCall(n)
    PROVE  RingInv'
<1>. BUFFER_SIZE \in Nat \ {0}
  BY LibrariesAssumption
<1>1. /\ rpc = "idle" /\ role # "alone" /\ len' = n
      /\ rpc' = IF rd.index = wr.index THEN "mirror" ELSE "compare"
      /\ UNCHANGED <<role, buffer, rd, wr, hits, content, next, got, due>>
  BY DEF RB!ThreadCall
<1>2. /\ RingHolds(buffer, rd, wr, content) /\ rd \in End /\ wr \in End /\ Len(content) \in Nat
      /\ Ahead(wr, rd, Len(content))
  BY <1>1 DEF RingInv, RingHolds
<1>3. RingTypes'
  BY <1>1 DEF RingInv, RingTypes
<1>4. PutReads' /\ GetReads'
  BY <1>1, <1>2 DEF PutReads, GetReads, Ahead, End
<1>. QED  BY <1>1, <1>2, <1>3, <1>4 DEF RingInv, RingPut, RingGet

\* The thread has a length that is not too large: it copies, or returns.
LEMMA RingFinds ==
    ASSUME RingInv, RB!Reading, NEW d \in 0 .. BUFFER_SIZE, RB!Finds(d),
           role = "put" => Len(content) <= d, role = "get" => d <= Len(content)
    PROVE  RingInv'
<1>. BUFFER_SIZE \in Nat \ {0}
  BY LibrariesAssumption
<1>1. PICK av : av = IF role = "put" THEN BUFFER_SIZE - d ELSE d
  OBVIOUS
<1>2. /\ len' = RB!Min({len, av}) /\ rpc' = IF av = 0 THEN "idle" ELSE "copy"
      /\ UNCHANGED <<role, buffer, rd, wr, hits, content, next, got, due>>
  BY <1>1 DEF RB!Finds
<1>3. /\ rpc \in {"mirror", "compare", "above", "below"} /\ role \in {"put", "get"}
      /\ RingHolds(buffer, rd, wr, content) /\ Len(content) \in Nat
      /\ len \in Nat /\ len >= 1
  BY DEF RB!Reading, RingInv, RingTypes, RingHolds
<1>4. av \in Nat /\ av <= BUFFER_SIZE
  BY <1>1
<1>5. len' = IF len <= av THEN len ELSE av
  BY <1>2, <1>3, <1>4, RingMin
<1>6. RingTypes'
  <2>1. len' \in Nat /\ len' <= BUFFER_SIZE /\ (rpc' # "idle" => len' >= 1)
    BY <1>2, <1>3, <1>4, <1>5
  <2>. QED  BY <1>2, <1>3, <2>1 DEF RingInv, RingTypes
<1>7. rpc' = "copy" => IF role = "put" THEN Len(content) + len' <= BUFFER_SIZE ELSE len' <= Len(content)
  BY <1>1, <1>3, <1>4, <1>5
<1>8. PutReads' /\ GetReads' /\ rpc' \in {"idle", "copy"}
  BY <1>2 DEF PutReads, GetReads
<1>. QED  BY <1>2, <1>3, <1>6, <1>7, <1>8 DEF RingInv, RingPut, RingGet

\* The thread compares the mirror bits of equal indices.
LEMMA RingMirror ==
    ASSUME RingInv, RB!ThreadMirror
    PROVE  RingInv'
<1>. BUFFER_SIZE \in Nat \ {0}
  BY LibrariesAssumption
<1>1. PICK d : d = IF rd.mirror = wr.mirror THEN 0 ELSE BUFFER_SIZE
  OBVIOUS
<1>2. rpc = "mirror" /\ RB!Reading /\ RB!Finds(d) /\ d \in 0 .. BUFFER_SIZE
  BY <1>1 DEF RB!ThreadMirror, RB!Reading
<1>3. Len(content) \in 0 .. BUFFER_SIZE
  BY <1>2 DEF RingInv, RingHolds, Ahead
<1>4. /\ role = "put" => Len(content) <= d
      /\ role = "get" => d <= Len(content)
  BY <1>1, <1>2, <1>3 DEF RingInv, RingPut, RingGet, PutReads, GetReads
<1>. QED  BY <1>2, <1>4, RingFinds

\* The thread compares different indices again.
LEMMA RingCompare ==
    ASSUME RingInv, RB!ThreadCompare
    PROVE  RingInv'
<1>. BUFFER_SIZE \in Nat \ {0}
  BY LibrariesAssumption
<1>1. /\ rpc = "compare" /\ rpc' = IF wr.index > rd.index THEN "above" ELSE "below"
      /\ UNCHANGED <<role, buffer, rd, wr, len, hits, content, next, got, due>>
  BY DEF RB!ThreadCompare
<1>2. /\ RingHolds(buffer, rd, wr, content) /\ rd \in End /\ wr \in End /\ Len(content) \in Nat
      /\ Ahead(wr, rd, Len(content))
  BY <1>1 DEF RingInv, RingHolds
<1>3. RingTypes'
  BY <1>1 DEF RingInv, RingTypes
<1>4. rd.index \in 0 .. BUFFER_SIZE - 1 /\ wr.index \in 0 .. BUFFER_SIZE - 1
  BY <1>2 DEF End
<1>5. PutReads'
  BY <1>1, <1>2, <1>4 DEF PutReads, Ahead
<1>6. role = "get" => GetReads'
  <2>1. role = "get" => Len(content) > 0
    BY <1>1 DEF RingInv, RingGet, GetReads
  <2>. QED  BY <1>1, <1>2, <1>4, <2>1 DEF GetReads, Ahead
<1>. QED  BY <1>1, <1>2, <1>3, <1>5, <1>6 DEF RingInv, RingPut, RingGet

\* The difference of two indices of which the write end has wrapped is no less than
\* the fill level between them.
LEMMA BelowArithmetic ==
    ASSUME NEW B \in Nat \ {0}, NEW w \in 0 .. B - 1, NEW r \in 0 .. B - 1, NEW m \in 0 .. B,
           w <= r, w = r + m \/ w = r + m - B
    PROVE  B - (r - w) \in 0 .. B /\ m <= B - (r - w)
OBVIOUS

\* The thread subtracts the indices.
LEMMA RingSubtract ==
    ASSUME RingInv, RB!ThreadSubtract
    PROVE  RingInv'
<1>. BUFFER_SIZE \in Nat \ {0}
  BY LibrariesAssumption
<1>1. PICK d : /\ RB!Finds(d)
               /\ \/ rpc = "above" /\ d = wr.index - rd.index
                  \/ rpc = "below" /\ d = BUFFER_SIZE - (rd.index - wr.index)
  BY DEF RB!ThreadSubtract
<1>2. /\ rd \in End /\ wr \in End /\ Len(content) \in Nat /\ Ahead(wr, rd, Len(content))
      /\ RB!Reading /\ role \in {"put", "get"}
  BY <1>1 DEF RingInv, RingTypes, RingHolds, RB!Reading
<1>3. rd.index \in 0 .. BUFFER_SIZE - 1 /\ wr.index \in 0 .. BUFFER_SIZE - 1
  BY <1>2 DEF End
<1>4. /\ role = "put" => PutReads
      /\ role = "get" => GetReads
  BY DEF RingInv, RingPut, RingGet
<1>5. /\ d \in 0 .. BUFFER_SIZE
      /\ role = "put" => Len(content) <= d
      /\ role = "get" => d <= Len(content)
  <2>1. CASE role = "put"
    <3>1. CASE rpc = "above"
      BY <1>1, <1>2, <1>3, <1>4, <2>1, <3>1 DEF PutReads, Ahead
    <3>2. CASE rpc = "below"
      <4>1. wr.index <= rd.index /\ d = BUFFER_SIZE - (rd.index - wr.index)
        BY <1>1, <1>4, <2>1, <3>2 DEF PutReads
      <4>2. PICK m \in 0 .. BUFFER_SIZE : m = Len(content)
        BY <1>2 DEF Ahead
      <4>3. wr.index = rd.index + m \/ wr.index = rd.index + m - BUFFER_SIZE
        BY <1>2, <4>2 DEF Ahead
      <4>4. d \in 0 .. BUFFER_SIZE /\ m <= d
        <5>1. PICK w, r : w = wr.index /\ r = rd.index
          OBVIOUS
        <5>2. /\ w \in 0 .. BUFFER_SIZE - 1 /\ r \in 0 .. BUFFER_SIZE - 1 /\ w <= r
              /\ w = r + m \/ w = r + m - BUFFER_SIZE
              /\ d = BUFFER_SIZE - (r - w)
          BY <1>3, <4>1, <4>3, <5>1
        <5>. QED  BY <5>2, BelowArithmetic
      <4>. QED  BY <2>1, <4>2, <4>4
    <3>. QED  BY <1>1, <3>1, <3>2
  <2>2. CASE role = "get"
    <3>1. PICK w, r, m : w = wr.index /\ r = rd.index /\ m = Len(content)
      OBVIOUS
    <3>2. w \in 0 .. BUFFER_SIZE - 1 /\ r \in 0 .. BUFFER_SIZE - 1
      BY <1>3, <3>1
    <3>3. CASE rpc = "above"
      <4>1. wr.mirror = rd.mirror /\ d = w - r
        BY <1>1, <1>4, <2>2, <3>1, <3>3 DEF GetReads
      <4>2. m \in 0 .. BUFFER_SIZE /\ w = r + m
        BY <1>2, <3>1, <4>1 DEF Ahead
      <4>3. d = m
        BY <3>2, <4>1, <4>2
      <4>. QED  BY <2>2, <3>1, <4>2, <4>3
    <3>4. CASE rpc = "below"
      <4>1. wr.mirror # rd.mirror /\ d = BUFFER_SIZE - (r - w)
        BY <1>1, <1>4, <2>2, <3>1, <3>4 DEF GetReads
      <4>2. m \in 0 .. BUFFER_SIZE /\ w = r + m - BUFFER_SIZE
        BY <1>2, <3>1, <4>1 DEF Ahead
      <4>3. d = m
        BY <3>2, <4>1, <4>2
      <4>. QED  BY <2>2, <3>1, <4>2, <4>3
    <3>. QED  BY <1>1, <3>3, <3>4
  <2>. QED  BY <1>2, <2>1, <2>2
<1>. QED  BY <1>1, <1>2, <1>5, RingFinds

\* The thread copies.
LEMMA RingCopy ==
    ASSUME RingInv, RB!ThreadCopy
    PROVE  RingInv'
<1>. BUFFER_SIZE \in Nat \ {0}
  BY LibrariesAssumption
<1>1. /\ rpc = "copy" /\ role \in {"put", "get"}
      /\ IF role = "put" THEN RB!Puts(len) ELSE RB!Gets(len)
      /\ rpc' = IF RB!Wraps(IF role = "put" THEN wr ELSE rd, len) THEN "flip" ELSE "index"
      /\ UNCHANGED <<role, rd, wr, len, hits>>
  BY DEF RB!ThreadCopy, RingInv, RingTypes
<1>2. /\ RingHolds(buffer, rd, wr, content) /\ rd \in End /\ wr \in End /\ Len(content) \in Nat
      /\ Ahead(wr, rd, Len(content)) /\ len \in 0 .. BUFFER_SIZE /\ len \in Nat /\ len >= 1
      /\ next \in Nat /\ got = due
  BY <1>1 DEF RingInv, RingTypes, RingHolds
<1>3. CASE role = "put"
  <2>1. Len(content) + len <= BUFFER_SIZE /\ RB!Puts(len)
    BY <1>1, <1>3 DEF RingInv, RingPut
  <2>2. /\ RingHolds(buffer', rd, RB!Advance(wr, len), content')
        /\ Len(content') = Len(content) + len
        /\ next' \in Nat /\ got' = got /\ due' = due
    BY <1>2, <2>1, RingPuts
  <2>3. ~RB!Wraps(wr, len) => RB!Advance(wr, len) = RB!Move(wr, len)
    BY <1>2, StoresAdvance
  <2>4. RingTypes'
    BY <1>1, <1>2, <2>2 DEF RingTypes, RingInv
  <2>5. len <= Len(content') /\ Len(content') - len = Len(content)
    BY <1>2, <2>2
  <2>6. rpc' = (IF RB!Wraps(wr, len) THEN "flip" ELSE "index") /\ role' = "put"
    BY <1>1, <1>3
  <2>7. RingPut'
    <3>1. CASE RB!Wraps(wr, len)
      <4>1. rpc' = "flip" /\ RB!Wraps(wr, len)'
        BY <1>1, <2>6, <3>1 DEF RB!Wraps
      <4>. QED  BY <1>1, <1>2, <2>2, <2>5, <4>1 DEF RingPut, PutReads
    <3>2. CASE ~RB!Wraps(wr, len)
      <4>1. rpc' = "index" /\ ~RB!Wraps(wr, len)' /\ RB!Move(wr, len)' = RB!Move(wr, len)
        BY <1>1, <2>6, <3>2 DEF RB!Wraps, RB!Move
      <4>. QED  BY <1>1, <1>2, <2>2, <2>3, <2>5, <3>2, <4>1 DEF RingPut, PutReads
    <3>. QED  BY <3>1, <3>2
  <2>. QED  BY <1>2, <2>2, <2>4, <2>6, <2>7 DEF RingInv
<1>4. CASE role = "get"
  <2>1. len <= Len(content) /\ RB!Gets(len)
    BY <1>1, <1>4 DEF RingInv, RingGet
  <2>2. /\ RingHolds(buffer', RB!Advance(rd, len), wr, content')
        /\ Len(content') = Len(content) - len
        /\ got' = due' /\ next' = next
    BY <1>2, <2>1, RingGets
  <2>3. ~RB!Wraps(rd, len) => RB!Advance(rd, len) = RB!Move(rd, len)
    BY <1>2, StoresAdvance
  <2>4. RingTypes'
    BY <1>1, <1>2, <2>2 DEF RingTypes, RingInv
  <2>5. Len(content') + len <= BUFFER_SIZE /\ Len(content') + len = Len(content)
    BY <1>2, <2>2 DEF Ahead
  <2>6. rpc' = (IF RB!Wraps(rd, len) THEN "flip" ELSE "index") /\ role' = "get"
    BY <1>1, <1>4
  <2>7. RingGet'
    <3>1. CASE RB!Wraps(rd, len)
      <4>1. rpc' = "flip" /\ RB!Wraps(rd, len)'
        BY <1>1, <2>6, <3>1 DEF RB!Wraps
      <4>. QED  BY <1>1, <1>2, <2>2, <2>5, <4>1 DEF RingGet, GetReads
    <3>2. CASE ~RB!Wraps(rd, len)
      <4>1. rpc' = "index" /\ ~RB!Wraps(rd, len)' /\ RB!Move(rd, len)' = RB!Move(rd, len)
        BY <1>1, <2>6, <3>2 DEF RB!Wraps, RB!Move
      <4>. QED  BY <1>1, <1>2, <2>2, <2>3, <2>5, <3>2, <4>1 DEF RingGet, GetReads
    <3>. QED  BY <3>1, <3>2
  <2>. QED  BY <2>2, <2>4, <2>6, <2>7 DEF RingInv
<1>. QED  BY <1>1, <1>3, <1>4

\* The thread turns its mirror bit: the window opens.
LEMMA RingFlip ==
    ASSUME RingInv, RB!ThreadFlip
    PROVE  RingInv'
<1>. BUFFER_SIZE \in Nat \ {0}
  BY LibrariesAssumption
<1>1. /\ rpc = "flip" /\ rpc' = "index" /\ hits' = 0 /\ role \in {"put", "get"}
      /\ IF role = "put" THEN wr' = RB!Flip(wr) /\ rd' = rd ELSE rd' = RB!Flip(rd) /\ wr' = wr
      /\ UNCHANGED <<role, buffer, len, content, next, got, due>>
  BY DEF RB!ThreadFlip, RingInv, RingTypes
<1>2. /\ rd \in End /\ wr \in End /\ len \in 0 .. BUFFER_SIZE /\ len >= 1
      /\ next \in Nat /\ got = due
  BY <1>1 DEF RingInv, RingTypes
<1>3. CASE role = "put"
  <2>1. /\ RingHolds(buffer, rd, RB!Advance(wr, len), content) /\ RB!Wraps(wr, len)
        /\ len <= Len(content)
    BY <1>1, <1>3 DEF RingInv, RingPut
  <2>2. /\ RB!Flip(wr) \in End /\ RB!Flip(wr).index = wr.index
        /\ RB!Advance(wr, len) = RB!Move(RB!Flip(wr), len)
    BY <1>2, <2>1, StoresAdvance
  <2>3. RingTypes'
    BY <1>1, <1>2, <1>3, <2>2 DEF RingTypes
  <2>4. RB!Wraps(wr, len)' /\ RB!Move(wr, len)' = RB!Advance(wr, len)
    BY <1>1, <1>3, <2>1, <2>2 DEF RB!Wraps, RB!Move
  <2>5. len <= Len(content) + hits'
    BY <1>1, <1>2, <2>1 DEF RingHolds
  <2>6. RingPut'
    BY <1>1, <1>3, <2>1, <2>4, <2>5 DEF RingPut, PutReads
  <2>. QED  BY <1>1, <1>2, <1>3, <2>3, <2>6 DEF RingInv
<1>4. CASE role = "get"
  <2>1. /\ RingHolds(buffer, RB!Advance(rd, len), wr, content) /\ RB!Wraps(rd, len)
        /\ Len(content) + len <= BUFFER_SIZE
    BY <1>1, <1>4 DEF RingInv, RingGet
  <2>2. /\ RB!Flip(rd) \in End /\ RB!Flip(rd).index = rd.index
        /\ RB!Advance(rd, len) = RB!Move(RB!Flip(rd), len)
    BY <1>2, <2>1, StoresAdvance
  <2>3. RingTypes'
    BY <1>1, <1>2, <1>4, <2>2 DEF RingTypes
  <2>4. RB!Wraps(rd, len)' /\ RB!Move(rd, len)' = RB!Advance(rd, len)
    BY <1>1, <1>4, <2>1, <2>2 DEF RB!Wraps, RB!Move
  <2>5. Len(content) + len <= BUFFER_SIZE + hits'
    BY <1>1, <1>2, <2>1 DEF RingHolds
  <2>6. RingGet'
    BY <1>1, <1>4, <2>1, <2>4, <2>5 DEF RingGet, GetReads
  <2>. QED  BY <1>1, <1>2, <1>4, <2>3, <2>6 DEF RingInv
<1>. QED  BY <1>1, <1>3, <1>4

\* The thread sets its index, and its call is done.
LEMMA RingIndex ==
    ASSUME RingInv, RB!ThreadIndex
    PROVE  RingInv'
<1>. BUFFER_SIZE \in Nat \ {0}
  BY LibrariesAssumption
<1>1. /\ rpc = "index" /\ rpc' = "idle" /\ len' = 0 /\ hits' = 0 /\ role \in {"put", "get"}
      /\ IF role = "put" THEN wr' = RB!Move(wr, len) /\ rd' = rd ELSE rd' = RB!Move(rd, len) /\ wr' = wr
      /\ UNCHANGED <<role, buffer, content, next, got, due>>
  BY DEF RB!ThreadIndex, RingInv, RingTypes
<1>2. next \in Nat /\ got = due
  BY DEF RingInv, RingTypes
<1>3. RingHolds(buffer, rd', wr', content)
  BY <1>1 DEF RingInv, RingPut, RingGet
<1>4. RingTypes'
  BY <1>1, <1>2, <1>3 DEF RingTypes, RingHolds
<1>. QED  BY <1>1, <1>2, <1>3, <1>4 DEF RingInv, RingPut, RingGet, PutReads, GetReads

\* A call of the handler, or of a thread alone, puts.
LEMMA RingAtomicPut ==
    ASSUME RingInv, NEW n \in 1 .. BUFFER_SIZE + 1, RB!AtomicPut(n)
    PROVE  torn' \/ RingInv'
<1>. SUFFICES ASSUME ~torn' PROVE RingInv'
  OBVIOUS
<1>. BUFFER_SIZE \in Nat \ {0}
  BY LibrariesAssumption
<1>1. PICK l, sp : /\ sp = RB!rt_ringbuffer_space_len(rd, wr)
                   /\ l = RB!Min({n, sp}) /\ RB!Puts(l) /\ wr' = RB!Advance(wr, l)
                   /\ role = "get" => RB!HandlerMoves(wr, l)
  BY DEF RB!AtomicPut
<1>2. /\ role \in {"get", "alone"}
      /\ role = "get" => /\ hits' = IF RB!Turned THEN hits + l ELSE hits
                         /\ RB!Reading => ~RB!Wraps(wr, l)
                         /\ RB!Turned => ~(hits + l > len)
      /\ role = "alone" => hits' = hits
      /\ UNCHANGED <<role, rd, rpc, len>>
  BY <1>1 DEF RB!AtomicPut, RB!HandlerMoves
<1>3. /\ rd \in End /\ wr \in End /\ len \in Nat /\ hits \in Nat
      /\ next \in Nat /\ got = due /\ (rpc \in {"flip", "index"} \/ rpc \notin {"flip", "index"})
      /\ rpc # "idle" => len >= 1 /\ role # "alone"
      /\ rpc \in {"copy", "flip", "index"} => len <= BUFFER_SIZE
  BY DEF RingInv, RingTypes
<1>4. sp \in 0 .. BUFFER_SIZE /\ \A m : Ahead(wr, rd, m) => sp = BUFFER_SIZE - m
  BY <1>1, <1>3, DataLenIs
<1>5. l = (IF n <= sp THEN n ELSE sp) /\ l \in 0 .. BUFFER_SIZE /\ l <= sp /\ l <= n
  <2>1. n \in Nat /\ sp \in Nat
    BY <1>4
  <2>2. l = (IF n <= sp THEN n ELSE sp)
    BY <1>1, <2>1, RingMin
  <2>. QED  BY <1>4, <2>2
<1>6. wr' \in End
  BY <1>1, <1>3, <1>5, AdvanceIs
<1>7. CASE rpc \notin {"flip", "index"}
  <2>1. /\ RingHolds(buffer, rd, wr, content) /\ Len(content) \in Nat
        /\ Ahead(wr, rd, Len(content)) /\ sp = BUFFER_SIZE - Len(content)
    BY <1>4, <1>7 DEF RingInv, RingHolds
  <2>2. Len(content) + l <= BUFFER_SIZE
    BY <1>4, <1>5, <2>1
  <2>3. /\ RingHolds(buffer', rd, wr', content') /\ Len(content') = Len(content) + l
        /\ next' \in Nat /\ got' = got /\ due' = due
    BY <1>1, <1>3, <1>5, <2>1, <2>2, RingPuts
  <2>4. hits' \in Nat
    BY <1>2, <1>3, <1>5
  <2>5. RingTypes'
    BY <1>2, <1>3, <1>6, <2>3, <2>4 DEF RingTypes, RingInv
  <2>6. rpc = "copy" => role = "get" /\ len <= Len(content) + l
    <3>1. rpc = "copy" => role = "get" /\ len <= Len(content)
      BY <1>2, <1>3 DEF RingInv, RingGet
    <3>. QED  BY <1>3, <1>5, <2>1, <3>1
  <2>7. role = "get" => GetReads'
    <3>. SUFFICES ASSUME role = "get" PROVE GetReads'
      OBVIOUS
    <3>1. CASE ~RB!Reading
      BY <1>2, <3>1 DEF GetReads, RB!Reading
    <3>2. CASE RB!Reading
      <4>1. wr'.mirror = wr.mirror
        <5>1. ~RB!Wraps(wr, l) /\ wr' = RB!Advance(wr, l) /\ wr.index \in 0 .. BUFFER_SIZE - 1
          BY <1>1, <1>2, <1>3, <3>2 DEF End
        <5>2. ~(wr.index + l >= BUFFER_SIZE)
          BY <1>3, <1>5, <5>1, StoresAdvance
        <5>3. wr.index + l < BUFFER_SIZE
          BY <1>5, <5>1, <5>2
        <5>. QED  BY <1>3, <1>5, <5>1, <5>3, AdvanceIs
      <4>2. GetReads /\ rpc' = rpc /\ rd' = rd
        BY <1>2 DEF RingInv, RingGet
      <4>3. Len(content) = BUFFER_SIZE => l = 0
        BY <1>5, <2>1
      <4>. QED  BY <1>5, <2>1, <2>3, <4>1, <4>2, <4>3 DEF GetReads
    <3>. QED  BY <3>1, <3>2
  <2>. QED  BY <1>2, <1>3, <1>7, <2>3, <2>5, <2>6, <2>7 DEF RingInv, RingGet
<1>8. CASE rpc \in {"flip", "index"}
  <2>1. role = "get" /\ RingGet /\ len >= 1
    BY <1>2, <1>3, <1>8 DEF RingInv
  <2>2. PICK r : /\ RingHolds(buffer, r, wr, content)
                 /\ r = IF rpc = "flip" THEN RB!Advance(rd, len) ELSE RB!Move(rd, len)
    BY <1>8, <2>1 DEF RingGet
  <2>3. Len(content) \in Nat
    BY <2>2 DEF RingHolds
  <2>4. RB!Turned <=> rpc = "index" /\ RB!Wraps(rd, len)
    BY <2>1 DEF RB!Turned
  <2>5. ~RB!Turned => Len(content) + len <= BUFFER_SIZE /\ Ahead(wr, rd, Len(content) + len)
    BY <1>8, <2>1, <2>4 DEF RingGet
  <2>6. ~RB!Turned => Len(content) + len + l <= BUFFER_SIZE
    BY <1>3, <1>4, <1>5, <2>3, <2>5
  <2>7. RB!Turned => Len(content) + (len - hits) <= BUFFER_SIZE /\ hits + l <= len
    BY <1>2, <1>3, <1>5, <2>1, <2>3, <2>4 DEF RingGet
  <2>8. Len(content) + l <= BUFFER_SIZE
    BY <1>3, <1>5, <2>1, <2>3, <2>6, <2>7
  <2>9. /\ RingHolds(buffer', r, wr', content') /\ Len(content') = Len(content) + l
        /\ next' \in Nat /\ got' = got /\ due' = due
    BY <1>1, <1>3, <1>5, <2>2, <2>8, RingPuts
  <2>10. hits' \in Nat /\ (RB!Turned => Len(content') + len <= BUFFER_SIZE + hits')
    <3>1. hits' = IF RB!Turned THEN hits + l ELSE hits
      BY <1>2, <2>1
    <3>2. l \in Nat /\ len - hits \in Int /\ Len(content') = Len(content) + l
      BY <1>3, <1>5, <2>9
    <3>. QED  BY <1>3, <2>3, <2>7, <3>1, <3>2
  <2>11. RingTypes'
    BY <1>2, <1>3, <1>6, <2>9, <2>10 DEF RingTypes, RingInv
  <2>12. ~RB!Turned => Len(content') + len <= BUFFER_SIZE /\ Ahead(wr', rd, Len(content') + len)
    <3>. SUFFICES ASSUME ~RB!Turned
                  PROVE  Len(content') + len <= BUFFER_SIZE /\ Ahead(wr', rd, Len(content') + len)
      OBVIOUS
    <3>1. Ahead(wr', rd, (Len(content) + len) + l)
      BY <1>1, <1>3, <1>5, <2>3, <2>5, <2>6, AheadMoves
    <3>2. (Len(content) + len) + l = Len(content') + len
      BY <1>3, <1>5, <2>3, <2>9
    <3>. QED  BY <2>6, <3>1, <3>2
  <2>13. RingGet'
    <3>1. /\ RB!Wraps(rd, len)' = RB!Wraps(rd, len) /\ RB!Advance(rd, len)' = RB!Advance(rd, len)
          /\ RB!Move(rd, len)' = RB!Move(rd, len)
      BY <1>2 DEF RB!Wraps, RB!Advance, RB!Move, RB!Flip
    <3>2. CASE rpc = "flip"
      <4>1. RB!Wraps(rd, len)
        BY <2>1, <3>2 DEF RingGet, GetReads
      <4>. QED  BY <1>2, <2>2, <2>4, <2>9, <2>12, <3>1, <3>2, <4>1 DEF RingGet, GetReads
    <3>3. CASE rpc = "index"
      BY <1>2, <2>2, <2>4, <2>9, <2>10, <2>12, <3>1, <3>3 DEF RingGet, GetReads
    <3>. QED  BY <1>8, <3>2, <3>3
  <2>. QED  BY <1>2, <1>3, <1>8, <2>1, <2>9, <2>11, <2>13 DEF RingInv
<1>. QED  BY <1>3, <1>7, <1>8

\* A call of the handler, or of a thread alone, gets.
LEMMA RingAtomicGet ==
    ASSUME RingInv, NEW n \in 1 .. BUFFER_SIZE + 1, RB!AtomicGet(n)
    PROVE  torn' \/ RingInv'
<1>. SUFFICES ASSUME ~torn' PROVE RingInv'
  OBVIOUS
<1>. BUFFER_SIZE \in Nat \ {0}
  BY LibrariesAssumption
<1>1. PICK l, dl : /\ dl = RB!rt_ringbuffer_data_len(rd, wr)
                   /\ l = RB!Min({n, dl}) /\ RB!Gets(l) /\ rd' = RB!Advance(rd, l)
                   /\ l > 0 /\ (role = "put" => RB!HandlerMoves(rd, l))
  BY DEF RB!AtomicGet
<1>2. /\ role \in {"put", "alone"}
      /\ role = "put" => /\ hits' = IF RB!Turned THEN hits + l ELSE hits
                         /\ RB!Reading => ~RB!Wraps(rd, l)
                         /\ RB!Turned => ~(hits + l > len)
      /\ role = "alone" => hits' = hits
      /\ UNCHANGED <<role, wr, rpc, len>>
  BY <1>1 DEF RB!AtomicGet, RB!HandlerMoves
<1>3. /\ rd \in End /\ wr \in End /\ len \in Nat /\ hits \in Nat
      /\ next \in Nat /\ (rpc \in {"flip", "index"} \/ rpc \notin {"flip", "index"})
      /\ rpc # "idle" => len >= 1 /\ role # "alone"
      /\ rpc \in {"copy", "flip", "index"} => len <= BUFFER_SIZE
  BY DEF RingInv, RingTypes
<1>4. dl \in 0 .. BUFFER_SIZE /\ \A m : Ahead(wr, rd, m) => dl = m
  BY <1>1, <1>3, DataLenIs
<1>5. l = (IF n <= dl THEN n ELSE dl) /\ l \in 0 .. BUFFER_SIZE /\ l <= dl /\ l <= n
  <2>1. n \in Nat /\ dl \in Nat
    BY <1>4
  <2>2. l = (IF n <= dl THEN n ELSE dl)
    BY <1>1, <2>1, RingMin
  <2>. QED  BY <1>4, <2>2
<1>6. rd' \in End
  BY <1>1, <1>3, <1>5, AdvanceIs
<1>7. CASE rpc \notin {"flip", "index"}
  <2>1. /\ RingHolds(buffer, rd, wr, content) /\ Len(content) \in Nat
        /\ Ahead(wr, rd, Len(content)) /\ dl = Len(content)
    BY <1>4, <1>7 DEF RingInv, RingHolds
  <2>2. /\ RingHolds(buffer', rd', wr, content') /\ Len(content') = Len(content) - l
        /\ got' = due' /\ next' = next
    BY <1>1, <1>5, <2>1, RingGets
  <2>3. hits' \in Nat
    BY <1>2, <1>3, <1>5
  <2>4. RingTypes'
    BY <1>2, <1>3, <1>6, <2>2, <2>3 DEF RingTypes, RingInv
  <2>5. rpc = "copy" => role = "put" /\ Len(content) - l + len <= BUFFER_SIZE
    <3>1. rpc = "copy" => role = "put" /\ Len(content) + len <= BUFFER_SIZE
      BY <1>2, <1>3 DEF RingInv, RingPut
    <3>. QED  BY <1>3, <1>5, <2>1, <3>1
  <2>6. role = "put" => PutReads'
    <3>. SUFFICES ASSUME role = "put" PROVE PutReads'
      OBVIOUS
    <3>1. CASE ~RB!Reading
      BY <1>2, <3>1 DEF PutReads, RB!Reading
    <3>2. CASE RB!Reading
      <4>1. rd'.mirror = rd.mirror /\ rd'.index = rd.index + l
        <5>1. ~RB!Wraps(rd, l) /\ rd' = RB!Advance(rd, l) /\ rd.index \in 0 .. BUFFER_SIZE - 1
          BY <1>1, <1>2, <1>3, <3>2 DEF End
        <5>2. ~(rd.index + l >= BUFFER_SIZE)
          BY <1>3, <1>5, <5>1, StoresAdvance
        <5>3. rd.index + l < BUFFER_SIZE
          BY <1>5, <5>1, <5>2
        <5>. QED  BY <1>3, <1>5, <5>1, <5>3, AdvanceIs
      <4>2. PutReads /\ rpc' = rpc /\ wr' = wr
        BY <1>2 DEF RingInv, RingPut
      <4>3. Len(content) # 0
        BY <1>1, <1>5, <2>1
      <4>4. rd.index \in Nat /\ wr.index \in Nat
        BY <1>3 DEF End
      <4>. QED  BY <1>5, <2>1, <2>2, <4>1, <4>2, <4>3, <4>4 DEF PutReads
    <3>. QED  BY <3>1, <3>2
  <2>. QED  BY <1>2, <1>7, <2>2, <2>4, <2>5, <2>6 DEF RingInv, RingPut
<1>8. CASE rpc \in {"flip", "index"}
  <2>1. role = "put" /\ RingPut /\ len >= 1
    BY <1>2, <1>3, <1>8 DEF RingInv
  <2>2. PICK w : /\ RingHolds(buffer, rd, w, content)
                 /\ w = IF rpc = "flip" THEN RB!Advance(wr, len) ELSE RB!Move(wr, len)
    BY <1>8, <2>1 DEF RingPut
  <2>3. Len(content) \in Nat
    BY <2>2 DEF RingHolds
  <2>4. RB!Turned <=> rpc = "index" /\ RB!Wraps(wr, len)
    BY <2>1 DEF RB!Turned
  <2>5. ~RB!Turned => len <= Len(content) /\ Ahead(wr, rd, Len(content) - len)
    BY <1>8, <2>1, <2>4 DEF RingPut
  <2>6. ~RB!Turned => l <= Len(content) - len
    BY <1>3, <1>4, <1>5, <2>3, <2>5
  <2>7. RB!Turned => len - hits <= Len(content) /\ hits + l <= len
    BY <1>2, <1>3, <1>5, <2>1, <2>3, <2>4 DEF RingPut
  <2>8. l \in Nat /\ l <= Len(content)
    BY <1>3, <1>5, <2>1, <2>3, <2>6, <2>7
  <2>9. /\ RingHolds(buffer', rd', w, content') /\ Len(content') = Len(content) - l
        /\ got' = due' /\ next' = next
    BY <1>1, <2>2, <2>8, RingGets
  <2>10. hits' \in Nat /\ (RB!Turned => len <= Len(content') + hits')
    <3>1. hits' = IF RB!Turned THEN hits + l ELSE hits
      BY <1>2, <2>1
    <3>2. l \in Nat /\ len - hits \in Int /\ Len(content') = Len(content) - l
      BY <1>3, <1>5, <2>9
    <3>. QED  BY <1>3, <2>3, <2>7, <3>1, <3>2
  <2>11. RingTypes'
    BY <1>2, <1>3, <1>6, <2>9, <2>10 DEF RingTypes, RingInv
  <2>12. ~RB!Turned => len <= Len(content') /\ Ahead(wr, rd', Len(content') - len)
    <3>. SUFFICES ASSUME ~RB!Turned
                  PROVE  len <= Len(content') /\ Ahead(wr, rd', Len(content') - len)
      OBVIOUS
    <3>1. Ahead(wr, rd', (Len(content) - len) - l)
      BY <1>1, <1>3, <2>5, <2>6, <2>8, AheadMoves
    <3>2. (Len(content) - len) - l = Len(content') - len
      BY <1>3, <1>5, <2>3, <2>9
    <3>3. len <= Len(content')
      BY <1>3, <2>3, <2>6, <2>8, <2>9
    <3>. QED  BY <3>1, <3>2, <3>3
  <2>13. RingPut'
    <3>1. /\ RB!Wraps(wr, len)' = RB!Wraps(wr, len) /\ RB!Advance(wr, len)' = RB!Advance(wr, len)
          /\ RB!Move(wr, len)' = RB!Move(wr, len)
      BY <1>2 DEF RB!Wraps, RB!Advance, RB!Move, RB!Flip
    <3>2. CASE rpc = "flip"
      <4>1. RB!Wraps(wr, len)
        BY <2>1, <3>2 DEF RingPut, PutReads
      <4>. QED  BY <1>2, <2>2, <2>4, <2>9, <2>12, <3>1, <3>2, <4>1 DEF RingPut, PutReads
    <3>3. CASE rpc = "index"
      BY <1>2, <2>2, <2>4, <2>9, <2>10, <2>12, <3>1, <3>3 DEF RingPut, PutReads
    <3>. QED  BY <1>8, <3>2, <3>3
  <2>. QED  BY <1>2, <1>3, <1>8, <2>1, <2>9, <2>11, <2>13 DEF RingInv
<1>. QED  BY <1>3, <1>7, <1>8

\* rt_ringbuffer_putchar_force: the oldest character of a full buffer gives way, and
\* the read end moves on with the write end.
LEMMA RingForce ==
    ASSUME RingInv, RB!PutcharForce
    PROVE  RingInv'
<1>. BUFFER_SIZE \in Nat \ {0}
  BY LibrariesAssumption
<1>. DEFINE cs == RB!Chars(1)
<1>1. PICK sp : sp = RB!rt_ringbuffer_space_len(rd, wr)
  OBVIOUS
<1>2. /\ role = "alone" /\ buffer' = RB!Copied(wr, 1) /\ wr' = RB!Advance(wr, 1)
      /\ IF sp = 0 THEN rd' = RB!Forced(rd, wr') /\ content' = Tail(content) \o cs
         ELSE content' = content \o cs /\ rd' = rd
      /\ next' = (next + 1) % RB!Cardinality(Value)
      /\ UNCHANGED <<role, rpc, len, hits, got, due>>
  BY <1>1 DEF RB!PutcharForce
<1>3. /\ rd \in End /\ wr \in End /\ len \in Nat /\ hits \in Nat
      /\ next \in Nat /\ got = due /\ rpc = "idle"
      /\ RingHolds(buffer, rd, wr, content) /\ Len(content) \in 0 .. BUFFER_SIZE
      /\ Ahead(wr, rd, Len(content)) /\ content \in Seq(Nat)
  BY <1>2 DEF RingInv, RingTypes, RingHolds, Ahead
<1>4. sp = BUFFER_SIZE - Len(content)
  BY <1>1, <1>3, DataLenIs
<1>5. RB!Cardinality(Value) \in Nat \ {0}
  <2>1. RB!Cardinality(Value) = Cardinality(Value)
    BY DEF RB!Cardinality, Cardinality
  <2>2. Cardinality(Value) \in Nat /\ Cardinality(Value) # 0
    BY LibrariesAssumption, FS_CardinalityType, FS_EmptySet
  <2>. QED  BY <2>1, <2>2
<1>6. next' \in Nat
  BY <1>2, <1>3, <1>5
<1>7. cs \in Seq(Nat) /\ Len(cs) = 1
  <2>1. cs = [j \in 1 .. 1 |-> (next + j - 1) % RB!Cardinality(Value)]
    BY DEF RB!Chars
  <2>2. \A j \in 1 .. 1 : (next + j - 1) % RB!Cardinality(Value) \in Nat
    BY <1>3, <1>5
  <2>. HIDE DEF cs
  <2>. QED  BY <2>1, <2>2
<1>8. \A i \in 0 .. BUFFER_SIZE - 1 :
        buffer'[i] = IF (i - wr.index) % BUFFER_SIZE < 1 THEN cs[((i - wr.index) % BUFFER_SIZE) + 1]
                     ELSE buffer[i]
  BY <1>2 DEF RB!Copied, RB!Pos
<1>. HIDE DEF cs
<1>9. ASSUME NEW r, NEW ct, RingHolds(buffer, r, wr, ct), Len(ct) + 1 <= BUFFER_SIZE
      PROVE  RingHolds(buffer', r, wr', ct \o cs)
  <2>1. PICK bn, n : bn = buffer' /\ n = 1
    OBVIOUS
  <2>2. \A i \in 0 .. BUFFER_SIZE - 1 :
          bn[i] = IF (i - wr.index) % BUFFER_SIZE < n THEN cs[((i - wr.index) % BUFFER_SIZE) + 1]
                  ELSE buffer[i]
    BY <1>8, <2>1
  <2>3. n = Len(cs) /\ Len(ct) + n <= BUFFER_SIZE
    BY <1>7, <1>9, <2>1
  <2>4. RingHolds(bn, r, RB!Advance(wr, n), ct \o cs)
    BY <1>7, <1>9, <2>2, <2>3, PutHolds
  <2>. QED  BY <1>2, <2>1, <2>4
<1>10. RingHolds(buffer', rd', wr', content')
  <2>1. CASE sp # 0
    <3>1. Len(content) + 1 <= BUFFER_SIZE
      BY <1>3, <1>4, <2>1
    <3>2. RingHolds(buffer', rd, wr', content \o cs)
      BY <1>3, <3>1, <1>9
    <3>. QED  BY <1>2, <2>1, <3>2
  <2>2. CASE sp = 0
    <3>1. Len(content) = BUFFER_SIZE
      BY <1>3, <1>4, <2>2
    <3>2. PICK e : e = RB!Advance(rd, 1)
      OBVIOUS
    <3>3. PICK ct : ct = SubSeq(content, 2, Len(content))
      OBVIOUS
    <3>4. RingHolds(buffer, e, wr, ct) /\ Len(ct) = BUFFER_SIZE - 1
      <4>1. PICK n \in Nat : n = 1
        OBVIOUS
      <4>2. /\ RingHolds(buffer, RB!Advance(rd, n), wr, SubSeq(content, n + 1, Len(content)))
            /\ Len(SubSeq(content, n + 1, Len(content))) = Len(content) - n
        BY <1>3, <3>1, <4>1, GetHolds
      <4>. QED  BY <3>1, <3>2, <3>3, <4>1, <4>2
    <3>5. Tail(content) = ct
      BY <1>3, <3>1, <3>3
    <3>6. rd' = e
      <4>1. /\ wr.index = rd.index /\ wr.mirror # rd.mirror
            /\ rd.index \in 0 .. BUFFER_SIZE - 1 /\ rd.mirror \in {0, 1}
        BY <1>3, <3>1 DEF Ahead, End
      <4>2. 1 \in 0 .. BUFFER_SIZE
        OBVIOUS
      <4>3. /\ e \in End
            /\ e.index = IF rd.index + 1 < BUFFER_SIZE THEN rd.index + 1 ELSE rd.index + 1 - BUFFER_SIZE
            /\ e.mirror = IF rd.index + 1 < BUFFER_SIZE THEN rd.mirror ELSE 1 - rd.mirror
        BY <1>3, <3>2, <4>2, AdvanceIs
      <4>4. wr'.index = IF wr.index + 1 < BUFFER_SIZE THEN wr.index + 1 ELSE wr.index + 1 - BUFFER_SIZE
        BY <1>2, <1>3, <4>2, AdvanceIs
      <4>5. rd' = [mirror |-> IF wr'.index = 0 THEN 1 - rd.mirror ELSE rd.mirror, index |-> wr'.index]
        BY <1>2, <2>2 DEF RB!Forced
      <4>6. e.index = wr'.index /\ e.mirror = IF wr'.index = 0 THEN 1 - rd.mirror ELSE rd.mirror
        BY <4>1, <4>3, <4>4
      <4>7. e = [mirror |-> e.mirror, index |-> e.index]
        BY <4>3 DEF End
      <4>. QED  BY <4>5, <4>6, <4>7
    <3>7. Len(ct) + 1 <= BUFFER_SIZE
      BY <3>4
    <3>8. RingHolds(buffer', e, wr', ct \o cs)
      BY <1>9, <3>4, <3>7
    <3>9. content' = ct \o cs
      BY <1>2, <2>2, <3>5
    <3>. QED  BY <3>6, <3>8, <3>9
  <2>. QED  BY <2>1, <2>2
<1>11. RingTypes'
  BY <1>2, <1>3, <1>6, <1>10 DEF RingTypes, RingHolds
<1>. QED  BY <1>2, <1>3, <1>10, <1>11 DEF RingInv

\* rt_ringbuffer_reset.
LEMMA RingReset ==
    ASSUME RingInv, RB!rt_ringbuffer_reset
    PROVE  RingInv'
<1>. BUFFER_SIZE \in Nat \ {0}
  BY LibrariesAssumption
<1>1. /\ role = "alone" /\ rd' = [mirror |-> 0, index |-> 0] /\ wr' = rd' /\ content' = <<>>
      /\ UNCHANGED <<role, buffer, rpc, len, hits, next, got, due>>
  BY DEF RB!rt_ringbuffer_reset
<1>2. rd' \in End /\ wr' \in End
  BY <1>1 DEF End
<1>3. RingTypes'
  BY <1>1, <1>2 DEF RingInv, RingTypes
<1>4. RingHolds(buffer', rd', wr', content')
  <2>1. content' \in Seq(Nat) /\ Len(content') = 0
    BY <1>1
  <2>2. Ahead(wr', rd', 0)
    BY <1>1, <1>2 DEF Ahead, End
  <2>3. Stored(buffer', rd', content')
    BY <2>1 DEF Stored
  <2>. QED  BY <1>2, <2>1, <2>2, <2>3 DEF RingHolds
<1>. QED  BY <1>1, <1>3, <1>4 DEF RingInv

\* Every step of the ring buffer.
LEMMA RingStep ==
    ASSUME torn \/ RingInv, [RB!Next]_ringVars
    PROVE  torn' \/ RingInv'
<1>1. CASE UNCHANGED ringVars
  <2>1. UNCHANGED <<role, buffer, rd, wr, rpc, len, hits, torn, content, next, got, due>>
    BY <1>1 DEF ringVars
  <2>. SUFFICES ASSUME RingInv PROVE RingInv'
    BY <2>1
  <2>2. RingTypes'
    BY <2>1 DEF RingInv, RingTypes
  <2>3. (rpc \notin {"flip", "index"} => RingHolds(buffer, rd, wr, content))'
    BY <2>1 DEF RingInv
  <2>4. (role = "put" => RingPut)'
    BY <2>1 DEF RingInv, RingPut, PutReads
  <2>5. (role = "get" => RingGet)'
    BY <2>1 DEF RingInv, RingGet, GetReads
  <2>. QED  BY <2>1, <2>2, <2>3, <2>4, <2>5 DEF RingInv
<1>2. CASE RB!Next
  <2>1. RingInv
    BY <1>2 DEF RB!Next
  <2>2. CASE \E n \in 1 .. BUFFER_SIZE + 1 : RB!ThreadCall(n) \/ RB!AtomicPut(n) \/ RB!AtomicGet(n)
    BY <2>1, <2>2, RingCall, RingAtomicPut, RingAtomicGet
  <2>3. CASE RB!ThreadMirror \/ RB!ThreadCompare \/ RB!ThreadSubtract
    BY <2>1, <2>3, RingMirror, RingCompare, RingSubtract
  <2>4. CASE RB!ThreadCopy
    BY <2>1, <2>4, RingCopy
  <2>5. CASE RB!ThreadFlip
    BY <2>1, <2>5, RingFlip
  <2>6. CASE RB!ThreadIndex
    BY <2>1, <2>6, RingIndex
  <2>7. CASE RB!PutcharForce
    BY <2>1, <2>7, RingForce
  <2>8. CASE RB!rt_ringbuffer_reset
    BY <2>1, <2>8, RingReset
  <2>. QED  BY <1>2, <2>2, <2>3, <2>4, <2>5, <2>6, <2>7, <2>8 DEF RB!Next
<1>. QED  BY <1>1, <1>2

\* The invariant gives what the ring buffer promises.
LEMMA RingSafe == (torn \/ RingInv) => RB!FirstInFirstOut /\ RB!ContentsExact
<1>. SUFFICES ASSUME RingInv PROVE RB!FirstInFirstOut /\ RB!ContentsExact
  BY DEF RB!FirstInFirstOut, RB!ContentsExact
<1>. BUFFER_SIZE \in Nat \ {0}
  BY LibrariesAssumption
<1>1. RB!FirstInFirstOut
  BY DEF RB!FirstInFirstOut, RingInv
<1>2. ASSUME rpc = "idle"
      PROVE  /\ RB!rt_ringbuffer_data_len(rd, wr) = Len(content)
             /\ RB!Read(rd, Len(content)) = content
  <2>1. /\ content \in Seq(Nat) /\ rd \in End /\ wr \in End /\ Len(content) \in Nat
        /\ Ahead(wr, rd, Len(content)) /\ Stored(buffer, rd, content)
    BY <1>2 DEF RingInv, RingHolds
  <2>2. RB!rt_ringbuffer_data_len(rd, wr) = Len(content)
    BY <2>1, DataLenIs DEF Ahead
  <2>3. content = [j \in 1 .. Len(content) |-> content[j]]
    BY <2>1
  <2>4. \A j \in 1 .. Len(content) : content[j] = buffer[(rd.index + j - 1) % BUFFER_SIZE]
    BY <2>1 DEF Stored
  <2>. QED  BY <2>2, <2>3, <2>4 DEF RB!Read
<1>. QED  BY <1>1, <1>2 DEF RB!ContentsExact

\* ringbuffer.c, for every size of the buffer and every number of characters that an
\* interrupt handler puts or gets between any two steps of the thread: a get returns
\* the oldest characters that were put and not got, and between the calls of the
\* thread the two ends describe the contents exactly, until the handler passes the
\* end of the buffer while the thread reads the ends, or moves more than the thread
\* does between its two stores (torn).
THEOREM RingIsExact == LibrariesSpec => []RingExact
<1>. DEFINE Inv == part = "ring" => torn \/ RingInv
<1>1. LibrariesInit => Inv
  BY RingInit DEF LibrariesInit
<1>2. ASSUME Inv, [LibrariesNext /\ UNCHANGED part]_<<part, libraryVars>> PROVE Inv'
  <2>1. part' = part
    BY <1>2 DEF libraryVars
  <2>2. CASE part = "ring"
    <3>1. [RB!Next]_ringVars
      BY <1>2, <2>2 DEF LibrariesNext, libraryVars
    <3>. QED  BY <1>2, <2>1, <2>2, <3>1, RingStep
  <2>. QED  BY <2>1, <2>2
<1>3. Inv => RingExact
  BY RingSafe DEF RingExact
<1>. QED  BY <1>1, <1>2, <1>3, PTL DEF LibrariesSpec

-----------------------------------------------------------------------------
(* Sums over blocks.  The induction over finite sets is a search for a set of  *)
(* the least size that is an exception.                                        *)

\* What a block takes, and the sum over a set of blocks.
Takes(m, p) == m[p].next - p
BlockSum(m, S) == HP!MapThenSumSet(LAMBDA p : m[p].next - p, S)

\* The element that the sum takes next, and the recursion of MapThenFoldSet.
SomeOf(s) == CHOOSE x \in s : TRUE
IsSum(m, S, it) ==
    it = [s \in S |-> IF s = {} THEN 0 ELSE Takes(m, SomeOf(s)) + it[s \ {SomeOf(s)}]]

\* What the blocks of S take are numbers.
Valued(m, S) == \A p \in S : Takes(m, p) \in Int

\* The recursion over the subsets of S.
Summed(m, S, it) == IsSum(m, SUBSET S, it)

\* The subsets of S with at most n elements.
Small(S, n) == {s \in SUBSET S : Cardinality(s) <= n}

\* Every set of a finite set's subsets, of one size more than those of n.
LEMMA SmallRest ==
    ASSUME NEW S, IsFiniteSet(S), NEW n \in Nat, NEW s \in Small(S, n + 1), s # {}
    PROVE  SomeOf(s) \in s /\ s \ {SomeOf(s)} \in Small(S, n)
<1>1. SomeOf(s) \in s
  BY DEF SomeOf
<1>2. Cardinality(s \ {SomeOf(s)}) = Cardinality(s) - 1 /\ Cardinality(s) \in Nat
  BY <1>1, CountMembers DEF Small
<1>. QED  BY <1>1, <1>2 DEF Small

\* The recursion defines a function.
LEMMA SumExists ==
    ASSUME NEW m, NEW S, IsFiniteSet(S)
    PROVE  \E it : Summed(m, S, it)
<1>. DEFINE Bad == {n \in Nat : ~ \E it : IsSum(m, Small(S, n), it)}
<1>1. CASE Bad = {}
  <2>1. Cardinality(S) \in Nat
    BY FS_CardinalityType
  <2>2. Small(S, Cardinality(S)) = SUBSET S
    BY FS_Subset DEF Small
  <2>3. \E it : IsSum(m, Small(S, Cardinality(S)), it)
    BY <1>1, <2>1
  <2>. QED  BY <2>2, <2>3 DEF Summed
<1>2. CASE Bad # {}
  <2>1. PICK b : b = Min(Bad)
    OBVIOUS
  <2>2. b \in Bad /\ \A y \in Bad : b <= y
    BY <1>2, <2>1, MinProperties
  <2>3. CASE b = 0
    <3>1. ASSUME NEW s \in Small(S, 0) PROVE s = {}
      BY CountMembers DEF Small
    <3>2. PICK it : it = [s \in Small(S, 0) |-> 0]
      OBVIOUS
    <3>3. IsSum(m, Small(S, 0), it)
      BY <3>1, <3>2 DEF IsSum
    <3>. QED  BY <2>2, <2>3, <3>3
  <2>4. CASE b # 0
    <3>1. PICK c \in Nat : b = c + 1
      BY <2>2, <2>4
    <3>2. c \notin Bad
      BY <2>2, <3>1
    <3>3. PICK jt : IsSum(m, Small(S, c), jt)
      BY <3>2
    <3>. DEFINE Sum(s, f) == IF s = {} THEN 0 ELSE Takes(m, SomeOf(s)) + f[s \ {SomeOf(s)}]
    <3>4. PICK it : it = [s \in Small(S, b) |-> Sum(s, jt)]
      OBVIOUS
    <3>5. ASSUME NEW s \in Small(S, b) PROVE it[s] = Sum(s, it)
      <4>1. CASE s = {}
        BY <3>4, <4>1
      <4>2. CASE s # {}
        <5>1. PICK r : r = s \ {SomeOf(s)}
          OBVIOUS
        <5>2. r \in Small(S, c) /\ r \in Small(S, b)
          <6>1. r \in Small(S, c)
            BY <3>1, <4>2, <5>1, SmallRest
          <6>2. Cardinality(r) \in Nat
            BY <6>1, CountMembers DEF Small
          <6>. QED  BY <3>1, <6>1, <6>2 DEF Small
        <5>3. it[r] = Sum(r, jt) /\ jt[r] = Sum(r, jt)
          BY <3>3, <3>4, <5>2 DEF IsSum
        <5>4. it[s] = Sum(s, jt)
          BY <3>4
        <5>. QED  BY <4>2, <5>1, <5>3, <5>4
      <4>. QED  BY <4>1, <4>2
    <3>6. it = [s \in Small(S, b) |-> Sum(s, it)]
      <4>. HIDE DEF Sum
      <4>. QED  BY <3>4, <3>5
    <3>7. IsSum(m, Small(S, b), it)
      BY <3>6 DEF IsSum
    <3>. QED  BY <2>2, <3>7
  <2>. QED  BY <2>3, <2>4
<1>. QED  BY <1>1, <1>2

\* The sum is a number and does not depend on the order in which blocks are taken.
LEMMA SumOrder ==
    ASSUME NEW m, NEW S, IsFiniteSet(S), NEW it, Summed(m, S, it), Valued(m, S)
    PROVE  \A s \in SUBSET S : /\ it[s] \in Int
                               /\ \A y \in s : it[s] = Takes(m, y) + it[s \ {y}]
<1>. DEFINE Good(s) == it[s] \in Int /\ \A y \in s : it[s] = Takes(m, y) + it[s \ {y}]
            Bad == {n \in Nat : \E s \in SUBSET S : Cardinality(s) = n /\ ~Good(s)}
<1>1. \A s \in SUBSET S : Cardinality(s) \in Nat
  BY CountMembers
<1>2. CASE Bad = {}
  BY <1>1, <1>2
<1>3. CASE Bad # {}
  <2>1. PICK b : b = Min(Bad)
    OBVIOUS
  <2>2. b \in Bad /\ \A y \in Bad : b <= y
    BY <1>3, <2>1, MinProperties
  <2>3. PICK s \in SUBSET S : Cardinality(s) = b /\ ~Good(s)
    BY <2>2
  <2>4. ASSUME NEW r \in SUBSET S, Cardinality(r) < b PROVE Good(r)
    <3>1. Cardinality(r) \notin Bad
      BY <1>1, <2>2, <2>4
    <3>. QED  BY <1>1, <3>1
  <2>5. CASE s = {}
    <3>1. it[s] = 0
      BY <2>5 DEF Summed, IsSum
    <3>. QED  BY <2>3, <2>5, <3>1
  <2>6. CASE s # {}
    <3>1. PICK x : x = SomeOf(s)
      OBVIOUS
    <3>2. x \in s /\ it[s] = Takes(m, x) + it[s \ {x}]
      BY <2>6, <3>1 DEF Summed, IsSum, SomeOf
    <3>3. ASSUME NEW z \in s PROVE Cardinality(s \ {z}) < b /\ s \ {z} \in SUBSET S
      BY <1>1, <2>3, CountMembers
    <3>4. Good(s \ {x})
      BY <2>4, <3>2, <3>3
    <3>5. ASSUME NEW y \in s, y # x PROVE it[s] = Takes(m, y) + it[s \ {y}]
      <4>1. Good(s \ {y})
        BY <2>4, <3>3
      <4>2. (s \ {y}) \ {x} = (s \ {x}) \ {y} /\ x \in s \ {y} /\ y \in s \ {x}
        BY <3>2, <3>5
      <4>3. PICK d : d = it[(s \ {x}) \ {y}]
        OBVIOUS
      <4>4. it[s \ {x}] = Takes(m, y) + d /\ it[s \ {y}] = Takes(m, x) + d
        BY <3>4, <4>1, <4>2, <4>3
      <4>5. (s \ {x}) \ {y} \in SUBSET S /\ Cardinality((s \ {x}) \ {y}) < b
        <5>1. PICK r : r = s \ {x}
          OBVIOUS
        <5>2. r \in SUBSET S /\ Cardinality(r) < b /\ y \in r
          BY <3>2, <3>3, <4>2, <5>1
        <5>3. Cardinality(r \ {y}) = Cardinality(r) - 1
          BY <5>2, CountMembers
        <5>4. Cardinality(r) \in Nat /\ b \in Nat
          BY <1>1, <2>2, <5>2
        <5>. QED  BY <5>1, <5>2, <5>3, <5>4
      <4>6. d \in Int
        BY <2>4, <4>3, <4>5
      <4>7. Takes(m, x) \in Int /\ Takes(m, y) \in Int
        BY <3>2 DEF Valued
      <4>. QED  BY <3>2, <4>4, <4>6, <4>7
    <3>6. it[s] \in Int
      BY <3>2, <3>4 DEF Valued
    <3>. QED  BY <2>3, <3>2, <3>5, <3>6
  <2>. QED  BY <2>5, <2>6
<1>. QED  BY <1>2, <1>3

\* Two sums over the same blocks agree.
LEMMA SumAgrees ==
    ASSUME NEW m, NEW S, IsFiniteSet(S), NEW it, Summed(m, S, it),
           NEW m2, NEW S2, NEW jt, Summed(m2, S2, jt)
    PROVE  \A s \in SUBSET (S \cap S2) :
              (\A p \in s : Takes(m, p) = Takes(m2, p)) => it[s] = jt[s]
<1>. DEFINE Good(s) == (\A p \in s : Takes(m, p) = Takes(m2, p)) => it[s] = jt[s]
            Bad == {n \in Nat : \E s \in SUBSET (S \cap S2) : Cardinality(s) = n /\ ~Good(s)}
<1>1. \A s \in SUBSET (S \cap S2) : Cardinality(s) \in Nat
  BY CountMembers
<1>2. CASE Bad = {}
  BY <1>1, <1>2
<1>3. CASE Bad # {}
  <2>1. PICK b : b = Min(Bad)
    OBVIOUS
  <2>2. b \in Bad /\ \A y \in Bad : b <= y
    BY <1>3, <2>1, MinProperties
  <2>3. PICK s \in SUBSET (S \cap S2) : Cardinality(s) = b /\ ~Good(s)
    BY <2>2
  <2>4. CASE s = {}
    BY <2>3, <2>4 DEF Summed, IsSum
  <2>5. CASE s # {}
    <3>1. PICK x : x = SomeOf(s)
      OBVIOUS
    <3>2. /\ x \in s /\ it[s] = Takes(m, x) + it[s \ {x}] /\ jt[s] = Takes(m2, x) + jt[s \ {x}]
      <4>1. x \in s
        BY <2>5, <3>1 DEF SomeOf
      <4>2. it[s] = Takes(m, SomeOf(s)) + it[s \ {SomeOf(s)}]
        BY <2>5 DEF Summed, IsSum
      <4>3. jt[s] = Takes(m2, SomeOf(s)) + jt[s \ {SomeOf(s)}]
        BY <2>5 DEF Summed, IsSum
      <4>. QED  BY <3>1, <4>1, <4>2, <4>3
    <3>3. Cardinality(s \ {x}) < b /\ s \ {x} \in SUBSET (S \cap S2)
      BY <1>1, <2>3, <3>2, CountMembers
    <3>4. ASSUME NEW r \in SUBSET (S \cap S2), Cardinality(r) < b PROVE Good(r)
      <4>1. Cardinality(r) \notin Bad
        BY <1>1, <2>2, <3>4
      <4>. QED  BY <1>1, <4>1
    <3>5. Good(s \ {x})
      BY <3>3, <3>4
    <3>. QED  BY <2>3, <3>2, <3>5
  <2>. QED  BY <2>4, <2>5
<1>. QED  BY <1>2, <1>3

\* The sum of the model is such a sum.
LEMMA BlockSumIs ==
    ASSUME NEW m, NEW S, IsFiniteSet(S)
    PROVE  \E it : Summed(m, S, it) /\ BlockSum(m, S) = it[S]
<1>1. PICK it : it = CHOOSE jt : Summed(m, S, jt)
  OBVIOUS
<1>2. Summed(m, S, it)
  BY <1>1, SumExists
<1>3. BlockSum(m, S) = it[S]
  BY <1>1 DEF BlockSum, HP!MapThenSumSet, HP!MapThenFoldSet, Summed, IsSum, SomeOf, Takes
<1>. QED  BY <1>2, <1>3

\* The sum is a number; it grows by what one more block takes, and is the same for
\* headers that agree on the blocks.
LEMMA BlockSums ==
    ASSUME NEW m, NEW S, IsFiniteSet(S), Valued(m, S)
    PROVE  /\ BlockSum(m, S) \in Int
           /\ \A y \in S : BlockSum(m, S) = Takes(m, y) + BlockSum(m, S \ {y})
           /\ \A m2 : (\A p \in S : Takes(m, p) = Takes(m2, p)) => BlockSum(m, S) = BlockSum(m2, S)
<1>1. PICK it : Summed(m, S, it) /\ BlockSum(m, S) = it[S]
  BY BlockSumIs
<1>2. /\ it[S] \in Int
      /\ \A y \in S : it[S] = Takes(m, y) + it[S \ {y}]
  <2>1. \A s \in SUBSET S : /\ it[s] \in Int
                            /\ \A y \in s : it[s] = Takes(m, y) + it[s \ {y}]
    BY <1>1, SumOrder
  <2>2. S \in SUBSET S
    OBVIOUS
  <2>. QED  BY <2>1, <2>2
<1>3. ASSUME NEW y \in S PROVE BlockSum(m, S) = Takes(m, y) + BlockSum(m, S \ {y})
  <2>1. PICK T : T = S \ {y}
    OBVIOUS
  <2>2. IsFiniteSet(T)
    BY <2>1, FS_Subset
  <2>3. PICK jt : Summed(m, T, jt) /\ BlockSum(m, T) = jt[T]
    BY <2>2, BlockSumIs
  <2>4. T \in SUBSET (S \cap T)
    BY <2>1
  <2>5. \A s \in SUBSET (S \cap T) : (\A p \in s : Takes(m, p) = Takes(m, p)) => it[s] = jt[s]
    BY <1>1, <2>3, SumAgrees
  <2>6. it[T] = jt[T]
    BY <2>4, <2>5
  <2>. QED  BY <1>1, <1>2, <2>1, <2>3, <2>6
<1>4. ASSUME NEW m2, \A p \in S : Takes(m, p) = Takes(m2, p) PROVE BlockSum(m, S) = BlockSum(m2, S)
  <2>1. PICK jt : Summed(m2, S, jt) /\ BlockSum(m2, S) = jt[S]
    BY BlockSumIs
  <2>2. PICK T : T = S
    OBVIOUS
  <2>3. \A s \in SUBSET (S \cap T) : (\A p \in s : Takes(m, p) = Takes(m2, p)) => it[s] = jt[s]
    BY <1>1, <2>1, <2>2, SumAgrees
  <2>4. S \in SUBSET (S \cap T)
    BY <2>2
  <2>5. it[S] = jt[S]
    BY <1>4, <2>3, <2>4
  <2>. QED  BY <1>1, <2>1, <2>5
<1>. QED  BY <1>1, <1>2, <1>3, <1>4

-----------------------------------------------------------------------------
(* The headers of the heap *)

\* A header.
Header == [used : BOOLEAN, next : Nat, prev : Nat]

\* The block p of m lies before the next one, no other lies in it, and the two
\* links agree in both directions.
Linked(m, p) ==
    /\ p + HEADER <= m[p].next /\ m[p].next <= HP!heap_end
    /\ m[p].next # HP!heap_end => m[p].next \in DOMAIN m /\ m[m[p].next].prev = p
    /\ \A q \in DOMAIN m : q <= p \/ m[p].next <= q
    /\ p # 0 => m[p].prev \in DOMAIN m /\ m[m[p].prev].next = p

\* The headers m tile the heap.
Chained(m) ==
    /\ m = [p \in DOMAIN m |-> m[p]] /\ \A p \in DOMAIN m : m[p] \in Header
    /\ DOMAIN m \subseteq 0 .. HP!heap_end - 1
    /\ 0 \in DOMAIN m /\ m[0].prev = 0
    /\ \A p \in DOMAIN m : Linked(m, p)

\* The block p of m and the one behind it are not both free.
NoHole(m, p) == m[p].used \/ m[p].next = HP!heap_end \/ m[m[p].next].used

\* The block x is in both, of the same size and equally used.
SameBlock(m, s, x) == s[x].used = m[x].used /\ s[x].next = m[x].next

\* The numbers of the heap.
LEMMA HeapNumbers == /\ HEADER \in Nat \ {0} /\ MIN_SIZE \in Nat /\ HEAP_SIZE \in Nat
                     /\ HP!heap_end = HEAP_SIZE + HEADER /\ HP!heap_end \in Nat
BY LibrariesAssumption DEF HP!heap_end

\* A block is split; the rest, at q, is large enough for a block.
CanSplit(m, p, size, q) ==
    /\ p \in DOMAIN m /\ size \in Nat
    /\ q = p + HEADER + size /\ q + HEADER <= m[p].next
IsSplit(m, s, p, q) ==
    /\ Chained(s) /\ DOMAIN s = DOMAIN m \cup {q} /\ q \notin DOMAIN m
    /\ ~s[q].used /\ s[q].next = m[p].next /\ s[q].prev = p
    /\ s[p].used = m[p].used /\ s[p].next = q
    /\ \A x \in DOMAIN m \ {p} : SameBlock(m, s, x)
LEMMA SplitIs ==
    ASSUME NEW m, Chained(m), NEW p, NEW size, NEW q, CanSplit(m, p, size, q),
           NEW s, s = HP!Split(m, p, size)
    PROVE  IsSplit(m, s, p, q)
<1>. HEADER \in Nat \ {0} /\ HP!heap_end \in Nat
  BY HeapNumbers
<1>. p \in DOMAIN m /\ size \in Nat /\ q = p + HEADER + size /\ q + HEADER <= m[p].next
  BY DEF CanSplit
<1>. DEFINE D == DOMAIN m
<1>1. PICK n : n = m[p].next
  OBVIOUS
<1>2. /\ D \subseteq Nat /\ n \in Nat /\ p \in Nat /\ q \in Nat /\ n <= HP!heap_end
      /\ p < q /\ q < n /\ (n # HP!heap_end => n \in D)
      /\ p + HEADER <= q /\ q + HEADER <= n
      /\ \A y \in D : y <= p \/ n <= y
      /\ \A y \in D : m[y] \in Header /\ y < HP!heap_end
  <2>1. D \subseteq Nat /\ (\A y \in D : m[y] \in Header /\ y < HP!heap_end) /\ Linked(m, p)
    BY DEF Chained
  <2>2. n \in Nat /\ p \in Nat /\ q \in Nat /\ p < q /\ q < n /\ p + HEADER <= q /\ q + HEADER <= n
    BY <1>1, <2>1 DEF Header
  <2>. QED  BY <1>1, <2>1, <2>2 DEF Linked
<1>3. q \notin D
  BY <1>2
<1>4. s = [x \in D \cup {q} |->
             IF x = q THEN [used |-> FALSE, next |-> n, prev |-> p]
             ELSE IF x = p THEN [m[p] EXCEPT !.next = q]
             ELSE IF x = n THEN [m[n] EXCEPT !.prev = q] ELSE m[x]]
  <2>1. PICK t : t = [x \in D \cup {q} |->
             IF x = q THEN [used |-> FALSE, next |-> n, prev |-> p]
             ELSE IF x = p THEN [m[p] EXCEPT !.next = q] ELSE m[x]]
    OBVIOUS
  <2>2. s = HP!SetPrev(t, n, q)
    BY <1>1, <2>1 DEF HP!Split
  <2>3. CASE n = HP!heap_end
    <3>1. s = t
      BY <2>2, <2>3 DEF HP!SetPrev
    <3>2. n \notin D \cup {q}
      BY <1>2, <2>3
    <3>. QED  BY <2>1, <3>1, <3>2
  <2>4. CASE n # HP!heap_end
    <3>1. s = [t EXCEPT ![n].prev = q]
      BY <2>2, <2>4 DEF HP!SetPrev
    <3>2. n \in D /\ n # q /\ n # p /\ t[n] = m[n]
      BY <1>2, <2>1, <2>4
    <3>. QED  BY <2>1, <3>1, <3>2
  <2>. QED  BY <2>3, <2>4
<1>5. /\ DOMAIN s = D \cup {q} /\ s = [x \in DOMAIN s |-> s[x]]
      /\ s[q] = [used |-> FALSE, next |-> n, prev |-> p]
      /\ s[p] = [m[p] EXCEPT !.next = q]
      /\ n \in D => s[n] = [m[n] EXCEPT !.prev = q]
      /\ \A x \in D \ {p, n} : s[x] = m[x]
  BY <1>2, <1>3, <1>4
<1>6. /\ s[q].used = FALSE /\ s[q].next = n /\ s[q].prev = p
      /\ s[p].used = m[p].used /\ s[p].next = q /\ s[p].prev = m[p].prev
      /\ n \in D => s[n].used = m[n].used /\ s[n].next = m[n].next /\ s[n].prev = q
      /\ \A x \in D \ {p, n} : s[x].used = m[x].used /\ s[x].next = m[x].next /\ s[x].prev = m[x].prev
  BY <1>2, <1>5 DEF Header
<1>7. \A x \in D \cup {q} : s[x] \in Header
  <2>1. s[q] \in Header
    BY <1>2, <1>5 DEF Header
  <2>2. s[p] \in Header
    BY <1>2, <1>5 DEF Header
  <2>3. n \in D => s[n] \in Header
    BY <1>2, <1>5 DEF Header
  <2>. QED  BY <1>2, <1>5, <2>1, <2>2, <2>3
<1>8. ASSUME NEW x \in D \ {p} PROVE SameBlock(m, s, x)
  BY <1>6 DEF SameBlock
<1>9. ASSUME NEW x \in D \cup {q} PROVE Linked(s, x)
  <2>1. CASE x = q
    <3>1. \A y \in DOMAIN s : y <= q \/ s[q].next <= y
      BY <1>2, <1>5, <1>6
    <3>. QED  BY <1>2, <1>5, <1>6, <2>1, <3>1 DEF Linked
  <2>2. CASE x = p
    <3>1. p # 0 => m[p].prev \in D /\ m[m[p].prev].next = p /\ m[p].prev # p
      BY <1>1, <1>2 DEF Chained, Linked
    <3>2. p # 0 => s[p].prev \in DOMAIN s /\ s[s[p].prev].next = p
      BY <1>2, <1>5, <1>6, <3>1
    <3>3. \A y \in DOMAIN s : y <= p \/ s[p].next <= y
      BY <1>2, <1>5, <1>6
    <3>4. s[p].next \in DOMAIN s /\ s[s[p].next].prev = p
      BY <1>5, <1>6
    <3>. QED  BY <1>2, <1>6, <2>2, <3>2, <3>3, <3>4 DEF Linked
  <2>3. CASE x \in D \ {p}
    <3>1. Linked(m, x) /\ Linked(m, p) /\ s[x].next = m[x].next
      BY <1>6, <2>3 DEF Chained
    <3>2. x + HEADER <= s[x].next /\ s[x].next <= HP!heap_end
      BY <3>1 DEF Linked
    <3>3. s[x].next # HP!heap_end => s[x].next \in DOMAIN s /\ s[s[x].next].prev = x
      <4>. SUFFICES ASSUME s[x].next # HP!heap_end
                    PROVE  s[x].next \in DOMAIN s /\ s[s[x].next].prev = x
        OBVIOUS
      <4>1. PICK y : y = m[x].next
        OBVIOUS
      <4>2. y \in D /\ m[y].prev = x
        BY <3>1, <4>1 DEF Linked
      <4>3. y # n
        BY <1>1, <1>2, <2>3, <3>1, <4>2 DEF Linked
      <4>4. s[y].prev = m[y].prev
        BY <1>6, <4>2, <4>3
      <4>. QED  BY <1>5, <3>1, <4>1, <4>2, <4>4
    <3>4. ASSUME NEW y \in DOMAIN s PROVE y <= x \/ s[x].next <= y
      <4>1. CASE y \in D
        BY <3>1, <4>1 DEF Linked
      <4>2. CASE y = q
        <5>1. p <= x \/ m[x].next <= p
          BY <3>1 DEF Linked
        <5>2. x <= p \/ n <= x
          BY <1>2, <2>3
        <5>3. m[x].next \in Nat /\ x \in Nat /\ x # p
          BY <1>2, <2>3 DEF Header
        <5>. QED  BY <1>2, <3>1, <4>2, <5>1, <5>2, <5>3
      <4>. QED  BY <1>5, <4>1, <4>2
    <3>5. x # 0 => s[x].prev \in DOMAIN s /\ s[s[x].prev].next = x
      <4>. SUFFICES ASSUME x # 0 PROVE s[x].prev \in DOMAIN s /\ s[s[x].prev].next = x
        OBVIOUS
      <4>1. CASE x = n
        BY <1>5, <1>6, <2>3, <4>1
      <4>2. CASE x # n
        <5>1. PICK r : r = m[x].prev
          OBVIOUS
        <5>2. r \in D /\ m[r].next = x
          BY <3>1, <5>1 DEF Linked
        <5>3. r # p /\ s[x].prev = r
          BY <1>1, <1>6, <2>3, <4>2, <5>1, <5>2
        <5>4. s[r].next = m[r].next
          BY <1>6, <5>2, <5>3
        <5>. QED  BY <1>5, <5>2, <5>3, <5>4
      <4>. QED  BY <4>1, <4>2
    <3>. QED  BY <3>2, <3>3, <3>4, <3>5 DEF Linked
  <2>. QED  BY <2>1, <2>2, <2>3
<1>10. DOMAIN s \subseteq 0 .. HP!heap_end - 1 /\ 0 \in DOMAIN s
  BY <1>2, <1>5 DEF Chained
<1>11. s[0].prev = 0
  <2>1. 0 \in D /\ m[0].prev = 0 /\ 0 # n /\ 0 # q
    BY <1>2 DEF Chained
  <2>. QED  BY <1>6, <2>1
<1>12. Chained(s)
  BY <1>5, <1>7, <1>9, <1>10, <1>11 DEF Chained
<1>. QED  BY <1>1, <1>3, <1>5, <1>6, <1>8, <1>12 DEF IsSplit

\* A block is merged into the one before it.
CanMerge(m, p, q) == p \in DOMAIN m /\ q = m[p].next /\ q # HP!heap_end
IsMerge(m, s, p, q) ==
    /\ Chained(s) /\ DOMAIN s = DOMAIN m \ {q} /\ q \in DOMAIN m /\ p \in DOMAIN s /\ p < q
    /\ s[p].used = m[p].used /\ s[p].next = m[q].next /\ s[p].prev = m[p].prev
    /\ \A x \in DOMAIN s \ {p} : SameBlock(m, s, x)
LEMMA MergeIs ==
    ASSUME NEW m, Chained(m), NEW p, NEW q, CanMerge(m, p, q),
           NEW s, s = HP!Merge(m, p, q)
    PROVE  IsMerge(m, s, p, q)
<1>. HEADER \in Nat \ {0} /\ HP!heap_end \in Nat
  BY HeapNumbers
<1>. p \in DOMAIN m /\ q = m[p].next /\ q # HP!heap_end
  BY DEF CanMerge
<1>. DEFINE D == DOMAIN m
<1>1. PICK n : n = m[q].next
  OBVIOUS
<1>2. q \in D /\ m[q].prev = p /\ Linked(m, p) /\ Linked(m, q)
  BY DEF Chained, Linked
<1>3. /\ D \subseteq Nat /\ n \in Nat /\ p \in Nat /\ q \in Nat /\ n <= HP!heap_end
      /\ p < q /\ q < n /\ p + HEADER <= q /\ q + HEADER <= n
      /\ n # HP!heap_end => n \in D /\ m[n].prev = q
      /\ \A y \in D : (y <= p \/ q <= y) /\ (y <= q \/ n <= y)
      /\ \A y \in D : m[y] \in Header /\ y < HP!heap_end
  <2>1. D \subseteq Nat /\ \A y \in D : m[y] \in Header /\ y < HP!heap_end
    BY DEF Chained
  <2>2. n \in Nat /\ q \in Nat /\ p \in Nat
    BY <1>1, <1>2, <2>1 DEF Header
  <2>. QED  BY <1>1, <1>2, <2>1, <2>2 DEF Linked
<1>4. s = [x \in D \ {q} |->
             IF x = p THEN [m[p] EXCEPT !.next = n]
             ELSE IF x = n THEN [m[n] EXCEPT !.prev = p] ELSE m[x]]
  <2>1. PICK t : t = [x \in D \ {q} |-> IF x = p THEN [m[p] EXCEPT !.next = n] ELSE m[x]]
    OBVIOUS
  <2>2. HP!Restrict([m EXCEPT ![p].next = n], D \ {q}) = t
    BY <1>3, <2>1 DEF HP!Restrict, Chained
  <2>3. s = HP!SetPrev(t, n, p)
    BY <1>1, <2>2 DEF HP!Merge
  <2>4. CASE n = HP!heap_end
    <3>1. s = t
      BY <2>3, <2>4 DEF HP!SetPrev
    <3>2. n \notin D
      BY <1>3, <2>4
    <3>. QED  BY <2>1, <3>1, <3>2
  <2>5. CASE n # HP!heap_end
    <3>1. s = [t EXCEPT ![n].prev = p]
      BY <2>3, <2>5 DEF HP!SetPrev
    <3>2. n \in D \ {q} /\ n # p /\ t[n] = m[n]
      BY <1>3, <2>1, <2>5
    <3>. QED  BY <2>1, <3>1, <3>2
  <2>. QED  BY <2>4, <2>5
<1>5. /\ DOMAIN s = D \ {q} /\ s = [x \in DOMAIN s |-> s[x]] /\ p \in DOMAIN s
      /\ s[p] = [m[p] EXCEPT !.next = n]
      /\ n \in D => s[n] = [m[n] EXCEPT !.prev = p]
      /\ \A x \in D \ {p, q, n} : s[x] = m[x]
  BY <1>3, <1>4
<1>6. /\ s[p].used = m[p].used /\ s[p].next = n /\ s[p].prev = m[p].prev
      /\ n \in D => s[n].used = m[n].used /\ s[n].next = m[n].next /\ s[n].prev = p
      /\ \A x \in D \ {p, q, n} : /\ s[x].used = m[x].used /\ s[x].next = m[x].next
                                  /\ s[x].prev = m[x].prev
  BY <1>3, <1>5 DEF Header
<1>7. \A x \in D \ {q} : s[x] \in Header
  <2>1. s[p] \in Header
    BY <1>3, <1>5 DEF Header
  <2>2. n \in D => s[n] \in Header
    BY <1>3, <1>5 DEF Header
  <2>. QED  BY <1>3, <1>5, <2>1, <2>2
<1>8. ASSUME NEW x \in D \ {p, q} PROVE SameBlock(m, s, x)
  BY <1>6 DEF SameBlock
<1>9. ASSUME NEW x \in D \ {q} PROVE Linked(s, x)
  <2>1. CASE x = p
    <3>1. p # 0 => m[p].prev \in D /\ m[m[p].prev].next = p
      BY <1>2 DEF Linked
    <3>2. p # 0 => m[p].prev # p /\ m[p].prev # q
      BY <1>1, <1>3, <3>1
    <3>3. p # 0 => s[p].prev \in DOMAIN s /\ s[s[p].prev].next = p
      BY <1>5, <1>6, <3>1, <3>2
    <3>4. \A y \in DOMAIN s : y <= p \/ s[p].next <= y
      BY <1>3, <1>5, <1>6
    <3>5. n # HP!heap_end => n \in DOMAIN s /\ s[n].prev = p
      BY <1>3, <1>5, <1>6
    <3>. QED  BY <1>3, <1>6, <2>1, <3>3, <3>4, <3>5 DEF Linked
  <2>2. CASE x # p
    <3>1. Linked(m, x) /\ s[x].next = m[x].next
      BY <1>6, <2>2 DEF Chained
    <3>2. s[x].next # HP!heap_end => s[x].next \in DOMAIN s /\ s[s[x].next].prev = x
      <4>. SUFFICES ASSUME s[x].next # HP!heap_end
                    PROVE  s[x].next \in DOMAIN s /\ s[s[x].next].prev = x
        OBVIOUS
      <4>1. PICK y : y = m[x].next
        OBVIOUS
      <4>2. y \in D /\ m[y].prev = x
        BY <3>1, <4>1 DEF Linked
      <4>3. y # q /\ y # n
        BY <1>2, <1>3, <2>2, <4>2
      <4>4. s[y].prev = m[y].prev
        BY <1>6, <4>2, <4>3
      <4>. QED  BY <1>5, <3>1, <4>1, <4>2, <4>3, <4>4
    <3>3. \A y \in DOMAIN s : y <= x \/ s[x].next <= y
      BY <1>5, <3>1 DEF Linked
    <3>4. x # 0 => s[x].prev \in DOMAIN s /\ s[s[x].prev].next = x
      <4>. SUFFICES ASSUME x # 0 PROVE s[x].prev \in DOMAIN s /\ s[s[x].prev].next = x
        OBVIOUS
      <4>1. CASE x = n
        BY <1>5, <1>6, <4>1
      <4>2. CASE x # n
        <5>1. PICK r : r = m[x].prev
          OBVIOUS
        <5>2. r \in D /\ m[r].next = x
          BY <3>1, <5>1 DEF Linked
        <5>3. r # p /\ r # q /\ s[x].prev = r
          BY <1>1, <1>6, <2>2, <4>2, <5>1, <5>2
        <5>4. s[r].next = m[r].next
          BY <1>6, <5>2, <5>3
        <5>. QED  BY <1>5, <5>2, <5>3, <5>4
      <4>. QED  BY <4>1, <4>2
    <3>. QED  BY <3>1, <3>2, <3>3, <3>4 DEF Linked
  <2>. QED  BY <2>1, <2>2
<1>10. DOMAIN s \subseteq 0 .. HP!heap_end - 1 /\ 0 \in DOMAIN s
  BY <1>3, <1>5 DEF Chained
<1>11. s[0].prev = 0
  <2>1. 0 \in D /\ m[0].prev = 0 /\ 0 # n /\ 0 # q
    BY <1>3 DEF Chained
  <2>. QED  BY <1>6, <2>1
<1>12. Chained(s)
  BY <1>5, <1>7, <1>9, <1>10, <1>11 DEF Chained
<1>. QED  BY <1>1, <1>2, <1>3, <1>5, <1>6, <1>8, <1>12 DEF IsMerge

\* The flag of a block is set or cleared.
Mark(m, p, b) == [m EXCEPT ![p].used = b]
LEMMA MarkIs ==
    ASSUME NEW m, Chained(m), NEW p \in DOMAIN m, NEW b \in BOOLEAN,
           NEW s, s = Mark(m, p, b)
    PROVE  /\ Chained(s) /\ DOMAIN s = DOMAIN m
           /\ s[p].used = b /\ s[p].next = m[p].next
           /\ \A x \in DOMAIN m \ {p} : SameBlock(m, s, x)
<1>1. \A x \in DOMAIN m : m[x] \in Header
  BY DEF Chained
<1>2. /\ DOMAIN s = DOMAIN m /\ s = [x \in DOMAIN s |-> s[x]]
      /\ s[p] = [m[p] EXCEPT !.used = b] /\ \A x \in DOMAIN m \ {p} : s[x] = m[x]
  BY DEF Chained, Mark
<1>3. /\ s[p].used = b /\ s[p].next = m[p].next /\ s[p].prev = m[p].prev /\ s[p] \in Header
  BY <1>1, <1>2 DEF Header
<1>4. \A x \in DOMAIN m : s[x].next = m[x].next /\ s[x].prev = m[x].prev /\ s[x] \in Header
  BY <1>1, <1>2, <1>3
<1>5. \A x \in DOMAIN m : Linked(s, x)
  BY <1>2, <1>4 DEF Chained, Linked
<1>6. Chained(s)
  BY <1>2, <1>4, <1>5 DEF Chained
<1>. QED  BY <1>2, <1>3, <1>6 DEF SameBlock

-----------------------------------------------------------------------------
(* plug_holes *)

\* The used blocks of m and of s are the same, and of the same size.
KeepsUsed(m, s) ==
    /\ \A x \in DOMAIN m : m[x].used => x \in DOMAIN s /\ SameBlock(m, s, x)
    /\ \A x \in DOMAIN s : x \in DOMAIN m /\ (s[x].used => m[x].used)

\* lf is a free block or heap_end; no free block lies below it.
IsFree(m, lf) == lf = HP!heap_end \/ (lf \in DOMAIN m /\ ~m[lf].used)
IsLowest(m, lf) == \A x \in DOMAIN m : m[x].used \/ lf <= x

\* lfree after a merge is as good as lf before.
KeepsFree(m, lf, s, lg) ==
    /\ IsFree(m, lf) => IsFree(s, lg)
    /\ IsFree(m, lf) /\ IsLowest(m, lf) => IsLowest(s, lg)

\* The first half: the block behind p is merged into it if it is free.
LEMMA PlugForwardIs ==
    ASSUME NEW m, Chained(m), NEW lf, NEW p \in DOMAIN m, ~m[p].used,
           \A x \in DOMAIN m : x = p \/ m[x].next = p \/ NoHole(m, x),
           NEW h, h = [mem |-> m, lfree |-> lf], NEW f, f = HP!PlugForward(h, p)
    PROVE  /\ f = [mem |-> f.mem, lfree |-> f.lfree]
           /\ Chained(f.mem) /\ p \in DOMAIN f.mem /\ ~f.mem[p].used
           /\ \A x \in DOMAIN f.mem : f.mem[x].next = p \/ NoHole(f.mem, x)
           /\ KeepsUsed(m, f.mem) /\ KeepsFree(m, lf, f.mem, f.lfree)
<1>. HEADER \in Nat \ {0} /\ HP!heap_end \in Nat
  BY HeapNumbers
<1>1. PICK n : n = m[p].next
  OBVIOUS
<1>2. h.mem = m /\ h.lfree = lf
  OBVIOUS
<1>3. CASE n = HP!heap_end \/ m[n].used
  <2>1. f = h
    BY <1>1, <1>2, <1>3 DEF HP!PlugForward
  <2>2. NoHole(m, p)
    BY <1>1, <1>3 DEF NoHole
  <2>3. KeepsUsed(m, m) /\ KeepsFree(m, lf, m, lf)
    BY DEF KeepsUsed, SameBlock, KeepsFree
  <2>. QED  BY <1>2, <2>1, <2>2, <2>3
<1>4. CASE n # HP!heap_end /\ ~m[n].used
  <2>1. PICK s : s = HP!Merge(m, p, n)
    OBVIOUS
  <2>2. f = [mem |-> s, lfree |-> IF lf = n THEN p ELSE lf]
    BY <1>1, <1>2, <1>4, <2>1 DEF HP!PlugForward
  <2>3. /\ Chained(s) /\ DOMAIN s = DOMAIN m \ {n} /\ n \in DOMAIN m /\ p \in DOMAIN s /\ p < n
        /\ s[p].used = m[p].used /\ s[p].next = m[n].next
        /\ \A x \in DOMAIN s \ {p} : SameBlock(m, s, x)
    <3>1. CanMerge(m, p, n)
      BY <1>1, <1>4 DEF CanMerge
    <3>2. IsMerge(m, s, p, n)
      BY <2>1, <3>1, MergeIs
    <3>. QED  BY <3>2 DEF IsMerge
  <2>4. Linked(m, n) /\ Linked(m, p) /\ DOMAIN m \subseteq Nat
    BY <2>3 DEF Chained
  <2>5. m[n].next # p /\ m[n].next # n /\ n \in Nat /\ p \in Nat
    BY <2>3, <2>4 DEF Linked
  <2>6. NoHole(m, n)
    BY <2>3, <2>5
  <2>7. NoHole(s, p)
    <3>1. m[n].next # HP!heap_end => m[n].next \in DOMAIN s \ {p} /\ m[m[n].next].used
      BY <1>4, <2>3, <2>4, <2>5, <2>6 DEF NoHole, Linked
    <3>. QED  BY <2>3, <3>1 DEF NoHole, SameBlock
  <2>8. ASSUME NEW x \in DOMAIN s, x # p PROVE s[x].next = p \/ NoHole(s, x)
    <3>1. s[x].next = m[x].next /\ s[x].used = m[x].used /\ x \in DOMAIN m /\ Linked(m, x)
      BY <2>3, <2>8 DEF SameBlock, Chained
    <3>2. PICK y : y = m[x].next
      OBVIOUS
    <3>3. y # HP!heap_end => y \in DOMAIN m /\ m[y].prev = x
      BY <3>1, <3>2 DEF Linked
    <3>4. m[n].prev = p
      BY <1>1, <1>4, <2>4 DEF Linked
    <3>5. y # n
      BY <1>4, <2>8, <3>3, <3>4
    <3>6. CASE y = p
      BY <3>1, <3>2, <3>6
    <3>7. CASE y # p
      <4>1. NoHole(m, x)
        BY <2>8, <3>1, <3>2, <3>7
      <4>2. y # HP!heap_end => s[y].used = m[y].used
        BY <2>3, <3>3, <3>5, <3>7 DEF SameBlock
      <4>. QED  BY <3>1, <3>2, <4>1, <4>2 DEF NoHole
    <3>. QED  BY <3>6, <3>7
  <2>9. KeepsUsed(m, s)
    BY <1>4, <2>3 DEF KeepsUsed, SameBlock
  <2>10. KeepsFree(m, lf, s, IF lf = n THEN p ELSE lf)
    <3>1. ASSUME IsFree(m, lf) PROVE IsFree(s, IF lf = n THEN p ELSE lf)
      BY <2>3, <3>1 DEF IsFree, SameBlock
    <3>2. ASSUME IsLowest(m, lf) PROVE IsLowest(s, IF lf = n THEN p ELSE lf)
      <4>1. lf # n
        BY <2>3, <2>5, <3>2 DEF IsLowest
      <4>. QED  BY <2>3, <3>2, <4>1 DEF IsLowest, SameBlock
    <3>. QED  BY <3>1, <3>2 DEF KeepsFree
  <2>. QED  BY <2>2, <2>3, <2>7, <2>8, <2>9, <2>10
<1>. QED  BY <1>3, <1>4

\* The second half: p is merged into the block before it if that is free.
LEMMA PlugBackwardIs ==
    ASSUME NEW m, Chained(m), NEW lf, NEW p \in DOMAIN m, ~m[p].used,
           \A x \in DOMAIN m : m[x].next = p \/ NoHole(m, x),
           NEW h, h = [mem |-> m, lfree |-> lf], NEW f, f = HP!PlugBackward(h, p)
    PROVE  /\ Chained(f.mem) /\ \A x \in DOMAIN f.mem : NoHole(f.mem, x)
           /\ KeepsUsed(m, f.mem) /\ KeepsFree(m, lf, f.mem, f.lfree)
<1>. HEADER \in Nat \ {0} /\ HP!heap_end \in Nat
  BY HeapNumbers
<1>1. PICK q : q = m[p].prev
  OBVIOUS
<1>2. h.mem = m /\ h.lfree = lf
  OBVIOUS
<1>3. Linked(m, p) /\ DOMAIN m \subseteq Nat /\ p \in Nat /\ m[p].next \in Nat
  BY DEF Chained, Header
<1>4. q = p <=> p = 0
  BY <1>1, <1>3 DEF Linked, Chained
<1>5. ASSUME NEW x \in DOMAIN m, m[x].next = p PROVE x = q /\ p # 0
  <2>1. Linked(m, x) /\ p # HP!heap_end
    BY DEF Chained
  <2>. QED  BY <1>1, <1>3, <1>5, <2>1 DEF Linked
<1>6. CASE q = p \/ m[q].used
  <2>1. f = h
    BY <1>1, <1>2, <1>6 DEF HP!PlugBackward
  <2>2. ASSUME NEW x \in DOMAIN m PROVE NoHole(m, x)
    <3>1. CASE m[x].next = p
      BY <1>4, <1>5, <1>6, <3>1 DEF NoHole
    <3>. QED  BY <3>1
  <2>3. KeepsUsed(m, m) /\ KeepsFree(m, lf, m, lf)
    BY DEF KeepsUsed, SameBlock, KeepsFree
  <2>. QED  BY <1>2, <2>1, <2>2, <2>3
<1>7. CASE q # p /\ ~m[q].used
  <2>1. PICK s : s = HP!Merge(m, q, p)
    OBVIOUS
  <2>2. f = [mem |-> s, lfree |-> IF lf = p THEN q ELSE lf]
    BY <1>1, <1>2, <1>7, <2>1 DEF HP!PlugBackward
  <2>3. q \in DOMAIN m /\ m[q].next = p /\ p # HP!heap_end
    BY <1>1, <1>3, <1>4, <1>7 DEF Linked, Chained
  <2>4. /\ Chained(s) /\ DOMAIN s = DOMAIN m \ {p} /\ q \in DOMAIN s /\ q < p
        /\ s[q].used = m[q].used /\ s[q].next = m[p].next
        /\ \A x \in DOMAIN s \ {q} : SameBlock(m, s, x)
    <3>1. CanMerge(m, q, p)
      BY <2>3 DEF CanMerge
    <3>2. IsMerge(m, s, q, p)
      BY <2>1, <3>1, MergeIs
    <3>. QED  BY <3>2 DEF IsMerge
  <2>5. m[p].next # p /\ m[p].next # q
    BY <1>3, <2>4 DEF Linked
  <2>6. NoHole(m, p)
    BY <2>5
  <2>7. NoHole(s, q)
    <3>1. m[p].next # HP!heap_end => m[p].next \in DOMAIN s \ {q} /\ m[m[p].next].used
      BY <1>3, <2>4, <2>5, <2>6 DEF NoHole, Linked
    <3>. QED  BY <2>4, <3>1 DEF NoHole, SameBlock
  <2>8. ASSUME NEW x \in DOMAIN s, x # q PROVE NoHole(s, x)
    <3>1. s[x].next = m[x].next /\ s[x].used = m[x].used /\ x \in DOMAIN m /\ Linked(m, x)
      BY <2>4, <2>8 DEF SameBlock, Chained
    <3>2. PICK y : y = m[x].next
      OBVIOUS
    <3>3. y # p
      BY <1>5, <2>8, <3>1, <3>2
    <3>4. y # HP!heap_end => y \in DOMAIN s
      BY <2>4, <3>1, <3>2, <3>3 DEF Linked
    <3>5. NoHole(m, x)
      BY <3>1, <3>2, <3>3
    <3>6. y # HP!heap_end => s[y].used = m[y].used
      BY <2>4, <3>4 DEF SameBlock
    <3>. QED  BY <3>1, <3>2, <3>5, <3>6 DEF NoHole
  <2>9. KeepsUsed(m, s)
    BY <1>7, <2>4 DEF KeepsUsed, SameBlock
  <2>10. KeepsFree(m, lf, s, IF lf = p THEN q ELSE lf)
    <3>1. ASSUME IsFree(m, lf) PROVE IsFree(s, IF lf = p THEN q ELSE lf)
      BY <1>7, <2>4, <3>1 DEF IsFree, SameBlock
    <3>2. ASSUME IsLowest(m, lf) PROVE IsLowest(s, IF lf = p THEN q ELSE lf)
      <4>1. lf # p
        BY <1>3, <1>7, <2>3, <2>4, <3>2 DEF IsLowest
      <4>. QED  BY <1>7, <2>4, <3>2, <4>1 DEF IsLowest, SameBlock
    <3>. QED  BY <3>1, <3>2 DEF KeepsFree
  <2>. QED  BY <2>2, <2>4, <2>7, <2>8, <2>9, <2>10
<1>. QED  BY <1>6, <1>7

\* Both halves: no hole is left next to another.
LEMMA PlugHolesIs ==
    ASSUME NEW m, Chained(m), NEW lf, NEW p \in DOMAIN m, ~m[p].used,
           \A x \in DOMAIN m : x = p \/ m[x].next = p \/ NoHole(m, x),
           NEW h, h = [mem |-> m, lfree |-> lf], NEW f, f = HP!plug_holes(h, p)
    PROVE  /\ Chained(f.mem) /\ \A x \in DOMAIN f.mem : NoHole(f.mem, x)
           /\ KeepsUsed(m, f.mem) /\ KeepsFree(m, lf, f.mem, f.lfree)
<1>1. PICK g : g = HP!PlugForward(h, p)
  OBVIOUS
<1>2. PICK s, lg : s = g.mem /\ lg = g.lfree
  OBVIOUS
<1>3. /\ g = [mem |-> s, lfree |-> lg]
      /\ Chained(s) /\ p \in DOMAIN s /\ ~s[p].used
      /\ \A x \in DOMAIN s : s[x].next = p \/ NoHole(s, x)
      /\ KeepsUsed(m, s) /\ KeepsFree(m, lf, s, lg)
  BY <1>1, <1>2, PlugForwardIs
<1>4. f = HP!PlugBackward(g, p)
  BY <1>1 DEF HP!plug_holes
<1>5. /\ Chained(f.mem) /\ \A x \in DOMAIN f.mem : NoHole(f.mem, x)
      /\ KeepsUsed(s, f.mem) /\ KeepsFree(s, lg, f.mem, f.lfree)
  BY <1>3, <1>4, PlugBackwardIs
<1>6. KeepsUsed(m, f.mem)
  <2>1. ASSUME NEW x \in DOMAIN m, m[x].used PROVE x \in DOMAIN f.mem /\ SameBlock(m, f.mem, x)
    <3>1. x \in DOMAIN s /\ SameBlock(m, s, x)
      BY <1>3, <2>1 DEF KeepsUsed
    <3>2. s[x].used
      BY <2>1, <3>1 DEF SameBlock
    <3>3. x \in DOMAIN f.mem /\ SameBlock(s, f.mem, x)
      BY <1>5, <3>1, <3>2 DEF KeepsUsed
    <3>. QED  BY <3>1, <3>3 DEF SameBlock
  <2>2. \A x \in DOMAIN f.mem : x \in DOMAIN m /\ (f.mem[x].used => m[x].used)
    BY <1>3, <1>5 DEF KeepsUsed
  <2>. QED  BY <2>1, <2>2 DEF KeepsUsed
<1>7. KeepsFree(m, lf, f.mem, f.lfree)
  BY <1>3, <1>5 DEF KeepsFree
<1>. QED  BY <1>5, <1>6, <1>7

-----------------------------------------------------------------------------
(* The heap *)

\* The used blocks.
Used(m) == {p \in DOMAIN m : m[p].used}

\* The part of the invariant about the heap itself: it is tiled, no two holes are
\* neighbours, lfree and used_mem are right.
Heaped(m, lf, sh, um) ==
    /\ Chained(m) /\ \A p \in DOMAIN m : NoHole(m, p)
    /\ IsFree(m, lf) /\ (sh \/ IsLowest(m, lf))
    /\ um = BlockSum(m, Used(m))

\* The least and the greatest element of the model's sets.
LEMMA HeapMinMax ==
    /\ \A S \in SUBSET Nat : S # {} => HP!Min(S) \in S /\ \A y \in S : HP!Min(S) <= y
    /\ \A n \in Nat : HP!Padded(n) \in Nat /\ n <= HP!Padded(n)
<1>1. \A S \in SUBSET Nat : S # {} => HP!Min(S) \in S /\ \A y \in S : HP!Min(S) <= y
  <2>1. ASSUME NEW S \in SUBSET Nat, S # {} PROVE HP!Min(S) \in S /\ \A y \in S : HP!Min(S) <= y
    <3>1. HP!Min(S) = Min(S)
      BY DEF HP!Min, Min
    <3>. QED  BY <2>1, <3>1, MinProperties
  <2>. QED  BY <2>1
<1>2. ASSUME NEW n \in Nat PROVE HP!Padded(n) \in Nat /\ n <= HP!Padded(n)
  <2>1. MIN_SIZE \in Nat
    BY HeapNumbers
  <2>2. PICK S : S = {n, MIN_SIZE}
    OBVIOUS
  <2>3. \E x \in S : \A y \in S : x >= y
    BY <2>1, <2>2
  <2>4. HP!Padded(n) = CHOOSE x \in S : \A y \in S : x >= y
    BY <2>2 DEF HP!Padded, HP!Max
  <2>5. HP!Padded(n) \in S /\ \A y \in S : HP!Padded(n) >= y
    BY <2>3, <2>4
  <2>. QED  BY <2>1, <2>2, <2>5
<1>. QED  BY <1>1, <1>2

\* The used blocks are finitely many, and each takes a number.
LEMMA UsedFinite ==
    ASSUME NEW m, Chained(m), NEW S \in SUBSET DOMAIN m
    PROVE  IsFiniteSet(S) /\ Valued(m, S)
<1>. HEADER \in Nat \ {0} /\ HP!heap_end \in Nat
  BY HeapNumbers
<1>1. S \in SUBSET Nat /\ \A x \in S : x <= HP!heap_end
  BY DEF Chained
<1>2. IsFiniteSet(S)
  BY <1>1, FS_BoundedSetOfNaturals
<1>3. Valued(m, S)
  BY <1>1 DEF Valued, Takes, Chained, Header
<1>. QED  BY <1>2, <1>3

\* One more block is used in s than in m: what the others take is as before.
OneMore(m, s, p) ==
    /\ p \in DOMAIN s /\ p \notin Used(m) /\ Used(s) = Used(m) \cup {p}
    /\ \A x \in Used(m) : SameBlock(m, s, x)
LEMMA SumWithOneMore ==
    ASSUME NEW m, Chained(m), NEW s, Chained(s), NEW p, OneMore(m, s, p)
    PROVE  /\ BlockSum(m, Used(m)) \in Int
           /\ BlockSum(s, Used(s)) = BlockSum(m, Used(m)) + s[p].next - p
<1>1. /\ IsFiniteSet(Used(s)) /\ Valued(s, Used(s))
      /\ IsFiniteSet(Used(m)) /\ Valued(m, Used(m))
  BY UsedFinite DEF Used
<1>2. p \in Used(s) /\ Used(s) \ {p} = Used(m)
  BY DEF OneMore
<1>3. BlockSum(s, Used(s)) = Takes(s, p) + BlockSum(s, Used(m))
  BY <1>1, <1>2, BlockSums
<1>4. BlockSum(m, Used(m)) \in Int /\ BlockSum(m, Used(m)) = BlockSum(s, Used(m))
  <2>1. \A x \in Used(m) : Takes(m, x) = Takes(s, x)
    BY DEF OneMore, SameBlock, Takes
  <2>. QED  BY <1>1, <2>1, BlockSums
<1>5. s[p].next \in Nat /\ p \in Nat
  BY DEF OneMore, Chained, Header
<1>. QED  BY <1>3, <1>4, <1>5 DEF Takes

\* rt_malloc takes a block.
LEMMA AllocatesIs ==
    ASSUME Heaped(mem, lfree, shrunk, used_mem), NEW p, NEW n \in Nat, HP!Allocates(p, n)
    PROVE  /\ Heaped(mem', lfree', shrunk, used_mem')
           /\ p \in DOMAIN mem /\ p \notin Used(mem) /\ Used(mem') = Used(mem) \cup {p}
           /\ \A x \in Used(mem) : SameBlock(mem, mem', x)
           /\ mem'[p].next - (p + HEADER) >= n
<1>. HEADER \in Nat \ {0} /\ HP!heap_end \in Nat /\ MIN_SIZE \in Nat
  BY HeapNumbers
<1>1. Chained(mem) /\ (\A x \in DOMAIN mem : NoHole(mem, x)) /\ IsFree(mem, lfree)
  BY DEF Heaped
<1>2. PICK size \in Nat : size = HP!Padded(n) /\ n <= size
  BY HeapMinMax
<1>3. PICK F : F = HP!Fits(size)
  OBVIOUS
<1>4. /\ F # {} /\ p = HP!Min(F) /\ mem' = HP!Taken(p, size)
      /\ lfree' = (IF p = lfree THEN HP!FreeFrom(mem', lfree) ELSE lfree)
      /\ used_mem' = used_mem + mem'[p].next - p
  BY <1>2, <1>3 DEF HP!Allocates
<1>5. DOMAIN mem \subseteq Nat /\ \A x \in DOMAIN mem : mem[x].next \in Nat /\ x < HP!heap_end
  BY <1>1 DEF Chained, Header
<1>6. F \in SUBSET Nat
  BY <1>3, <1>5 DEF HP!Fits
<1>7. p \in F
  BY <1>4, <1>6, HeapMinMax
<1>8. /\ p \in DOMAIN mem /\ lfree <= p /\ ~mem[p].used
      /\ mem[p].next - (p + HEADER) >= size /\ p \in Nat
  BY <1>3, <1>5, <1>7 DEF HP!Fits, HP!Room
<1>9. PICK m1 : m1 = [mem EXCEPT ![p].used = TRUE]
  OBVIOUS
<1>10. /\ Chained(m1) /\ DOMAIN m1 = DOMAIN mem
       /\ m1[p].used = TRUE /\ m1[p].next = mem[p].next
       /\ \A x \in DOMAIN mem \ {p} : SameBlock(mem, m1, x)
  <2>1. PICK b \in BOOLEAN : b = TRUE
    OBVIOUS
  <2>2. m1 = Mark(mem, p, b)
    BY <1>9, <2>1 DEF Mark
  <2>3. /\ Chained(m1) /\ DOMAIN m1 = DOMAIN mem
        /\ m1[p].used = b /\ m1[p].next = mem[p].next
        /\ \A x \in DOMAIN mem \ {p} : SameBlock(mem, m1, x)
    BY <1>1, <1>8, <2>2, MarkIs
  <2>. QED  BY <2>1, <2>3
<1>11. PICK s : s = mem'
  OBVIOUS
<1>12. s = IF m1[p].next - (p + HEADER) >= size + HEADER + MIN_SIZE THEN HP!Split(m1, p, size) ELSE m1
  BY <1>4, <1>9, <1>11 DEF HP!Taken, HP!Room
<1>13. /\ Chained(s) /\ DOMAIN mem \subseteq DOMAIN s /\ s[p].used = TRUE
       /\ \A x \in DOMAIN mem \ {p} : SameBlock(mem, s, x)
       /\ \A x \in DOMAIN s \ DOMAIN mem : ~s[x].used /\ s[x].next = mem[p].next /\ p < x
       /\ s[p].next - (p + HEADER) >= n
  <2>1. CASE m1[p].next - (p + HEADER) >= size + HEADER + MIN_SIZE
    <3>1. PICK q : q = p + HEADER + size
      OBVIOUS
    <3>2. CanSplit(m1, p, size, q) /\ p < q
      BY <1>2, <1>5, <1>8, <1>10, <2>1, <3>1 DEF CanSplit
    <3>3. s = HP!Split(m1, p, size) /\ p \in DOMAIN m1
      BY <1>8, <1>10, <1>12, <2>1
    <3>4. IsSplit(m1, s, p, q)
      BY <1>10, <3>2, <3>3, SplitIs
    <3>5. s[p].next - (p + HEADER) >= n
      BY <1>2, <1>8, <3>1, <3>4 DEF IsSplit
    <3>6. \A x \in DOMAIN mem \ {p} : SameBlock(mem, s, x)
      BY <1>10, <3>4 DEF SameBlock, IsSplit
    <3>. QED  BY <1>10, <3>2, <3>4, <3>5, <3>6 DEF IsSplit
  <2>2. CASE ~(m1[p].next - (p + HEADER) >= size + HEADER + MIN_SIZE)
    <3>1. s = m1
      BY <1>12, <2>2
    <3>2. s[p].next - (p + HEADER) >= n
      BY <1>2, <1>5, <1>8, <1>10, <3>1
    <3>. QED  BY <1>10, <3>1, <3>2
  <2>. QED  BY <2>1, <2>2
<1>14. ASSUME NEW x \in DOMAIN s PROVE NoHole(s, x)
  <2>1. CASE x = p
    BY <1>13, <2>1 DEF NoHole
  <2>2. CASE x \in DOMAIN mem \ {p}
    <3>1. Linked(mem, x) /\ NoHole(mem, x)
      BY <1>1, <2>2 DEF Chained
    <3>2. mem[x].next # HP!heap_end => mem[x].next \in DOMAIN mem
      BY <3>1 DEF Linked
    <3>. QED  BY <1>8, <1>13, <2>2, <3>1, <3>2 DEF NoHole, SameBlock
  <2>3. CASE x \in DOMAIN s \ DOMAIN mem
    <3>1. Linked(mem, p) /\ NoHole(mem, p)
      BY <1>1, <1>8 DEF Chained
    <3>2. mem[p].next # HP!heap_end => mem[p].next \in DOMAIN mem \ {p} /\ mem[mem[p].next].used
      BY <1>5, <1>8, <3>1 DEF Linked, NoHole
    <3>. QED  BY <1>13, <2>3, <3>2 DEF NoHole, SameBlock
  <2>. QED  BY <2>1, <2>2, <2>3
<1>15. Used(s) = Used(mem) \cup {p} /\ p \notin Used(mem) /\ p \in DOMAIN s
  BY <1>8, <1>13 DEF Used, SameBlock
<1>16. \A x \in Used(mem) : SameBlock(mem, s, x)
  BY <1>8, <1>13 DEF Used
<1>17. IsFree(s, lfree') /\ (IsLowest(mem, lfree) => IsLowest(s, lfree'))
  <2>1. CASE p = lfree
    <3>1. PICK S : S = {q \in DOMAIN s : q >= lfree /\ ~s[q].used} \cup {HP!heap_end}
      OBVIOUS
    <3>2. lfree' = HP!Min(S)
      BY <1>4, <1>11, <2>1, <3>1 DEF HP!FreeFrom
    <3>3. S \in SUBSET Nat /\ S # {}
      BY <1>13, <3>1 DEF Chained
    <3>4. lfree' \in S /\ \A y \in S : lfree' <= y
      BY <3>2, <3>3, HeapMinMax
    <3>5. IsFree(s, lfree')
      BY <3>1, <3>4 DEF IsFree
    <3>6. ASSUME IsLowest(mem, lfree), NEW x \in DOMAIN s, ~s[x].used PROVE lfree' <= x
      <4>2. x \in Nat /\ lfree \in Nat
        BY <1>8, <1>13, <2>1 DEF Chained
      <4>1. lfree <= x
        <5>1. CASE x \in DOMAIN mem \ {p}
          BY <1>13, <3>6, <5>1 DEF IsLowest, SameBlock
        <5>2. CASE x \notin DOMAIN mem
          BY <1>13, <2>1, <4>2, <5>2
        <5>. QED  BY <2>1, <4>2, <5>1, <5>2
      <4>3. x \in S
        BY <3>1, <3>6, <4>1, <4>2
      <4>. QED  BY <3>4, <4>3
    <3>. QED  BY <3>5, <3>6 DEF IsLowest
  <2>2. CASE p # lfree
    <3>1. lfree' = lfree
      BY <1>4, <2>2
    <3>2. IsFree(s, lfree)
      BY <1>1, <1>13, <2>2 DEF IsFree, SameBlock
    <3>3. ASSUME IsLowest(mem, lfree), NEW x \in DOMAIN s, ~s[x].used PROVE lfree <= x
      <4>1. CASE x \in DOMAIN mem
        BY <1>13, <3>3, <4>1 DEF IsLowest, SameBlock
      <4>2. CASE x \notin DOMAIN mem
        <5>1. p < x /\ x \in Nat
          BY <1>13, <4>2 DEF Chained
        <5>2. lfree \in Nat
          BY <1>1, <1>5 DEF IsFree
        <5>. QED  BY <1>8, <5>1, <5>2
      <4>. QED  BY <4>1, <4>2
    <3>. QED  BY <3>1, <3>2, <3>3 DEF IsLowest
  <2>. QED  BY <2>1, <2>2
<1>18. used_mem' = BlockSum(s, Used(s))
  <2>1. /\ BlockSum(mem, Used(mem)) \in Int
        /\ BlockSum(s, Used(s)) = BlockSum(mem, Used(mem)) + s[p].next - p
    <3>1. OneMore(mem, s, p)
      BY <1>15, <1>16 DEF OneMore
    <3>. QED  BY <1>1, <1>13, <3>1, SumWithOneMore
  <2>2. used_mem = BlockSum(mem, Used(mem))
    BY DEF Heaped
  <2>. QED  BY <1>4, <1>11, <2>1, <2>2
<1>19. Heaped(s, lfree', shrunk, used_mem')
  BY <1>13, <1>14, <1>17, <1>18 DEF Heaped
<1>. QED  BY <1>8, <1>11, <1>13, <1>15, <1>16, <1>19

\* rt_free gives a block back.
LEMMA FreesIs ==
    ASSUME Heaped(mem, lfree, shrunk, used_mem), NEW p \in Used(mem), HP!Frees(p)
    PROVE  /\ Heaped(mem', lfree', shrunk, used_mem')
           /\ Used(mem') = Used(mem) \ {p}
           /\ \A x \in Used(mem) \ {p} : SameBlock(mem, mem', x)
<1>. HEADER \in Nat \ {0} /\ HP!heap_end \in Nat
  BY HeapNumbers
<1>1. /\ Chained(mem) /\ (\A x \in DOMAIN mem : NoHole(mem, x)) /\ IsFree(mem, lfree)
      /\ (shrunk \/ IsLowest(mem, lfree)) /\ used_mem = BlockSum(mem, Used(mem))
  BY DEF Heaped
<1>2. p \in DOMAIN mem /\ mem[p].used
  BY DEF Used
<1>3. /\ DOMAIN mem \subseteq Nat /\ p \in Nat /\ mem[p].next \in Nat /\ p < HP!heap_end
  BY <1>1, <1>2 DEF Chained, Header
<1>4. lfree \in Nat
  BY <1>1, <1>3 DEF IsFree
<1>5. PICK m1 : m1 = [mem EXCEPT ![p].used = FALSE]
  OBVIOUS
<1>6. PICK lf : lf = IF p < lfree THEN p ELSE lfree
  OBVIOUS
<1>7. /\ Chained(m1) /\ DOMAIN m1 = DOMAIN mem
      /\ ~m1[p].used /\ m1[p].next = mem[p].next
      /\ \A x \in DOMAIN mem \ {p} : SameBlock(mem, m1, x)
  <2>1. PICK b \in BOOLEAN : b = FALSE
    OBVIOUS
  <2>2. m1 = Mark(mem, p, b)
    BY <1>5, <2>1 DEF Mark
  <2>3. /\ Chained(m1) /\ DOMAIN m1 = DOMAIN mem
        /\ m1[p].used = b /\ m1[p].next = mem[p].next
        /\ \A x \in DOMAIN mem \ {p} : SameBlock(mem, m1, x)
    BY <1>1, <1>2, <2>2, MarkIs
  <2>. QED  BY <2>1, <2>3
<1>8. PICK h : h = [mem |-> m1, lfree |-> lf]
  OBVIOUS
<1>9. PICK f : f = HP!plug_holes(h, p)
  OBVIOUS
<1>10. /\ mem' = f.mem /\ lfree' = f.lfree /\ used_mem' = used_mem - (mem[p].next - p)
  BY <1>5, <1>6, <1>8, <1>9 DEF HP!Frees
<1>11. \A x \in DOMAIN m1 : x = p \/ m1[x].next = p \/ NoHole(m1, x)
  <2>1. ASSUME NEW x \in DOMAIN m1, x # p, m1[x].next # p PROVE NoHole(m1, x)
    <3>1. Linked(mem, x) /\ NoHole(mem, x)
      BY <1>1, <1>7 DEF Chained
    <3>2. mem[x].next # HP!heap_end => mem[x].next \in DOMAIN mem
      BY <3>1 DEF Linked
    <3>. QED  BY <1>7, <2>1, <3>1, <3>2 DEF NoHole, SameBlock
  <2>. QED  BY <2>1
<1>12. /\ Chained(f.mem) /\ \A x \in DOMAIN f.mem : NoHole(f.mem, x)
       /\ KeepsUsed(m1, f.mem) /\ KeepsFree(m1, lf, f.mem, f.lfree)
  BY <1>2, <1>7, <1>8, <1>9, <1>11, PlugHolesIs
<1>13. IsFree(m1, lf)
  BY <1>1, <1>2, <1>6, <1>7 DEF IsFree, SameBlock
<1>14. IsLowest(mem, lfree) => IsLowest(m1, lf)
  <2>1. ASSUME IsLowest(mem, lfree), NEW x \in DOMAIN m1, ~m1[x].used PROVE lf <= x
    <3>1. x \in Nat
      BY <1>3, <1>7
    <3>2. x = p \/ lfree <= x
      BY <1>7, <2>1 DEF IsLowest, SameBlock
    <3>. QED  BY <1>3, <1>4, <1>6, <3>1, <3>2
  <2>. QED  BY <2>1 DEF IsLowest
<1>15. IsFree(f.mem, f.lfree) /\ (shrunk \/ IsLowest(f.mem, f.lfree))
  BY <1>1, <1>12, <1>13, <1>14 DEF KeepsFree
<1>16. PICK s : s = f.mem
  OBVIOUS
<1>17. Used(s) = Used(mem) \ {p} /\ \A x \in Used(mem) \ {p} : SameBlock(mem, s, x)
  <2>1. \A x \in Used(mem) \ {p} : x \in DOMAIN m1 /\ m1[x].used /\ SameBlock(mem, m1, x)
    BY <1>7 DEF Used, SameBlock
  <2>2. \A x \in Used(mem) \ {p} : x \in DOMAIN s /\ SameBlock(m1, s, x)
    BY <1>12, <1>16, <2>1 DEF KeepsUsed
  <2>3. \A x \in Used(mem) \ {p} : SameBlock(mem, s, x) /\ s[x].used
    BY <2>1, <2>2 DEF SameBlock
  <2>4. \A x \in DOMAIN s : s[x].used => x \in DOMAIN m1 /\ m1[x].used
    BY <1>12, <1>16 DEF KeepsUsed
  <2>5. \A x \in DOMAIN s : s[x].used => x \in Used(mem) \ {p}
    BY <1>7, <2>4 DEF Used, SameBlock
  <2>. QED  BY <2>2, <2>3, <2>5 DEF Used
<1>18. used_mem' = BlockSum(s, Used(s))
  <2>1. PICK m : m = mem
    OBVIOUS
  <2>2. OneMore(s, m, p)
    BY <1>2, <1>17, <2>1 DEF OneMore, SameBlock
  <2>3. Chained(s) /\ Chained(m)
    BY <1>1, <1>12, <1>16, <2>1
  <2>4. /\ BlockSum(s, Used(s)) \in Int
        /\ BlockSum(m, Used(m)) = BlockSum(s, Used(s)) + m[p].next - p
    BY <2>2, <2>3, SumWithOneMore
  <2>. QED  BY <1>1, <1>3, <1>10, <2>1, <2>4
<1>19. Heaped(s, lfree', shrunk, used_mem')
  BY <1>10, <1>12, <1>15, <1>16, <1>18 DEF Heaped
<1>. QED  BY <1>10, <1>16, <1>17, <1>19

\* rt_realloc splits a block in use; the rest is merged with the hole behind it.
LEMMA ShrinksIs ==
    ASSUME Heaped(mem, lfree, shrunk, used_mem), NEW p \in Used(mem), NEW n \in Nat,
           NEW u, HP!ReallocSplit(u, p, n)
    PROVE  /\ Heaped(mem', lfree', shrunk', used_mem')
           /\ Used(mem') = Used(mem) /\ mem'[p].next - (p + HEADER) = n
           /\ \A x \in Used(mem) \ {p} : SameBlock(mem, mem', x)
<1>. HEADER \in Nat \ {0} /\ HP!heap_end \in Nat /\ MIN_SIZE \in Nat
  BY HeapNumbers
<1>1. /\ Chained(mem) /\ (\A x \in DOMAIN mem : NoHole(mem, x)) /\ IsFree(mem, lfree)
      /\ used_mem = BlockSum(mem, Used(mem))
  BY DEF Heaped
<1>2. p \in DOMAIN mem /\ mem[p].used
  BY DEF Used
<1>3. /\ DOMAIN mem \subseteq Nat /\ p \in Nat /\ mem[p].next \in Nat /\ p < HP!heap_end
  BY <1>1, <1>2 DEF Chained, Header
<1>4. PICK q : q = p + HEADER + n
  OBVIOUS
<1>5. PICK m : m = HP!Split(mem, p, n)
  OBVIOUS
<1>6. n + HEADER + MIN_SIZE < mem[p].next - (p + HEADER)
  BY DEF HP!ReallocSplit, HP!Splits, HP!Room
<1>7. CanSplit(mem, p, n, q)
  BY <1>2, <1>3, <1>4, <1>6 DEF CanSplit
<1>8. IsSplit(mem, m, p, q)
  BY <1>1, <1>2, <1>5, <1>7, SplitIs
<1>9. /\ Chained(m) /\ DOMAIN m = DOMAIN mem \cup {q} /\ q \notin DOMAIN mem
      /\ ~m[q].used /\ m[q].next = mem[p].next
      /\ m[p].used = mem[p].used /\ m[p].next = q
      /\ \A x \in DOMAIN mem \ {p} : SameBlock(mem, m, x)
  BY <1>8 DEF IsSplit
<1>10. PICK h : h = [mem |-> m, lfree |-> lfree]
  OBVIOUS
<1>11. PICK f : f = HP!plug_holes(h, q)
  OBVIOUS
<1>12. /\ mem' = f.mem /\ lfree' = f.lfree /\ shrunk' = TRUE
       /\ used_mem' = used_mem - ((mem[p].next - (p + HEADER)) - n)
  BY <1>5, <1>9, <1>10, <1>11 DEF HP!ReallocSplit, HP!Room
<1>13. \A x \in DOMAIN m : x = q \/ m[x].next = q \/ NoHole(m, x)
  <2>1. ASSUME NEW x \in DOMAIN m, x # q, m[x].next # q PROVE NoHole(m, x)
    <3>1. x \in DOMAIN mem \ {p}
      BY <1>9, <2>1
    <3>2. Linked(mem, x) /\ NoHole(mem, x)
      BY <1>1, <3>1 DEF Chained
    <3>3. mem[x].next # HP!heap_end => mem[x].next \in DOMAIN mem
      BY <3>2 DEF Linked
    <3>. QED  BY <1>9, <2>1, <3>1, <3>2, <3>3 DEF NoHole, SameBlock
  <2>. QED  BY <2>1
<1>14. q \in DOMAIN m
  BY <1>9
<1>15. /\ Chained(f.mem) /\ \A x \in DOMAIN f.mem : NoHole(f.mem, x)
       /\ KeepsUsed(m, f.mem) /\ KeepsFree(m, lfree, f.mem, f.lfree)
  BY <1>9, <1>10, <1>11, <1>13, <1>14, PlugHolesIs
<1>16. IsFree(m, lfree)
  BY <1>1, <1>2, <1>9 DEF IsFree, SameBlock
<1>17. IsFree(f.mem, f.lfree)
  BY <1>15, <1>16 DEF KeepsFree
<1>18. PICK s : s = f.mem
  OBVIOUS
<1>19. Used(s) = Used(mem)
  <2>1. Used(m) = Used(mem)
    BY <1>2, <1>9 DEF Used, SameBlock
  <2>2. Used(s) = Used(m)
    BY <1>15, <1>18 DEF Used, KeepsUsed, SameBlock
  <2>. QED  BY <2>1, <2>2
<1>20. s[p].next = q /\ p \in DOMAIN s
  BY <1>2, <1>9, <1>15, <1>18 DEF KeepsUsed, SameBlock
<1>21. \A x \in Used(mem) \ {p} : SameBlock(mem, s, x)
  <2>1. \A x \in Used(mem) \ {p} : SameBlock(mem, m, x) /\ x \in DOMAIN m /\ m[x].used
    BY <1>9 DEF Used, SameBlock
  <2>2. \A x \in Used(mem) \ {p} : SameBlock(m, s, x)
    BY <1>15, <1>18, <2>1 DEF KeepsUsed
  <2>. QED  BY <2>1, <2>2 DEF SameBlock
<1>22. used_mem' = BlockSum(s, Used(s))
  <2>1. PICK U, V : U = Used(mem) /\ V = U \ {p}
    OBVIOUS
  <2>2. /\ IsFiniteSet(U) /\ Valued(mem, U) /\ IsFiniteSet(V) /\ Valued(mem, V)
        /\ Valued(s, U) /\ Valued(s, V)
    <3>1. U \in SUBSET DOMAIN mem /\ V \in SUBSET DOMAIN mem
      BY <2>1 DEF Used
    <3>2. U \in SUBSET DOMAIN s /\ V \in SUBSET DOMAIN s
      BY <1>19, <2>1 DEF Used
    <3>. QED  BY <1>1, <1>15, <1>18, <3>1, <3>2, UsedFinite
  <2>3. BlockSum(mem, U) = Takes(mem, p) + BlockSum(mem, V)
    BY <2>1, <2>2, BlockSums
  <2>4. BlockSum(s, U) = Takes(s, p) + BlockSum(s, V)
    BY <2>1, <2>2, BlockSums
  <2>5. BlockSum(mem, V) \in Int /\ BlockSum(mem, V) = BlockSum(s, V)
    <3>1. \A x \in V : Takes(mem, x) = Takes(s, x)
      BY <1>21, <2>1 DEF SameBlock, Takes
    <3>. QED  BY <2>2, <3>1, BlockSums
  <2>6. Takes(mem, p) = mem[p].next - p /\ Takes(s, p) = q - p
    BY <1>20 DEF Takes
  <2>. QED  BY <1>1, <1>3, <1>4, <1>12, <1>19, <2>1, <2>3, <2>4, <2>5, <2>6
<1>23. Heaped(s, lfree', shrunk', used_mem')
  BY <1>12, <1>15, <1>17, <1>18, <1>22 DEF Heaped
<1>24. s[p].next - (p + HEADER) = n
  BY <1>3, <1>4, <1>20
<1>. QED  BY <1>12, <1>18, <1>19, <1>21, <1>23, <1>24

-----------------------------------------------------------------------------
(* The blocks in the hands of the application and of rt_realloc *)

\* The blocks asked for, a, and those that are being moved, mv, are typed; a block
\* that is moved is still the application's, its copy is not yet, and no two threads
\* move the same block or to the same one.
Hands(a, mv) ==
    /\ a = [p \in DOMAIN a |-> a[p]] /\ \A p \in DOMAIN a : p \in Nat /\ a[p] \in Nat
    /\ mv \in [Users -> {None} \cup [old : Nat, size : Nat, new : Nat \cup {None}]]
    /\ \A u \in Users : mv[u] # None => mv[u].old \in DOMAIN a /\ mv[u].new \notin DOMAIN a
    /\ \A u \in Users, v \in Users : u # v /\ mv[u] # None /\ mv[v] # None =>
          mv[u].old # mv[v].old /\ (mv[u].new = None \/ mv[u].new # mv[v].new)

\* The block that thread u has as the copy; the blocks in somebody's hands.
Copies(mv, u, x) == mv[u] # None /\ mv[u].new = x /\ x # None
Holds(a, mv, x) == x \in DOMAIN a \/ \E u \in Users : Copies(mv, u, x)

\* Block p of m has room for n.
Roomy(m, p, n) == m[p].next - (p + HEADER) >= n

\* The used blocks are those in somebody's hands, each with the room asked for.
Served(m, a, mv) ==
    /\ \A x : x \in Used(m) <=> Holds(a, mv, x)
    /\ \A p \in DOMAIN a : Roomy(m, p, a[p])
    /\ \A u \in Users : mv[u] # None /\ mv[u].new # None => Roomy(m, mv[u].new, mv[u].size)

\* The invariant.
HeapInv == Heaped(mem, lfree, shrunk, used_mem) /\ Hands(asked, moving) /\ Served(mem, asked, moving)

\* No block takes nothing.
LEMMA SumOfNone == \A m : BlockSum(m, {}) = 0
<1>1. ASSUME NEW m PROVE BlockSum(m, {}) = 0
  <2>1. PICK S : S = {}
    OBVIOUS
  <2>2. IsFiniteSet(S)
    BY <2>1, FS_EmptySet
  <2>3. PICK it : Summed(m, S, it) /\ BlockSum(m, S) = it[S]
    BY <2>2, BlockSumIs
  <2>4. it[S] = IF S = {} THEN 0 ELSE Takes(m, SomeOf(S)) + it[S \ {SomeOf(S)}]
    BY <2>3 DEF Summed, IsSum
  <2>. QED  BY <2>1, <2>3, <2>4
<1>. QED  BY <1>1

\* The free heap.
LEMMA HeapInit == HP!Init => HeapInv
<1>. SUFFICES ASSUME HP!Init PROVE HeapInv
  OBVIOUS
<1>. HEADER \in Nat \ {0} /\ HP!heap_end \in Nat /\ HP!heap_end = HEAP_SIZE + HEADER /\ HEAP_SIZE \in Nat
  BY HeapNumbers
<1>1. /\ mem = [p \in {0} |-> [used |-> FALSE, next |-> HP!heap_end, prev |-> 0]]
      /\ lfree = 0 /\ used_mem = 0 /\ asked = [p \in {} |-> 0]
      /\ moving = [u \in Users |-> None] /\ shrunk = FALSE
  BY DEF HP!Init
<1>2. /\ DOMAIN mem = {0} /\ mem[0].next = HP!heap_end /\ mem[0].prev = 0 /\ ~mem[0].used
      /\ mem[0] \in Header
  BY <1>1 DEF Header
<1>3. Linked(mem, 0)
  BY <1>2 DEF Linked
<1>4. Chained(mem)
  BY <1>1, <1>2, <1>3 DEF Chained
<1>5. IsFree(mem, lfree) /\ IsLowest(mem, lfree) /\ \A x \in DOMAIN mem : NoHole(mem, x)
  BY <1>1, <1>2 DEF IsFree, IsLowest, NoHole
<1>6. Used(mem) = {}
  BY <1>2 DEF Used
<1>7. BlockSum(mem, {}) = 0
  BY SumOfNone
<1>8. Heaped(mem, lfree, shrunk, used_mem)
  BY <1>1, <1>4, <1>5, <1>6, <1>7 DEF Heaped
<1>9. \A u \in Users : moving[u] = None
  BY <1>1
<1>10. Hands(asked, moving)
  BY <1>1, <1>9 DEF Hands
<1>11. Served(mem, asked, moving)
  BY <1>1, <1>6, <1>9 DEF Served, Holds, Copies
<1>. QED  BY <1>8, <1>10, <1>11 DEF HeapInv

\* rt_malloc
LEMMA HeapMalloc ==
    ASSUME HeapInv, NEW u \in Users, NEW n \in Nat, HP!rt_malloc(u, n)
    PROVE  HeapInv'
<1>1. /\ Heaped(mem, lfree, shrunk, used_mem) /\ Hands(asked, moving) /\ Served(mem, asked, moving)
  BY DEF HeapInv
<1>2. PICK p \in DOMAIN mem :
         /\ HP!Allocates(p, n)
         /\ asked' = [q \in DOMAIN asked \cup {p} |-> IF q = p THEN n ELSE asked[q]]
  BY DEF HP!rt_malloc
<1>3. moving' = moving /\ shrunk' = shrunk
  BY DEF HP!rt_malloc
<1>4. PICK s, b : s = mem' /\ b = asked'
  OBVIOUS
<1>5. /\ Heaped(s, lfree', shrunk, used_mem')
      /\ p \in DOMAIN mem /\ p \notin Used(mem) /\ Used(s) = Used(mem) \cup {p}
      /\ \A x \in Used(mem) : SameBlock(mem, s, x)
      /\ Roomy(s, p, n)
  BY <1>1, <1>2, <1>4, AllocatesIs DEF Roomy
<1>6. p \in Nat /\ p # None
  BY <1>1, <1>2, LibrariesAssumption DEF Heaped, Chained
<1>7. ~Holds(asked, moving, p)
  BY <1>1, <1>5 DEF Served
<1>8. /\ DOMAIN b = DOMAIN asked \cup {p} /\ b = [x \in DOMAIN b |-> b[x]]
      /\ b[p] = n /\ \A x \in DOMAIN asked : b[x] = asked[x] /\ x # p
  BY <1>2, <1>4, <1>7 DEF Holds
<1>9. \A v \in Users : moving[v] # None => moving[v].new # p
  BY <1>6, <1>7 DEF Holds, Copies
<1>10. Hands(b, moving)
  BY <1>1, <1>6, <1>8, <1>9 DEF Hands
<1>11. Served(s, b, moving)
  <2>1. \A x : x \in Used(s) <=> Holds(b, moving, x)
    BY <1>1, <1>5, <1>8 DEF Served, Holds
  <2>2. \A x \in DOMAIN b : Roomy(s, x, b[x])
    BY <1>1, <1>5, <1>8 DEF Served, Holds, Roomy, SameBlock
  <2>3. \A v \in Users : moving[v] # None /\ moving[v].new # None => Roomy(s, moving[v].new, moving[v].size)
    BY <1>1, <1>5 DEF Served, Holds, Copies, Roomy, SameBlock
  <2>. QED  BY <2>1, <2>2, <2>3 DEF Served
<1>. QED  BY <1>3, <1>4, <1>5, <1>10, <1>11 DEF HeapInv

\* rt_free
LEMMA HeapFree ==
    ASSUME HeapInv, NEW u \in Users, NEW p \in DOMAIN asked, HP!rt_free(u, p)
    PROVE  HeapInv'
<1>1. /\ Heaped(mem, lfree, shrunk, used_mem) /\ Hands(asked, moving) /\ Served(mem, asked, moving)
  BY DEF HeapInv
<1>2. /\ HP!Frees(p) /\ asked' = HP!Restrict(asked, DOMAIN asked \ {p})
      /\ moving' = moving /\ shrunk' = shrunk
  BY DEF HP!rt_free
<1>3. \A v \in Users : moving[v] # None => moving[v].old # p
  BY DEF HP!rt_free, HP!Settled, HP!Busy
<1>4. p \in Used(mem)
  BY <1>1 DEF Served, Holds
<1>5. PICK s, b : s = mem' /\ b = asked'
  OBVIOUS
<1>6. /\ Heaped(s, lfree', shrunk, used_mem') /\ Used(s) = Used(mem) \ {p}
      /\ \A x \in Used(mem) \ {p} : SameBlock(mem, s, x)
  BY <1>1, <1>2, <1>4, <1>5, FreesIs
<1>7. /\ DOMAIN b = DOMAIN asked \ {p} /\ b = [x \in DOMAIN b |-> b[x]]
      /\ \A x \in DOMAIN b : b[x] = asked[x]
  BY <1>2, <1>5 DEF HP!Restrict
<1>8. Hands(b, moving)
  BY <1>1, <1>3, <1>7 DEF Hands
<1>9. \A v \in Users : ~Copies(moving, v, p)
  BY <1>1 DEF Hands, Copies
<1>10. Served(s, b, moving)
  <2>1. \A x : x \in Used(s) <=> Holds(b, moving, x)
    BY <1>1, <1>6, <1>7, <1>9 DEF Served, Holds
  <2>2. \A x \in DOMAIN b : Roomy(s, x, b[x])
    BY <1>1, <1>6, <1>7 DEF Served, Holds, Roomy, SameBlock
  <2>3. \A v \in Users : moving[v] # None /\ moving[v].new # None => Roomy(s, moving[v].new, moving[v].size)
    BY <1>1, <1>6, <1>9 DEF Served, Holds, Copies, Roomy, SameBlock
  <2>. QED  BY <2>1, <2>2, <2>3 DEF Served
<1>. QED  BY <1>2, <1>5, <1>6, <1>8, <1>10 DEF HeapInv

\* rt_realloc leaves the block where it is, as it is or shorter.
LEMMA HeapStays ==
    ASSUME HeapInv, NEW u \in Users, NEW p \in DOMAIN asked, NEW n \in Nat,
           HP!ReallocSame(u, p, n) \/ HP!ReallocSplit(u, p, n)
    PROVE  HeapInv'
<1>1. /\ Heaped(mem, lfree, shrunk, used_mem) /\ Hands(asked, moving) /\ Served(mem, asked, moving)
  BY DEF HeapInv
<1>2. p \in Used(mem)
  BY <1>1 DEF Served, Holds
<1>3. PICK s, b : s = mem' /\ b = asked'
  OBVIOUS
<1>4. /\ moving' = moving /\ b = [asked EXCEPT ![p] = n]
  BY <1>3 DEF HP!ReallocSame, HP!ReallocSplit
<1>5. /\ Heaped(s, lfree', shrunk', used_mem')
      /\ Used(s) = Used(mem) /\ Roomy(s, p, n)
      /\ \A x \in Used(mem) \ {p} : SameBlock(mem, s, x)
  <2>1. CASE HP!ReallocSame(u, p, n)
    <3>1. /\ s = mem /\ lfree' = lfree /\ used_mem' = used_mem /\ shrunk' = shrunk
          /\ n = mem[p].next - (p + HEADER)
      BY <1>3, <2>1 DEF HP!ReallocSame, HP!Room
    <3>2. Roomy(s, p, n)
      BY <3>1 DEF Roomy
    <3>. QED  BY <1>1, <3>1, <3>2 DEF SameBlock
  <2>2. CASE HP!ReallocSplit(u, p, n)
    <3>1. /\ Heaped(s, lfree', shrunk', used_mem')
          /\ Used(s) = Used(mem) /\ s[p].next - (p + HEADER) = n
          /\ \A x \in Used(mem) \ {p} : SameBlock(mem, s, x)
      BY <1>1, <1>2, <1>3, <2>2, ShrinksIs
    <3>2. Roomy(s, p, n)
      BY <3>1 DEF Roomy
    <3>. QED  BY <3>1, <3>2
  <2>. QED  BY <2>1, <2>2
<1>6. /\ DOMAIN b = DOMAIN asked /\ b = [x \in DOMAIN b |-> b[x]]
      /\ b[p] = n /\ \A x \in DOMAIN b \ {p} : b[x] = asked[x]
  BY <1>1, <1>4 DEF Hands
<1>7. Hands(b, moving)
  BY <1>1, <1>6 DEF Hands
<1>8. \A v \in Users : ~Copies(moving, v, p)
  BY <1>1 DEF Hands, Copies
<1>9. Served(s, b, moving)
  <2>1. \A x : x \in Used(s) <=> Holds(b, moving, x)
    BY <1>1, <1>5, <1>6 DEF Served, Holds
  <2>2. \A x \in DOMAIN b : Roomy(s, x, b[x])
    BY <1>1, <1>5, <1>6 DEF Served, Holds, Roomy, SameBlock
  <2>3. \A v \in Users : moving[v] # None /\ moving[v].new # None => Roomy(s, moving[v].new, moving[v].size)
    BY <1>1, <1>5, <1>8 DEF Served, Holds, Copies, Roomy, SameBlock
  <2>. QED  BY <2>1, <2>2, <2>3 DEF Served
<1>. QED  BY <1>3, <1>4, <1>5, <1>7, <1>9 DEF HeapInv

\* rt_realloc has to move the block.
LEMMA HeapMoves ==
    ASSUME HeapInv, NEW u \in Users, NEW p \in DOMAIN asked, NEW n \in Nat, HP!ReallocMoves(u, p, n)
    PROVE  HeapInv'
<1>1. /\ Heaped(mem, lfree, shrunk, used_mem) /\ Hands(asked, moving) /\ Served(mem, asked, moving)
  BY DEF HeapInv
<1>2. PICK w : w = moving'
  OBVIOUS
<1>3. /\ mem' = mem /\ lfree' = lfree /\ used_mem' = used_mem /\ asked' = asked /\ shrunk' = shrunk
      /\ w = [moving EXCEPT ![u] = [old |-> p, size |-> n, new |-> None]]
      /\ moving[u] = None
  BY <1>2 DEF HP!ReallocMoves, HP!Busy
<1>4. \A v \in Users : moving[v] # None => moving[v].old # p
  BY DEF HP!ReallocMoves, HP!Settled, HP!Busy
<1>5. PICK r : r = [old |-> p, size |-> n, new |-> None]
  OBVIOUS
<1>6. /\ r \in [old : Nat, size : Nat, new : Nat \cup {None}] /\ r # None
      /\ r.old = p /\ r.size = n /\ r.new = None
  BY <1>1, <1>5, LibrariesAssumption DEF Hands
<1>7. /\ w \in [Users -> {None} \cup [old : Nat, size : Nat, new : Nat \cup {None}]]
      /\ w[u] = r /\ \A v \in Users \ {u} : w[v] = moving[v]
  BY <1>1, <1>3, <1>5, <1>6 DEF Hands
<1>8. None \notin DOMAIN asked
  BY <1>1, LibrariesAssumption DEF Hands
<1>9. Hands(asked, w)
  <2>1. \A v \in Users : w[v] # None => w[v].old \in DOMAIN asked /\ w[v].new \notin DOMAIN asked
    BY <1>1, <1>6, <1>7, <1>8 DEF Hands
  <2>2. ASSUME NEW x \in Users, NEW y \in Users, x # y, w[x] # None, w[y] # None
        PROVE  w[x].old # w[y].old /\ (w[x].new = None \/ w[x].new # w[y].new)
    <3>1. CASE x = u
      BY <1>4, <1>6, <1>7, <2>2, <3>1
    <3>2. CASE y = u
      BY <1>4, <1>6, <1>7, <2>2, <3>2
    <3>3. CASE x # u /\ y # u
      BY <1>1, <1>7, <2>2, <3>3 DEF Hands
    <3>. QED  BY <3>1, <3>2, <3>3
  <2>. QED  BY <1>1, <1>7, <2>1, <2>2 DEF Hands
<1>10. Served(mem, asked, w)
  <2>1. \A x : Holds(asked, w, x) <=> Holds(asked, moving, x)
    <3>1. \A v \in Users : \A x : Copies(w, v, x) <=> Copies(moving, v, x)
      BY <1>3, <1>6, <1>7 DEF Copies
    <3>. QED  BY <3>1 DEF Holds
  <2>. QED  BY <1>1, <1>6, <1>7, <2>1 DEF Served
<1>. QED  BY <1>2, <1>3, <1>1, <1>9, <1>10 DEF HeapInv

\* ... rt_malloc in rt_realloc,
LEMMA HeapRemalloc ==
    ASSUME HeapInv, NEW u \in Users, HP!ReallocMalloc(u)
    PROVE  HeapInv'
<1>1. /\ Heaped(mem, lfree, shrunk, used_mem) /\ Hands(asked, moving) /\ Served(mem, asked, moving)
  BY DEF HeapInv
<1>2. /\ moving[u] # None /\ moving[u].new = None /\ asked' = asked /\ shrunk' = shrunk
  BY DEF HP!ReallocMalloc, HP!Busy
<1>3. moving[u] \in [old : Nat, size : Nat, new : Nat \cup {None}]
  BY <1>1, <1>2 DEF Hands
<1>4. PICK n : n = moving[u].size
  OBVIOUS
<1>5. n \in Nat
  BY <1>3, <1>4
<1>6. PICK w : w = moving'
  OBVIOUS
<1>7. CASE w = [moving EXCEPT ![u] = None] /\ UNCHANGED <<mem, lfree, used_mem>>
  <2>1. /\ w \in [Users -> {None} \cup [old : Nat, size : Nat, new : Nat \cup {None}]]
        /\ w[u] = None /\ \A v \in Users \ {u} : w[v] = moving[v]
    BY <1>1, <1>7 DEF Hands
  <2>2. Hands(asked, w)
    BY <1>1, <2>1 DEF Hands
  <2>3. \A v \in Users : \A x : Copies(w, v, x) <=> Copies(moving, v, x)
    BY <1>2, <2>1 DEF Copies
  <2>4. \A x : Holds(asked, w, x) <=> Holds(asked, moving, x)
    BY <2>3 DEF Holds
  <2>5. Served(mem, asked, w)
    BY <1>1, <2>1, <2>4 DEF Served
  <2>. QED  BY <1>1, <1>2, <1>6, <1>7, <2>2, <2>5 DEF HeapInv
<1>8. ASSUME NEW p \in DOMAIN mem, HP!Allocates(p, n), w = [moving EXCEPT ![u].new = p]
      PROVE  HeapInv'
  <2>1. PICK s : s = mem'
    OBVIOUS
  <2>2. /\ Heaped(s, lfree', shrunk, used_mem')
        /\ p \in DOMAIN mem /\ p \notin Used(mem) /\ Used(s) = Used(mem) \cup {p}
        /\ \A x \in Used(mem) : SameBlock(mem, s, x)
        /\ Roomy(s, p, n)
    BY <1>1, <1>5, <1>8, <2>1, AllocatesIs DEF Roomy
  <2>3. p \in Nat /\ p # None
    BY <1>1, <1>8, LibrariesAssumption DEF Heaped, Chained
  <2>4. ~Holds(asked, moving, p)
    BY <1>1, <2>2 DEF Served
  <2>5. PICK r : r = [moving[u] EXCEPT !.new = p]
    OBVIOUS
  <2>6. /\ r \in [old : Nat, size : Nat, new : Nat \cup {None}] /\ r # None
        /\ r.old = moving[u].old /\ r.size = n /\ r.new = p
    BY <1>3, <1>4, <2>3, <2>5, LibrariesAssumption
  <2>7. /\ w \in [Users -> {None} \cup [old : Nat, size : Nat, new : Nat \cup {None}]]
        /\ w[u] = r /\ \A v \in Users \ {u} : w[v] = moving[v]
    BY <1>1, <1>8, <2>5, <2>6 DEF Hands
  <2>8. \A v \in Users : moving[v] # None => moving[v].new # p
    BY <2>3, <2>4 DEF Holds, Copies
  <2>9. Hands(asked, w)
    <3>1. \A v \in Users : w[v] # None => w[v].old \in DOMAIN asked /\ w[v].new \notin DOMAIN asked
      BY <1>1, <1>2, <2>4, <2>6, <2>7 DEF Hands, Holds
    <3>2. ASSUME NEW x \in Users, NEW y \in Users, x # y, w[x] # None, w[y] # None
          PROVE  w[x].old # w[y].old /\ (w[x].new = None \/ w[x].new # w[y].new)
      <4>1. CASE x = u
        BY <1>1, <1>2, <2>6, <2>7, <2>8, <3>2, <4>1 DEF Hands
      <4>2. CASE y = u
        BY <1>1, <1>2, <2>6, <2>7, <2>8, <3>2, <4>2 DEF Hands
      <4>3. CASE x # u /\ y # u
        BY <1>1, <2>7, <3>2, <4>3 DEF Hands
      <4>. QED  BY <4>1, <4>2, <4>3
    <3>. QED  BY <1>1, <2>7, <3>1, <3>2 DEF Hands
  <2>10. Served(s, asked, w)
    <3>1. \A v \in Users : \A x : Copies(w, v, x) <=> Copies(moving, v, x) \/ (v = u /\ x = p)
      BY <1>2, <2>3, <2>6, <2>7 DEF Copies
    <3>2. \A x : Holds(asked, w, x) <=> Holds(asked, moving, x) \/ x = p
      BY <3>1 DEF Holds
    <3>3. \A x : x \in Used(s) <=> Holds(asked, w, x)
      BY <1>1, <2>2, <3>2 DEF Served
    <3>4. \A x \in DOMAIN asked : Roomy(s, x, asked[x])
      BY <1>1, <2>2 DEF Served, Holds, Roomy, SameBlock
    <3>5. ASSUME NEW v \in Users, w[v] # None, w[v].new # None PROVE Roomy(s, w[v].new, w[v].size)
      <4>1. CASE v = u
        BY <2>2, <2>6, <2>7, <4>1
      <4>2. CASE v # u
        <5>1. w[v] = moving[v] /\ moving[v].new \in Used(mem) /\ Roomy(mem, moving[v].new, moving[v].size)
          BY <1>1, <2>7, <3>5, <4>2 DEF Served, Holds, Copies
        <5>. QED  BY <2>2, <5>1 DEF Roomy, SameBlock
      <4>. QED  BY <4>1, <4>2
    <3>. QED  BY <3>3, <3>4, <3>5 DEF Served
  <2>. QED  BY <1>2, <1>6, <2>1, <2>2, <2>9, <2>10 DEF HeapInv
<1>. QED  BY <1>4, <1>6, <1>7, <1>8 DEF HP!ReallocMalloc

\* ... and the rt_free in it.
LEMMA HeapRefree ==
    ASSUME HeapInv, NEW u \in Users, HP!ReallocFree(u)
    PROVE  HeapInv'
<1>1. /\ Heaped(mem, lfree, shrunk, used_mem) /\ Hands(asked, moving) /\ Served(mem, asked, moving)
  BY DEF HeapInv
<1>2. PICK p, c, n : p = moving[u].old /\ c = moving[u].new /\ n = moving[u].size
  OBVIOUS
<1>3. PICK s, b, w : s = mem' /\ b = asked' /\ w = moving'
  OBVIOUS
<1>4. /\ moving[u] # None /\ c # None /\ HP!Frees(p) /\ shrunk' = shrunk
      /\ b = [q \in (DOMAIN asked \ {p}) \cup {c} |-> IF q = c THEN n ELSE asked[q]]
      /\ w = [moving EXCEPT ![u] = None]
  BY <1>2, <1>3 DEF HP!ReallocFree, HP!Busy
<1>5. /\ p \in DOMAIN asked /\ c \notin DOMAIN asked /\ n \in Nat /\ c \in Nat
  <2>1. moving[u] \in [old : Nat, size : Nat, new : Nat \cup {None}]
    BY <1>1, <1>4 DEF Hands
  <2>. QED  BY <1>1, <1>2, <1>4, <2>1 DEF Hands
<1>6. p \in Used(mem) /\ c \in Used(mem) /\ Roomy(mem, c, n)
  BY <1>1, <1>2, <1>4, <1>5 DEF Served, Holds, Copies
<1>7. /\ Heaped(s, lfree', shrunk, used_mem') /\ Used(s) = Used(mem) \ {p}
      /\ \A x \in Used(mem) \ {p} : SameBlock(mem, s, x)
  BY <1>1, <1>3, <1>4, <1>6, FreesIs
<1>8. /\ w \in [Users -> {None} \cup [old : Nat, size : Nat, new : Nat \cup {None}]]
      /\ w[u] = None /\ \A v \in Users \ {u} : w[v] = moving[v]
  BY <1>1, <1>4 DEF Hands
<1>9. /\ DOMAIN b = (DOMAIN asked \ {p}) \cup {c} /\ b = [x \in DOMAIN b |-> b[x]]
      /\ b[c] = n /\ \A x \in DOMAIN asked \ {p} : b[x] = asked[x]
  BY <1>4, <1>5
<1>10. \A v \in Users \ {u} : moving[v] # None => moving[v].old # p /\ moving[v].new # c
  BY <1>1, <1>2, <1>4 DEF Hands
<1>11. Hands(b, w)
  <2>1. \A x \in DOMAIN b : x \in Nat /\ b[x] \in Nat
    BY <1>1, <1>5, <1>9 DEF Hands
  <2>2. \A v \in Users : w[v] # None => w[v].old \in DOMAIN b /\ w[v].new \notin DOMAIN b
    BY <1>1, <1>8, <1>9, <1>10 DEF Hands
  <2>3. \A x \in Users, y \in Users : x # y /\ w[x] # None /\ w[y] # None =>
           w[x].old # w[y].old /\ (w[x].new = None \/ w[x].new # w[y].new)
    BY <1>1, <1>8 DEF Hands
  <2>. QED  BY <1>8, <1>9, <2>1, <2>2, <2>3 DEF Hands
<1>12. Served(s, b, w)
  <2>1. \A v \in Users : \A x : Copies(moving, v, x) <=> Copies(w, v, x) \/ (v = u /\ x = c)
    BY <1>2, <1>4, <1>8 DEF Copies
  <2>2. \A v \in Users : ~Copies(w, v, p)
    BY <1>1, <1>5, <2>1 DEF Hands, Copies
  <2>3. \A x : Holds(b, w, x) <=> Holds(asked, moving, x) /\ x # p
    BY <1>5, <1>9, <2>1, <2>2 DEF Holds
  <2>4. \A x : x \in Used(s) <=> Holds(b, w, x)
    BY <1>1, <1>7, <2>3 DEF Served
  <2>5. ASSUME NEW x \in DOMAIN b PROVE Roomy(s, x, b[x])
    <3>1. CASE x = c
      BY <1>5, <1>6, <1>7, <1>9, <3>1 DEF Roomy, SameBlock
    <3>2. CASE x # c
      <4>1. x \in DOMAIN asked \ {p} /\ x \in Used(mem) \ {p} /\ Roomy(mem, x, asked[x])
        BY <1>1, <1>9, <3>2 DEF Served, Holds
      <4>. QED  BY <1>7, <1>9, <4>1 DEF Roomy, SameBlock
    <3>. QED  BY <3>1, <3>2
  <2>6. ASSUME NEW v \in Users, w[v] # None, w[v].new # None PROVE Roomy(s, w[v].new, w[v].size)
    <3>1. v # u /\ w[v] = moving[v]
      BY <1>8, <2>6
    <3>2. moving[v].new \in Used(mem) \ {p} /\ Roomy(mem, moving[v].new, moving[v].size)
      BY <1>1, <1>5, <2>6, <3>1 DEF Served, Holds, Copies, Hands
    <3>. QED  BY <1>7, <3>1, <3>2 DEF Roomy, SameBlock
  <2>. QED  BY <2>4, <2>5, <2>6 DEF Served
<1>. QED  BY <1>3, <1>4, <1>7, <1>11, <1>12 DEF HeapInv

\* Every step of the heap keeps the invariant.
LEMMA HeapStep ==
    ASSUME HeapInv, [HP!Next]_heapVars
    PROVE  HeapInv'
<1>. Sizes \subseteq Nat
  BY LibrariesAssumption
<1>1. ASSUME NEW u \in Users, NEW n \in Sizes, HP!rt_malloc(u, n) PROVE HeapInv'
  BY <1>1, HeapMalloc
<1>2. ASSUME NEW u \in Users, NEW p \in DOMAIN asked, HP!rt_free(u, p) PROVE HeapInv'
  BY <1>2, HeapFree
<1>3. ASSUME NEW u \in Users, NEW p \in DOMAIN asked, NEW n \in Sizes,
             HP!ReallocSame(u, p, n) \/ HP!ReallocSplit(u, p, n) \/ HP!ReallocMoves(u, p, n)
      PROVE  HeapInv'
  BY <1>3, HeapStays, HeapMoves
<1>4. ASSUME NEW u \in Users, HP!ReallocMalloc(u) \/ HP!ReallocFree(u) PROVE HeapInv'
  BY <1>4, HeapRemalloc, HeapRefree
<1>5. CASE UNCHANGED heapVars
  BY <1>5 DEF heapVars, HeapInv
<1>. QED  BY <1>1, <1>2, <1>3, <1>4, <1>5 DEF HP!Next

\* The invariant gives what the heap promises.
LEMMA HeapSafe == HeapInv => HP!Tiled /\ HP!BlocksHeld /\ HP!LowestFree
<1>. SUFFICES ASSUME HeapInv PROVE HP!Tiled /\ HP!BlocksHeld /\ HP!LowestFree
  OBVIOUS
<1>. HEADER \in Nat \ {0} /\ HP!heap_end \in Nat
  BY HeapNumbers
<1>1. /\ Chained(mem) /\ (\A p \in DOMAIN mem : NoHole(mem, p)) /\ IsFree(mem, lfree)
      /\ (shrunk \/ IsLowest(mem, lfree)) /\ used_mem = BlockSum(mem, Used(mem))
      /\ Hands(asked, moving) /\ Served(mem, asked, moving)
  BY DEF HeapInv, Heaped
<1>2. /\ DOMAIN mem \subseteq Nat /\ \A p \in DOMAIN mem : mem[p].next \in Nat /\ p < HP!heap_end
  BY <1>1 DEF Chained, Header
<1>3. HP!Tiled
  <2>1. ASSUME NEW p \in DOMAIN mem
        PROVE  /\ mem[p].next >= p + HEADER
               /\ mem[p].next = HP!heap_end \/ (mem[p].next \in DOMAIN mem /\ mem[mem[p].next].prev = p)
               /\ \A q \in DOMAIN mem : ~(p < q /\ q < mem[p].next)
               /\ ~mem[p].used /\ mem[p].next # HP!heap_end => mem[mem[p].next].used
    <3>1. Linked(mem, p) /\ NoHole(mem, p)
      BY <1>1 DEF Chained
    <3>. QED  BY <1>2, <3>1 DEF Linked, NoHole
  <2>. QED  BY <1>1, <2>1 DEF HP!Tiled, Chained
<1>4. HP!BlocksHeld
  <2>1. \A x : x \in HP!Handed <=> Holds(asked, moving, x)
    BY DEF HP!Handed, HP!Busy, Holds, Copies
  <2>2. Used(mem) = HP!Handed
    BY <1>1, <2>1 DEF Served
  <2>3. {p \in DOMAIN mem : mem[p].used} = HP!Handed
    BY <2>2 DEF Used
  <2>4. used_mem = HP!MapThenSumSet(LAMBDA p : mem[p].next - p, HP!Handed)
    BY <1>1, <2>2 DEF BlockSum
  <2>5. /\ \A p \in DOMAIN asked : HP!Room(mem, p) >= asked[p]
        /\ \A u \in Users : HP!Busy(u) /\ moving[u].new # None =>
              HP!Room(mem, moving[u].new) >= moving[u].size
    BY <1>1 DEF Served, Roomy, HP!Room, HP!Busy
  <2>. QED  BY <2>3, <2>4, <2>5 DEF HP!BlocksHeld
<1>5. HP!LowestFree
  <2>1. lfree \in Nat
    BY <1>1, <1>2 DEF IsFree
  <2>2. ASSUME ~shrunk PROVE lfree = HP!FreeFrom(mem, 0)
    <3>1. PICK S : S = {q \in DOMAIN mem : q >= 0 /\ ~mem[q].used} \cup {HP!heap_end}
      OBVIOUS
    <3>2. S \in SUBSET Nat /\ S # {}
      BY <1>2, <3>1
    <3>3. PICK l : l = HP!Min(S)
      OBVIOUS
    <3>4. l \in S /\ \A y \in S : l <= y
      BY <3>2, <3>3, HeapMinMax
    <3>5. lfree \in S
      BY <1>1, <1>2, <3>1 DEF IsFree
    <3>6. \A y \in S : lfree <= y
      BY <1>1, <1>2, <2>1, <2>2, <3>1 DEF IsFree, IsLowest
    <3>7. lfree = l
      BY <2>1, <3>2, <3>4, <3>5, <3>6
    <3>. QED  BY <3>1, <3>3, <3>7 DEF HP!FreeFrom
  <2>. QED  BY <1>1, <2>2 DEF HP!LowestFree, IsFree
<1>. QED  BY <1>3, <1>4, <1>5

\* mem.c, for every size of the heap, of the header and of the requests, and any
\* number of threads: the blocks tile the heap and no two holes are neighbours; the
\* used blocks are those in the hands of the application or of an rt_realloc that
\* copies, each with the room that was asked for, and used_mem is what they take;
\* lfree is a free block or heap_end, and the lowest one as long as rt_realloc has
\* shrunk no block.  That two calls of rt_realloc with heap_sem released between
\* their halves never free or copy to the same block is part of the invariant.
THEOREM HeapIsSound == LibrariesSpec => []HeapSound
<1>. DEFINE Inv == part = "heap" => HeapInv
<1>1. LibrariesInit => Inv
  BY HeapInit DEF LibrariesInit
<1>2. ASSUME Inv, [LibrariesNext /\ UNCHANGED part]_<<part, libraryVars>> PROVE Inv'
  <2>1. part' = part
    BY <1>2 DEF libraryVars
  <2>2. CASE part = "heap"
    <3>1. [HP!Next]_heapVars
      BY <1>2, <2>2 DEF LibrariesNext, libraryVars
    <3>. QED  BY <1>2, <2>1, <2>2, <3>1, HeapStep
  <2>. QED  BY <2>1, <2>2
<1>3. Inv => HeapSound
  BY HeapSafe DEF HeapSound
<1>. QED  BY <1>1, <1>2, <1>3, PTL DEF LibrariesSpec
=============================================================================
