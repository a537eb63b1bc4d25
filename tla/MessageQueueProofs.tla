------------------------- MODULE MessageQueueProofs -------------------------
(***************************************************************************)
(* No wake-up of a message queue is lost, no block of it is lost or used   *)
(* twice, and the linked blocks implement a bounded queue, for every       *)
(* number of threads, priorities, queues and blocks.                       *)
(*                                                                         *)
(* The first part is the argument of every service over module Ipc: an     *)
(* inductive invariant of the kernel, the waiting threads and mq->entry.   *)
(* The second is about the links.  The next fields are a set of pointers   *)
(* that a step rewrites one at a time; IsChain names the list they form,   *)
(* the lemmas about chains say what taking, putting in front and appending *)
(* a block does to that list, and Placed says that the two lists of a      *)
(* queue and the blocks in the hands of threads partition its pool.        *)
(***************************************************************************)
EXTENDS MessageQueue, IpcProofs

\* The inductive invariant: what every service of module Ipc keeps, that
\* rt_ipc_list_resume finds waiting threads without an error, the range of
\* mq->entry, and that messages have their receivers.
Inv ==
    /\ IpcInv /\ WaitersClean
    /\ entry \in [Object -> Nat]
    /\ NoLostWakeup

\* The invariant holds when the scheduler starts.
LEMMA InitInv ==
    ASSUME Init
    PROVE  Inv
<1>1. IpcInit /\ entry = [m \in Object |-> 0]
  BY DEF Init
<1>2. \A o \in Object : Waiting(o) = {}
  <2>1. \A l \in List : k.list[l] = <<>>
    BY <1>1, InitCoherent DEF IpcInit
  <2>. QED  BY <2>1 DEF Waiting, Object, ToSet
<1>3. open \subseteq Object
  BY <1>1 DEF IpcInit
<1>. QED  BY <1>1, <1>2, <1>3, IpcInitInv DEF Inv, WaitersClean, NoLostWakeup

\* A step that serves nobody and leaves mq->entry alone.
LEMMA QuietStep ==
    ASSUME Inv, IpcInv', NobodyServed, open' \subseteq open, UNCHANGED entry
    PROVE  Inv'
<1>1. WaitersClean'
  BY ServedClean DEF Inv
<1>2. open \subseteq Object
  BY DEF Inv, IpcInv, IpcTypeOK
<1>3. NoLostWakeup'
  BY <1>2 DEF Inv, NoLostWakeup, NobodyServed, NoNewWaiter
<1>. QED  BY <1>1, <1>3 DEF Inv

\* A step that changes the number of messages, or the receivers, of queue m.
LEMMA EntryStep ==
    ASSUME Inv, IpcInv', WaitersClean', NEW m \in Object, NEW i \in Nat,
           entry' = [entry EXCEPT ![m] = i],
           Waiting(m)' # {} => i <= Cardinality(Resumed(m)'),
           \A x \in Object \ {m} : Waiting(x)' \subseteq Waiting(x) /\ Resumed(x)' = Resumed(x),
           open' \subseteq open \cup {m}
    PROVE  Inv'
<1>1. /\ entry' \in [Object -> Nat] /\ entry'[m] = i
      /\ \A x \in Object \ {m} : entry'[x] = entry[x]
  BY DEF Inv
<1>2. open' \subseteq Object
  BY DEF IpcInv, IpcTypeOK
<1>3. ASSUME NEW x \in open', Waiting(x)' # {} PROVE entry'[x] <= Cardinality(Resumed(x)')
  <2>1. CASE x = m
    BY <1>1, <1>3, <2>1
  <2>2. CASE x # m
    BY <1>1, <1>2, <1>3, <2>2 DEF Inv, NoLostWakeup
  <2>. QED  BY <2>1, <2>2
<1>. QED  BY <1>1, <1>3 DEF Inv, NoLostWakeup

\* A thread counts as resumed only for the queue of its call.
LEMMA ResumedHere ==
    ASSUME NEW t
    PROVE  \A x \in Object : t \in Resumed(x) =>
             on[t] = x /\ pc[t] \in Waits /\ k.error[t] = "EOK"
  BY DEF Resumed, Waits

\* The running thread goes on, or returns; the number of messages does not
\* change.  If it was resumed to be served, there is no message.
LEMMA GoesInv ==
    ASSUME Inv, NEW t \in App, NEW label, Runs(t, label),
           label \notin {"wait_sched", "sleep_sched"},
           UNCHANGED k \/ \E e \in Error : k' = [k EXCEPT !.error[t] = e],
           NEW after \in PC \ Waits, NEW o \in Object \cup {NoObject}, Goes(t, after, o),
           after \in WorksOnObject => o \in Object,
           UNCHANGED <<open, corrupt, entry>>,
           label = "wait_ret" => entry[on[t]] = 0 \/ k.error[t] # "EOK"
    PROVE  Inv'
<1>1. open \subseteq Object /\ corrupt \in BOOLEAN /\ pc[t] = label /\ IpcInv /\ WaitersClean
  BY Runner DEF Inv
<1>2. IpcInv' /\ WaitersClean' /\ Leaves({t})
  BY <1>1, GoingStep
<1>3. ASSUME NEW m \in open, Waiting(m)' # {} PROVE entry[m] <= Cardinality(Resumed(m)')
  <2>1. m \in Object /\ Waiting(m) # {} /\ Resumed(m)' = Resumed(m) \ {t}
    BY <1>1, <1>2, <1>3 DEF Leaves
  <2>2. CASE t \notin Resumed(m)
    BY <2>1, <2>2 DEF Inv, NoLostWakeup
  <2>3. CASE t \in Resumed(m)
    <3>1. entry[m] = 0
      BY <1>1, <2>1, <2>3, ResumedHere DEF Waits
    <3>2. Resumed(m)' \in SUBSET Thread
      BY DEF Resumed
    <3>3. Cardinality(Resumed(m)') \in Nat
      BY <3>2, CountThreads
    <3>. QED  BY <3>1, <3>3
  <2>. QED  BY <2>2, <2>3
<1>. QED  BY <1>2, <1>3 DEF Inv, NoLostWakeup

\* rt_mq_send, urgent or not, of a thread: the second section.
LEMMA LinkInv ==
    ASSUME Inv, NEW t \in App, Link(t)
    PROVE  Inv'
<1>1. PICK m \in Object : m = on[t]
  BY DEF Link, Inv, IpcInv, IpcTypeOK
<1>2. /\ Runs(t, "put_copy") /\ ResumesOne(t, m) /\ UNCHANGED <<open, corrupt>>
      /\ entry' = [entry EXCEPT ![m] = entry[m] + 1]
  BY <1>1 DEF Link, Linked, LinkHead, LinkTail
<1>3. IpcInv' /\ WaitersClean' /\ ServesOne({t}, m)
  BY <1>2, ServingStep DEF Inv
<1>4. pc[t] \notin Waits /\ entry[m] + 1 \in Nat
  BY <1>2 DEF Runs, Waits, Inv
<1>5. \A x \in Object : t \notin Resumed(x)
  BY <1>4, RunnerNotResumed
<1>6. \A x \in Object \ {m} : Waiting(x)' \subseteq Waiting(x) /\ Resumed(x)' = Resumed(x)
  BY <1>3, <1>5 DEF ServesOne, NoNewWaiter
<1>7. ASSUME Waiting(m)' # {} PROVE entry[m] + 1 <= Cardinality(Resumed(m)')
  <2>1. Waiting(m) # {}
    BY <1>3, <1>7 DEF ServesOne, NoNewWaiter
  <2>2. PICK h \in Thread \ Resumed(m) : Resumed(m)' = Resumed(m) \cup {h}
    BY <1>3, <1>5, <2>1 DEF ServesOne
  <2>3. m \in open
    BY <1>1 DEF Link
  <2>4. entry[m] <= Cardinality(Resumed(m))
    BY <2>1, <2>3 DEF Inv, NoLostWakeup
  <2>5. Resumed(m) \in SUBSET Thread
    BY DEF Resumed
  <2>. QED  BY <1>4, <2>2, <2>4, <2>5, CountThreads DEF Inv
<1>. QED  BY <1>2, <1>3, <1>4, <1>6, <1>7, EntryStep

\* rt_mq_send in an interrupt handler.
LEMMA SendIsrInv ==
    ASSUME Inv, NEW m \in Object, NEW v, SendIsr(m, v)
    PROVE  Inv'
<1>1. /\ m \in open /\ ResumesOneIsr(m) /\ UNCHANGED <<open, pc, on, corrupt>>
      /\ entry' = [entry EXCEPT ![m] = entry[m] + 1]
  BY DEF SendIsr, Usable, Linked, LinkHead, LinkTail
<1>2. IpcInv' /\ WaitersClean' /\ ServesOne({}, m)
  BY <1>1, ServingIsr DEF Inv
<1>3. entry[m] + 1 \in Nat
  BY DEF Inv
<1>4. \A x \in Object \ {m} : Waiting(x)' \subseteq Waiting(x) /\ Resumed(x)' = Resumed(x)
  BY <1>2 DEF ServesOne, NoNewWaiter
<1>5. ASSUME Waiting(m)' # {} PROVE entry[m] + 1 <= Cardinality(Resumed(m)')
  <2>1. Waiting(m) # {}
    BY <1>2, <1>5 DEF ServesOne, NoNewWaiter
  <2>2. PICK h \in Thread \ Resumed(m) : Resumed(m)' = Resumed(m) \cup {h}
    BY <1>2, <2>1 DEF ServesOne
  <2>3. entry[m] <= Cardinality(Resumed(m))
    BY <1>1, <2>1 DEF Inv, NoLostWakeup
  <2>4. Resumed(m) \in SUBSET Thread
    BY DEF Resumed
  <2>. QED  BY <1>3, <2>2, <2>3, <2>4, CountThreads DEF Inv
<1>. QED  BY <1>1, <1>2, <1>3, <1>4, <1>5, EntryStep

\* rt_mq_recv finds a message, at once or after a wait.
LEMMA UnlinkInv ==
    ASSUME Inv, NEW t \in App, NEW m \in Object, m \in open, entry[m] # 0, Unlink(t, m),
           Runs(t, "run") \/ (Runs(t, "wait_ret") /\ on[t] = m)
    PROVE  Inv'
<1>1. /\ Goes(t, "get_copy", m) /\ UNCHANGED k /\ UNCHANGED <<open, corrupt>>
      /\ entry' = [entry EXCEPT ![m] = entry[m] - 1]
  BY DEF Unlink
<1>2. "get_copy" \in PC \ Waits /\ "get_copy" \notin WorksOnObject
  BY Labels DEF Waits
<1>3. open \subseteq Object /\ corrupt \in BOOLEAN /\ IpcInv /\ WaitersClean
  BY DEF Inv, IpcInv, IpcTypeOK
<1>4. IpcInv' /\ WaitersClean' /\ Leaves({t})
  <2>1. CASE Runs(t, "run")
    BY <1>1, <1>2, <1>3, <2>1, GoingStep
  <2>2. CASE Runs(t, "wait_ret")
    BY <1>1, <1>2, <1>3, <2>2, GoingStep
  <2>. QED  BY <2>1, <2>2
<1>5. \A x \in Object : t \in Resumed(x) => x = m
  BY ResumedHere DEF Runs, Waits
<1>6. \A x \in Object \ {m} : Waiting(x)' \subseteq Waiting(x) /\ Resumed(x)' = Resumed(x)
  BY <1>4, <1>5 DEF Leaves
<1>7. entry[m] - 1 \in Nat
  BY DEF Inv
<1>8. ASSUME Waiting(m)' # {} PROVE entry[m] - 1 <= Cardinality(Resumed(m)')
  <2>1. entry[m] <= Cardinality(Resumed(m)) /\ Resumed(m)' = Resumed(m) \ {t}
    BY <1>4, <1>8 DEF Inv, NoLostWakeup, Leaves
  <2>2. Resumed(m) \in SUBSET Thread
    BY DEF Resumed
  <2>3. CASE t \in Resumed(m)
    BY <1>7, <2>1, <2>2, <2>3, CountThreads DEF Inv
  <2>4. CASE t \notin Resumed(m)
    <3>1. Resumed(m)' = Resumed(m)
      BY <2>1, <2>4
    <3>2. Cardinality(Resumed(m)) \in Nat
      BY <2>2, CountThreads
    <3>. QED  BY <2>1, <3>1, <3>2 DEF Inv
  <2>. QED  BY <2>3, <2>4
<1>. QED  BY <1>1, <1>4, <1>6, <1>7, <1>8, EntryStep

\* rt_mq_recv finds no message and waits, for the first time or again.
LEMMA WaitsForInv ==
    ASSUME Inv, NEW t \in App, NEW m \in Object, entry[m] = 0, NEW timed, WaitsFor(t, m, timed),
           Runs(t, "run") \/ (Runs(t, "wait_ret") /\ on[t] = m)
    PROVE  Inv'
<1>1. /\ k' = Wait([k EXCEPT !.error[t] = "EOK"], t, m, timed)
      /\ Goes(t, "wait_sched", m) /\ UNCHANGED <<open, corrupt>> /\ UNCHANGED entry
  BY DEF WaitsFor, links
<1>2. IpcInv' /\ WaitersClean' /\ Blocks(t, m)
  <2>1. CASE Runs(t, "run")
    BY <1>1, <2>1, BlockingStep DEF Inv
  <2>2. CASE Runs(t, "wait_ret")
    BY <1>1, <2>2, BlockingStep DEF Inv
  <2>. QED  BY <2>1, <2>2
<1>3. \A x \in Object : t \in Resumed(x) => x = m
  BY ResumedHere DEF Runs, Waits
<1>4. \A x \in Object \ {m} : Waiting(x)' \subseteq Waiting(x) /\ Resumed(x)' = Resumed(x)
  <2>1. ASSUME NEW x \in Object \ {m}
        PROVE  Waiting(x)' = Waiting(x) /\ Resumed(x)' = Resumed(x) \ {t} /\ t \notin Resumed(x)
    BY <1>2, <1>3 DEF Blocks
  <2>. QED  BY <2>1
<1>5. entry' = [entry EXCEPT ![m] = 0] /\ 0 \in Nat
  BY <1>1 DEF Inv
<1>6. 0 <= Cardinality(Resumed(m)')
  <2>1. Resumed(m)' \in SUBSET Thread
    BY DEF Resumed
  <2>. QED  BY <2>1, CountThreads
<1>. QED  BY <1>1, <1>2, <1>4, <1>5, <1>6, EntryStep

\* rt_mq_control: one turn of its loops.
LEMMA ControlLoopInv ==
    ASSUME Inv, NEW t \in App, ControlLoop(t)
    PROVE  Inv'
<1>1. Runs(t, "irq_off") /\ UNCHANGED <<open, corrupt>> /\ IpcInv /\ WaitersClean
  BY DEF ControlLoop, Inv
<1>2. /\ CoherentState(k) /\ on[t] \in Object /\ pc[t] = "irq_off"
      /\ open \subseteq Object /\ corrupt \in BOOLEAN
  BY <1>1, Runner, Labels
<1>3. PICK m \in Object : m = on[t]
  BY <1>2
<1>4. CASE k.list[m] # <<>>
  <2>1. k' = ResumeFirst(m) /\ UNCHANGED <<pc, on>> /\ UNCHANGED entry
    BY <1>3, <1>4 DEF ControlLoop, links
  <2>2. IpcInv' /\ NobodyServed
    BY <1>1, <1>4, <2>1, RefusingStep
  <2>. QED  BY <1>1, <2>1, <2>2, QuietStep
<1>5. CASE k.list[m] = <<>> /\ msg_queue_head[m] # NIL
  <2>1. UNCHANGED <<k, pc, on>> /\ UNCHANGED entry
    BY <1>3, <1>5 DEF ControlLoop
  <2>2. IpcInv' /\ NobodyServed
    BY <1>1, <1>2, <2>1, IdleStep
  <2>. QED  BY <1>1, <2>1, <2>2, QuietStep
<1>6. CASE k.list[m] = <<>> /\ msg_queue_head[m] = NIL
  <2>1. entry' = [entry EXCEPT ![m] = 0] /\ Goes(t, "sched", NoObject) /\ UNCHANGED k
    BY <1>3, <1>6 DEF ControlLoop
  <2>2. "sched" \in PC \ Waits /\ "sched" \notin WorksOnObject
    BY Labels DEF Waits
  <2>3. IpcInv' /\ WaitersClean' /\ Leaves({t})
    BY <1>1, <1>2, <2>1, <2>2, GoingStep
  <2>4. \A x \in Object : t \notin Resumed(x)
    BY <1>2, ResumedHere DEF Waits
  <2>5. \A x \in Object : Waiting(x)' = Waiting(x) /\ Resumed(x)' = Resumed(x)
    BY <2>3, <2>4 DEF Leaves
  <2>6. Waiting(m)' = {}
    BY <1>1, <1>6, <2>5, EmptyIsUnawaited
  <2>. QED  BY <1>1, <2>1, <2>3, <2>5, <2>6, EntryStep
<1>. QED  BY <1>4, <1>5, <1>6

\* rt_mq_init of a queue that was deleted.
LEMMA MqCreateInv ==
    ASSUME Inv, NEW t \in App, NEW m \in Object, MqCreate(t, m)
    PROVE  Inv'
<1>1. /\ Create(t, m) /\ open' = open \cup {m} /\ UNCHANGED <<k, pc, on>>
      /\ (\A u \in Thread : on[u] # m) /\ entry' = [entry EXCEPT ![m] = 0]
  BY DEF MqCreate, Create
<1>2. IpcInv'
  BY <1>1, CreateInv DEF Inv
<1>3. \A x \in Object : Waiting(x)' = Waiting(x) /\ Resumed(x)' = Resumed(x)
  BY <1>1 DEF Waiting, Resumed
<1>4. WaitersClean'
  BY <1>1, <1>3 DEF Inv, WaitersClean
<1>5. Waiting(m)' = {}
  BY <1>1, <1>3, UnusedIsEmpty DEF Inv
<1>. QED  BY <1>1, <1>2, <1>3, <1>4, <1>5, EntryStep

\* Every step preserves the invariant.
LEMMA NextInv ==
    ASSUME Inv, [Next]_vars
    PROVE  Inv'
<1>1. IpcInv /\ WaitersClean /\ open \subseteq Object /\ corrupt \in BOOLEAN
  BY DEF Inv, IpcInv, IpcTypeOK
<1>2. /\ {"put_copy", "run", "irq_off"} \subseteq PC \ Waits
      /\ "put_copy" \notin WorksOnObject /\ "run" \notin WorksOnObject
  BY Labels DEF Waits
<1>3. CASE UNCHANGED vars
  <2>1. UNCHANGED <<k, open, pc, on>> /\ UNCHANGED corrupt /\ UNCHANGED entry
    BY <1>3 DEF vars, ipcVars, mqVars, links
  <2>2. IpcInv' /\ NobodyServed
    BY <1>1, <2>1, IdleStep
  <2>. QED  BY <2>1, <2>2, QuietStep
<1>4. CASE Interrupt
  <2>1. CASE Tick /\ UNCHANGED mqVars
    <3>1. IpcInv' /\ NobodyServed /\ open' \subseteq open
      BY <1>1, <2>1, TickInv, TickServes, IpcOpen
    <3>. QED  BY <2>1, <3>1, QuietStep DEF mqVars, links
  <2>. QED  BY <1>4, <2>1, SendIsrInv DEF Interrupt
<1>5. ASSUME NEW t \in App, InCall(t) PROVE Inv'
  <2>1. CASE RecvRetry(t)
    <3>1. PICK m \in Object : m = on[t]
      BY <2>1 DEF RecvRetry, Inv, IpcInv, IpcTypeOK
    <3>2. CASE entry[m] # 0 /\ Unlink(t, m)
      BY <2>1, <3>1, <3>2, UnlinkInv DEF RecvRetry
    <3>3. CASE entry[m] = 0 /\ WaitsFor(t, m, t \in limit)
      BY <2>1, <3>1, <3>3, WaitsForInv DEF RecvRetry
    <3>. QED  BY <2>1, <3>1, <3>2, <3>3 DEF RecvRetry
  <2>2. CASE RecvExpires(t)
    <3>1. /\ Runs(t, "wait_ret") /\ entry[on[t]] = 0 /\ k' = [k EXCEPT !.error[t] = "ETIMEOUT"]
          /\ Goes(t, "run", NoObject) /\ UNCHANGED <<open, corrupt, entry>>
      BY <2>2 DEF RecvExpires, Returns, links
    <3>2. "ETIMEOUT" \in Error
      BY DEF Error
    <3>. QED  BY <1>2, <3>1, <3>2, GoesInv
  <2>3. CASE RecvError(t)
    <3>1. /\ Runs(t, "wait_ret") /\ k.error[t] # "EOK" /\ UNCHANGED k
          /\ Goes(t, "run", NoObject) /\ UNCHANGED <<open, corrupt, entry>>
      BY <2>3 DEF RecvError, Returns, links
    <3>. QED  BY <1>2, <3>1, GoesInv
  <2>4. CASE Free(t)
    <3>1. /\ Runs(t, "get_copy") /\ UNCHANGED k
          /\ Goes(t, "run", NoObject) /\ UNCHANGED <<open, corrupt, entry>>
      BY <2>4 DEF Free, Returns
    <3>. QED  BY <1>2, <3>1, GoesInv
  <2>5. CASE UsesDeleted(t)
    <3>1. UNCHANGED <<k, open, pc, on>> /\ corrupt' = TRUE /\ UNCHANGED entry
      BY <2>5 DEF UsesDeleted, mqVars, links
    <3>2. IpcInv' /\ NobodyServed
      BY <1>1, <3>1, IdleStep
    <3>. QED  BY <3>1, <3>2, QuietStep
  <2>6. CASE IpcInCall(t) /\ UNCHANGED mqVars
    <3>1. IpcInv' /\ NobodyServed /\ open' \subseteq open
      BY <1>1, <2>6, IpcInCallInv, IpcInCallServes, IpcOpen
    <3>. QED  BY <2>6, <3>1, QuietStep DEF mqVars, links
  <2>. QED  BY <1>5, <2>1, <2>2, <2>3, <2>4, <2>5, <2>6, LinkInv, ControlLoopInv DEF InCall
<1>6. ASSUME NEW t \in App, Call(t) PROVE Inv'
  <2>1. ASSUME NEW m \in Object, NEW v \in Message, Allocate(t, m, v) PROVE Inv'
    <3>1. /\ Runs(t, "run") /\ UNCHANGED k
          /\ Goes(t, "put_copy", m) /\ UNCHANGED <<open, corrupt, entry>>
      BY <2>1 DEF Allocate
    <3>. QED  BY <1>2, <3>1, GoesInv
  <2>2. ASSUME NEW m \in Object, Recv(t, m) PROVE Inv'
    BY <2>2, UnlinkInv DEF Recv, Usable
  <2>3. ASSUME NEW m \in Object, NEW timed \in BOOLEAN, RecvBlock(t, m, timed) PROVE Inv'
    BY <2>3, WaitsForInv DEF RecvBlock
  <2>4. ASSUME NEW m \in Object, Control(t, m) PROVE Inv'
    <3>1. /\ Runs(t, "run") /\ UNCHANGED k
          /\ Goes(t, "irq_off", m) /\ UNCHANGED <<open, corrupt, entry>>
      BY <2>4 DEF Control, mqVars, links
    <3>. QED  BY <1>2, <3>1, GoesInv
  <2>5. CASE IpcCall(t) /\ UNCHANGED mqVars
    <3>1. IpcInv' /\ NobodyServed /\ open' \subseteq open
      BY <1>1, <2>5, IpcCallInv, IpcCallServes, IpcOpen
    <3>. QED  BY <2>5, <3>1, QuietStep DEF mqVars, links
  <2>. QED  BY <1>6, <2>1, <2>2, <2>3, <2>4, <2>5, MqCreateInv DEF Call
<1>. QED  BY <1>3, <1>4, <1>5, <1>6 DEF Next

-----------------------------------------------------------------------------
\* The inductive invariant holds in every reachable state.
THEOREM Invariance == Spec => []Inv
<1>1. Init => Inv
  BY InitInv
<1>2. Inv /\ [Next]_vars => Inv'
  BY NextInv
<1>. QED  BY <1>1, <1>2, PTL DEF Spec

\* No wake-up of a message queue is lost: while a receiver is left in the list,
\* every message has a receiver that was resumed for it, whatever senders,
\* interrupt handlers, timeouts, resets and deletions come between the resuming
\* of a receiver and its second look at the queue.
THEOREM NoWakeupIsLost == Spec => []NoLostWakeup
<1>1. Inv => NoLostWakeup
  BY DEF Inv
<1>. QED  BY <1>1, Invariance, PTL

\* The kernel stays coherent and nobody is stranded, although a receiver that was
\* resumed may put itself back into the list.
THEOREM KernelIsKept == Spec => [](Coherent /\ NobodyStranded)
<1>1. Inv => Coherent /\ NobodyStranded
  BY DEF Inv, IpcInv
<1>. QED  BY <1>1, Invariance, PTL

-----------------------------------------------------------------------------
(* Linked lists of blocks *)

\* The i-th block of a list, RT_NULL behind its end.
Nth(s, i) == IF i \in 1 .. Len(s) THEN s[i] ELSE NIL

\* s is the list that begins with block b and is linked by nx.
IsChain(nx, b, s) ==
    /\ s \in Seq(Block) /\ IsInjective(s)
    /\ b = Nth(s, 1)
    /\ \A i \in 1 .. Len(s) : nx[s[i]] = Nth(s, i + 1)

\* A list without repetition is no longer than the blocks are many.
LEMMA ListLength ==
    ASSUME NEW s \in Seq(Block), IsInjective(s)
    PROVE  /\ Len(s) \in Nat /\ max_msgs \in Nat /\ Len(s) <= max_msgs
           /\ IsFiniteSet(ToSet(s)) /\ Cardinality(ToSet(s)) = Len(s)
<1>1. IsFiniteSet(Block) /\ Len(s) \in Nat /\ s \in [1 .. Len(s) -> Block]
  BY MessageQueueAssumption
<1>2. max_msgs \in Nat
  BY <1>1, FS_CardinalityType DEF max_msgs
<1>3. s \in Injection(1 .. Len(s), Block)
  BY <1>1 DEF Injection, IsInjective
<1>4. IsFiniteSet(1 .. Len(s)) /\ Cardinality(1 .. Len(s)) = Len(s)
  BY <1>1, FS_Interval
<1>5. Len(s) <= max_msgs
  BY <1>1, <1>3, <1>4, FS_Injection DEF max_msgs
<1>6. s \in Surjection(1 .. Len(s), ToSet(s)) /\ s \in Injection(1 .. Len(s), ToSet(s))
  BY <1>1, <1>3 DEF Surjection, Injection, ToSet, IsInjective
<1>7. IsFiniteSet(ToSet(s)) /\ Cardinality(ToSet(s)) = Len(s)
  BY <1>4, <1>6, FS_Surjection
<1>. QED  BY <1>1, <1>2, <1>5, <1>7

\* The n-th block from b on, by the recursion of Chain.
Steps(h, nx, b, n) ==
    h = [i \in 0 .. n |-> IF i = 0 THEN b ELSE IF h[i - 1] = NIL THEN NIL ELSE nx[h[i - 1]]]

\* Along a list that recursion goes from a block to the next.
LEMMA StepAlong ==
    ASSUME NEW nx, NEW b, NEW s, IsChain(nx, b, s), NEW n \in Nat, NEW i \in 0 .. n, i # 0
    PROVE  /\ i - 1 \in 0 .. n
           /\ Nth(s, i + 1) = IF Nth(s, i) = NIL THEN NIL ELSE nx[Nth(s, i)]
<1>1. Len(s) \in Nat /\ \A j \in 1 .. Len(s) : s[j] \in Block /\ s[j] # NIL
  BY MessageQueueAssumption DEF IsChain
<1>. QED  BY <1>1 DEF IsChain, Nth

\* The list is a solution of the recursion.
LEMMA StepsExist ==
    ASSUME NEW nx, NEW b, NEW s, IsChain(nx, b, s), NEW n \in Nat
    PROVE  \E h : Steps(h, nx, b, n)
<1>1. Nth(s, 0 + 1) = b
  BY DEF IsChain
<1>2. PICK w : w = [i \in 0 .. n |-> Nth(s, i + 1)]
  OBVIOUS
<1>3. ASSUME NEW i \in 0 .. n
      PROVE  w[i] = IF i = 0 THEN b ELSE IF w[i - 1] = NIL THEN NIL ELSE nx[w[i - 1]]
  <2>1. CASE i = 0
    BY <1>1, <1>2, <2>1
  <2>2. CASE i # 0
    <3>1. i - 1 \in 0 .. n /\ (i - 1) + 1 = i
      BY <2>2
    <3>2. w[i - 1] = Nth(s, i) /\ w[i] = Nth(s, i + 1)
      BY <1>2, <3>1
    <3>. QED  BY <2>2, <3>2, StepAlong
  <2>. QED  BY <2>1, <2>2
<1>4. Steps(w, nx, b, n)
  BY <1>2, <1>3 DEF Steps
<1>. QED  BY <1>4

\* And the only one.
LEMMA StepsUnique ==
    ASSUME NEW nx, NEW b, NEW s, IsChain(nx, b, s), NEW n \in Nat, NEW h, Steps(h, nx, b, n)
    PROVE  \A i \in 0 .. n : h[i] = Nth(s, i + 1)
<1>. DEFINE Bad == {i \in 0 .. n : h[i] # Nth(s, i + 1)}
<1>1. Nth(s, 0 + 1) = b
  BY DEF IsChain
<1>2. ASSUME Bad # {} PROVE FALSE
  <2>1. Bad \in SUBSET Nat
    OBVIOUS
  <2>2. PICK m \in Bad : \A i \in Bad : m <= i
    BY <1>2, <2>1, MinProperties
  <2>3. m \in 0 .. n /\ h[m] # Nth(s, m + 1)
    OBVIOUS
  <2>4. h[m] = IF m = 0 THEN b ELSE IF h[m - 1] = NIL THEN NIL ELSE nx[h[m - 1]]
    BY <2>3 DEF Steps
  <2>5. m # 0
    BY <1>1, <2>3, <2>4
  <2>6. m - 1 \in 0 .. n /\ ~(m <= m - 1) /\ (m - 1) + 1 = m
    BY <2>3, <2>5
  <2>7. h[m - 1] = Nth(s, m)
    BY <2>2, <2>6
  <2>. QED  BY <2>3, <2>4, <2>5, <2>7, StepAlong
<1>. QED  BY <1>2

\* Chain follows the links.
LEMMA ChainIs ==
    ASSUME NEW m, NEW b, NEW s, IsChain(next[m], b, s)
    PROVE  Chain(m, b) = s
<1>. DEFINE w == CHOOSE h : h = [i \in 0 .. max_msgs |->
               IF i = 0 THEN b ELSE IF h[i - 1] = NIL THEN NIL ELSE next[m][h[i - 1]]]
            N == {i \in 0 .. max_msgs : w[i] # NIL}
<1>1. Len(s) \in Nat /\ max_msgs \in Nat /\ Len(s) <= max_msgs /\ s \in Seq(Block)
  BY ListLength DEF IsChain
<1>2. \E h : h = [i \in 0 .. max_msgs |->
               IF i = 0 THEN b ELSE IF h[i - 1] = NIL THEN NIL ELSE next[m][h[i - 1]]]
  <2>1. \E h : Steps(h, next[m], b, max_msgs)
    BY <1>1, StepsExist
  <2>. QED  BY <2>1 DEF Steps
<1>3. w = [i \in 0 .. max_msgs |->
               IF i = 0 THEN b ELSE IF w[i - 1] = NIL THEN NIL ELSE next[m][w[i - 1]]]
  BY <1>2, Zenon
<1>4. Chain(m, b) = [i \in 1 .. Cardinality(N) |-> w[i - 1]]
  BY Zenon DEF Chain
<1>. HIDE DEF w
<1>5. \A i \in 0 .. max_msgs : w[i] = Nth(s, i + 1)
  <2>1. Steps(w, next[m], b, max_msgs)
    BY <1>3 DEF Steps
  <2>. QED  BY <1>1, <2>1, StepsUnique
<1>6. N = 0 .. Len(s) - 1
  <2>1. \A i \in 1 .. Len(s) : s[i] # NIL
    BY <1>1, MessageQueueAssumption
  <2>2. \A i \in 0 .. max_msgs : w[i] # NIL <=> i + 1 <= Len(s)
    BY <1>1, <1>5, <2>1 DEF Nth
  <2>. QED  BY <1>1, <2>2
<1>. HIDE DEF N
<1>7. Cardinality(N) = Len(s)
  <2>1. 0 \in Int /\ Len(s) - 1 \in Int
    BY <1>1
  <2>2. Cardinality(0 .. Len(s) - 1) = IF 0 > Len(s) - 1 THEN 0 ELSE Len(s) - 1 - 0 + 1
    BY <2>1, FS_Interval
  <2>. QED  BY <1>1, <1>6, <2>2
<1>8. ASSUME NEW i \in 1 .. Len(s) PROVE w[i - 1] = s[i]
  <2>1. i - 1 \in 0 .. max_msgs /\ (i - 1) + 1 = i
    BY <1>1
  <2>. QED  BY <1>5, <2>1 DEF Nth
<1>. QED  BY <1>1, <1>4, <1>7, <1>8

\* What b tells about a list.
LEMMA ChainHead ==
    ASSUME NEW nx, NEW b, NEW s, IsChain(nx, b, s)
    PROVE  /\ s \in Seq(Block) /\ Len(s) \in Nat
           /\ b = NIL <=> s = <<>>
           /\ b # NIL => b \in Block /\ b \in ToSet(s) /\ Head(s) = b /\ s[1] = b
           /\ NIL \notin ToSet(s) /\ ToSet(s) \subseteq Block
<1>1. s \in Seq(Block) /\ Len(s) \in Nat /\ \A j \in 1 .. Len(s) : s[j] \in Block /\ s[j] # NIL
  BY MessageQueueAssumption DEF IsChain
<1>2. s = <<>> <=> Len(s) = 0
  BY <1>1
<1>. QED  BY <1>1, <1>2 DEF IsChain, Nth, ToSet

\* Links outside a list do not matter to it.
LEMMA ChainFrame ==
    ASSUME NEW nx, NEW ny, NEW b, NEW s, IsChain(nx, b, s), \A c \in ToSet(s) : ny[c] = nx[c]
    PROVE  IsChain(ny, b, s)
  BY DEF IsChain, ToSet

\* The first block is unlinked.
LEMMA ChainPop ==
    ASSUME NEW nx, NEW b, NEW s, IsChain(nx, b, s), b # NIL
    PROVE  /\ IsChain(nx, nx[b], Tail(s))
           /\ ToSet(Tail(s)) = ToSet(s) \ {b}
           /\ Len(Tail(s)) = Len(s) - 1
           /\ \A i \in 1 .. Len(s) - 1 : Tail(s)[i] = s[i + 1]
<1>0. s \in Seq(Block) /\ Len(s) \in Nat /\ s # <<>> /\ s[1] = b
  BY ChainHead
<1>1. /\ s \in Seq(Block) /\ Len(s) \in Nat /\ s # <<>> /\ s[1] = b
      /\ \A i, j \in 1 .. Len(s) : s[i] = s[j] => i = j
  BY <1>0 DEF IsChain, IsInjective
<1>2. PICK r : r = Tail(s)
  OBVIOUS
<1>3. r \in Seq(Block) /\ Len(r) = Len(s) - 1 /\ Len(r) \in Nat
      /\ \A i \in 1 .. Len(r) : r[i] = s[i + 1]
  BY <1>1, <1>2, HeadTailProperties
<1>4. IsInjective(r)
  BY <1>1, <1>3 DEF IsInjective
<1>5. ToSet(r) = ToSet(s) \ {b}
  <2>1. ASSUME NEW c \in ToSet(r) PROVE c \in ToSet(s) \ {b}
    <3>1. PICK i \in 1 .. Len(r) : c = r[i]
      BY <1>3 DEF ToSet
    <3>2. c = s[i + 1] /\ i + 1 \in 1 .. Len(s) /\ i + 1 # 1 /\ 1 \in 1 .. Len(s)
      BY <1>1, <1>3, <3>1
    <3>. QED  BY <1>1, <3>2 DEF ToSet
  <2>2. ASSUME NEW c \in ToSet(s) \ {b} PROVE c \in ToSet(r)
    <3>1. PICK i \in 1 .. Len(s) : c = s[i]
      BY <1>1 DEF ToSet
    <3>2. i - 1 \in 1 .. Len(r) /\ (i - 1) + 1 = i
      BY <1>1, <1>3, <2>2, <3>1
    <3>3. c = r[i - 1]
      BY <1>3, <3>1, <3>2
    <3>. QED  BY <1>3, <3>2, <3>3 DEF ToSet
  <2>. QED  BY <2>1, <2>2
<1>6. nx[b] = Nth(r, 1)
  <2>1. nx[b] = Nth(s, 2)
    BY <1>1 DEF IsChain
  <2>. QED  BY <1>1, <1>3, <2>1 DEF Nth
<1>7. ASSUME NEW i \in 1 .. Len(r) PROVE nx[r[i]] = Nth(r, i + 1)
  <2>1. i + 1 \in 1 .. Len(s) /\ r[i] = s[i + 1]
    BY <1>1, <1>3
  <2>2. nx[s[i + 1]] = Nth(s, (i + 1) + 1)
    BY <2>1 DEF IsChain
  <2>. QED  BY <1>1, <1>3, <2>1, <2>2 DEF Nth
<1>8. IsChain(nx, nx[b], r)
  BY <1>3, <1>4, <1>6, <1>7 DEF IsChain
<1>. QED  BY <1>2, <1>3, <1>5, <1>8

\* The links nx become ny when block c is put before list s, which begins with b,
\* or behind it.
LinksFirst(ny, nx, b, s, c) ==
    ny[c] = b /\ \A d \in ToSet(s) : ny[d] = nx[d]
LinksLast(ny, nx, s, c) ==
    ny[c] = NIL /\ \A d \in ToSet(s) : ny[d] = IF d = Nth(s, Len(s)) THEN c ELSE nx[d]

\* List r is list s with block c before it, or behind it.
IsPush(r, c, s) == r = <<c>> \o s
IsAppend(r, s, c) == r = Append(s, c)

\* A block becomes the first one.
LEMMA ChainPush ==
    ASSUME NEW nx, NEW b, NEW s, IsChain(nx, b, s), NEW c \in Block, c \notin ToSet(s),
           NEW ny, LinksFirst(ny, nx, b, s, c),
           NEW r, IsPush(r, c, s)
    PROVE  /\ IsChain(ny, c, r)
           /\ ToSet(r) = ToSet(s) \cup {c}
           /\ Len(r) = Len(s) + 1 /\ r[1] = c /\ r # <<>>
           /\ \A i \in 1 .. Len(s) : r[i + 1] = s[i]
<1>0. ny[c] = b /\ \A d \in ToSet(s) : ny[d] = nx[d]
  BY DEF LinksFirst
<1>1. /\ s \in Seq(Block) /\ Len(s) \in Nat
      /\ \A i, j \in 1 .. Len(s) : s[i] = s[j] => i = j
      /\ \A i \in 1 .. Len(s) : s[i] # c
  BY ChainHead DEF IsChain, IsInjective, ToSet
<1>2. /\ <<c>> \in Seq(Block) /\ Len(<<c>>) = 1 /\ <<c>>[1] = c
  OBVIOUS
<1>3. /\ r \in Seq(Block) /\ Len(r) = Len(s) + 1
      /\ \A i \in 1 .. Len(s) + 1 : r[i] = IF i = 1 THEN c ELSE s[i - 1]
  <2>1. /\ r \in Seq(Block) /\ Len(r) = 1 + Len(s)
        /\ \A i \in 1 .. 1 + Len(s) : r[i] = IF i <= 1 THEN <<c>>[i] ELSE s[i - 1]
    BY <1>1, <1>2, ConcatProperties DEF IsPush
  <2>. QED  BY <1>1, <1>2, <2>1
<1>4. r[1] = c /\ \A i \in 1 .. Len(s) : r[i + 1] = s[i]
  BY <1>1, <1>3
<1>5. IsInjective(r)
  <2>1. ASSUME NEW i \in 1 .. Len(r), NEW j \in 1 .. Len(r), r[i] = r[j]
        PROVE  i = j
    <3>1. i = 1 \/ (i - 1 \in 1 .. Len(s) /\ r[i] = s[i - 1])
      BY <1>1, <1>3
    <3>2. j = 1 \/ (j - 1 \in 1 .. Len(s) /\ r[j] = s[j - 1])
      BY <1>1, <1>3
    <3>3. CASE i = 1 \/ j = 1
      BY <1>1, <1>4, <2>1, <3>1, <3>2, <3>3
    <3>4. CASE i # 1 /\ j # 1
      <4>1. i - 1 = j - 1
        BY <1>1, <2>1, <3>1, <3>2, <3>4
      <4>. QED  BY <4>1, <1>3
    <3>. QED  BY <3>3, <3>4
  <2>. QED  BY <1>3, <2>1 DEF IsInjective
<1>6. ToSet(r) = ToSet(s) \cup {c}
  <2>1. ASSUME NEW d \in ToSet(r) PROVE d \in ToSet(s) \cup {c}
    <3>1. PICK i \in 1 .. Len(s) + 1 : d = r[i]
      BY <1>3 DEF ToSet
    <3>2. i # 1 => i - 1 \in 1 .. Len(s) /\ d = s[i - 1]
      BY <1>1, <1>3, <3>1
    <3>. QED  BY <1>1, <1>4, <3>1, <3>2 DEF ToSet
  <2>2. ASSUME NEW d \in ToSet(s) \cup {c} PROVE d \in ToSet(r)
    <3>1. CASE d = c
      <4>1. 1 \in 1 .. Len(r)
        BY <1>1, <1>3
      <4>. QED  BY <1>3, <1>4, <3>1, <4>1 DEF ToSet
    <3>2. CASE d \in ToSet(s)
      <4>1. PICK i \in 1 .. Len(s) : d = s[i]
        BY <1>1, <3>2 DEF ToSet
      <4>2. PICK j \in 1 .. Len(r) : d = r[j]
        <5>1. i + 1 \in 1 .. Len(r) /\ d = r[i + 1]
          BY <1>1, <1>3, <1>4, <4>1
        <5>. QED  BY <5>1
      <4>3. j \in DOMAIN r
        BY <1>3
      <4>. QED  BY <4>2, <4>3, Zenon DEF ToSet
    <3>. QED  BY <2>2, <3>1, <3>2
  <2>. QED  BY <2>1, <2>2
<1>7. c = Nth(r, 1)
  BY <1>1, <1>3, <1>4 DEF Nth
<1>8. ASSUME NEW i \in 1 .. Len(r) PROVE ny[r[i]] = Nth(r, i + 1)
  <2>1. CASE i = 1
    <3>1. ny[r[1]] = Nth(s, 1)
      BY <1>0, <1>4 DEF IsChain
    <3>. QED  BY <1>1, <1>3, <1>4, <2>1, <3>1 DEF Nth
  <2>2. CASE i # 1
    <3>1. i - 1 \in 1 .. Len(s) /\ r[i] = s[i - 1] /\ (i - 1) + 1 = i
      BY <1>1, <1>3, <2>2
    <3>2. ny[s[i - 1]] = Nth(s, i)
      BY <1>0, <1>1, <3>1 DEF IsChain, ToSet
    <3>. QED  BY <1>1, <1>3, <1>4, <2>2, <3>1, <3>2 DEF Nth
  <2>. QED  BY <2>1, <2>2
<1>9. IsChain(ny, c, r)
  BY <1>3, <1>5, <1>7, <1>8 DEF IsChain
<1>. QED  BY <1>1, <1>3, <1>4, <1>6, <1>9

\* A block becomes the last one.
LEMMA ChainAppend ==
    ASSUME NEW nx, NEW b, NEW s, IsChain(nx, b, s), NEW c \in Block, c \notin ToSet(s),
           NEW ny, LinksLast(ny, nx, s, c),
           NEW r, IsAppend(r, s, c), NEW first, first = IF b = NIL THEN c ELSE b
    PROVE  /\ IsChain(ny, first, r)
           /\ ToSet(r) = ToSet(s) \cup {c}
           /\ Len(r) = Len(s) + 1 /\ r # <<>> /\ r[Len(r)] = c
           /\ \A i \in 1 .. Len(s) : r[i] = s[i]
<1>0. ny[c] = NIL /\ \A d \in ToSet(s) : ny[d] = IF d = Nth(s, Len(s)) THEN c ELSE nx[d]
  BY DEF LinksLast
<1>1. /\ s \in Seq(Block) /\ Len(s) \in Nat /\ IsInjective(s)
      /\ \A i, j \in 1 .. Len(s) : s[i] = s[j] => i = j
      /\ \A i \in 1 .. Len(s) : s[i] # c /\ s[i] # NIL
  BY ChainHead DEF IsChain, IsInjective, ToSet
<1>2. /\ r \in Seq(Block) /\ Len(r) = Len(s) + 1 /\ r # <<>>
      /\ r[Len(s) + 1] = c /\ \A i \in 1 .. Len(s) : r[i] = s[i]
  BY <1>1, AppendProperties DEF IsAppend
<1>3. IsInjective(r) /\ ToSet(r) = ToSet(s) \cup {c}
  BY <1>1, AppendToList DEF IsAppend
<1>4. first = Nth(r, 1)
  BY <1>1, <1>2 DEF Nth, IsChain
<1>5. ASSUME NEW i \in 1 .. Len(r) PROVE ny[r[i]] = Nth(r, i + 1)
  <2>1. CASE i = Len(s) + 1
    BY <1>0, <1>1, <1>2, <2>1 DEF Nth
  <2>2. CASE i = Len(s)
    <3>1. i \in 1 .. Len(s) /\ r[i] = s[i] /\ s[i] = Nth(s, Len(s)) /\ s[i] \in ToSet(s)
      BY <1>1, <1>2, <2>2 DEF Nth, ToSet
    <3>2. ny[s[i]] = c
      BY <1>0, <3>1
    <3>. QED  BY <1>1, <1>2, <2>2, <3>1, <3>2 DEF Nth
  <2>3. CASE i < Len(s)
    <3>1. /\ i \in 1 .. Len(s) /\ r[i] = s[i] /\ s[i] # Nth(s, Len(s)) /\ s[i] \in ToSet(s)
          /\ i + 1 \in 1 .. Len(s)
      BY <1>1, <1>2, <2>3 DEF Nth, ToSet
    <3>2. ny[s[i]] = Nth(s, i + 1)
      BY <1>0, <3>1 DEF IsChain
    <3>. QED  BY <1>1, <1>2, <3>1, <3>2 DEF Nth
  <2>. QED  BY <1>1, <1>2, <2>1, <2>2, <2>3
<1>6. IsChain(ny, first, r)
  BY <1>2, <1>3, <1>4, <1>5 DEF IsChain
<1>. QED  BY <1>2, <1>3, <1>6

\* rt_mq_init links all blocks into one list.
LEMMA FreshChain == \E s : IsChain(Fresh, FirstFree, s) /\ ToSet(s) = Block
<1>1. IsFiniteSet(Block) /\ max_msgs \in Nat /\ NIL \notin Block
  BY MessageQueueAssumption, FS_CardinalityType DEF max_msgs
<1>2. \E s \in [1 .. max_msgs -> Block] : IsInjective(s)
  <2>1. ExistsBijection(1 .. max_msgs, Block)
    BY <1>1, FS_CardinalityType DEF max_msgs
  <2>. QED  BY <2>1 DEF ExistsBijection, Bijection, Injection
<1>3. order \in [1 .. max_msgs -> Block] /\ IsInjective(order)
  BY <1>2 DEF order
<1>4. PICK s : s = order
  OBVIOUS
<1>5. s \in Seq(Block) /\ Len(s) = max_msgs /\ s \in [1 .. max_msgs -> Block] /\ IsInjective(s)
  BY <1>1, <1>3, <1>4
<1>6. ToSet(s) = Block
  <2>1. Cardinality(ToSet(s)) = Cardinality(Block)
    BY <1>5, ListLength DEF max_msgs
  <2>2. ToSet(s) \in SUBSET Block
    BY <1>5 DEF ToSet
  <2>. QED  BY <1>1, <2>1, <2>2, FS_Subset
<1>7. FirstFree = Nth(s, 1)
  <2>1. Block = {} <=> max_msgs = 0
    BY <1>1, FS_EmptySet DEF max_msgs
  <2>. QED  BY <1>1, <1>4, <1>5, <2>1 DEF FirstFree, Nth
<1>8. ASSUME NEW i \in 1 .. Len(s) PROVE Fresh[s[i]] = Nth(s, i + 1)
  <2>1. s[i] \in Block
    BY <1>5
  <2>2. PICK j : j = CHOOSE m \in 1 .. max_msgs : order[m] = s[i]
    OBVIOUS
  <2>3. j \in 1 .. max_msgs /\ order[j] = s[i]
    BY <1>4, <1>5, <2>2
  <2>4. j = i
    BY <1>4, <1>5, <2>3 DEF IsInjective
  <2>5. Fresh[s[i]] = IF j = max_msgs THEN NIL ELSE order[j + 1]
    BY <2>1, <2>2 DEF Fresh
  <2>. QED  BY <1>1, <1>4, <1>5, <2>4, <2>5 DEF Nth
<1>9. IsChain(Fresh, FirstFree, s)
  BY <1>5, <1>7, <1>8 DEF IsChain
<1>. QED  BY <1>6, <1>9

-----------------------------------------------------------------------------
(* The blocks of one queue *)

\* Every block is in one of three places.
Parts(a, b, c) ==
    /\ a \cap b = {} /\ a \cap c = {} /\ b \cap c = {}
    /\ a \cup b \cup c = Block

\* The three places have equal rights.
LEMMA PartsTurn ==
    ASSUME NEW a, NEW b, NEW c, Parts(a, b, c)
    PROVE  Parts(b, a, c) /\ Parts(c, b, a) /\ Parts(a, c, b)
  BY DEF Parts

\* A block moves from the first place to the third.
LEMMA PartsMove ==
    ASSUME NEW a, NEW b, NEW c, Parts(a, b, c), NEW x \in a,
           NEW d, d = a \ {x}, NEW e, e = c \cup {x}
    PROVE  Parts(d, b, e) /\ x \in Block /\ x \notin b /\ x \notin c
  BY DEF Parts

\* The blocks are in the queue q, in the free list f or in hand, none in two of
\* them; nx are the links, h and tl the ends of the queue, fr the first free block.
Placed(nx, h, tl, fr, hand, q, f) ==
    /\ IsChain(nx, h, q) /\ IsChain(nx, fr, f)
    /\ tl = Nth(q, Len(q))
    /\ Parts(ToSet(q), ToSet(f), hand)

\* What a placement tells about the ends of its lists.
LEMMA PlacedEnds ==
    ASSUME NEW nx, NEW h, NEW tl, NEW fr, NEW hand, NEW q, NEW f,
           Placed(nx, h, tl, fr, hand, q, f)
    PROVE  /\ q \in Seq(Block) /\ f \in Seq(Block) /\ Len(q) \in Nat
           /\ \A c \in ToSet(q) : c \in Block /\ c # NIL /\ c \notin ToSet(f) /\ c \notin hand
           /\ \A c \in ToSet(f) : c \in Block /\ c # NIL /\ c \notin ToSet(q) /\ c \notin hand
           /\ \A c \in hand : c \in Block /\ c # NIL /\ c \notin ToSet(q) /\ c \notin ToSet(f)
           /\ h = NIL <=> Len(q) = 0
           /\ tl = NIL <=> Len(q) = 0
           /\ Len(q) # 0 => tl = q[Len(q)] /\ tl \in ToSet(q) /\ h = q[1] /\ h \in ToSet(q)
<1>1. IsChain(nx, h, q) /\ IsChain(nx, fr, f) /\ tl = Nth(q, Len(q))
  BY DEF Placed
<1>2. q \in Seq(Block) /\ f \in Seq(Block) /\ Len(q) \in Nat
  BY <1>1, ChainHead
<1>3. /\ \A c \in ToSet(q) : c \in Block /\ c # NIL /\ c \notin ToSet(f) /\ c \notin hand
      /\ \A c \in ToSet(f) : c \in Block /\ c # NIL /\ c \notin ToSet(q) /\ c \notin hand
      /\ \A c \in hand : c \in Block /\ c # NIL /\ c \notin ToSet(q) /\ c \notin ToSet(f)
  <2>1. Parts(ToSet(q), ToSet(f), hand)
    BY DEF Placed
  <2>2. PICK A : A = ToSet(q)
    OBVIOUS
  <2>3. PICK B : B = ToSet(f)
    OBVIOUS
  <2>4. Parts(A, B, hand)
    BY <2>1, <2>2, <2>3
  <2>5. /\ \A c \in A : c \in Block /\ c # NIL /\ c \notin B /\ c \notin hand
        /\ \A c \in B : c \in Block /\ c # NIL /\ c \notin A /\ c \notin hand
        /\ \A c \in hand : c \in Block /\ c # NIL /\ c \notin A /\ c \notin B
    BY <2>4, MessageQueueAssumption DEF Parts
  <2>. QED  BY <2>2, <2>3, <2>5
<1>4. h = NIL <=> Len(q) = 0
  BY <1>1, <1>2, ChainHead
<1>5. Len(q) # 0 => 1 \in 1 .. Len(q) /\ Len(q) \in 1 .. Len(q)
  BY <1>2
<1>6. Len(q) # 0 => tl = q[Len(q)] /\ tl \in ToSet(q) /\ h = q[1] /\ h \in ToSet(q)
  BY <1>1, <1>2, <1>5 DEF Nth, ToSet, IsChain
<1>7. Len(q) = 0 => tl = NIL
  BY <1>1 DEF Nth
<1>. QED  BY <1>2, <1>3, <1>4, <1>6, <1>7

\* A free block is taken in hand.
LEMMA TakenFree ==
    ASSUME NEW nx, NEW h, NEW tl, NEW fr, NEW hand, NEW q, NEW f,
           Placed(nx, h, tl, fr, hand, q, f), fr # NIL
    PROVE  Placed(nx, h, tl, nx[fr], hand \cup {fr}, q, Tail(f)) /\ fr \in ToSet(f)
<1>1. IsChain(nx, h, q) /\ IsChain(nx, fr, f) /\ tl = Nth(q, Len(q))
      /\ Parts(ToSet(q), ToSet(f), hand)
  BY DEF Placed
<1>2. /\ IsChain(nx, nx[fr], Tail(f)) /\ ToSet(Tail(f)) = ToSet(f) \ {fr}
      /\ fr \in ToSet(f)
  BY <1>1, ChainPop, ChainHead
<1>3. Parts(ToSet(f), ToSet(q), hand)
  BY <1>1, PartsTurn
<1>4. Parts(ToSet(Tail(f)), ToSet(q), hand \cup {fr})
  BY <1>2, <1>3, PartsMove
<1>5. Parts(ToSet(q), ToSet(Tail(f)), hand \cup {fr})
  BY <1>4, PartsTurn
<1>. QED  BY <1>1, <1>2, <1>5 DEF Placed

\* The links after block b was linked before block h, or behind block tl.
Before(ny, nx, b, h) == ny[b] = h /\ \A c \in Block \ {b} : ny[c] = nx[c]
Behind(ny, nx, b, tl) ==
    \A c \in Block : ny[c] = IF c = b THEN NIL ELSE IF c = tl THEN b ELSE nx[c]

\* A block in hand becomes the last message.
LEMMA PlacedLast ==
    ASSUME NEW nx, NEW h, NEW tl, NEW fr, NEW hand, NEW q, NEW f,
           Placed(nx, h, tl, fr, hand, q, f), NEW b \in hand, NEW ny, Behind(ny, nx, b, tl),
           NEW first, first = IF h = NIL THEN b ELSE h
    PROVE  Placed(ny, first, b, fr, hand \ {b}, Append(q, b), f)
<1>1. IsChain(nx, h, q) /\ IsChain(nx, fr, f) /\ tl = Nth(q, Len(q))
      /\ Parts(ToSet(q), ToSet(f), hand)
  BY DEF Placed
<1>2. /\ Len(q) \in Nat
      /\ \A c \in ToSet(q) : c \in Block /\ c # NIL /\ c \notin ToSet(f) /\ c \notin hand
      /\ \A c \in ToSet(f) : c \in Block /\ c # NIL /\ c \notin ToSet(q) /\ c \notin hand
      /\ b \in Block /\ b \notin ToSet(q) /\ b \notin ToSet(f)
      /\ tl \in ToSet(q) \/ tl = NIL
  BY PlacedEnds
<1>4. PICK r : IsAppend(r, q, b)
  BY DEF IsAppend
<1>5. LinksLast(ny, nx, q, b)
  BY <1>1, <1>2 DEF LinksLast, Behind
<1>6. /\ IsChain(ny, first, r)
      /\ ToSet(r) = ToSet(q) \cup {b} /\ Len(r) = Len(q) + 1 /\ r[Len(r)] = b
  <2>1. IsChain(nx, h, q) /\ b \in Block /\ b \notin ToSet(q)
    BY <1>1, <1>2
  <2>. QED  BY <2>1, <1>4, <1>5, ChainAppend
<1>7. IsChain(ny, fr, f)
  <2>1. \A c \in ToSet(f) : ny[c] = nx[c]
    BY <1>2 DEF Behind
  <2>. QED  BY <1>1, <2>1, ChainFrame
<1>8. b = Nth(r, Len(r))
  BY <1>2, <1>6 DEF Nth
<1>9. Parts(hand, ToSet(f), ToSet(q))
  BY <1>1, PartsTurn
<1>10. Parts(hand \ {b}, ToSet(f), ToSet(r))
  BY <1>6, <1>9, PartsMove
<1>11. Parts(ToSet(r), ToSet(f), hand \ {b})
  BY <1>10, PartsTurn
<1>12. Placed(ny, first, b, fr, hand \ {b}, r, f)
  BY <1>6, <1>7, <1>8, <1>11 DEF Placed
<1>. QED  BY <1>4, <1>12 DEF IsAppend

\* A block in hand becomes the first message.
LEMMA PlacedFirst ==
    ASSUME NEW nx, NEW h, NEW tl, NEW fr, NEW hand, NEW q, NEW f,
           Placed(nx, h, tl, fr, hand, q, f), NEW b \in hand, NEW ny, Before(ny, nx, b, h),
           NEW last, last = IF tl = NIL THEN b ELSE tl
    PROVE  Placed(ny, b, last, fr, hand \ {b}, <<b>> \o q, f)
<1>1. IsChain(nx, h, q) /\ IsChain(nx, fr, f) /\ tl = Nth(q, Len(q))
      /\ Parts(ToSet(q), ToSet(f), hand)
  BY DEF Placed
<1>2. /\ Len(q) \in Nat
      /\ \A c \in ToSet(q) : c \in Block /\ c # NIL /\ c \notin ToSet(f) /\ c \notin hand
      /\ \A c \in ToSet(f) : c \in Block /\ c # NIL /\ c \notin ToSet(q) /\ c \notin hand
      /\ b \in Block /\ b \notin ToSet(q) /\ b \notin ToSet(f)
      /\ tl = NIL <=> Len(q) = 0
      /\ Len(q) # 0 => tl = q[Len(q)]
  BY PlacedEnds
<1>3. PICK r : IsPush(r, b, q)
  BY DEF IsPush
<1>4. (\A d \in ToSet(q) : ny[d] = nx[d]) /\ \A d \in ToSet(f) : ny[d] = nx[d]
  BY <1>2 DEF Before
<1>5. /\ IsChain(ny, b, r) /\ ToSet(r) = ToSet(q) \cup {b} /\ Len(r) = Len(q) + 1 /\ r[1] = b
      /\ \A i \in 1 .. Len(q) : r[i + 1] = q[i]
  <2>1. IsChain(nx, h, q) /\ b \in Block /\ b \notin ToSet(q)
    BY <1>1, <1>2
  <2>2. LinksFirst(ny, nx, h, q, b)
    BY <1>4 DEF LinksFirst, Before
  <2>. QED  BY <2>1, <2>2, <1>3, ChainPush
<1>6. IsChain(ny, fr, f)
  BY <1>1, <1>4, ChainFrame
<1>7. last = Nth(r, Len(r))
  <2>1. CASE Len(q) = 0
    BY <1>2, <1>5, <2>1 DEF Nth
  <2>2. CASE Len(q) # 0
    <3>1. Len(q) \in 1 .. Len(q) /\ Len(r) \in 1 .. Len(r)
      BY <1>2, <1>5, <2>2
    <3>2. r[Len(r)] = q[Len(q)]
      BY <1>2, <1>5, <3>1
    <3>. QED  BY <1>2, <2>2, <3>1, <3>2 DEF Nth
  <2>. QED  BY <2>1, <2>2
<1>8. Parts(hand, ToSet(f), ToSet(q))
  BY <1>1, PartsTurn
<1>9. Parts(hand \ {b}, ToSet(f), ToSet(r))
  BY <1>5, <1>8, PartsMove
<1>10. Parts(ToSet(r), ToSet(f), hand \ {b})
  BY <1>9, PartsTurn
<1>11. Placed(ny, b, last, fr, hand \ {b}, r, f)
  BY <1>5, <1>6, <1>7, <1>10 DEF Placed
<1>. QED  BY <1>3, <1>11 DEF IsPush

\* The first message is taken in hand.
LEMMA TakenFirst ==
    ASSUME NEW nx, NEW h, NEW tl, NEW fr, NEW hand, NEW q, NEW f,
           Placed(nx, h, tl, fr, hand, q, f), h # NIL,
           NEW last, last = IF tl = h THEN NIL ELSE tl
    PROVE  Placed(nx, nx[h], last, fr, hand \cup {h}, Tail(q), f) /\ h \in ToSet(q)
<1>1. IsChain(nx, h, q) /\ IsChain(nx, fr, f) /\ tl = Nth(q, Len(q))
      /\ Parts(ToSet(q), ToSet(f), hand)
  BY DEF Placed
<1>2. Len(q) \in Nat /\ Len(q) # 0 /\ tl = q[Len(q)] /\ h = q[1] /\ h \in ToSet(q) /\ tl # NIL
  BY PlacedEnds
<1>3. PICK r : r = Tail(q)
  OBVIOUS
<1>4. /\ IsChain(nx, nx[h], r) /\ ToSet(r) = ToSet(q) \ {h} /\ Len(r) = Len(q) - 1
      /\ \A i \in 1 .. Len(q) - 1 : r[i] = q[i + 1]
  BY <1>1, <1>3, ChainPop
<1>5. last = Nth(r, Len(r))
  <2>1. CASE Len(q) = 1
    <3>1. tl = h /\ Len(r) = 0
      BY <1>2, <1>4, <2>1
    <3>. QED  BY <3>1 DEF Nth
  <2>2. CASE Len(q) # 1
    <3>1. /\ 1 \in 1 .. Len(q) /\ Len(q) \in 1 .. Len(q)
          /\ Len(q) - 1 \in 1 .. Len(q) - 1 /\ (Len(q) - 1) + 1 = Len(q)
      <4>1. PICK n \in Nat : n = Len(q) /\ n # 0 /\ n # 1
        BY <1>2, <2>2
      <4>2. 1 \in 1 .. n /\ n \in 1 .. n /\ n - 1 \in 1 .. n - 1 /\ (n - 1) + 1 = n
        BY <4>1
      <4>. QED  BY <4>1, <4>2
    <3>2. tl # h
      <4>1. IsInjective(q) /\ DOMAIN q = 1 .. Len(q)
        BY <1>1 DEF IsChain
      <4>2. q[1] = q[Len(q)] => 1 = Len(q)
        BY <3>1, <4>1, Zenon DEF IsInjective
      <4>. QED  BY <1>2, <2>2, <4>2, Zenon
    <3>3. r[Len(q) - 1] = q[Len(q)]
      BY <1>4, <3>1
    <3>. QED  BY <1>2, <1>4, <3>1, <3>2, <3>3 DEF Nth
  <2>. QED  BY <2>1, <2>2
<1>6. Parts(ToSet(r), ToSet(f), hand \cup {h})
  BY <1>1, <1>2, <1>4, PartsMove
<1>7. Placed(nx, nx[h], last, fr, hand \cup {h}, r, f)
  BY <1>1, <1>4, <1>5, <1>6 DEF Placed
<1>. QED  BY <1>2, <1>3, <1>7

\* A block in hand is freed.
LEMMA PlacedFree ==
    ASSUME NEW nx, NEW h, NEW tl, NEW fr, NEW hand, NEW q, NEW f,
           Placed(nx, h, tl, fr, hand, q, f), NEW b \in hand, NEW ny, Before(ny, nx, b, fr)
    PROVE  Placed(ny, h, tl, b, hand \ {b}, q, <<b>> \o f)
<1>1. IsChain(nx, h, q) /\ IsChain(nx, fr, f) /\ tl = Nth(q, Len(q))
      /\ Parts(ToSet(q), ToSet(f), hand)
  BY DEF Placed
<1>2. /\ \A c \in ToSet(q) : c \in Block /\ c # NIL /\ c \notin ToSet(f) /\ c \notin hand
      /\ \A c \in ToSet(f) : c \in Block /\ c # NIL /\ c \notin ToSet(q) /\ c \notin hand
      /\ b \in Block /\ b \notin ToSet(q) /\ b \notin ToSet(f)
  BY PlacedEnds
<1>3. PICK r : IsPush(r, b, f)
  BY DEF IsPush
<1>4. (\A d \in ToSet(q) : ny[d] = nx[d]) /\ \A d \in ToSet(f) : ny[d] = nx[d]
  BY <1>2 DEF Before
<1>5. IsChain(ny, b, r) /\ ToSet(r) = ToSet(f) \cup {b}
  <2>1. IsChain(nx, fr, f) /\ b \in Block /\ b \notin ToSet(f)
    BY <1>1, <1>2
  <2>2. LinksFirst(ny, nx, fr, f, b)
    BY <1>4 DEF LinksFirst, Before
  <2>. QED  BY <2>1, <2>2, <1>3, ChainPush
<1>6. IsChain(ny, h, q)
  BY <1>1, <1>4, ChainFrame
<1>7. Parts(hand, ToSet(q), ToSet(f))
  BY <1>1, PartsTurn
<1>8. Parts(hand \ {b}, ToSet(q), ToSet(r))
  BY <1>5, <1>7, PartsMove
<1>9. Parts(ToSet(q), ToSet(r), hand \ {b})
  BY <1>8, PartsTurn
<1>10. Placed(ny, h, tl, b, hand \ {b}, q, r)
  BY <1>1, <1>5, <1>6, <1>9 DEF Placed
<1>. QED  BY <1>3, <1>10 DEF IsPush

-----------------------------------------------------------------------------
(* The blocks in the hands of threads *)

\* Where a thread holds a block: between the two sections of its call.
Copying == {"put_copy", "get_copy"}

\* The threads that hold a block of queue x, and the blocks they hold; p, w and
\* ms are the values of pc, on and msg.
Holders(p, w, x) == {u \in Thread : w[u] = x /\ p[u] \in Copying}
HandOf(p, w, ms, x) == {ms[u] : u \in Holders(p, w, x)}
OneEach(p, w, ms, x) == \A u, v \in Holders(p, w, x) : ms[u] = ms[v] => u = v

\* The threads other than t are where they were and hold what they held.
OthersKeep(t, p, w, ms, p2, w2, ms2) ==
    \A u \in Thread \ {t} : p2[u] = p[u] /\ w2[u] = w[u] /\ ms2[u] = ms[u]

\* Thread t begins to hold a block.
LEMMA HandGrows ==
    ASSUME NEW p, NEW w, NEW ms, NEW p2, NEW w2, NEW ms2, NEW x, NEW t \in Thread,
           OthersKeep(t, p, w, ms, p2, w2, ms2),
           p[t] \notin Copying, p2[t] \in Copying, w2[t] = x,
           ms2[t] \notin HandOf(p, w, ms, x), OneEach(p, w, ms, x)
    PROVE  /\ HandOf(p2, w2, ms2, x) = HandOf(p, w, ms, x) \cup {ms2[t]}
           /\ OneEach(p2, w2, ms2, x)
<1>1. \A u \in Thread \ {t} : p2[u] = p[u] /\ w2[u] = w[u] /\ ms2[u] = ms[u]
  BY DEF OthersKeep
<1>2. t \notin Holders(p, w, x) /\ t \in Holders(p2, w2, x)
  BY DEF Holders
<1>3. \A u \in Thread \ {t} : u \in Holders(p2, w2, x) <=> u \in Holders(p, w, x)
  BY <1>1 DEF Holders
<1>4. (\A u \in Holders(p2, w2, x) : u \in Thread) /\ \A u \in Holders(p, w, x) : u \in Thread
  BY DEF Holders
<1>5. \A b : b \in HandOf(p, w, ms, x) <=> \E u \in Holders(p, w, x) : b = ms[u]
  BY DEF HandOf
<1>6. \A b : b \in HandOf(p2, w2, ms2, x) <=> \E u \in Holders(p2, w2, x) : b = ms2[u]
  BY DEF HandOf
<1>7. ASSUME NEW b PROVE b \in HandOf(p2, w2, ms2, x) <=> b \in HandOf(p, w, ms, x) \/ b = ms2[t]
  BY <1>1, <1>2, <1>3, <1>4, <1>5, <1>6
<1>8. ASSUME NEW u \in Holders(p2, w2, x), NEW v \in Holders(p2, w2, x), ms2[u] = ms2[v]
      PROVE  u = v
  <2>1. CASE u = t \/ v = t
    BY <1>1, <1>2, <1>3, <1>4, <1>5, <1>8, <2>1
  <2>2. CASE u # t /\ v # t
    BY <1>1, <1>3, <1>4, <1>8, <2>2 DEF OneEach
  <2>. QED  BY <2>1, <2>2
<1>. QED  BY <1>7, <1>8 DEF OneEach

\* Thread t hands over the block that it holds.
LEMMA HandShrinks ==
    ASSUME NEW p, NEW w, NEW ms, NEW p2, NEW w2, NEW ms2, NEW x, NEW t \in Thread,
           OthersKeep(t, p, w, ms, p2, w2, ms2),
           p[t] \in Copying, w[t] = x, p2[t] \notin Copying, OneEach(p, w, ms, x)
    PROVE  /\ HandOf(p2, w2, ms2, x) = HandOf(p, w, ms, x) \ {ms[t]}
           /\ ms[t] \in HandOf(p, w, ms, x) /\ OneEach(p2, w2, ms2, x)
<1>1. \A u \in Thread \ {t} : p2[u] = p[u] /\ w2[u] = w[u] /\ ms2[u] = ms[u]
  BY DEF OthersKeep
<1>2. t \in Holders(p, w, x) /\ t \notin Holders(p2, w2, x)
  BY DEF Holders
<1>3. \A u \in Thread \ {t} : u \in Holders(p2, w2, x) <=> u \in Holders(p, w, x)
  BY <1>1 DEF Holders
<1>4. (\A u \in Holders(p2, w2, x) : u \in Thread) /\ \A u \in Holders(p, w, x) : u \in Thread
  BY DEF Holders
<1>5. \A b : b \in HandOf(p, w, ms, x) <=> \E u \in Holders(p, w, x) : b = ms[u]
  BY DEF HandOf
<1>6. \A b : b \in HandOf(p2, w2, ms2, x) <=> \E u \in Holders(p2, w2, x) : b = ms2[u]
  BY DEF HandOf
<1>7. \A u \in Holders(p, w, x) \ {t} : ms[u] # ms[t]
  BY <1>2 DEF OneEach
<1>8. ASSUME NEW b PROVE b \in HandOf(p2, w2, ms2, x) <=> b \in HandOf(p, w, ms, x) /\ b # ms[t]
  BY <1>1, <1>2, <1>3, <1>4, <1>5, <1>6, <1>7
<1>9. OneEach(p2, w2, ms2, x)
  BY <1>1, <1>2, <1>3, <1>4 DEF OneEach
<1>. QED  BY <1>2, <1>5, <1>8, <1>9

\* Nothing happens to the blocks of queue x that are in hand.
LEMMA HandStays ==
    ASSUME NEW p, NEW w, NEW ms, NEW p2, NEW w2, NEW ms2, NEW x, OneEach(p, w, ms, x),
           \A u \in Thread : /\ u \in Holders(p2, w2, x) <=> u \in Holders(p, w, x)
                             /\ u \in Holders(p, w, x) => ms2[u] = ms[u]
    PROVE  HandOf(p2, w2, ms2, x) = HandOf(p, w, ms, x) /\ OneEach(p2, w2, ms2, x)
<1>1. (\A u \in Holders(p2, w2, x) : u \in Thread) /\ \A u \in Holders(p, w, x) : u \in Thread
  BY DEF Holders
<1>2. \A b : b \in HandOf(p, w, ms, x) <=> \E u \in Holders(p, w, x) : b = ms[u]
  BY DEF HandOf
<1>3. \A b : b \in HandOf(p2, w2, ms2, x) <=> \E u \in Holders(p2, w2, x) : b = ms2[u]
  BY DEF HandOf
<1>4. ASSUME NEW b PROVE b \in HandOf(p2, w2, ms2, x) <=> b \in HandOf(p, w, ms, x)
  BY <1>1, <1>2, <1>3
<1>5. OneEach(p2, w2, ms2, x)
  BY <1>1 DEF OneEach
<1>. QED  BY <1>4, <1>5

-----------------------------------------------------------------------------
(* The inductive invariant of the linked blocks *)

\* Links lead to blocks or end a list, and blocks hold messages.
MqTypeOK ==
    /\ next \in [Object -> [Block -> Block \cup {NIL}]]
    /\ data \in [Object -> [Block -> Message \cup {NoMessage}]]
    /\ msg_queue_head \in [Object -> Block \cup {NIL}]
    /\ msg_queue_tail \in [Object -> Block \cup {NIL}]
    /\ msg_queue_free \in [Object -> Block \cup {NIL}]
    /\ msg \in [Thread -> Block \cup {NIL}]
    /\ buffer \in [Thread -> Message \cup {NoMessage}]

\* Only the running thread can be in the part of rt_mq_control that runs with
\* interrupts disabled.
ResetterRuns == \A u \in Thread : pc[u] = "irq_off" => u = k.cur

\* A sender that has its block has a message for it.
SendersHaveMessage == \A u \in Thread : pc[u] = "put_copy" => buffer[u] \in Message

\* q are the blocks of the messages of queue m, f its free blocks.
Accounted(m, q, f) ==
    /\ Placed(next[m], msg_queue_head[m], msg_queue_tail[m], msg_queue_free[m],
              HandOf(pc, on, msg, m), q, f)
    /\ ~Resetting(m) => entry[m] = Len(q)

\* The blocks of every queue are accounted for, and no two threads hold the same.
ListInv ==
    /\ MqTypeOK /\ ResetterRuns /\ SendersHaveMessage
    /\ \A m \in Object : /\ OneEach(pc, on, msg, m)
                         /\ \E q, f : Accounted(m, q, f)

\* The messages in the blocks of a list, and the abstract queues.
Messages(d, q) == [i \in 1 .. Len(q) |-> d[q[i]]]
Queues == [m \in Object |-> Contents(m)]

\* The abstract queue can be read off the placement of the blocks.
ContentsFollow ==
    \A m \in Object : \A q, f : Accounted(m, q, f) =>
        Contents(m) = IF Resetting(m) THEN <<>> ELSE Messages(data[m], q)

\* Chain finds the blocks of the messages.
LEMMA ContentsRead == ContentsFollow
<1>1. ASSUME NEW m \in Object, NEW q, NEW f, Accounted(m, q, f)
      PROVE  Contents(m) = IF Resetting(m) THEN <<>> ELSE Messages(data[m], q)
  <2>1. IsChain(next[m], msg_queue_head[m], q)
    BY <1>1 DEF Accounted, Placed
  <2>2. Chain(m, msg_queue_head[m]) = q
    BY <2>1, ChainIs
  <2>. QED  BY <2>2 DEF Contents, Messages
<1>. QED  BY <1>1 DEF ContentsFollow

\* The messages of a list of blocks.
LEMMA MessagesType ==
    ASSUME NEW d \in [Block -> Message \cup {NoMessage}], NEW q \in Seq(Block)
    PROVE  /\ Messages(d, q) \in Seq(Message \cup {NoMessage})
           /\ Len(Messages(d, q)) = Len(q) /\ Len(q) \in Nat
           /\ \A i \in 1 .. Len(q) : Messages(d, q)[i] = d[q[i]]
<1>1. Len(q) \in Nat /\ \A i \in 1 .. Len(q) : q[i] \in Block
  OBVIOUS
<1>2. PICK n \in Nat : n = Len(q)
  BY <1>1
<1>3. PICK s : s = [i \in 1 .. n |-> d[q[i]]]
  OBVIOUS
<1>4. s \in [1 .. n -> Message \cup {NoMessage}] /\ \A i \in 1 .. n : s[i] = d[q[i]]
  BY <1>1, <1>2, <1>3
<1>5. s \in Seq(Message \cup {NoMessage}) /\ Len(s) = n
  BY <1>4
<1>6. s = Messages(d, q)
  BY <1>2, <1>3 DEF Messages
<1>. QED  BY <1>2, <1>4, <1>5, <1>6

\* A message behind the others.
LEMMA MessagesAppend ==
    ASSUME NEW d \in [Block -> Message \cup {NoMessage}], NEW q \in Seq(Block),
           NEW e \in [Block -> Message \cup {NoMessage}], NEW b \in Block,
           \A c \in ToSet(q) : e[c] = d[c]
    PROVE  Messages(e, Append(q, b)) = Append(Messages(d, q), e[b])
<1>1. PICK r : r = Append(q, b)
  OBVIOUS
<1>2. /\ r \in Seq(Block) /\ Len(r) = Len(q) + 1 /\ r[Len(q) + 1] = b /\ Len(q) \in Nat
      /\ \A i \in 1 .. Len(q) : r[i] = q[i]
  BY <1>1, AppendProperties
<1>3. \A i \in 1 .. Len(q) : e[q[i]] = d[q[i]]
  BY <1>2 DEF ToSet
<1>4. PICK x \in Seq(Message \cup {NoMessage}) : x = Messages(d, q)
  BY MessagesType
<1>5. PICK y \in Seq(Message \cup {NoMessage}) : y = Messages(e, r)
  BY <1>2, MessagesType
<1>6. Len(x) = Len(q) /\ \A i \in 1 .. Len(q) : x[i] = d[q[i]]
  BY <1>4, MessagesType
<1>7. Len(y) = Len(q) + 1 /\ \A i \in 1 .. Len(q) + 1 : y[i] = e[r[i]]
  BY <1>2, <1>5, MessagesType
<1>8. y[Len(x) + 1] = e[b]
  <2>1. Len(q) + 1 \in 1 .. Len(q) + 1
    BY <1>2
  <2>. QED  BY <1>2, <1>6, <1>7, <2>1
<1>9. \A i \in 1 .. Len(x) : y[i] = x[i]
  <2>1. \A i \in 1 .. Len(q) : i \in 1 .. Len(q) + 1
    BY <1>2
  <2>. QED  BY <1>2, <1>3, <1>6, <1>7, <2>1
<1>10. e[b] \in Message \cup {NoMessage} /\ Len(y) = Len(x) + 1
  BY <1>6, <1>7
<1>11. y = Append(x, e[b])
  BY <1>8, <1>9, <1>10
<1>. QED  BY <1>1, <1>4, <1>5, <1>11

\* A message before the others.
LEMMA MessagesPush ==
    ASSUME NEW d \in [Block -> Message \cup {NoMessage}], NEW q \in Seq(Block),
           NEW e \in [Block -> Message \cup {NoMessage}], NEW b \in Block,
           \A c \in ToSet(q) : e[c] = d[c]
    PROVE  Messages(e, <<b>> \o q) = <<e[b]>> \o Messages(d, q)
<1>1. PICK r : r = <<b>> \o q
  OBVIOUS
<1>2. <<b>> \in Seq(Block) /\ Len(<<b>>) = 1 /\ <<b>>[1] = b /\ Len(q) \in Nat
  OBVIOUS
<1>3. /\ r \in Seq(Block) /\ Len(r) = 1 + Len(q)
      /\ \A i \in 1 .. 1 + Len(q) : r[i] = IF i <= 1 THEN <<b>>[i] ELSE q[i - 1]
  BY <1>1, <1>2, ConcatProperties
<1>4. \A i \in 1 .. Len(q) : e[q[i]] = d[q[i]]
  BY <1>2 DEF ToSet
<1>5. PICK x \in Seq(Message \cup {NoMessage}) : x = Messages(d, q)
  BY MessagesType
<1>6. PICK y \in Seq(Message \cup {NoMessage}) : y = Messages(e, r)
  BY <1>3, MessagesType
<1>7. Len(x) = Len(q) /\ \A i \in 1 .. Len(q) : x[i] = d[q[i]]
  BY <1>5, MessagesType
<1>8. Len(y) = 1 + Len(q) /\ \A i \in 1 .. 1 + Len(q) : y[i] = e[r[i]]
  BY <1>3, <1>6, MessagesType
<1>9. PICK v \in Message \cup {NoMessage} : v = e[b]
  OBVIOUS
<1>10. PICK z : z = <<v>> \o x
  OBVIOUS
<1>11. <<v>> \in Seq(Message \cup {NoMessage}) /\ Len(<<v>>) = 1 /\ <<v>>[1] = v
  OBVIOUS
<1>12. /\ z \in Seq(Message \cup {NoMessage}) /\ Len(z) = 1 + Len(q)
       /\ \A i \in 1 .. 1 + Len(q) : z[i] = IF i <= 1 THEN <<v>>[i] ELSE x[i - 1]
  BY <1>7, <1>10, <1>11, ConcatProperties
<1>13. ASSUME NEW i \in 1 .. 1 + Len(q) PROVE y[i] = z[i]
  <2>1. CASE i = 1
    <3>1. 1 \in 1 .. 1 + Len(q)
      BY <1>2
    <3>2. r[1] = b /\ z[1] = v /\ y[1] = e[r[1]]
      BY <1>2, <1>3, <1>8, <1>11, <1>12, <3>1
    <3>. QED  BY <1>9, <2>1, <3>2
  <2>2. CASE i # 1
    <3>1. i - 1 \in 1 .. Len(q) /\ ~(i <= 1)
      BY <1>2, <2>2
    <3>2. r[i] = q[i - 1] /\ z[i] = x[i - 1] /\ y[i] = e[r[i]]
      BY <1>3, <1>8, <1>12, <3>1
    <3>. QED  BY <1>4, <1>7, <3>1, <3>2
  <2>. QED  BY <2>1, <2>2
<1>14. y = z
  <2>1. Len(y) = Len(z) /\ \A i \in 1 .. Len(y) : y[i] = z[i]
    BY <1>8, <1>12, <1>13
  <2>. QED  BY <2>1, <1>12
<1>. QED  BY <1>1, <1>5, <1>6, <1>9, <1>10, <1>14

\* The first message and the others.
LEMMA MessagesTail ==
    ASSUME NEW d \in [Block -> Message \cup {NoMessage}], NEW q \in Seq(Block), q # <<>>
    PROVE  /\ Messages(d, Tail(q)) = Tail(Messages(d, q))
           /\ Head(Messages(d, q)) = d[q[1]] /\ Messages(d, q) # <<>>
<1>1. PICK r : r = Tail(q)
  OBVIOUS
<1>2. /\ r \in Seq(Block) /\ Len(r) = Len(q) - 1 /\ Len(q) \in Nat /\ Len(q) # 0
      /\ \A i \in 1 .. Len(r) : r[i] = q[i + 1]
  BY <1>1, HeadTailProperties
<1>3. PICK x \in Seq(Message \cup {NoMessage}) : x = Messages(d, q)
  BY MessagesType
<1>4. PICK y \in Seq(Message \cup {NoMessage}) : y = Messages(d, r)
  BY <1>2, MessagesType
<1>5. Len(x) = Len(q) /\ \A i \in 1 .. Len(q) : x[i] = d[q[i]]
  BY <1>3, MessagesType
<1>6. Len(y) = Len(r) /\ \A i \in 1 .. Len(r) : y[i] = d[r[i]]
  BY <1>2, <1>4, MessagesType
<1>7. x # <<>> /\ Head(x) = x[1] /\ 1 \in 1 .. Len(q)
  BY <1>2, <1>5
<1>8. \A i \in 1 .. Len(y) : y[i] = x[i + 1]
  BY <1>2, <1>5, <1>6
<1>9. Len(y) = Len(x) - 1
  BY <1>2, <1>5, <1>6
<1>10. y = Tail(x)
  BY <1>7, <1>8, <1>9
<1>11. Head(x) = d[q[1]]
  BY <1>5, <1>7
<1>. QED  BY <1>1, <1>3, <1>4, <1>7, <1>10, <1>11

-----------------------------------------------------------------------------
(* What a step leaves alone *)

\* The links and the messages of queue x stay.
SameLinks(x) ==
    /\ next'[x] = next[x] /\ data'[x] = data[x] /\ entry'[x] = entry[x]
    /\ msg_queue_head'[x] = msg_queue_head[x] /\ msg_queue_tail'[x] = msg_queue_tail[x]
    /\ msg_queue_free'[x] = msg_queue_free[x]

\* Queue x stays, and so do the blocks of it in hand.
SameQueue(x) ==
    /\ SameLinks(x)
    /\ HandOf(pc', on', msg', x) = HandOf(pc, on, msg, x)
    /\ OneEach(pc', on', msg', x)
    /\ Resetting(x)' <=> Resetting(x)

\* A queue that stays keeps its account and its messages.
LEMMA SameQueueKept ==
    ASSUME ListInv, NEW x \in Object, SameQueue(x)
    PROVE  /\ OneEach(pc', on', msg', x) /\ \E q, f : Accounted(x, q, f)'
           /\ Contents(x)' = Contents(x)
<1>1. PICK q, f : Accounted(x, q, f)
  BY DEF ListInv
<1>2. Accounted(x, q, f)'
  BY <1>1 DEF Accounted, SameQueue, SameLinks
<1>3. ContentsFollow /\ ContentsFollow'
  BY ContentsRead, PTL
<1>4. Contents(x) = IF Resetting(x) THEN <<>> ELSE Messages(data[x], q)
  BY <1>1, <1>3 DEF ContentsFollow
<1>5. Contents(x)' = IF Resetting(x)' THEN <<>> ELSE Messages(data'[x], q)
  BY <1>2, <1>3 DEF ContentsFollow
<1>6. (Resetting(x)' <=> Resetting(x)) /\ data'[x] = data[x]
  BY DEF SameQueue, SameLinks
<1>. QED  BY <1>2, <1>4, <1>5, <1>6 DEF SameQueue

\* The part of the invariant that is not about one queue.
Context == MqTypeOK /\ ResetterRuns /\ SendersHaveMessage

\* What a step has to do to the abstract queues.
Refines == Promise!Next \/ UNCHANGED <<Queues, got>>

\* A step that concerns no queue.
LEMMA StillStep ==
    ASSUME ListInv, Context', \A x \in Object : SameQueue(x), UNCHANGED got
    PROVE  ListInv' /\ Refines
<1>1. \A x \in Object : /\ OneEach(pc', on', msg', x) /\ \E q, f : Accounted(x, q, f)'
                        /\ Contents(x)' = Contents(x)
  BY SameQueueKept
<1>2. ListInv'
  BY <1>1 DEF ListInv, Context
<1>3. Queues' = Queues
  BY <1>1 DEF Queues
<1>. QED  BY <1>2, <1>3 DEF Refines

\* A step that concerns queue m.
LEMMA QueueStep ==
    ASSUME ListInv, Context', NEW m \in Object, \A x \in Object \ {m} : SameQueue(x),
           OneEach(pc', on', msg', m), NEW q, NEW f, Accounted(m, q, f)'
    PROVE  /\ ListInv' /\ \A x \in Object \ {m} : Contents(x)' = Contents(x)
           /\ Contents(m)' = IF Resetting(m)' THEN <<>> ELSE Messages(data'[m], q)
<1>1. \A x \in Object \ {m} : /\ OneEach(pc', on', msg', x) /\ \E r, g : Accounted(x, r, g)'
                              /\ Contents(x)' = Contents(x)
  BY SameQueueKept
<1>2. \A x \in Object : OneEach(pc', on', msg', x) /\ \E r, g : Accounted(x, r, g)'
  BY <1>1
<1>3. ListInv'
  BY <1>2 DEF ListInv, Context
<1>4. ContentsFollow'
  BY ContentsRead, PTL
<1>5. Contents(m)' = IF Resetting(m)' THEN <<>> ELSE Messages(data'[m], q)
  BY <1>4 DEF ContentsFollow
<1>. QED  BY <1>1, <1>3, <1>5

\* What the account of a queue says of its messages.
LEMMA AccountRead ==
    ASSUME ListInv, NEW m \in Object, NEW q, NEW f, Accounted(m, q, f)
    PROVE  /\ q \in Seq(Block) /\ data[m] \in [Block -> Message \cup {NoMessage}]
           /\ Contents(m) = IF Resetting(m) THEN <<>> ELSE Messages(data[m], q)
           /\ Placed(next[m], msg_queue_head[m], msg_queue_tail[m], msg_queue_free[m],
                     HandOf(pc, on, msg, m), q, f)
           /\ ~Resetting(m) => entry[m] = Len(q)
<1>1. Placed(next[m], msg_queue_head[m], msg_queue_tail[m], msg_queue_free[m],
             HandOf(pc, on, msg, m), q, f) /\ (~Resetting(m) => entry[m] = Len(q))
  BY DEF Accounted
<1>2. q \in Seq(Block)
  BY <1>1 DEF Placed, IsChain
<1>3. data[m] \in [Block -> Message \cup {NoMessage}]
  BY DEF ListInv, MqTypeOK
<1>. QED  BY <1>1, <1>2, <1>3, ContentsRead DEF ContentsFollow

\* Outside rt_mq_control no reset is under way.
LEMMA NoReset ==
    ASSUME ListInv, pc[k.cur] # "irq_off"
    PROVE  (\A u \in Thread : pc[u] # "irq_off") /\ \A x : ~Resetting(x)
  BY DEF ListInv, ResetterRuns, Resetting

\* A thread that is not in rt_mq_control goes on, and not to it.
LEMMA NoResetAfter ==
    ASSUME ListInv, pc[k.cur] # "irq_off", NEW t \in Thread,
           OthersKeep(t, pc, on, msg, pc', on', msg'), pc'[t] # "irq_off"
    PROVE  ResetterRuns' /\ \A x : ~Resetting(x)'
<1>1. \A u \in Thread : pc[u] # "irq_off"
  BY NoReset
<1>2. \A u \in Thread : pc'[u] # "irq_off"
  BY <1>1 DEF OthersKeep
<1>. QED  BY <1>2 DEF ResetterRuns, Resetting

\* A step of thread t leaves a queue alone that t neither held a block of nor
\* resets, before or after the step.
LEMMA OthersSame ==
    ASSUME ListInv, NEW x \in Object, SameLinks(x), NEW t \in Thread,
           OthersKeep(t, pc, on, msg, pc', on', msg'),
           pc[t] \in Copying \cup {"irq_off"} => on[t] # x,
           pc'[t] \in Copying \cup {"irq_off"} => on'[t] # x
    PROVE  SameQueue(x)
<1>1. \A u \in Thread \ {t} : pc'[u] = pc[u] /\ on'[u] = on[u] /\ msg'[u] = msg[u]
  BY DEF OthersKeep
<1>2. \A u \in Thread : /\ u \in Holders(pc', on', x) <=> u \in Holders(pc, on, x)
                        /\ u \in Holders(pc, on, x) => msg'[u] = msg[u]
  BY <1>1 DEF Holders
<1>3. OneEach(pc, on, msg, x)
  BY DEF ListInv
<1>4. HandOf(pc', on', msg', x) = HandOf(pc, on, msg, x) /\ OneEach(pc', on', msg', x)
  BY <1>2, <1>3, HandStays
<1>5. Resetting(x)' <=> Resetting(x)
  BY <1>1 DEF Resetting
<1>. QED  BY <1>4, <1>5 DEF SameQueue

\* Nobody moves.
LEMMA NobodyMoves ==
    ASSUME ListInv, NEW x \in Object, SameLinks(x), UNCHANGED <<pc, on, msg>>
    PROVE  SameQueue(x)
<1>1. OneEach(pc, on, msg, x)
  BY DEF ListInv
<1>. QED  BY <1>1 DEF SameQueue, Resetting

\* Thread t goes on in its call; only its local variable msg may change.
LEMMA GoesKeep ==
    ASSUME IpcInv, MqTypeOK, NEW t \in Thread, NEW label, NEW o, Goes(t, label, o),
           UNCHANGED msg \/ \E b : msg' = [msg EXCEPT ![t] = b]
    PROVE  /\ OthersKeep(t, pc, on, msg, pc', on', msg')
           /\ pc'[t] = label /\ on'[t] = o
<1>1. /\ pc'[t] = label /\ on'[t] = o
      /\ \A u \in Thread \ {t} : pc'[u] = pc[u] /\ on'[u] = on[u]
  BY DEF IpcInv, IpcTypeOK, Goes
<1>2. \A u \in Thread \ {t} : msg'[u] = msg[u]
  BY DEF MqTypeOK
<1>. QED  BY <1>1, <1>2 DEF OthersKeep

\* Nothing changes but for the scheduler.
LEMMA UnchangedLists ==
    ASSUME ListInv, UNCHANGED mqVars, UNCHANGED <<pc, on>>,
           pc[k.cur] # "irq_off" \/ k'.cur = k.cur
    PROVE  ListInv' /\ Refines
<1>1. /\ UNCHANGED <<next, data, msg_queue_head, msg_queue_tail, msg_queue_free, entry>>
      /\ UNCHANGED <<msg, buffer, got>>
  BY DEF mqVars, links, call
<1>2. ResetterRuns'
  <2>1. CASE k'.cur = k.cur
    BY <2>1 DEF ListInv, ResetterRuns
  <2>2. CASE pc[k.cur] # "irq_off"
    BY <2>2, NoReset DEF ResetterRuns
  <2>. QED  BY <2>1, <2>2
<1>3. Context'
  BY <1>1, <1>2 DEF Context, ListInv, MqTypeOK, SendersHaveMessage
<1>4. \A x \in Object : SameQueue(x)
  BY <1>1, NobodyMoves DEF SameLinks
<1>. QED  BY <1>1, <1>3, <1>4, StillStep

\* A thread that holds no block goes on to a place where it holds none.
LEMMA GoesOn ==
    ASSUME IpcInv, ListInv, NEW t \in Thread, NEW label, Runs(t, label),
           label \notin Copying \cup {"irq_off"},
           NEW after, after \notin Copying \cup {"irq_off"}, NEW o, Goes(t, after, o),
           UNCHANGED <<links, data, got>>,
           UNCHANGED <<msg, buffer>> \/ CallEnds(t)
    PROVE  ListInv' /\ Refines
<1>1. UNCHANGED <<next, data, msg_queue_head, msg_queue_tail, msg_queue_free, entry>>
  BY DEF links
<1>2. MqTypeOK /\ pc[t] = label /\ k.cur = t
  BY DEF ListInv, Runs
<1>3. /\ OthersKeep(t, pc, on, msg, pc', on', msg') /\ pc'[t] = after /\ on'[t] = o
  BY <1>2, GoesKeep DEF CallEnds
<1>4. MqTypeOK'
  BY <1>1, <1>2 DEF MqTypeOK, CallEnds
<1>5. ResetterRuns'
  BY <1>2, <1>3, NoResetAfter
<1>6. SendersHaveMessage'
  <2>1. \A u \in Thread \ {t} : buffer'[u] = buffer[u]
    BY <1>2 DEF CallEnds, MqTypeOK
  <2>. QED  BY <1>3, <2>1 DEF ListInv, SendersHaveMessage, OthersKeep, Copying
<1>7. \A x \in Object : SameQueue(x)
  BY <1>1, <1>2, <1>3, OthersSame DEF SameLinks
<1>. QED  BY <1>4, <1>5, <1>6, <1>7, StillStep DEF Context

-----------------------------------------------------------------------------
(* The steps of the abstract queues *)

\* A send of the abstract specification.
LEMMA SendRefines ==
    ASSUME NEW m \in Object, NEW v \in Message, Len(Contents(m)) < max_msgs,
           Contents(m)' = IF v \in Urgent THEN <<v>> \o Contents(m) ELSE Append(Contents(m), v),
           \A x \in Object \ {m} : Contents(x)' = Contents(x), UNCHANGED got
    PROVE  Refines
<1>1. Promise!Send(m, v)
  BY DEF Promise!Send
<1>. QED  BY <1>1 DEF Refines, Promise!Next

\* A receive of the abstract specification.
LEMMA ReceiveRefines ==
    ASSUME NEW m \in Object, Contents(m) # <<>>, Contents(m)' = Tail(Contents(m)),
           \A x \in Object \ {m} : Contents(x)' = Contents(x),
           got' = [got EXCEPT ![m] = Head(Contents(m))]
    PROVE  Refines
<1>1. Promise!Receive(m)
  BY DEF Promise!Receive
<1>. QED  BY <1>1 DEF Refines, Promise!Next

\* A clearing of the abstract specification.
LEMMA ClearRefines ==
    ASSUME NEW m \in Object, Contents(m)' = <<>>,
           \A x \in Object \ {m} : Contents(x)' = Contents(x), UNCHANGED got
    PROVE  Refines
<1>1. Promise!Clear(m)
  BY DEF Promise!Clear
<1>. QED  BY <1>1 DEF Refines, Promise!Next

\* A step without a trace in the abstract specification.
LEMMA StutterRefines ==
    ASSUME NEW m \in Object, Contents(m)' = Contents(m),
           \A x \in Object \ {m} : Contents(x)' = Contents(x), UNCHANGED got
    PROVE  Refines
<1>1. \A x \in Object : Contents(x)' = Contents(x)
  OBVIOUS
<1>. QED  BY <1>1 DEF Refines, Queues

-----------------------------------------------------------------------------
(* Linking a message: rt_mq_send, rt_mq_urgent *)

\* The queue of the blocks q got message v in a further block; fr, hand and f are
\* the other places of the blocks.
Lengthened(m, v, fr, hand, q, f, r) ==
    /\ Placed(next'[m], msg_queue_head'[m], msg_queue_tail'[m], fr, hand, r, f)
    /\ Len(r) = Len(q) + 1
    /\ Messages(data'[m], r) = IF v \in Urgent THEN <<v>> \o Messages(data[m], q)
                               ELSE Append(Messages(data[m], q), v)

\* Linking is about one queue.
LinksOnly(m) ==
    /\ entry'[m] = entry[m] + 1
    /\ next' \in [Object -> [Block -> Block \cup {NIL}]]
    /\ data' \in [Object -> [Block -> Message \cup {NoMessage}]]
    /\ msg_queue_head' \in [Object -> Block \cup {NIL}]
    /\ msg_queue_tail' \in [Object -> Block \cup {NIL}]
    /\ \A x \in Object \ {m} :
         /\ next'[x] = next[x] /\ data'[x] = data[x] /\ entry'[x] = entry[x]
         /\ msg_queue_head'[x] = msg_queue_head[x]
         /\ msg_queue_tail'[x] = msg_queue_tail[x]

\* A block in hand gets message v and becomes part of queue m.
LEMMA LinkedQueue ==
    ASSUME MqTypeOK, entry \in [Object -> Nat], NEW m \in Object, NEW v \in Message,
           NEW fr, NEW hand, NEW q, NEW f, NEW b \in hand,
           Placed(next[m], msg_queue_head[m], msg_queue_tail[m], fr, hand, q, f),
           Linked(m, b, v)
    PROVE  LinksOnly(m) /\ \E r : Lengthened(m, v, fr, hand \ {b}, q, f, r)
<1>1. /\ b \in Block /\ b \notin ToSet(q) /\ q \in Seq(Block) /\ Len(q) \in Nat
      /\ \A c \in ToSet(q) : c \in Block
  BY PlacedEnds
<1>2. /\ data' = [data EXCEPT ![m][b] = v]
      /\ data \in [Object -> [Block -> Message \cup {NoMessage}]]
  BY DEF Linked, MqTypeOK
<1>3. /\ data' \in [Object -> [Block -> Message \cup {NoMessage}]]
      /\ \A x \in Object \ {m} : data'[x] = data[x]
      /\ data'[m][b] = v /\ \A c \in Block \ {b} : data'[m][c] = data[m][c]
  BY <1>1, <1>2
<1>4. PICK d \in [Block -> Message \cup {NoMessage}] : d = data[m]
  BY <1>2
<1>5. PICK e \in [Block -> Message \cup {NoMessage}] : e = data'[m]
  BY <1>3
<1>6. e[b] = v /\ \A c \in ToSet(q) : e[c] = d[c]
  BY <1>1, <1>3, <1>4, <1>5
<1>7. CASE v \in Urgent
  <2>1. /\ next' = [next EXCEPT ![m][b] = msg_queue_head[m]]
        /\ msg_queue_head' = [msg_queue_head EXCEPT ![m] = b]
        /\ msg_queue_tail' = [msg_queue_tail EXCEPT ![m] =
                                IF msg_queue_tail[m] = NIL THEN b ELSE msg_queue_tail[m]]
        /\ entry' = [entry EXCEPT ![m] = entry[m] + 1]
    BY <1>7 DEF Linked, LinkHead
  <2>2. /\ next' \in [Object -> [Block -> Block \cup {NIL}]]
        /\ \A x \in Object \ {m} : next'[x] = next[x]
        /\ next'[m][b] = msg_queue_head[m] /\ \A c \in Block \ {b} : next'[m][c] = next[m][c]
    BY <1>1, <2>1 DEF MqTypeOK
  <2>3. /\ msg_queue_head' \in [Object -> Block \cup {NIL}]
        /\ msg_queue_tail' \in [Object -> Block \cup {NIL}]
        /\ entry'[m] = entry[m] + 1 /\ msg_queue_head'[m] = b
        /\ msg_queue_tail'[m] = IF msg_queue_tail[m] = NIL THEN b ELSE msg_queue_tail[m]
        /\ \A x \in Object \ {m} : /\ entry'[x] = entry[x]
                                   /\ msg_queue_head'[x] = msg_queue_head[x]
                                   /\ msg_queue_tail'[x] = msg_queue_tail[x]
    BY <1>1, <2>1 DEF MqTypeOK
  <2>4. Placed(next'[m], b, msg_queue_tail'[m], fr, hand \ {b}, <<b>> \o q, f)
    <3>1. Before(next'[m], next[m], b, msg_queue_head[m])
      BY <2>2 DEF Before
    <3>. QED  BY <2>3, <3>1, PlacedFirst
  <2>5. Messages(e, <<b>> \o q) = <<v>> \o Messages(d, q)
    BY <1>1, <1>6, MessagesPush
  <2>6. Len(<<b>> \o q) = Len(q) + 1
    BY <1>1
  <2>7. LinksOnly(m)
    BY <1>3, <2>2, <2>3 DEF LinksOnly
  <2>8. Lengthened(m, v, fr, hand \ {b}, q, f, <<b>> \o q)
    BY <1>4, <1>5, <1>7, <2>3, <2>4, <2>5, <2>6 DEF Lengthened
  <2>. QED  BY <2>7, <2>8
<1>8. CASE v \notin Urgent
  <2>1. /\ next' = [next EXCEPT ![m] =
                      [c \in Block |-> IF c = b THEN NIL
                                       ELSE IF c = msg_queue_tail[m] THEN b ELSE next[m][c]]]
        /\ msg_queue_tail' = [msg_queue_tail EXCEPT ![m] = b]
        /\ msg_queue_head' = [msg_queue_head EXCEPT ![m] =
                                IF msg_queue_head[m] = NIL THEN b ELSE msg_queue_head[m]]
        /\ entry' = [entry EXCEPT ![m] = entry[m] + 1]
    BY <1>8 DEF Linked, LinkTail
  <2>2. /\ next' \in [Object -> [Block -> Block \cup {NIL}]]
        /\ \A x \in Object \ {m} : next'[x] = next[x]
        /\ \A c \in Block : next'[m][c] = IF c = b THEN NIL
                                          ELSE IF c = msg_queue_tail[m] THEN b ELSE next[m][c]
    <3>1. PICK g : g = [c \in Block |-> IF c = b THEN NIL
                                        ELSE IF c = msg_queue_tail[m] THEN b ELSE next[m][c]]
      OBVIOUS
    <3>2. /\ g \in [Block -> Block \cup {NIL}]
          /\ \A c \in Block : g[c] = IF c = b THEN NIL
                                     ELSE IF c = msg_queue_tail[m] THEN b ELSE next[m][c]
      BY <1>1, <3>1 DEF MqTypeOK
    <3>3. next' = [next EXCEPT ![m] = g]
      BY <2>1, <3>1
    <3>. QED  BY <3>2, <3>3 DEF MqTypeOK
  <2>3. /\ msg_queue_head' \in [Object -> Block \cup {NIL}]
        /\ msg_queue_tail' \in [Object -> Block \cup {NIL}]
        /\ entry'[m] = entry[m] + 1 /\ msg_queue_tail'[m] = b
        /\ msg_queue_head'[m] = IF msg_queue_head[m] = NIL THEN b ELSE msg_queue_head[m]
        /\ \A x \in Object \ {m} : /\ entry'[x] = entry[x]
                                   /\ msg_queue_head'[x] = msg_queue_head[x]
                                   /\ msg_queue_tail'[x] = msg_queue_tail[x]
    BY <1>1, <2>1 DEF MqTypeOK
  <2>4. Placed(next'[m], msg_queue_head'[m], b, fr, hand \ {b}, Append(q, b), f)
    <3>1. Behind(next'[m], next[m], b, msg_queue_tail[m])
      BY <2>2 DEF Behind
    <3>. QED  BY <2>3, <3>1, PlacedLast
  <2>5. Messages(e, Append(q, b)) = Append(Messages(d, q), v)
    BY <1>1, <1>6, MessagesAppend
  <2>6. Len(Append(q, b)) = Len(q) + 1
    BY <1>1
  <2>7. LinksOnly(m)
    BY <1>3, <2>2, <2>3 DEF LinksOnly
  <2>8. Lengthened(m, v, fr, hand \ {b}, q, f, Append(q, b))
    BY <1>4, <1>5, <1>8, <2>3, <2>4, <2>5, <2>6 DEF Lengthened
  <2>. QED  BY <2>7, <2>8
<1>. QED  BY <1>7, <1>8

\* The send that the linking of a block is.
LEMMA LinkedRefines ==
    ASSUME ListInv, Context', NEW m \in Object, NEW v \in Message,
           \A x \in Object \ {m} : SameQueue(x), OneEach(pc', on', msg', m),
           NEW q, NEW f, Accounted(m, q, f), ~Resetting(m), ~Resetting(m)',
           NEW r, NEW g, Accounted(m, r, g)', UNCHANGED got,
           NEW fr, NEW hand, Lengthened(m, v, fr, hand, q, g, r)
    PROVE  ListInv' /\ Refines
<1>0. /\ Len(r) = Len(q) + 1
      /\ Messages(data'[m], r) = IF v \in Urgent THEN <<v>> \o Messages(data[m], q)
                                 ELSE Append(Messages(data[m], q), v)
  BY DEF Lengthened
<1>1. /\ ListInv' /\ \A x \in Object \ {m} : Contents(x)' = Contents(x)
      /\ Contents(m)' = Messages(data'[m], r)
  BY QueueStep
<1>2. /\ Contents(m) = Messages(data[m], q) /\ q \in Seq(Block)
      /\ data[m] \in [Block -> Message \cup {NoMessage}]
  BY AccountRead
<1>3. Len(Contents(m)) < max_msgs
  <2>1. r \in Seq(Block) /\ IsInjective(r)
    BY DEF Accounted, Placed, IsChain
  <2>2. Len(r) <= max_msgs /\ max_msgs \in Nat
    BY <2>1, ListLength
  <2>3. Len(Contents(m)) = Len(q) /\ Len(q) \in Nat
    BY <1>2, MessagesType
  <2>. QED  BY <1>0, <2>2, <2>3
<1>. QED  BY <1>0, <1>1, <1>2, <1>3, SendRefines

\* rt_mq_send: the first section takes a free block.
LEMMA AllocateLists ==
    ASSUME Inv, ListInv, NEW t \in App, NEW m \in Object, NEW v \in Message, Allocate(t, m, v)
    PROVE  ListInv' /\ Refines
<1>1. /\ Runs(t, "run") /\ msg_queue_free[m] # NIL
      /\ msg' = [msg EXCEPT ![t] = msg_queue_free[m]]
      /\ msg_queue_free' = [msg_queue_free EXCEPT ![m] = next[m][msg_queue_free[m]]]
      /\ buffer' = [buffer EXCEPT ![t] = v] /\ Goes(t, "put_copy", m)
      /\ UNCHANGED <<next, data, msg_queue_head, msg_queue_tail, entry>> /\ UNCHANGED got
  BY DEF Allocate
<1>2. IpcInv /\ MqTypeOK /\ t \in Thread /\ pc[t] = "run" /\ k.cur = t
  BY <1>1 DEF Inv, ListInv, App, Runs
<1>3. OthersKeep(t, pc, on, msg, pc', on', msg') /\ pc'[t] = "put_copy" /\ on'[t] = m
  BY <1>1, <1>2, GoesKeep
<1>4. PICK q, f : Accounted(m, q, f)
  BY DEF ListInv
<1>5. PICK b : b = msg_queue_free[m]
  OBVIOUS
<1>6. Placed(next[m], msg_queue_head[m], msg_queue_tail[m], b, HandOf(pc, on, msg, m), q, f)
  BY <1>4, <1>5 DEF Accounted
<1>7. /\ Placed(next[m], msg_queue_head[m], msg_queue_tail[m], next[m][b],
                HandOf(pc, on, msg, m) \cup {b}, q, Tail(f))
      /\ b \in ToSet(f)
  BY <1>1, <1>5, <1>6, TakenFree
<1>8. b \in Block /\ b \notin HandOf(pc, on, msg, m)
  BY <1>6, <1>7, PlacedEnds
<1>9. /\ msg_queue_free' \in [Object -> Block \cup {NIL}] /\ msg_queue_free'[m] = next[m][b]
      /\ \A x \in Object \ {m} : msg_queue_free'[x] = msg_queue_free[x]
  BY <1>1, <1>2, <1>5, <1>8 DEF MqTypeOK
<1>10. /\ msg' \in [Thread -> Block \cup {NIL}] /\ msg'[t] = b
       /\ buffer' \in [Thread -> Message \cup {NoMessage}] /\ buffer'[t] = v
       /\ \A u \in Thread \ {t} : buffer'[u] = buffer[u]
  BY <1>1, <1>2, <1>5, <1>8 DEF MqTypeOK
<1>11. ResetterRuns' /\ (\A x : ~Resetting(x)') /\ \A x : ~Resetting(x)
  BY <1>2, <1>3, NoResetAfter, NoReset
<1>12. Context'
  <2>1. MqTypeOK'
    BY <1>1, <1>2, <1>9, <1>10 DEF MqTypeOK
  <2>2. SendersHaveMessage'
    BY <1>3, <1>10 DEF ListInv, SendersHaveMessage, OthersKeep
  <2>. QED  BY <1>11, <2>1, <2>2 DEF Context
<1>13. \A x \in Object \ {m} : SameQueue(x)
  <2>1. pc[t] \notin Copying \cup {"irq_off"}
    BY <1>2 DEF Copying
  <2>. QED  BY <1>1, <1>2, <1>3, <1>9, <2>1, OthersSame DEF SameLinks
<1>14. /\ HandOf(pc', on', msg', m) = HandOf(pc, on, msg, m) \cup {b}
       /\ OneEach(pc', on', msg', m)
  <2>1. OneEach(pc, on, msg, m) /\ pc[t] \notin Copying /\ pc'[t] \in Copying
    BY <1>2, <1>3 DEF ListInv, Copying
  <2>. QED  BY <1>2, <1>3, <1>8, <1>10, <2>1, HandGrows
<1>15. Accounted(m, q, Tail(f))'
  <2>1. entry[m] = Len(q)
    BY <1>4, <1>11 DEF Accounted
  <2>. QED  BY <1>1, <1>7, <1>9, <1>14, <2>1 DEF Accounted
<1>16. /\ ListInv' /\ \A x \in Object \ {m} : Contents(x)' = Contents(x)
       /\ Contents(m)' = Messages(data'[m], q)
  BY <1>11, <1>12, <1>13, <1>14, <1>15, QueueStep
<1>17. Contents(m) = Messages(data[m], q)
  BY <1>4, <1>11, AccountRead
<1>. QED  BY <1>1, <1>16, <1>17, StutterRefines

\* rt_mq_send and rt_mq_urgent: the second section links the block.
LEMMA LinkLists ==
    ASSUME Inv, ListInv, NEW t \in App, Link(t)
    PROVE  ListInv' /\ Refines
<1>1. PICK m \in Object : m = on[t]
  BY DEF Link, Inv, IpcInv, IpcTypeOK
<1>2. PICK b : b = msg[t]
  OBVIOUS
<1>3. PICK v : v = buffer[t]
  OBVIOUS
<1>4. /\ Runs(t, "put_copy") /\ Linked(m, b, v) /\ ResumesOne(t, m) /\ CallEnds(t)
      /\ UNCHANGED <<msg_queue_free, got>>
  BY <1>1, <1>2, <1>3 DEF Link
<1>5. /\ IpcInv /\ entry \in [Object -> Nat] /\ MqTypeOK /\ t \in Thread
      /\ pc[t] = "put_copy" /\ k.cur = t
  BY <1>4 DEF Inv, ListInv, App, Runs
<1>6. v \in Message
  BY <1>3, <1>5 DEF ListInv, SendersHaveMessage
<1>7. PICK label \in {"run", "sched"} : Goes(t, label, NoObject)
  BY <1>4 DEF ResumesOne, Returns
<1>8. OthersKeep(t, pc, on, msg, pc', on', msg') /\ pc'[t] = label /\ on'[t] = NoObject
  BY <1>4, <1>5, <1>7, GoesKeep DEF CallEnds
<1>9. pc'[t] \notin Copying \cup {"irq_off"} /\ pc[t] \in Copying /\ pc'[t] \notin Copying
  BY <1>5, <1>7, <1>8 DEF Copying
<1>10. /\ HandOf(pc', on', msg', m) = HandOf(pc, on, msg, m) \ {b}
       /\ b \in HandOf(pc, on, msg, m) /\ OneEach(pc', on', msg', m)
  <2>1. OneEach(pc, on, msg, m)
    BY DEF ListInv
  <2>. QED  BY <1>1, <1>2, <1>5, <1>8, <1>9, <2>1, HandShrinks
<1>11. PICK q, f : Accounted(m, q, f)
  BY DEF ListInv
<1>12. Placed(next[m], msg_queue_head[m], msg_queue_tail[m], msg_queue_free[m],
              HandOf(pc, on, msg, m), q, f)
  BY <1>11 DEF Accounted
<1>13. PICK hand : hand = HandOf(pc, on, msg, m)
  OBVIOUS
<1>14. LinksOnly(m) /\ \E r : Lengthened(m, v, msg_queue_free[m], hand \ {b}, q, f, r)
  <2>1. Placed(next[m], msg_queue_head[m], msg_queue_tail[m], msg_queue_free[m], hand, q, f)
        /\ b \in hand /\ Linked(m, b, v)
    BY <1>4, <1>10, <1>12, <1>13
  <2>. QED  BY <1>5, <1>6, <2>1, LinkedQueue
<1>15. PICK r : Lengthened(m, v, msg_queue_free[m], hand \ {b}, q, f, r)
  BY <1>14
<1>16. pc[k.cur] # "irq_off" /\ pc'[t] # "irq_off"
  BY <1>5, <1>9
<1>17. ResetterRuns' /\ ~Resetting(m)' /\ ~Resetting(m)
  BY <1>5, <1>8, <1>16, NoResetAfter, NoReset
<1>18. Context'
  <2>1. /\ msg' \in [Thread -> Block \cup {NIL}]
        /\ buffer' \in [Thread -> Message \cup {NoMessage}]
        /\ \A u \in Thread \ {t} : buffer'[u] = buffer[u]
    BY <1>4, <1>5 DEF CallEnds, MqTypeOK
  <2>2. MqTypeOK'
    BY <1>4, <1>5, <1>14, <2>1 DEF MqTypeOK, LinksOnly
  <2>3. SendersHaveMessage'
    BY <1>8, <1>9, <2>1 DEF ListInv, SendersHaveMessage, OthersKeep, Copying
  <2>. QED  BY <1>17, <2>2, <2>3 DEF Context
<1>19. \A x \in Object \ {m} : SameQueue(x)
  <2>1. \A x \in Object \ {m} : SameLinks(x)
    BY <1>4, <1>14 DEF SameLinks, LinksOnly
  <2>. QED  BY <1>1, <1>5, <1>8, <1>9, <2>1, OthersSame
<1>20. Accounted(m, r, f)'
  <2>1. entry[m] = Len(q)
    BY <1>11, <1>17 DEF Accounted
  <2>. QED  BY <1>4, <1>10, <1>13, <1>14, <1>15, <2>1 DEF Accounted, Lengthened, LinksOnly
<1>. QED  BY <1>4, <1>6, <1>10, <1>11, <1>15, <1>17, <1>18, <1>19, <1>20, LinkedRefines

\* rt_mq_send in an interrupt handler takes a free block and links it.
LEMMA SendIsrLists ==
    ASSUME Inv, ListInv, NEW m \in Object, NEW v \in Message, SendIsr(m, v)
    PROVE  ListInv' /\ Refines
<1>1. PICK b : b = msg_queue_free[m]
  OBVIOUS
<1>2. /\ Interruptible /\ b # NIL /\ Linked(m, b, v)
      /\ msg_queue_free' = [msg_queue_free EXCEPT ![m] = next[m][b]]
      /\ UNCHANGED <<pc, on, msg, buffer>> /\ UNCHANGED got
  BY <1>1 DEF SendIsr, call
<1>3. entry \in [Object -> Nat] /\ MqTypeOK /\ pc[k.cur] # "irq_off"
  BY <1>2 DEF Inv, ListInv, Interruptible
<1>4. PICK q, f : Accounted(m, q, f)
  BY DEF ListInv
<1>5. PICK hand : hand = HandOf(pc, on, msg, m)
  OBVIOUS
<1>6. Placed(next[m], msg_queue_head[m], msg_queue_tail[m], b, hand, q, f)
  BY <1>1, <1>4, <1>5 DEF Accounted
<1>7. /\ Placed(next[m], msg_queue_head[m], msg_queue_tail[m], next[m][b],
                hand \cup {b}, q, Tail(f))
      /\ b \in ToSet(f)
  BY <1>2, <1>6, TakenFree
<1>8. b \in Block /\ b \notin hand
  BY <1>6, <1>7, PlacedEnds
<1>9. PICK more : more = hand \cup {b}
  OBVIOUS
<1>10. b \in more /\ more \ {b} = hand
  BY <1>8, <1>9
<1>11. LinksOnly(m) /\ \E r : Lengthened(m, v, next[m][b], more \ {b}, q, Tail(f), r)
  <2>1. Placed(next[m], msg_queue_head[m], msg_queue_tail[m], next[m][b], more, q, Tail(f))
        /\ b \in more /\ Linked(m, b, v)
    BY <1>2, <1>7, <1>9, <1>10
  <2>. QED  BY <1>3, <2>1, LinkedQueue
<1>12. PICK r : Lengthened(m, v, next[m][b], more \ {b}, q, Tail(f), r)
  BY <1>11
<1>13. /\ msg_queue_free' \in [Object -> Block \cup {NIL}] /\ msg_queue_free'[m] = next[m][b]
       /\ \A x \in Object \ {m} : msg_queue_free'[x] = msg_queue_free[x]
  BY <1>2, <1>3, <1>8 DEF MqTypeOK
<1>14. /\ \A u \in Thread : pc'[u] # "irq_off"
       /\ ~Resetting(m)' /\ ~Resetting(m)
  BY <1>2, <1>3, NoReset DEF Resetting
<1>15. Context'
  <2>1. MqTypeOK'
    BY <1>2, <1>3, <1>11, <1>13 DEF MqTypeOK, LinksOnly
  <2>2. SendersHaveMessage' /\ ResetterRuns'
    BY <1>2, <1>14 DEF ListInv, SendersHaveMessage, ResetterRuns
  <2>. QED  BY <2>1, <2>2 DEF Context
<1>16. \A x \in Object \ {m} : SameQueue(x)
  <2>1. \A x \in Object \ {m} : SameLinks(x)
    BY <1>11, <1>13 DEF SameLinks, LinksOnly
  <2>. QED  BY <1>2, <2>1, NobodyMoves
<1>17. OneEach(pc', on', msg', m) /\ HandOf(pc', on', msg', m) = hand
  BY <1>2, <1>5 DEF ListInv
<1>18. Accounted(m, r, Tail(f))'
  <2>1. entry[m] = Len(q)
    BY <1>4, <1>14 DEF Accounted
  <2>. QED  BY <1>10, <1>11, <1>12, <1>13, <1>17, <2>1 DEF Accounted, Lengthened, LinksOnly
<1>. QED  BY <1>2, <1>4, <1>12, <1>14, <1>15, <1>16, <1>17, <1>18, LinkedRefines

-----------------------------------------------------------------------------
(* rt_mq_recv, rt_mq_control and rt_mq_init *)

\* rt_mq_recv: the first section unlinks the first message.
LEMMA UnlinkLists ==
    ASSUME Inv, ListInv, NEW t \in App, NEW m \in Object, entry[m] # 0, Unlink(t, m),
           NEW label \in {"run", "wait_ret"}, Runs(t, label)
    PROVE  ListInv' /\ Refines
<1>1. PICK b : b = msg_queue_head[m]
  OBVIOUS
<1>2. /\ msg' = [msg EXCEPT ![t] = b]
      /\ msg_queue_head' = [msg_queue_head EXCEPT ![m] = next[m][b]]
      /\ msg_queue_tail' = [msg_queue_tail EXCEPT ![m] =
                              IF msg_queue_tail[m] = b THEN NIL ELSE msg_queue_tail[m]]
      /\ entry' = [entry EXCEPT ![m] = entry[m] - 1]
      /\ got' = [got EXCEPT ![m] = data[m][b]] /\ Goes(t, "get_copy", m)
      /\ UNCHANGED <<next, data, msg_queue_free, buffer>>
  BY <1>1 DEF Unlink
<1>3. /\ IpcInv /\ entry \in [Object -> Nat] /\ MqTypeOK /\ t \in Thread
      /\ pc[t] = label /\ k.cur = t /\ pc[k.cur] # "irq_off"
  BY DEF Inv, ListInv, App, Runs
<1>4. OthersKeep(t, pc, on, msg, pc', on', msg') /\ pc'[t] = "get_copy" /\ on'[t] = m
  BY <1>2, <1>3, GoesKeep
<1>5. ResetterRuns' /\ (\A x : ~Resetting(x)') /\ \A x : ~Resetting(x)
  BY <1>3, <1>4, NoResetAfter, NoReset
<1>6. PICK q, f : Accounted(m, q, f)
  BY DEF ListInv
<1>7. PICK hand : hand = HandOf(pc, on, msg, m)
  OBVIOUS
<1>8. /\ Placed(next[m], b, msg_queue_tail[m], msg_queue_free[m], hand, q, f)
      /\ entry[m] = Len(q) /\ q \in Seq(Block) /\ Contents(m) = Messages(data[m], q)
      /\ data[m] \in [Block -> Message \cup {NoMessage}]
  BY <1>1, <1>5, <1>6, <1>7, AccountRead
<1>9. b # NIL /\ b = q[1] /\ q # <<>> /\ Len(q) \in Nat /\ Len(q) # 0
  <2>1. Len(q) \in Nat /\ Len(q) # 0
    BY <1>3, <1>8
  <2>2. b # NIL /\ b = q[1]
    BY <1>8, <2>1, PlacedEnds
  <2>. QED  BY <2>1, <2>2
<1>10. PICK last : last = IF msg_queue_tail[m] = b THEN NIL ELSE msg_queue_tail[m]
  OBVIOUS
<1>11. /\ Placed(next[m], next[m][b], last, msg_queue_free[m], hand \cup {b}, Tail(q), f)
       /\ b \in ToSet(q)
  BY <1>8, <1>9, <1>10, TakenFirst
<1>12. b \in Block /\ b \notin hand
  BY <1>8, <1>11, PlacedEnds
<1>13. /\ msg_queue_head' \in [Object -> Block \cup {NIL}] /\ msg_queue_head'[m] = next[m][b]
       /\ msg_queue_tail' \in [Object -> Block \cup {NIL}] /\ msg_queue_tail'[m] = last
       /\ entry'[m] = entry[m] - 1
       /\ \A x \in Object \ {m} : /\ msg_queue_head'[x] = msg_queue_head[x]
                                  /\ msg_queue_tail'[x] = msg_queue_tail[x]
                                  /\ entry'[x] = entry[x]
  BY <1>2, <1>3, <1>10, <1>12 DEF MqTypeOK
<1>14. msg' \in [Thread -> Block \cup {NIL}] /\ msg'[t] = b
  BY <1>2, <1>3, <1>12 DEF MqTypeOK
<1>15. Context'
  <2>1. MqTypeOK'
    BY <1>2, <1>3, <1>13, <1>14 DEF MqTypeOK
  <2>2. SendersHaveMessage'
    BY <1>2, <1>4 DEF ListInv, SendersHaveMessage, OthersKeep
  <2>. QED  BY <1>5, <2>1, <2>2 DEF Context
<1>16. \A x \in Object \ {m} : SameQueue(x)
  <2>1. \A x \in Object \ {m} : SameLinks(x)
    BY <1>2, <1>13 DEF SameLinks
  <2>2. pc[t] \notin Copying \cup {"irq_off"}
    BY <1>3 DEF Copying
  <2>. QED  BY <1>3, <1>4, <2>1, <2>2, OthersSame
<1>17. HandOf(pc', on', msg', m) = hand \cup {b} /\ OneEach(pc', on', msg', m)
  <2>1. OneEach(pc, on, msg, m) /\ pc[t] \notin Copying /\ pc'[t] \in Copying
    BY <1>3, <1>4 DEF ListInv, Copying
  <2>. QED  BY <1>3, <1>4, <1>7, <1>12, <1>14, <2>1, HandGrows
<1>18. Accounted(m, Tail(q), f)'
  <2>1. Len(Tail(q)) = Len(q) - 1
    BY <1>8, <1>9, HeadTailProperties
  <2>. QED  BY <1>2, <1>8, <1>11, <1>13, <1>17, <2>1 DEF Accounted
<1>19. /\ ListInv' /\ \A x \in Object \ {m} : Contents(x)' = Contents(x)
       /\ Contents(m)' = Messages(data'[m], Tail(q))
  BY <1>5, <1>15, <1>16, <1>17, <1>18, QueueStep
<1>20. /\ Messages(data[m], Tail(q)) = Tail(Messages(data[m], q))
       /\ Head(Messages(data[m], q)) = data[m][b] /\ Messages(data[m], q) # <<>>
  BY <1>8, <1>9, MessagesTail
<1>21. Contents(m) # <<>> /\ Contents(m)' = Tail(Contents(m))
       /\ got' = [got EXCEPT ![m] = Head(Contents(m))]
  BY <1>2, <1>8, <1>19, <1>20
<1>. QED  BY <1>19, <1>21, ReceiveRefines

\* rt_mq_recv: the second section frees the block.
LEMMA FreeLists ==
    ASSUME Inv, ListInv, NEW t \in App, Free(t)
    PROVE  ListInv' /\ Refines
<1>1. PICK m \in Object : m = on[t]
  BY DEF Free, Inv, IpcInv, IpcTypeOK
<1>2. PICK b : b = msg[t]
  OBVIOUS
<1>3. /\ Runs(t, "get_copy") /\ CallEnds(t) /\ Goes(t, "run", NoObject)
      /\ next' = [next EXCEPT ![m][b] = msg_queue_free[m]]
      /\ msg_queue_free' = [msg_queue_free EXCEPT ![m] = b]
      /\ UNCHANGED <<data, msg_queue_head, msg_queue_tail, entry>> /\ UNCHANGED got
  BY <1>1, <1>2 DEF Free, Returns
<1>4. /\ IpcInv /\ MqTypeOK /\ t \in Thread /\ pc[t] = "get_copy" /\ k.cur = t
      /\ pc[k.cur] # "irq_off"
  BY <1>3 DEF Inv, ListInv, App, Runs
<1>5. OthersKeep(t, pc, on, msg, pc', on', msg') /\ pc'[t] = "run" /\ on'[t] = NoObject
  BY <1>3, <1>4, GoesKeep DEF CallEnds
<1>6. pc'[t] \notin Copying \cup {"irq_off"} /\ pc[t] \in Copying /\ pc'[t] \notin Copying
  BY <1>4, <1>5 DEF Copying
<1>7. PICK hand : hand = HandOf(pc, on, msg, m)
  OBVIOUS
<1>8. HandOf(pc', on', msg', m) = hand \ {b} /\ b \in hand /\ OneEach(pc', on', msg', m)
  <2>1. OneEach(pc, on, msg, m)
    BY DEF ListInv
  <2>. QED  BY <1>1, <1>2, <1>4, <1>5, <1>6, <1>7, <2>1, HandShrinks
<1>9. ResetterRuns' /\ (\A x : ~Resetting(x)') /\ \A x : ~Resetting(x)
  BY <1>4, <1>5, NoResetAfter, NoReset
<1>10. PICK q, f : Accounted(m, q, f)
  BY DEF ListInv
<1>11. /\ Placed(next[m], msg_queue_head[m], msg_queue_tail[m], msg_queue_free[m], hand, q, f)
       /\ entry[m] = Len(q) /\ Contents(m) = Messages(data[m], q)
  BY <1>7, <1>9, <1>10, AccountRead
<1>12. b \in Block
  BY <1>8, <1>11, PlacedEnds
<1>13. /\ next' \in [Object -> [Block -> Block \cup {NIL}]]
       /\ (\A x \in Object \ {m} : next'[x] = next[x])
       /\ Before(next'[m], next[m], b, msg_queue_free[m])
  <2>1. /\ next' \in [Object -> [Block -> Block \cup {NIL}]]
        /\ (\A x \in Object \ {m} : next'[x] = next[x])
        /\ next'[m][b] = msg_queue_free[m] /\ \A c \in Block \ {b} : next'[m][c] = next[m][c]
    BY <1>3, <1>4, <1>12 DEF MqTypeOK
  <2>. QED  BY <2>1 DEF Before
<1>14. /\ msg_queue_free' \in [Object -> Block \cup {NIL}] /\ msg_queue_free'[m] = b
       /\ \A x \in Object \ {m} : msg_queue_free'[x] = msg_queue_free[x]
  BY <1>3, <1>4, <1>12 DEF MqTypeOK
<1>15. Placed(next'[m], msg_queue_head[m], msg_queue_tail[m], b, hand \ {b}, q, <<b>> \o f)
  BY <1>8, <1>11, <1>13, PlacedFree
<1>16. Context'
  <2>1. /\ msg' \in [Thread -> Block \cup {NIL}]
        /\ buffer' \in [Thread -> Message \cup {NoMessage}]
        /\ \A u \in Thread \ {t} : buffer'[u] = buffer[u]
    BY <1>3, <1>4 DEF CallEnds, MqTypeOK
  <2>2. MqTypeOK'
    BY <1>3, <1>4, <1>13, <1>14, <2>1 DEF MqTypeOK
  <2>3. SendersHaveMessage'
    BY <1>5, <1>6, <2>1 DEF ListInv, SendersHaveMessage, OthersKeep, Copying
  <2>. QED  BY <1>9, <2>2, <2>3 DEF Context
<1>17. \A x \in Object \ {m} : SameQueue(x)
  <2>1. \A x \in Object \ {m} : SameLinks(x)
    BY <1>3, <1>13, <1>14 DEF SameLinks
  <2>. QED  BY <1>1, <1>4, <1>5, <1>6, <2>1, OthersSame
<1>18. Accounted(m, q, <<b>> \o f)'
  BY <1>3, <1>8, <1>11, <1>14, <1>15 DEF Accounted
<1>19. /\ ListInv' /\ \A x \in Object \ {m} : Contents(x)' = Contents(x)
       /\ Contents(m)' = Messages(data'[m], q)
  BY <1>8, <1>9, <1>16, <1>17, <1>18, QueueStep
<1>. QED  BY <1>3, <1>11, <1>19, StutterRefines

\* rt_mq_control disables interrupts.
LEMMA ControlLists ==
    ASSUME Inv, ListInv, NEW t \in App, NEW m \in Object, Control(t, m)
    PROVE  ListInv' /\ Refines
<1>1. /\ Runs(t, "run") /\ Goes(t, "irq_off", m) /\ UNCHANGED k /\ UNCHANGED got
      /\ UNCHANGED <<next, data, msg_queue_head, msg_queue_tail, msg_queue_free, entry>>
      /\ UNCHANGED <<msg, buffer>>
  BY DEF Control, mqVars, links, call
<1>2. /\ IpcInv /\ MqTypeOK /\ t \in Thread /\ pc[t] = "run" /\ k.cur = t
      /\ pc[k.cur] # "irq_off"
  BY <1>1 DEF Inv, ListInv, App, Runs
<1>3. OthersKeep(t, pc, on, msg, pc', on', msg') /\ pc'[t] = "irq_off" /\ on'[t] = m
  BY <1>1, <1>2, GoesKeep
<1>4. \A u \in Thread : pc[u] # "irq_off"
  BY <1>2, NoReset
<1>5. Resetting(m)'
  BY <1>2, <1>3 DEF Resetting
<1>6. Context'
  <2>1. MqTypeOK'
    BY <1>1, <1>2 DEF MqTypeOK
  <2>2. SendersHaveMessage'
    BY <1>1, <1>3 DEF ListInv, SendersHaveMessage, OthersKeep
  <2>3. ResetterRuns'
    BY <1>1, <1>2, <1>3, <1>4 DEF ResetterRuns, OthersKeep
  <2>. QED  BY <2>1, <2>2, <2>3 DEF Context
<1>7. \A x \in Object \ {m} : SameQueue(x)
  <2>1. \A x \in Object \ {m} : SameLinks(x)
    BY <1>1 DEF SameLinks
  <2>2. pc[t] \notin Copying \cup {"irq_off"}
    BY <1>2 DEF Copying
  <2>. QED  BY <1>2, <1>3, <2>1, <2>2, OthersSame
<1>8. PICK q, f : Accounted(m, q, f)
  BY DEF ListInv
<1>9. HandOf(pc', on', msg', m) = HandOf(pc, on, msg, m) /\ OneEach(pc', on', msg', m)
  <2>1. \A u \in Thread : /\ u \in Holders(pc', on', m) <=> u \in Holders(pc, on, m)
                          /\ u \in Holders(pc, on, m) => msg'[u] = msg[u]
    BY <1>1, <1>2, <1>3 DEF OthersKeep, Holders, Copying
  <2>2. OneEach(pc, on, msg, m)
    BY DEF ListInv
  <2>. QED  BY <2>1, <2>2, HandStays
<1>10. Accounted(m, q, f)'
  BY <1>1, <1>5, <1>8, <1>9 DEF Accounted
<1>11. /\ ListInv' /\ \A x \in Object \ {m} : Contents(x)' = Contents(x)
       /\ Contents(m)' = <<>>
  BY <1>5, <1>6, <1>7, <1>9, <1>10, QueueStep
<1>. QED  BY <1>1, <1>11, ClearRefines

\* One turn of rt_ipc_list_resume_all does not switch to another thread.
LEMMA ResumeFirstRuns ==
    ASSUME CoherentState(k), NEW o \in Object, k.list[o] # <<>>
    PROVE  ResumeFirst(o).cur = k.cur
<1>1. PICK h : h = Head(k.list[o])
  OBVIOUS
<1>2. h \in Thread /\ k.stat[h] = "SUSPEND" /\ "ERROR" \in Error
  BY <1>1, HeadSuspended DEF Object, Error
<1>3. Woken(k, h, "ERROR", rt_thread_resume([k EXCEPT !.error[h] = "ERROR"], h))
  BY <1>2, ResumeWakes
<1>. QED  BY <1>1, <1>3 DEF Woken, ResumeFirst

\* rt_mq_control moves one message to the free list.
LEMMA ResetOneLists ==
    ASSUME ListInv, NEW m \in Object, Resetting(m), NEW b, b = msg_queue_head[m], b # NIL,
           msg_queue_head' = [msg_queue_head EXCEPT ![m] = next[m][b]],
           msg_queue_tail' = [msg_queue_tail EXCEPT ![m] =
                                IF msg_queue_tail[m] = b THEN NIL ELSE msg_queue_tail[m]],
           next' = [next EXCEPT ![m][b] = msg_queue_free[m]],
           msg_queue_free' = [msg_queue_free EXCEPT ![m] = b],
           UNCHANGED <<k, pc, on, entry, data, got>>, UNCHANGED <<msg, buffer>>
    PROVE  ListInv' /\ Refines
<1>1. MqTypeOK /\ OneEach(pc, on, msg, m)
  BY DEF ListInv
<1>2. PICK q, f : Accounted(m, q, f)
  BY DEF ListInv
<1>3. PICK hand : hand = HandOf(pc, on, msg, m)
  OBVIOUS
<1>4. /\ Placed(next[m], b, msg_queue_tail[m], msg_queue_free[m], hand, q, f)
      /\ Contents(m) = <<>>
  BY <1>2, <1>3, AccountRead
<1>5. PICK last : last = IF msg_queue_tail[m] = b THEN NIL ELSE msg_queue_tail[m]
  OBVIOUS
<1>6. /\ Placed(next[m], next[m][b], last, msg_queue_free[m], hand \cup {b}, Tail(q), f)
      /\ b \in ToSet(q)
  BY <1>4, <1>5, TakenFirst
<1>7. b \in Block /\ b \notin hand
  BY <1>4, <1>6, PlacedEnds
<1>8. /\ msg_queue_head' \in [Object -> Block \cup {NIL}] /\ msg_queue_head'[m] = next[m][b]
      /\ msg_queue_tail' \in [Object -> Block \cup {NIL}] /\ msg_queue_tail'[m] = last
      /\ msg_queue_free' \in [Object -> Block \cup {NIL}] /\ msg_queue_free'[m] = b
      /\ \A x \in Object \ {m} : /\ msg_queue_head'[x] = msg_queue_head[x]
                                 /\ msg_queue_tail'[x] = msg_queue_tail[x]
                                 /\ msg_queue_free'[x] = msg_queue_free[x]
  BY <1>1, <1>5, <1>7 DEF MqTypeOK
<1>9. /\ next' \in [Object -> [Block -> Block \cup {NIL}]]
      /\ (\A x \in Object \ {m} : next'[x] = next[x])
      /\ Before(next'[m], next[m], b, msg_queue_free[m])
  <2>1. /\ next' \in [Object -> [Block -> Block \cup {NIL}]]
        /\ (\A x \in Object \ {m} : next'[x] = next[x])
        /\ next'[m][b] = msg_queue_free[m] /\ \A c \in Block \ {b} : next'[m][c] = next[m][c]
    BY <1>1, <1>7 DEF MqTypeOK
  <2>. QED  BY <2>1 DEF Before
<1>10. PICK more : more = hand \cup {b}
  OBVIOUS
<1>11. b \in more /\ more \ {b} = hand
  BY <1>7, <1>10
<1>12. Placed(next'[m], next[m][b], last, b, more \ {b}, Tail(q), <<b>> \o f)
  <2>1. Placed(next[m], next[m][b], last, msg_queue_free[m], more, Tail(q), f)
    BY <1>6, <1>10
  <2>. QED  BY <1>9, <1>11, <2>1, PlacedFree
<1>13. Resetting(m)'
  BY DEF Resetting
<1>14. Context'
  <2>1. MqTypeOK'
    BY <1>1, <1>8, <1>9 DEF MqTypeOK
  <2>2. SendersHaveMessage' /\ ResetterRuns'
    BY DEF ListInv, SendersHaveMessage, ResetterRuns
  <2>. QED  BY <2>1, <2>2 DEF Context
<1>15. \A x \in Object \ {m} : SameQueue(x)
  <2>1. \A x \in Object \ {m} : SameLinks(x)
    BY <1>8, <1>9 DEF SameLinks
  <2>. QED  BY <2>1, NobodyMoves
<1>16. OneEach(pc', on', msg', m) /\ HandOf(pc', on', msg', m) = hand
  BY <1>1, <1>3
<1>17. Accounted(m, Tail(q), <<b>> \o f)'
  BY <1>8, <1>11, <1>12, <1>13, <1>16 DEF Accounted
<1>18. /\ ListInv' /\ \A x \in Object \ {m} : Contents(x)' = Contents(x)
       /\ Contents(m)' = <<>>
  BY <1>13, <1>14, <1>15, <1>16, <1>17, QueueStep
<1>. QED  BY <1>4, <1>18, StutterRefines

\* rt_mq_control has moved all messages and enables interrupts.
LEMMA ResetDoneLists ==
    ASSUME IpcInv, entry \in [Object -> Nat], ListInv, NEW t \in Thread, Runs(t, "irq_off"),
           NEW m \in Object, m = on[t], msg_queue_head[m] = NIL,
           entry' = [entry EXCEPT ![m] = 0], Goes(t, "sched", NoObject),
           UNCHANGED <<k, next, msg_queue_head, msg_queue_tail, msg_queue_free, data, got>>,
           UNCHANGED <<msg, buffer>>
    PROVE  ListInv' /\ Refines
<1>1. MqTypeOK /\ OneEach(pc, on, msg, m) /\ pc[t] = "irq_off" /\ k.cur = t /\ ResetterRuns
  BY DEF ListInv, Runs
<1>2. OthersKeep(t, pc, on, msg, pc', on', msg') /\ pc'[t] = "sched" /\ on'[t] = NoObject
  BY <1>1, GoesKeep
<1>3. Resetting(m)
  BY <1>1 DEF Resetting
<1>4. \A u \in Thread : pc'[u] # "irq_off"
  BY <1>1, <1>2 DEF ResetterRuns, OthersKeep
<1>5. ~Resetting(m)'
  BY <1>4 DEF Resetting
<1>6. PICK q, f : Accounted(m, q, f)
  BY DEF ListInv
<1>7. /\ Placed(next[m], msg_queue_head[m], msg_queue_tail[m], msg_queue_free[m],
                HandOf(pc, on, msg, m), q, f)
      /\ Contents(m) = <<>> /\ q \in Seq(Block)
  BY <1>3, <1>6, AccountRead
<1>8. Len(q) = 0
  BY <1>7, PlacedEnds
<1>9. HandOf(pc', on', msg', m) = HandOf(pc, on, msg, m) /\ OneEach(pc', on', msg', m)
  <2>1. \A u \in Thread : /\ u \in Holders(pc', on', m) <=> u \in Holders(pc, on, m)
                          /\ u \in Holders(pc, on, m) => msg'[u] = msg[u]
    BY <1>1, <1>2 DEF OthersKeep, Holders, Copying
  <2>. QED  BY <1>1, <2>1, HandStays
<1>10. entry'[m] = 0 /\ \A x \in Object \ {m} : entry'[x] = entry[x]
  OBVIOUS
<1>11. Accounted(m, q, f)'
  BY <1>7, <1>8, <1>9, <1>10 DEF Accounted
<1>12. Context'
  <2>1. MqTypeOK'
    BY <1>1 DEF MqTypeOK
  <2>2. SendersHaveMessage' /\ ResetterRuns'
    BY <1>2, <1>4 DEF ListInv, SendersHaveMessage, ResetterRuns, OthersKeep
  <2>. QED  BY <2>1, <2>2 DEF Context
<1>13. \A x \in Object \ {m} : SameQueue(x)
  <2>1. \A x \in Object \ {m} : SameLinks(x)
    BY <1>10 DEF SameLinks
  <2>2. pc'[t] \notin Copying \cup {"irq_off"}
    BY <1>2 DEF Copying
  <2>. QED  BY <1>2, <2>1, <2>2, OthersSame
<1>14. /\ ListInv' /\ \A x \in Object \ {m} : Contents(x)' = Contents(x)
       /\ Contents(m)' = Messages(data'[m], q)
  BY <1>5, <1>9, <1>11, <1>12, <1>13, QueueStep
<1>15. Messages(data'[m], q) = <<>>
  BY <1>8 DEF Messages
<1>. QED  BY <1>7, <1>14, <1>15, StutterRefines

\* rt_mq_control: one turn of its loops.
LEMMA ControlLoopLists ==
    ASSUME Inv, ListInv, NEW t \in App, ControlLoop(t)
    PROVE  ListInv' /\ Refines
<1>1. /\ Runs(t, "irq_off") /\ UNCHANGED <<data, got>> /\ UNCHANGED <<msg, buffer>>
      /\ UNCHANGED call
  BY DEF ControlLoop, call
<1>2. /\ IpcInv /\ entry \in [Object -> Nat] /\ t \in Thread
      /\ CoherentState(k) /\ on[t] \in Object /\ pc[t] = "irq_off"
  BY <1>1, Runner, Labels DEF Inv
<1>3. PICK m \in Object : m = on[t]
  BY <1>2
<1>4. Resetting(m)
  BY <1>2, <1>3 DEF Resetting
<1>5. CASE k.list[m] # <<>>
  <2>1. k' = ResumeFirst(m) /\ UNCHANGED <<pc, on>> /\ UNCHANGED links
    BY <1>3, <1>5 DEF ControlLoop
  <2>2. k'.cur = k.cur
    BY <1>2, <1>5, <2>1, ResumeFirstRuns
  <2>3. UNCHANGED mqVars
    BY <1>1, <2>1 DEF mqVars
  <2>. QED  BY <2>1, <2>2, <2>3, UnchangedLists
<1>6. CASE k.list[m] = <<>> /\ msg_queue_head[m] # NIL
  <2>1. PICK b : b = msg_queue_head[m]
    OBVIOUS
  <2>2. /\ msg_queue_head' = [msg_queue_head EXCEPT ![m] = next[m][b]]
        /\ msg_queue_tail' = [msg_queue_tail EXCEPT ![m] =
                                IF msg_queue_tail[m] = b THEN NIL ELSE msg_queue_tail[m]]
        /\ next' = [next EXCEPT ![m][b] = msg_queue_free[m]]
        /\ msg_queue_free' = [msg_queue_free EXCEPT ![m] = b]
        /\ UNCHANGED <<k, pc, on, entry>>
    BY <1>3, <1>6, <2>1 DEF ControlLoop
  <2>. QED  BY <1>1, <1>4, <1>6, <2>1, <2>2, ResetOneLists
<1>7. CASE k.list[m] = <<>> /\ msg_queue_head[m] = NIL
  <2>1. /\ entry' = [entry EXCEPT ![m] = 0] /\ Goes(t, "sched", NoObject)
        /\ UNCHANGED <<k, next, msg_queue_head, msg_queue_tail, msg_queue_free>>
    BY <1>3, <1>7 DEF ControlLoop
  <2>. QED  BY <1>1, <1>2, <1>3, <1>7, <2>1, ResetDoneLists
<1>. QED  BY <1>5, <1>6, <1>7

\* The fresh lists of rt_mq_init.
LEMMA FreshLists ==
    /\ Fresh \in [Block -> Block \cup {NIL}] /\ FirstFree \in Block \cup {NIL}
    /\ \E f : Placed(Fresh, NIL, NIL, FirstFree, {}, <<>>, f)
<1>1. PICK f : IsChain(Fresh, FirstFree, f) /\ ToSet(f) = Block
  BY FreshChain
<1>2. FirstFree \in Block \cup {NIL}
  BY <1>1, ChainHead
<1>3. /\ f \in Seq(Block) /\ IsInjective(f) /\ Len(f) \in Nat
      /\ \A i \in 1 .. Len(f) : Fresh[f[i]] = Nth(f, i + 1)
  BY <1>1 DEF IsChain
<1>4. ASSUME NEW c \in Block PROVE Fresh[c] \in Block \cup {NIL}
  <2>1. PICK i \in 1 .. Len(f) : c = f[i]
    BY <1>1, <1>3 DEF ToSet
  <2>2. Nth(f, i + 1) \in Block \cup {NIL}
    BY <1>3 DEF Nth
  <2>. QED  BY <1>3, <2>1, <2>2
<1>5. Fresh \in [Block -> Block \cup {NIL}]
  <2>1. Fresh = [c \in Block |-> Fresh[c]]
    BY DEF Fresh
  <2>. QED  BY <1>4, <2>1
<1>6. IsChain(Fresh, NIL, <<>>) /\ NIL = Nth(<<>>, Len(<<>>)) /\ ToSet(<<>>) = {}
  BY DEF IsChain, Nth, ToSet, IsInjective
<1>7. Parts(ToSet(<<>>), ToSet(f), {})
  BY <1>1, <1>6 DEF Parts
<1>. QED  BY <1>1, <1>2, <1>5, <1>6, <1>7 DEF Placed

\* rt_mq_init of a queue that was deleted.
LEMMA MqCreateLists ==
    ASSUME Inv, ListInv, NEW t \in App, NEW m \in Object, MqCreate(t, m)
    PROVE  ListInv' /\ Refines
<1>1. /\ Runs(t, "run") /\ (\A u \in Thread : on[u] # m) /\ UNCHANGED <<k, pc, on>>
      /\ next' = [next EXCEPT ![m] = Fresh]
      /\ msg_queue_head' = [msg_queue_head EXCEPT ![m] = NIL]
      /\ msg_queue_tail' = [msg_queue_tail EXCEPT ![m] = NIL]
      /\ msg_queue_free' = [msg_queue_free EXCEPT ![m] = FirstFree]
      /\ entry' = [entry EXCEPT ![m] = 0]
      /\ UNCHANGED <<data, got>> /\ UNCHANGED <<msg, buffer>>
  BY DEF MqCreate, Create, call
<1>2. MqTypeOK /\ entry \in [Object -> Nat]
  BY DEF ListInv, Inv
<1>3. PICK f : Placed(Fresh, NIL, NIL, FirstFree, {}, <<>>, f)
  BY FreshLists
<1>4. /\ MqTypeOK' /\ next'[m] = Fresh /\ msg_queue_head'[m] = NIL /\ msg_queue_tail'[m] = NIL
      /\ msg_queue_free'[m] = FirstFree /\ entry'[m] = 0
  BY <1>1, <1>2, FreshLists DEF MqTypeOK
<1>5. \A x \in Object \ {m} : SameLinks(x)
  BY <1>1, <1>2 DEF MqTypeOK, SameLinks
<1>6. \A x \in Object \ {m} : SameQueue(x)
  BY <1>1, <1>5, NobodyMoves
<1>7. Context'
  <2>1. SendersHaveMessage' /\ ResetterRuns'
    BY <1>1 DEF ListInv, SendersHaveMessage, ResetterRuns
  <2>. QED  BY <1>4, <2>1 DEF Context
<1>8. Holders(pc', on', m) = {}
  BY <1>1 DEF Holders
<1>9. HandOf(pc', on', msg', m) = {} /\ OneEach(pc', on', msg', m)
  BY <1>8 DEF HandOf, OneEach
<1>10. ~Resetting(m)'
  BY <1>1 DEF Resetting
<1>11. Accounted(m, <<>>, f)'
  BY <1>3, <1>4, <1>9 DEF Accounted
<1>12. /\ ListInv' /\ \A x \in Object \ {m} : Contents(x)' = Contents(x)
       /\ Contents(m)' = Messages(data'[m], <<>>)
  BY <1>6, <1>7, <1>9, <1>10, <1>11, QueueStep
<1>13. Messages(data'[m], <<>>) = <<>>
  BY DEF Messages
<1>. QED  BY <1>1, <1>12, <1>13, ClearRefines
\* The steps every service of module Ipc has.
LEMMA SharedLists ==
    ASSUME Inv, ListInv, UNCHANGED mqVars,
           Tick \/ \E t \in App : IpcInCall(t) \/ IpcCall(t)
    PROVE  ListInv' /\ Refines
<1>1. IpcInv /\ UNCHANGED <<links, data, got>> /\ UNCHANGED <<msg, buffer>>
  BY DEF Inv, mqVars, call
<1>2. CASE Tick
  <2>1. pc[k.cur] # "irq_off" /\ UNCHANGED <<pc, on>>
    BY <1>2 DEF Tick, SliceEnd, Timeout, Interruptible
  <2>. QED  BY <2>1, UnchangedLists
<1>. DEFINE Plain == {"run", "sched", "wait_sched", "wait_ret", "sleep_sched", "sleep_ret",
                      "del", "del_one"}
<1>3. \A l \in Plain : l \notin Copying \cup {"irq_off"}
  BY DEF Copying
<1>4. ASSUME NEW t \in App, IpcInCall(t) \/ IpcCall(t),
             NEW label \in Plain, Runs(t, label),
             NEW after \in Plain, NEW o, Goes(t, after, o)
      PROVE  ListInv' /\ Refines
  <2>1. t \in Thread
    BY DEF App
  <2>. QED  BY <1>1, <1>3, <1>4, <2>1, GoesOn
<1>5. ASSUME NEW t \in App, NEW label \in Plain, Runs(t, label), UNCHANGED <<pc, on>>
      PROVE  ListInv' /\ Refines
  <2>1. pc[k.cur] # "irq_off"
    BY <1>3, <1>5 DEF Runs
  <2>. QED  BY <1>5, <2>1, UnchangedLists
<1>6. ASSUME NEW t \in App, IpcInCall(t) PROVE ListInv' /\ Refines
  <2>1. \E label, after \in Plain : \E o :
          Runs(t, label) /\ (Goes(t, after, o) \/ UNCHANGED <<pc, on>>)
    <3>1. CASE WaitSchedule(t)
      BY <3>1 DEF WaitSchedule
    <3>2. CASE Schedule(t)
      BY <3>2 DEF Schedule, Returns
    <3>3. CASE DeleteTest(t)
      BY <3>3 DEF DeleteTest, Returns
    <3>4. CASE DeleteOne(t)
      BY <3>4 DEF DeleteOne
    <3>5. CASE SleepSchedule(t)
      BY <3>5 DEF SleepSchedule
    <3>6. CASE SleepReturn(t)
      BY <3>6 DEF SleepReturn, Returns
    <3>. QED  BY <1>6, <3>1, <3>2, <3>3, <3>4, <3>5, <3>6 DEF IpcInCall
  <2>. QED  BY <1>4, <1>5, <1>6, <2>1
<1>7. ASSUME NEW t \in App, IpcCall(t) PROVE ListInv' /\ Refines
  <2>1. \E label, after \in Plain : \E o :
          Runs(t, label) /\ (Goes(t, after, o) \/ UNCHANGED <<pc, on>>)
    <3>1. ASSUME NEW o \in Object, Delete(t, o)
          PROVE  Runs(t, "run") /\ Goes(t, "del", o)
      BY <3>1 DEF Delete
    <3>2. CASE Sleep(t)
      BY <3>2 DEF Sleep
    <3>3. ASSUME NEW u \in App, NEW p \in NewPrio, ChangePriority(t, u, p)
          PROVE  Runs(t, "run") /\ UNCHANGED <<pc, on>>
      BY <3>3 DEF ChangePriority
    <3>. QED  BY <1>7, <3>1, <3>2, <3>3 DEF IpcCall
  <2>. QED  BY <1>4, <1>5, <1>7, <2>1
<1>. QED  BY <1>2, <1>6, <1>7

\* Every step keeps the blocks accounted for and is a step of the abstract queues.
LEMMA ListsKept ==
    ASSUME Inv, ListInv, [Next]_vars
    PROVE  ListInv' /\ Refines
<1>1. IpcInv /\ \A t \in App : t \in Thread
  BY DEF Inv, App
<1>2. \A l \in {"run", "wait_ret", "wait_sched"} : l \notin Copying \cup {"irq_off"}
  BY DEF Copying
<1>3. CASE UNCHANGED vars
  <2>1. UNCHANGED mqVars /\ UNCHANGED <<pc, on>> /\ k'.cur = k.cur
    BY <1>3 DEF vars, ipcVars
  <2>. QED  BY <2>1, UnchangedLists
<1>4. CASE Interrupt
  BY <1>4, SendIsrLists, SharedLists DEF Interrupt
<1>5. ASSUME NEW t \in App, NEW m \in Object, NEW timed, WaitsFor(t, m, timed),
             NEW label \in {"run", "wait_ret"}, Runs(t, label)
      PROVE  ListInv' /\ Refines
  <2>1. Goes(t, "wait_sched", m) /\ UNCHANGED <<links, data, got>> /\ UNCHANGED <<msg, buffer>>
    BY <1>5 DEF WaitsFor
  <2>. QED  BY <1>1, <1>2, <1>5, <2>1, GoesOn
<1>6. ASSUME NEW t \in App, InCall(t) PROVE ListInv' /\ Refines
  <2>1. CASE RecvRetry(t)
    <3>1. PICK m \in Object : m = on[t]
      BY <2>1 DEF RecvRetry, Inv, IpcInv, IpcTypeOK
    <3>2. Runs(t, "wait_ret")
      BY <2>1 DEF RecvRetry
    <3>3. CASE entry[m] # 0 /\ Unlink(t, m)
      BY <3>1, <3>2, <3>3, UnlinkLists
    <3>4. CASE WaitsFor(t, m, t \in limit)
      BY <1>5, <3>1, <3>2, <3>4
    <3>. QED  BY <2>1, <3>1, <3>3, <3>4 DEF RecvRetry
  <2>2. CASE RecvExpires(t) \/ RecvError(t)
    <3>1. /\ Runs(t, "wait_ret") /\ Goes(t, "run", NoObject) /\ CallEnds(t)
          /\ UNCHANGED <<links, data, got>>
      BY <2>2 DEF RecvExpires, RecvError, Returns
    <3>. QED  BY <1>1, <1>2, <3>1, GoesOn
  <2>3. CASE UsesDeleted(t)
    <3>1. UNCHANGED mqVars /\ UNCHANGED <<pc, on>> /\ k'.cur = k.cur
      BY <2>3 DEF UsesDeleted
    <3>. QED  BY <3>1, UnchangedLists
  <2>4. CASE IpcInCall(t) /\ UNCHANGED mqVars
    BY <2>4, SharedLists
  <2>. QED  BY <1>6, <2>1, <2>2, <2>3, <2>4, LinkLists, FreeLists, ControlLoopLists DEF InCall
<1>7. ASSUME NEW t \in App, Call(t) PROVE ListInv' /\ Refines
  <2>1. ASSUME NEW m \in Object, Recv(t, m) PROVE ListInv' /\ Refines
    <3>1. Runs(t, "run") /\ entry[m] # 0 /\ Unlink(t, m)
      BY <2>1 DEF Recv
    <3>. QED  BY <3>1, UnlinkLists
  <2>2. ASSUME NEW m \in Object, NEW timed \in BOOLEAN, RecvBlock(t, m, timed)
        PROVE  ListInv' /\ Refines
    <3>1. Runs(t, "run") /\ WaitsFor(t, m, timed)
      BY <2>2 DEF RecvBlock
    <3>. QED  BY <1>5, <3>1
  <2>3. CASE IpcCall(t) /\ UNCHANGED mqVars
    BY <2>3, SharedLists
  <2>. QED  BY <1>7, <2>1, <2>2, <2>3, AllocateLists, ControlLists, MqCreateLists DEF Call
<1>. QED  BY <1>3, <1>4, <1>6, <1>7 DEF Next

\* When the scheduler starts, every block is free.
LEMMA InitLists ==
    ASSUME Init
    PROVE  ListInv /\ Promise!Init
<1>1. /\ pc = [t \in Thread |-> "run"]
      /\ next = [m \in Object |-> Fresh]
      /\ data = [m \in Object |-> [b \in Block |-> NoMessage]]
      /\ msg_queue_head = [m \in Object |-> NIL]
      /\ msg_queue_tail = [m \in Object |-> NIL]
      /\ msg_queue_free = [m \in Object |-> FirstFree]
      /\ entry = [m \in Object |-> 0]
      /\ msg = [t \in Thread |-> NIL]
      /\ buffer = [t \in Thread |-> NoMessage]
      /\ got = [m \in Object |-> NoMessage]
  BY DEF Init, IpcInit
<1>2. MqTypeOK /\ ResetterRuns /\ SendersHaveMessage
  BY <1>1, FreshLists DEF MqTypeOK, ResetterRuns, SendersHaveMessage
<1>3. PICK f : Placed(Fresh, NIL, NIL, FirstFree, {}, <<>>, f)
  BY FreshLists
<1>4. ASSUME NEW m \in Object
      PROVE  /\ OneEach(pc, on, msg, m) /\ Accounted(m, <<>>, f) /\ Contents(m) = <<>>
  <2>1. Holders(pc, on, m) = {} /\ ~Resetting(m)
    BY <1>1 DEF Holders, Copying, Resetting
  <2>2. HandOf(pc, on, msg, m) = {} /\ OneEach(pc, on, msg, m)
    BY <2>1 DEF HandOf, OneEach
  <2>3. /\ next[m] = Fresh /\ msg_queue_head[m] = NIL /\ msg_queue_tail[m] = NIL
        /\ msg_queue_free[m] = FirstFree /\ entry[m] = 0
    BY <1>1
  <2>4. Accounted(m, <<>>, f)
    BY <1>3, <2>2, <2>3 DEF Accounted
  <2>5. Contents(m) = Messages(data[m], <<>>)
    BY <2>1, <2>4, ContentsRead DEF ContentsFollow
  <2>6. Messages(data[m], <<>>) = <<>>
    BY DEF Messages
  <2>. QED  BY <2>2, <2>4, <2>5, <2>6
<1>5. ListInv
  BY <1>2, <1>4 DEF ListInv
<1>6. Promise!Init
  BY <1>1, <1>4 DEF Promise!Init
<1>. QED  BY <1>5, <1>6

-----------------------------------------------------------------------------
(* The theorems about the blocks *)

\* Three places without a common block hold all the blocks there are.
LEMMA PartsCount ==
    ASSUME NEW a, NEW b, NEW c, Parts(a, b, c)
    PROVE  /\ IsFiniteSet(a) /\ IsFiniteSet(b) /\ IsFiniteSet(c)
           /\ Cardinality(a) + Cardinality(b) + Cardinality(c) = max_msgs
<1>1. /\ a \cap b = {} /\ (a \cup b) \cap c = {} /\ (a \cup b) \cup c = Block
      /\ a \in SUBSET Block /\ b \in SUBSET Block /\ c \in SUBSET Block
  BY DEF Parts
<1>2. IsFiniteSet(Block)
  BY MessageQueueAssumption
<1>3. IsFiniteSet(a) /\ IsFiniteSet(b) /\ IsFiniteSet(c)
  BY <1>1, <1>2, FS_Subset
<1>4. Cardinality({}) = 0
  BY FS_EmptySet
<1>5. /\ IsFiniteSet(a \cup b)
      /\ Cardinality(a \cup b) = Cardinality(a) + Cardinality(b) - Cardinality(a \cap b)
  BY <1>3, FS_Union
<1>6. Cardinality((a \cup b) \cup c) =
        Cardinality(a \cup b) + Cardinality(c) - Cardinality((a \cup b) \cap c)
  BY <1>3, <1>5, FS_Union
<1>7. Cardinality(a) \in Nat /\ Cardinality(b) \in Nat /\ Cardinality(c) \in Nat
  BY <1>3, FS_CardinalityType
<1>8. Cardinality(a \cap b) = 0 /\ Cardinality((a \cup b) \cap c) = 0
  BY <1>1, <1>4, Zenon
<1>9. Cardinality((a \cup b) \cup c) = max_msgs
  BY <1>1, Zenon DEF max_msgs
<1>10. Cardinality(a \cup b) = Cardinality(a) + Cardinality(b)
  BY <1>5, <1>7, <1>8
<1>. QED  BY <1>3, <1>6, <1>7, <1>8, <1>9, <1>10

\* As many threads hold a block of a queue as blocks of it are held.
LEMMA HandCount ==
    ASSUME NEW p, NEW w, NEW ms, NEW x, OneEach(p, w, ms, x), IsFiniteSet(HandOf(p, w, ms, x))
    PROVE  Cardinality(Holders(p, w, x)) = Cardinality(HandOf(p, w, ms, x))
<1>1. PICK S : S = Holders(p, w, x)
  OBVIOUS
<1>2. PICK T : T = HandOf(p, w, ms, x)
  OBVIOUS
<1>3. /\ (\A u \in S : ms[u] \in T) /\ (\A b \in T : \E u \in S : b = ms[u])
      /\ (\A u, v \in S : ms[u] = ms[v] => u = v)
  BY <1>1, <1>2 DEF HandOf, OneEach
<1>4. PICK g : g = [u \in S |-> ms[u]]
  OBVIOUS
<1>5. g \in [S -> T] /\ \A u \in S : g[u] = ms[u]
  BY <1>3, <1>4
<1>6. g \in Injection(S, T)
  BY <1>3, <1>5 DEF Injection, IsInjective
<1>7. g \in Surjection(S, T)
  BY <1>3, <1>5 DEF Surjection
<1>8. Cardinality(S) = Cardinality(T)
  BY <1>2, <1>6, <1>7, FS_Injection
<1>. QED  BY <1>1, <1>2, <1>8

\* What the invariant says of one queue, in the words of BlocksAccounted.
LEMMA AccountIsExact ==
    ASSUME ListInv, NEW m \in Object, ~Resetting(m)
    PROVE  LET queued == Chain(m, msg_queue_head[m])
               free   == Chain(m, msg_queue_free[m])
           IN  /\ Len(queued) = entry[m]
               /\ msg_queue_tail[m] = (IF queued = <<>> THEN NIL ELSE Last(queued))
               /\ Len(queued) + Len(free) + Cardinality(InHand(m)) = max_msgs
               /\ ToSet(queued) \cup ToSet(free) \cup {msg[t] : t \in InHand(m)} = Block
<1>1. PICK q, f : Accounted(m, q, f)
  BY DEF ListInv
<1>2. /\ IsChain(next[m], msg_queue_head[m], q) /\ IsChain(next[m], msg_queue_free[m], f)
      /\ msg_queue_tail[m] = Nth(q, Len(q))
      /\ Parts(ToSet(q), ToSet(f), HandOf(pc, on, msg, m)) /\ entry[m] = Len(q)
  BY <1>1 DEF Accounted, Placed
<1>3. Chain(m, msg_queue_head[m]) = q /\ Chain(m, msg_queue_free[m]) = f
  BY <1>2, ChainIs
<1>4. /\ q \in Seq(Block) /\ IsInjective(q) /\ f \in Seq(Block) /\ IsInjective(f)
  BY <1>2 DEF IsChain
<1>5. Cardinality(ToSet(q)) = Len(q) /\ Cardinality(ToSet(f)) = Len(f)
  BY <1>4, ListLength
<1>6. InHand(m) = Holders(pc, on, m)
  BY DEF InHand, Holders, Copying
<1>7. {msg[t] : t \in InHand(m)} = HandOf(pc, on, msg, m)
  BY <1>6 DEF HandOf
<1>8. /\ IsFiniteSet(HandOf(pc, on, msg, m))
      /\ Cardinality(ToSet(q)) + Cardinality(ToSet(f)) + Cardinality(HandOf(pc, on, msg, m)) = max_msgs
  BY <1>2, PartsCount
<1>9. OneEach(pc, on, msg, m)
  BY DEF ListInv
<1>10. Cardinality(InHand(m)) = Cardinality(HandOf(pc, on, msg, m))
  BY <1>6, <1>8, <1>9, HandCount
<1>11. Len(q) + Len(f) + Cardinality(InHand(m)) = max_msgs
  BY <1>5, <1>8, <1>10
<1>12. ToSet(q) \cup ToSet(f) \cup {msg[t] : t \in InHand(m)} = Block
  BY <1>2, <1>7 DEF Parts
<1>13. Nth(q, Len(q)) = (IF q = <<>> THEN NIL ELSE Last(q))
  BY <1>4 DEF Nth, Last
<1>. QED  BY <1>2, <1>3, <1>11, <1>12, <1>13

\* The invariant of the linked blocks holds in every reachable state.
THEOREM ListsAreSound == Spec => []ListInv
<1>1. Init => ListInv
  BY InitLists
<1>2. Inv /\ ListInv /\ [Next]_vars => ListInv'
  BY ListsKept
<1>. QED  BY <1>1, <1>2, Invariance, PTL DEF Spec

\* No block of a message queue is lost, used twice or linked out of reach: outside
\* a reset the list of messages has mq->entry blocks and ends at msg_queue_tail,
\* and with the free list and the blocks that senders and receivers copy with
\* interrupts enabled it makes up the pool, for every number of threads and blocks.
THEOREM BlocksAreAccounted == Spec => []BlocksAccounted
<1>1. ASSUME Inv, ListInv, NEW m \in open, ~Resetting(m)
      PROVE  LET queued == Chain(m, msg_queue_head[m])
                 free   == Chain(m, msg_queue_free[m])
             IN  /\ Len(queued) = entry[m]
                 /\ msg_queue_tail[m] = (IF queued = <<>> THEN NIL ELSE Last(queued))
                 /\ Len(queued) + Len(free) + Cardinality(InHand(m)) = max_msgs
                 /\ ToSet(queued) \cup ToSet(free) \cup {msg[t] : t \in InHand(m)} = Block
  <2>1. m \in Object
    BY <1>1 DEF Inv, IpcInv, IpcTypeOK
  <2>. QED  BY <1>1, <2>1, AccountIsExact
<1>2. Inv /\ ListInv => BlocksAccounted
  BY <1>1, Zenon DEF BlocksAccounted
<1>. QED  BY <1>2, Invariance, ListsAreSound, PTL

\* The linked blocks implement bounded queues: every message that was linked is
\* unlinked once, the urgent ones first and the others in the order in which they
\* were linked, and no other is, whoever is interrupted while it copies.
THEOREM OrderIsKept == Spec => KeepsOrder
<1>1. Init => ListInv /\ Promise!Init
  BY InitLists
<1>2. Inv /\ ListInv /\ [Next]_vars => ListInv' /\ [Promise!Next]_<<Queues, got>>
  BY ListsKept DEF Refines
<1>. QED  BY <1>1, <1>2, Invariance, PTL DEF Spec, KeepsOrder, Promise!Spec, Queues
=============================================================================
