--------------------------- MODULE MailboxProofs ---------------------------
(***************************************************************************)
(* The mailboxes: their types, that no wake-up of a sender or of a         *)
(* receiver is lost, and that the ring implements a bounded queue, for     *)
(* every number of threads, priorities, mailboxes, mails and places.       *)
(***************************************************************************)
EXTENDS Mailbox, IpcProofs

\* The part of TypeOK that is about the rings and the calls of this module.
RingTypeOK ==
    /\ msg_pool \in [Mailboxes -> [0 .. SIZE - 1 -> Mail \cup {NoMail}]]
    /\ entry \in [Mailboxes -> 0 .. SIZE]
    /\ in_offset \in [Mailboxes -> 0 .. SIZE - 1]
    /\ out_offset \in [Mailboxes -> 0 .. SIZE - 1]
    /\ limit \subseteq Thread
    /\ mail \in [Thread -> Mail \cup {NoMail}]
    /\ got \in [Mailboxes -> Mail \cup {NoMail}]

\* The inductive invariant: what every service of module Ipc keeps, that
\* rt_ipc_list_resume finds waiting threads without an error, the types, and
\* that mails have their receivers and free places their senders.
Inv == IpcInv /\ WaitersClean /\ RingTypeOK /\ NoLostWakeup

-----------------------------------------------------------------------------
(* The mailboxes and their lists *)

\* A mailbox has two lists, and no other mailbox has one of them.
LEMMA Lists ==
    /\ Object = Mailboxes \cup Senders
    /\ \A m \in Mailboxes :
         /\ m \in Object /\ suspend_sender_thread[m] \in Object
         /\ \A n \in Mailboxes : suspend_sender_thread[n] # m
         /\ \A n \in Mailboxes : suspend_sender_thread[n] = suspend_sender_thread[m] => n = m
  BY MailboxAssumption DEF Object, Senders

\* The mailbox of a call is the one whose list the call works on.
LEMMA MailboxOfCall ==
    ASSUME NEW t, on[t] \in Object
    PROVE  /\ MailboxOf(t) \in Mailboxes
           /\ on[t] \in {MailboxOf(t), suspend_sender_thread[MailboxOf(t)]}
           /\ on[t] \in Mailboxes => MailboxOf(t) = on[t]
           /\ on[t] \in Senders => on[t] = suspend_sender_thread[MailboxOf(t)]
<1>1. \E m \in Mailboxes : on[t] \in {m, suspend_sender_thread[m]}
  BY Lists DEF Senders
<1>2. /\ MailboxOf(t) \in Mailboxes
      /\ on[t] \in {MailboxOf(t), suspend_sender_thread[MailboxOf(t)]}
  BY <1>1 DEF MailboxOf
<1>3. on[t] \in Senders => on[t] \notin Mailboxes
  BY MailboxAssumption
<1>. QED  BY <1>2, <1>3, Lists

\* A thread counts as resumed only for the list of its call.
LEMMA ResumedHere ==
    ASSUME NEW t
    PROVE  \A x \in Object : t \in Resumed(x) =>
             on[t] = x /\ pc[t] \in Waits /\ k.error[t] = "EOK"
  BY DEF Resumed, Waits

-----------------------------------------------------------------------------
(* The types *)

\* A mail is put, or taken, at an offset inside the pool.
LEMMA StepType ==
    ASSUME NEW i \in 0 .. SIZE - 1
    PROVE  Step(i) \in 0 .. SIZE - 1
  BY MailboxAssumption DEF Step

\* What a send does to the ring.
LEMMA PutType ==
    ASSUME RingTypeOK, NEW m \in Mailboxes, ~Full(m), NEW v \in Mail \cup {NoMail}, Put(m, v),
           limit' \subseteq Thread, mail' \in [Thread -> Mail \cup {NoMail}]
    PROVE  RingTypeOK'
<1>1. in_offset[m] \in 0 .. SIZE - 1 /\ entry[m] \in 0 .. SIZE /\ SIZE \in Nat
  BY MailboxAssumption DEF RingTypeOK
<1>2. Step(in_offset[m]) \in 0 .. SIZE - 1
  BY <1>1, StepType
<1>3. entry[m] + 1 \in 0 .. SIZE
  BY <1>1 DEF Full
<1>4. msg_pool' \in [Mailboxes -> [0 .. SIZE - 1 -> Mail \cup {NoMail}]]
  BY DEF RingTypeOK, Put
<1>. QED  BY <1>2, <1>3, <1>4 DEF RingTypeOK, Put

\* What a receive does to it.
LEMMA GetType ==
    ASSUME RingTypeOK, NEW m \in Mailboxes, ~Empty(m), Get(m),
           limit' \subseteq Thread, mail' \in [Thread -> Mail \cup {NoMail}]
    PROVE  RingTypeOK'
<1>1. out_offset[m] \in 0 .. SIZE - 1 /\ entry[m] \in 0 .. SIZE /\ SIZE \in Nat
  BY MailboxAssumption DEF RingTypeOK
<1>2. Step(out_offset[m]) \in 0 .. SIZE - 1
  BY <1>1, StepType
<1>3. entry[m] - 1 \in 0 .. SIZE
  BY <1>1 DEF Empty
<1>4. msg_pool[m][out_offset[m]] \in Mail \cup {NoMail}
  BY DEF RingTypeOK
<1>. QED  BY <1>2, <1>3, <1>4 DEF RingTypeOK, Get

\* A reset, or the creation of a mailbox, empties the ring.
LEMMA ClearType ==
    ASSUME RingTypeOK, NEW m \in Mailboxes, entry' = [entry EXCEPT ![m] = 0],
           in_offset' = [in_offset EXCEPT ![m] = 0],
           out_offset' = [out_offset EXCEPT ![m] = 0], UNCHANGED <<msg_pool, call, got>>
    PROVE  RingTypeOK'
<1>1. 0 \in 0 .. SIZE - 1 /\ 0 \in 0 .. SIZE
  BY MailboxAssumption
<1>. QED  BY <1>1 DEF RingTypeOK, call

\* The end of a call.
LEMMA CallEndsType ==
    ASSUME RingTypeOK, NEW t \in Thread, CallEnds(t)
    PROVE  limit' \subseteq Thread /\ mail' \in [Thread -> Mail \cup {NoMail}]
  BY DEF RingTypeOK, CallEnds

\* Every step keeps the types.
LEMMA TypeStep ==
    ASSUME IpcInv, RingTypeOK, [Next]_vars
    PROVE  RingTypeOK'
<1>1. ASSUME UNCHANGED <<ring, call, got>> PROVE RingTypeOK'
  BY <1>1 DEF RingTypeOK, ring, call
<1>2. ASSUME UNCHANGED ring, UNCHANGED got,
             limit' \subseteq Thread, mail' \in [Thread -> Mail \cup {NoMail}]
      PROVE  RingTypeOK'
  BY <1>2 DEF RingTypeOK, ring
<1>3. UNCHANGED call => limit' \subseteq Thread /\ mail' \in [Thread -> Mail \cup {NoMail}]
  BY DEF RingTypeOK, call
<1>4. CASE UNCHANGED vars
  BY <1>1, <1>4 DEF vars
<1>5. CASE Interrupt
  <2>1. ASSUME NEW m \in Mailboxes, NEW v \in Mail, SendIsr(m, v) PROVE RingTypeOK'
    BY <1>3, <2>1, PutType DEF SendIsr
  <2>. QED  BY <1>1, <1>5, <2>1 DEF Interrupt
<1>6. ASSUME NEW t \in App, InCall(t) PROVE RingTypeOK'
  <2>1. t \in Thread /\ \A label : Runs(t, label) /\ label \in WorksOnObject => on[t] \in Object
    BY Runner DEF App
  <2>2. {"wait_ret", "irq_off"} \subseteq WorksOnObject
    BY Labels
  <2>3. CASE SendRetry(t)
    <3>1. PICK m : m = MailboxOf(t)
      OBVIOUS
    <3>2. m \in Mailboxes /\ mail[t] \in Mail \cup {NoMail}
      BY <2>1, <2>2, <2>3, <3>1, MailboxOfCall DEF SendRetry, RingTypeOK
    <3>3. CASE ~Full(m) /\ Put(m, mail[t]) /\ CallEnds(t)
      BY <2>1, <3>2, <3>3, PutType, CallEndsType
    <3>4. CASE WaitsIn(t, on[t], t \in limit) /\ UNCHANGED call
      BY <1>1, <3>4 DEF WaitsIn
    <3>. QED  BY <2>3, <3>1, <3>3, <3>4 DEF SendRetry
  <2>4. CASE RecvRetry(t)
    <3>1. PICK m : m = on[t]
      OBVIOUS
    <3>2. m \in Mailboxes
      BY <2>4, <3>1 DEF RecvRetry
    <3>3. CASE ~Empty(m) /\ Get(m) /\ CallEnds(t)
      BY <2>1, <3>2, <3>3, GetType, CallEndsType
    <3>4. CASE WaitsIn(t, m, t \in limit) /\ UNCHANGED call
      BY <1>1, <3>4 DEF WaitsIn
    <3>. QED  BY <2>4, <3>1, <3>3, <3>4 DEF RecvRetry
  <2>5. CASE SendExpires(t) \/ RecvExpires(t) \/ ReturnError(t)
    <3>1. CallEnds(t) /\ UNCHANGED ring /\ UNCHANGED got
      BY <2>5 DEF SendExpires, RecvExpires, ReturnError
    <3>. QED  BY <1>2, <2>1, <3>1, CallEndsType
  <2>6. CASE ControlLoop(t)
    <3>1. PICK m : m = MailboxOf(t)
      OBVIOUS
    <3>2. m \in Mailboxes
      BY <2>1, <2>2, <2>6, <3>1, MailboxOfCall DEF ControlLoop
    <3>3. \/ UNCHANGED ring
          \/ /\ entry' = [entry EXCEPT ![m] = 0] /\ in_offset' = [in_offset EXCEPT ![m] = 0]
             /\ out_offset' = [out_offset EXCEPT ![m] = 0] /\ UNCHANGED msg_pool
      BY <2>6, <3>1 DEF ControlLoop
    <3>4. UNCHANGED call /\ UNCHANGED got
      BY <2>6 DEF ControlLoop
    <3>. QED  BY <1>1, <3>2, <3>3, <3>4, ClearType
  <2>. QED  BY <1>1, <1>6, <2>3, <2>4, <2>5, <2>6 DEF InCall, ReadsDeleted, MbDeleteTest
<1>7. ASSUME NEW t \in App, Call(t) PROVE RingTypeOK'
  <2>0. t \in Thread
    BY DEF App
  <2>1. ASSUME NEW m \in Mailboxes, NEW v \in Mail, Send(t, m, v) PROVE RingTypeOK'
    BY <1>3, <2>1, PutType DEF Send
  <2>2. ASSUME NEW m \in Mailboxes, Recv(t, m) PROVE RingTypeOK'
    BY <1>3, <2>2, GetType DEF Recv
  <2>3. ASSUME NEW m \in Mailboxes, NEW v \in Mail, NEW timed, SendBlock(t, m, v, timed)
        PROVE  RingTypeOK'
    <3>1. limit' \subseteq Thread /\ mail' \in [Thread -> Mail \cup {NoMail}]
      BY <2>0, <2>3 DEF SendBlock, RingTypeOK
    <3>. QED  BY <1>2, <2>3, <3>1 DEF SendBlock, WaitsIn
  <2>4. ASSUME NEW m \in Mailboxes, NEW timed, RecvBlock(t, m, timed) PROVE RingTypeOK'
    <3>1. limit' \subseteq Thread /\ mail' \in [Thread -> Mail \cup {NoMail}]
      BY <2>0, <2>4 DEF RecvBlock, RingTypeOK
    <3>. QED  BY <1>2, <2>4, <3>1 DEF RecvBlock, WaitsIn
  <2>5. ASSUME NEW m \in Mailboxes, MbCreate(t, m) PROVE RingTypeOK'
    BY <2>5, ClearType DEF MbCreate
  <2>. QED  BY <1>1, <1>7, <2>1, <2>2, <2>3, <2>4, <2>5 DEF Call, Control, MbDelete
<1>. QED  BY <1>4, <1>5, <1>6, <1>7 DEF Next

-----------------------------------------------------------------------------
(* No lost wake-up *)

\* What a step has to keep besides the types.
Kept == IpcInv /\ WaitersClean /\ NoLostWakeup

\* The invariant holds when the scheduler starts.
LEMMA InitInv ==
    ASSUME Init
    PROVE  Inv
<1>1. IpcInit /\ open = Object
  BY DEF Init, IpcInit
<1>2. \A o \in Object : Waiting(o) = {}
  <2>1. \A l \in List : k.list[l] = <<>>
    BY <1>1, InitCoherent DEF IpcInit
  <2>. QED  BY <2>1 DEF Waiting, Object, ToSet
<1>3. RingTypeOK
  BY MailboxAssumption DEF Init, RingTypeOK
<1>4. NoLostWakeup
  BY <1>2, Lists DEF NoLostWakeup
<1>. QED  BY <1>1, <1>2, <1>3, <1>4, IpcInitInv DEF Inv, WaitersClean

\* A set of threads loses at most one member with one thread.
LEMMA CountWithout ==
    ASSUME NEW R \in SUBSET Thread, NEW t
    PROVE  Cardinality(R) \in Nat /\ Cardinality(R \ {t}) \in Nat
           /\ Cardinality(R \ {t}) >= Cardinality(R) - 1
<1>1. Cardinality(R) \in Nat
  BY CountThreads
<1>2. CASE t \in R
  <2>1. Cardinality(R \ {t}) = Cardinality(R) - 1
    BY <1>2, CountThreads
  <2>2. Cardinality(R \ {t}) \in Nat
    <3>1. R \ {t} \in SUBSET Thread
      OBVIOUS
    <3>. QED  BY <3>1, CountThreads
  <2>. QED  BY <1>1, <2>1, <2>2
<1>3. CASE t \notin R
  <2>1. R \ {t} = R
    BY <1>3
  <2>. QED  BY <1>1, <2>1
<1>. QED  BY <1>2, <1>3

\* The resumed threads of a list can be counted.
LEMMA ResumedCounts ==
    ASSUME NEW o
    PROVE  /\ Resumed(o) \in SUBSET Thread /\ Cardinality(Resumed(o)) \in Nat
           /\ Resumed(o)' \in SUBSET Thread /\ Cardinality(Resumed(o)') \in Nat
<1>1. Resumed(o) \in SUBSET Thread /\ Resumed(o)' \in SUBSET Thread
  BY DEF Resumed
<1>. QED  BY <1>1, CountThreads

\* A step that serves nobody and leaves mb->entry alone.
LEMMA QuietStep ==
    ASSUME Inv, IpcInv', NobodyServed, open' \subseteq open, UNCHANGED entry
    PROVE  Kept'
<1>1. WaitersClean'
  BY ServedClean DEF Inv
<1>2. NoLostWakeup'
  <2>. SUFFICES ASSUME NEW m \in Mailboxes \cap open', NEW s, s = suspend_sender_thread[m]
                PROVE  /\ Waiting(m)' # {} => entry'[m] <= Cardinality(Resumed(m)')
                       /\ Waiting(s)' # {} => SIZE - entry'[m] <= Cardinality(Resumed(s)')
    BY DEF NoLostWakeup
  <2>1. m \in Object /\ s \in Object /\ m \in open
    BY Lists
  <2>2. /\ Waiting(m)' # {} => Waiting(m) # {}
        /\ Waiting(s)' # {} => Waiting(s) # {}
        /\ Resumed(m)' = Resumed(m) /\ Resumed(s)' = Resumed(s)
    BY <2>1 DEF NobodyServed, NoNewWaiter
  <2>. QED  BY <2>1, <2>2 DEF Inv, NoLostWakeup
<1>. QED  BY <1>1, <1>2 DEF Kept

\* A step that changes the number of mails, or the lists, of mailbox m.
LEMMA EntryStep ==
    ASSUME Inv, IpcInv', WaitersClean', NEW m \in Mailboxes, NEW s, s = suspend_sender_thread[m],
           NEW i, entry' = [entry EXCEPT ![m] = i],
           m \in open' => /\ Waiting(m)' # {} => i <= Cardinality(Resumed(m)')
                          /\ Waiting(s)' # {} => SIZE - i <= Cardinality(Resumed(s)'),
           \A x \in Object \ {m, s} :
             Waiting(x)' \subseteq Waiting(x) /\ Resumed(x)' = Resumed(x),
           open' \subseteq open \cup {m, s}
    PROVE  Kept'
<1>1. /\ entry'[m] = i
      /\ \A n \in Mailboxes \ {m} : entry'[n] = entry[n]
  BY DEF Inv, RingTypeOK
<1>2. ASSUME NEW n \in Mailboxes \cap open', NEW r, r = suspend_sender_thread[n]
      PROVE  /\ Waiting(n)' # {} => entry'[n] <= Cardinality(Resumed(n)')
             /\ Waiting(r)' # {} => SIZE - entry'[n] <= Cardinality(Resumed(r)')
  <2>1. CASE n = m
    BY <1>1, <1>2, <2>1
  <2>2. CASE n # m
    <3>1. n \in Object \ {m, s} /\ r \in Object \ {m, s}
      BY <1>2, <2>2, Lists
    <3>2. n \in open /\ entry'[n] = entry[n]
      BY <1>1, <2>2, <3>1
    <3>3. /\ Waiting(n)' # {} => Waiting(n) # {}
          /\ Waiting(r)' # {} => Waiting(r) # {}
          /\ Resumed(n)' = Resumed(n) /\ Resumed(r)' = Resumed(r)
      BY <3>1
    <3>. QED  BY <1>2, <3>2, <3>3 DEF Inv, NoLostWakeup
  <2>. QED  BY <2>1, <2>2
<1>. QED  BY <1>2 DEF Kept, NoLostWakeup

\* A mail more: one receiver is resumed for it if one waits, and at most one
\* sender that was resumed has used its turn.
LEMMA PutStep ==
    ASSUME Inv, IpcInv', WaitersClean', NEW m \in Mailboxes, NEW s, s = suspend_sender_thread[m],
           entry' = [entry EXCEPT ![m] = entry[m] + 1], UNCHANGED open,
           NEW t, NEW L, L = {} \/ L = {t}, ServesOne(L, m),
           \A x \in Object \ {s} : Resumed(x) \cap L = {}
    PROVE  Kept'
<1>1. m \in Object /\ s \in Object /\ m # s
  BY Lists
<1>2. /\ entry[m] \in Nat /\ entry[m] + 1 \in Nat /\ SIZE \in Nat
  BY MailboxAssumption DEF Inv, RingTypeOK
<1>3. \A x \in Object \ {m, s} :
        Waiting(x)' \subseteq Waiting(x) /\ Resumed(x)' = Resumed(x)
  BY DEF ServesOne, NoNewWaiter
<1>4. ASSUME m \in open', Waiting(m)' # {} PROVE entry[m] + 1 <= Cardinality(Resumed(m)')
  <2>1. Waiting(m) # {} /\ m \in open
    BY <1>1, <1>4 DEF ServesOne, NoNewWaiter
  <2>2. Resumed(m) \ L = Resumed(m)
    BY <1>1
  <2>3. PICK h \in Thread \ Resumed(m) : Resumed(m)' = Resumed(m) \cup {h}
    BY <2>1, <2>2 DEF ServesOne
  <2>4. entry[m] <= Cardinality(Resumed(m))
    BY <2>1 DEF Inv, NoLostWakeup
  <2>5. Cardinality(Resumed(m)') = Cardinality(Resumed(m)) + 1
    BY <2>3, ResumedCounts, CountThreads
  <2>6. Cardinality(Resumed(m)) \in Nat
    BY ResumedCounts
  <2>. QED  BY <1>2, <2>4, <2>5, <2>6
<1>5. ASSUME m \in open', Waiting(s)' # {}
      PROVE  SIZE - (entry[m] + 1) <= Cardinality(Resumed(s)')
  <2>1. Waiting(s) # {} /\ m \in open
    BY <1>1, <1>5 DEF ServesOne, NoNewWaiter
  <2>2. Resumed(s)' = Resumed(s) \ L
    BY <1>1 DEF ServesOne
  <2>3. SIZE - entry[m] <= Cardinality(Resumed(s))
    BY <2>1 DEF Inv, NoLostWakeup
  <2>4. Cardinality(Resumed(s)) \in Nat /\ Cardinality(Resumed(s)') \in Nat
    BY ResumedCounts
  <2>5. Cardinality(Resumed(s)') >= Cardinality(Resumed(s)) - 1
    <3>1. CASE L = {}
      <4>1. Resumed(s)' = Resumed(s)
        BY <2>2, <3>1
      <4>. QED  BY <2>4, <4>1
    <3>2. CASE L = {t}
      BY <2>2, <3>2, ResumedCounts, CountWithout
    <3>. QED  BY <3>1, <3>2
  <2>. QED  BY <1>2, <2>3, <2>4, <2>5
<1>. QED  BY <1>2, <1>3, <1>4, <1>5, EntryStep

\* A mail less: the same the other way round.
LEMMA GetStep ==
    ASSUME Inv, IpcInv', WaitersClean', NEW m \in Mailboxes, NEW s, s = suspend_sender_thread[m],
           entry' = [entry EXCEPT ![m] = entry[m] - 1], UNCHANGED open,
           NEW t, ServesOne({t}, s), \A x \in Object \ {m} : t \notin Resumed(x)
    PROVE  Kept'
<1>1. m \in Object /\ s \in Object /\ m # s
  BY Lists
<1>2. /\ entry[m] \in Nat /\ SIZE \in Nat
  BY MailboxAssumption DEF Inv, RingTypeOK
<1>3. \A x \in Object \ {m, s} :
        Waiting(x)' \subseteq Waiting(x) /\ Resumed(x)' = Resumed(x)
  <2>1. ASSUME NEW x \in Object \ {m, s}
        PROVE  Waiting(x)' \subseteq Waiting(x) /\ Resumed(x)' = Resumed(x)
    <3>1. t \notin Resumed(x) /\ Resumed(x)' = Resumed(x) \ {t}
      BY DEF ServesOne
    <3>. QED  BY <3>1 DEF ServesOne, NoNewWaiter
  <2>. QED  BY <2>1
<1>4. ASSUME m \in open', Waiting(m)' # {} PROVE entry[m] - 1 <= Cardinality(Resumed(m)')
  <2>1. Waiting(m) # {} /\ m \in open
    BY <1>1, <1>4 DEF ServesOne, NoNewWaiter
  <2>2. Resumed(m)' = Resumed(m) \ {t}
    BY <1>1 DEF ServesOne
  <2>3. entry[m] <= Cardinality(Resumed(m))
    BY <2>1 DEF Inv, NoLostWakeup
  <2>4. Cardinality(Resumed(m)) \in Nat /\ Cardinality(Resumed(m)') \in Nat
    BY ResumedCounts
  <2>5. Cardinality(Resumed(m)') >= Cardinality(Resumed(m)) - 1
    BY <2>2, ResumedCounts, CountWithout
  <2>. QED  BY <1>2, <2>3, <2>4, <2>5
<1>5. ASSUME m \in open', Waiting(s)' # {}
      PROVE  SIZE - (entry[m] - 1) <= Cardinality(Resumed(s)')
  <2>1. Waiting(s) # {} /\ m \in open
    BY <1>1, <1>5 DEF ServesOne, NoNewWaiter
  <2>2. Resumed(s) \ {t} = Resumed(s)
    BY <1>1
  <2>3. PICK h \in Thread \ Resumed(s) : Resumed(s)' = Resumed(s) \cup {h}
    BY <2>1, <2>2 DEF ServesOne
  <2>4. SIZE - entry[m] <= Cardinality(Resumed(s))
    BY <2>1 DEF Inv, NoLostWakeup
  <2>5. Cardinality(Resumed(s)') = Cardinality(Resumed(s)) + 1
    BY <2>3, ResumedCounts, CountThreads
  <2>6. Cardinality(Resumed(s)) \in Nat
    BY ResumedCounts
  <2>. QED  BY <1>2, <2>4, <2>5, <2>6
<1>. QED  BY <1>3, <1>4, <1>5, EntryStep

\* A thread goes to wait in one of the lists of m because there is nothing for
\* it there: the box is full for a sender, empty for a receiver.
LEMMA WaitsInStep ==
    ASSUME Inv, NEW t \in App, NEW m \in Mailboxes, NEW s, s = suspend_sender_thread[m],
           NEW l \in {m, s}, l = m => Empty(m), l = s => Full(m),
           NEW timed, WaitsIn(t, l, timed),
           Runs(t, "run") \/ (Runs(t, "wait_ret") /\ on[t] = l)
    PROVE  Kept'
<1>1. m \in Object /\ s \in Object /\ m # s /\ l \in Object
  BY Lists
<1>2. /\ k' = Wait([k EXCEPT !.error[t] = "EOK"], t, l, timed)
      /\ Goes(t, "wait_sched", l) /\ UNCHANGED <<open, corrupt>> /\ UNCHANGED entry
  BY DEF WaitsIn, ring
<1>3. IpcInv' /\ WaitersClean' /\ Blocks(t, l)
  <2>1. CASE Runs(t, "run")
    BY <1>1, <1>2, <2>1, BlockingStep DEF Inv
  <2>2. CASE Runs(t, "wait_ret")
    BY <1>1, <1>2, <2>2, BlockingStep DEF Inv
  <2>. QED  BY <2>1, <2>2
<1>4. \A x \in Object : t \in Resumed(x) => x = l
  BY ResumedHere DEF Runs, Waits
<1>5. ASSUME NEW x \in Object \ {l} PROVE Waiting(x)' = Waiting(x) /\ Resumed(x)' = Resumed(x)
  <2>1. Waiting(x)' = Waiting(x) /\ Resumed(x)' = Resumed(x) \ {t} /\ t \notin Resumed(x)
    BY <1>3, <1>4 DEF Blocks
  <2>. QED  BY <2>1
<1>6. entry' = [entry EXCEPT ![m] = entry[m]] /\ entry[m] \in Nat /\ SIZE \in Nat
  BY <1>2, MailboxAssumption DEF Inv, RingTypeOK
<1>7. ASSUME m \in open' PROVE /\ Waiting(m)' # {} => entry[m] <= Cardinality(Resumed(m)')
                               /\ Waiting(s)' # {} => SIZE - entry[m] <= Cardinality(Resumed(s)')
  <2>1. m \in open /\ Cardinality(Resumed(m)') \in Nat /\ Cardinality(Resumed(s)') \in Nat
    BY <1>2, <1>7, ResumedCounts
  <2>2. CASE l = m
    <3>1. entry[m] = 0 /\ Waiting(s)' = Waiting(s) /\ Resumed(s)' = Resumed(s)
      BY <1>1, <1>5, <2>2 DEF Empty
    <3>. QED  BY <2>1, <3>1 DEF Inv, NoLostWakeup
  <2>3. CASE l = s
    <3>1. entry[m] = SIZE /\ Waiting(m)' = Waiting(m) /\ Resumed(m)' = Resumed(m)
      BY <1>1, <1>5, <2>3 DEF Full
    <3>2. SIZE - entry[m] = 0
      BY <1>6, <3>1
    <3>. QED  BY <2>1, <3>1, <3>2 DEF Inv, NoLostWakeup
  <2>. QED  BY <2>2, <2>3
<1>8. \A x \in Object \ {m, s} :
        Waiting(x)' \subseteq Waiting(x) /\ Resumed(x)' = Resumed(x)
  BY <1>5
<1>. QED  BY <1>2, <1>3, <1>6, <1>7, <1>8, EntryStep

\* The running thread goes on, or returns; the number of mails does not change.
\* If it was resumed to be served, there is nothing for it.
LEMMA GoesStep ==
    ASSUME Inv, NEW t \in App, NEW label, Runs(t, label),
           label \notin {"wait_sched", "sleep_sched"},
           UNCHANGED k \/ \E e \in Error : k' = [k EXCEPT !.error[t] = e],
           NEW after \in PC \ Waits, NEW o \in Object \cup {NoObject}, Goes(t, after, o),
           after \in WorksOnObject => o \in Object,
           UNCHANGED corrupt, UNCHANGED entry, open' \subseteq open,
           label = "wait_ret" /\ k.error[t] = "EOK" =>
             \/ on[t] \in Mailboxes /\ Empty(on[t])
             \/ on[t] \in Senders /\ Full(MailboxOf(t))
    PROVE  Kept'
<1>1. open' \subseteq Object /\ corrupt' \in BOOLEAN /\ pc[t] = label /\ IpcInv /\ WaitersClean
  BY Runner DEF Inv
<1>2. IpcInv' /\ WaitersClean' /\ Leaves({t})
  BY <1>1, GoingStep
<1>3. NoLostWakeup'
  <2>. SUFFICES ASSUME NEW m \in Mailboxes \cap open', NEW s, s = suspend_sender_thread[m]
                PROVE  /\ Waiting(m)' # {} => entry'[m] <= Cardinality(Resumed(m)')
                       /\ Waiting(s)' # {} => SIZE - entry'[m] <= Cardinality(Resumed(s)')
    BY DEF NoLostWakeup
  <2>1. m \in Object /\ s \in Object /\ m \in open /\ s \in Senders
    BY Lists DEF Senders
  <2>2. /\ Waiting(m)' = Waiting(m) /\ Resumed(m)' = Resumed(m) \ {t}
        /\ Waiting(s)' = Waiting(s) /\ Resumed(s)' = Resumed(s) \ {t}
    BY <1>2, <2>1 DEF Leaves
  <2>3. /\ Cardinality(Resumed(m)') \in Nat /\ Cardinality(Resumed(s)') \in Nat
        /\ entry[m] \in Nat /\ SIZE \in Nat
    BY ResumedCounts, MailboxAssumption DEF Inv, RingTypeOK
  <2>4. ASSUME Waiting(m)' # {} PROVE entry'[m] <= Cardinality(Resumed(m)')
    <3>1. CASE t \in Resumed(m)
      <4>1. label = "wait_ret" /\ k.error[t] = "EOK" /\ on[t] = m
        BY <1>1, <2>1, <3>1, ResumedHere DEF Waits
      <4>2. m \notin Senders
        BY MailboxAssumption
      <4>3. entry[m] = 0
        BY <4>1, <4>2 DEF Empty
      <4>. QED  BY <2>3, <4>3
    <3>2. CASE t \notin Resumed(m)
      <4>1. Resumed(m)' = Resumed(m)
        BY <2>2, <3>2
      <4>. QED  BY <2>1, <2>2, <2>4, <4>1 DEF Inv, NoLostWakeup
    <3>. QED  BY <3>1, <3>2
  <2>5. ASSUME Waiting(s)' # {} PROVE SIZE - entry'[m] <= Cardinality(Resumed(s)')
    <3>1. CASE t \in Resumed(s)
      <4>1. label = "wait_ret" /\ k.error[t] = "EOK" /\ on[t] = s
        BY <1>1, <2>1, <3>1, ResumedHere DEF Waits
      <4>2. s \notin Mailboxes
        BY <2>1, MailboxAssumption
      <4>3. MailboxOf(t) = m
        BY <2>1, <4>1, <4>2, MailboxOfCall, Lists
      <4>4. entry[m] = SIZE
        BY <4>1, <4>2, <4>3 DEF Full
      <4>. QED  BY <2>3, <4>4
    <3>2. CASE t \notin Resumed(s)
      <4>1. Resumed(s)' = Resumed(s)
        BY <2>2, <3>2
      <4>. QED  BY <2>1, <2>2, <2>5, <4>1 DEF Inv, NoLostWakeup
    <3>. QED  BY <3>1, <3>2
  <2>. QED  BY <2>4, <2>5
<1>. QED  BY <1>2, <1>3 DEF Kept

\* rt_mb_control: one turn of its loops.
LEMMA ControlLoopKept ==
    ASSUME Inv, NEW t \in App, ControlLoop(t)
    PROVE  Kept'
<1>1. Runs(t, "irq_off") /\ UNCHANGED <<open, corrupt>> /\ IpcInv /\ WaitersClean
  BY DEF ControlLoop, Inv
<1>2. /\ on[t] \in Object /\ pc[t] = "irq_off" /\ open \subseteq Object /\ corrupt \in BOOLEAN
  BY <1>1, Runner, Labels
<1>3. PICK o \in Object : o = on[t]
  BY <1>2
<1>4. PICK m \in Mailboxes : m = MailboxOf(t)
  BY <1>2, MailboxOfCall
<1>5. PICK s \in Object : s = suspend_sender_thread[m] /\ o \in {m, s}
  BY <1>2, <1>3, <1>4, MailboxOfCall, Lists
<1>6. /\ "sched" \in PC \ Waits /\ "sched" \notin WorksOnObject /\ "irq_off" \in PC \ Waits
  BY Labels DEF Waits
<1>7. CASE k.list[o] # <<>>
  <2>1. k' = ResumeFirst(o) /\ UNCHANGED <<pc, on>> /\ UNCHANGED entry
    BY <1>3, <1>7 DEF ControlLoop, ring
  <2>2. IpcInv' /\ NobodyServed
    BY <1>1, <1>7, <2>1, RefusingStep
  <2>. QED  BY <1>1, <2>1, <2>2, QuietStep
<1>8. CASE k.list[o] = <<>> /\ o = m
  <2>1. Goes(t, "irq_off", s) /\ UNCHANGED k /\ UNCHANGED entry
    BY <1>3, <1>4, <1>5, <1>8 DEF ControlLoop, ring
  <2>. QED  BY <1>1, <1>6, <2>1, GoesStep
<1>9. CASE k.list[o] = <<>> /\ o # m
  <2>1. entry' = [entry EXCEPT ![m] = 0] /\ Goes(t, "sched", NoObject) /\ UNCHANGED k
    BY <1>3, <1>4, <1>9 DEF ControlLoop
  <2>2. IpcInv' /\ WaitersClean' /\ Leaves({t})
    BY <1>1, <1>2, <1>6, <2>1, GoingStep
  <2>3. \A x \in Object : t \notin Resumed(x)
    BY <1>2, ResumedHere DEF Waits
  <2>4. \A x \in Object : Waiting(x)' = Waiting(x) /\ Resumed(x)' = Resumed(x)
    BY <2>2, <2>3 DEF Leaves
  <2>5. Waiting(s)' = {}
    BY <1>1, <1>5, <1>9, <2>4, EmptyIsUnawaited
  <2>6. Cardinality(Resumed(m)') \in Nat
    BY ResumedCounts
  <2>7. \A x \in Object \ {m, s} :
          Waiting(x)' \subseteq Waiting(x) /\ Resumed(x)' = Resumed(x)
    BY <2>4
  <2>8. 0 <= Cardinality(Resumed(m)') /\ open' \subseteq open \cup {m, s}
    BY <1>1, <2>6
  <2>. QED  BY <1>5, <2>1, <2>2, <2>5, <2>7, <2>8, EntryStep
<1>. QED  BY <1>7, <1>8, <1>9

\* rt_mb_delete: the test of its loops.
LEMMA MbDeleteTestKept ==
    ASSUME Inv, NEW t \in App, MbDeleteTest(t)
    PROVE  Kept'
<1>1. Runs(t, "del") /\ UNCHANGED <<k, corrupt>> /\ UNCHANGED entry
  BY DEF MbDeleteTest, ring
<1>2. on[t] \in Object
  BY <1>1, Runner, Labels DEF Inv
<1>3. MailboxOf(t) \in Mailboxes /\ suspend_sender_thread[MailboxOf(t)] \in Object
  BY <1>2, MailboxOfCall, Lists
<1>4. {"run", "del", "del_one"} \subseteq PC \ Waits /\ "run" \notin WorksOnObject
  BY Labels DEF Waits
<1>5. PICK after \in PC \ Waits, o \in Object \cup {NoObject} :
        Goes(t, after, o) /\ (after \in WorksOnObject => o \in Object) /\ open' \subseteq open
  <2>1. CASE Goes(t, "del_one", on[t]) /\ UNCHANGED open
    BY <1>2, <1>4, <2>1
  <2>2. CASE Goes(t, "del", suspend_sender_thread[MailboxOf(t)]) /\ UNCHANGED open
    BY <1>3, <1>4, <2>2
  <2>3. CASE Goes(t, "run", NoObject) /\ open' \subseteq open
    BY <1>4, <2>3
  <2>. QED  BY <2>1, <2>2, <2>3 DEF MbDeleteTest, Returns
<1>. QED  BY <1>1, <1>5, GoesStep

\* rt_mb_init of a mailbox that was deleted.
LEMMA MbCreateKept ==
    ASSUME Inv, NEW t \in App, NEW m \in Mailboxes, MbCreate(t, m)
    PROVE  Kept'
<1>1. PICK s \in Object : s = suspend_sender_thread[m]
  BY Lists
<1>2. /\ open' = open \cup {m, s} /\ UNCHANGED <<k, pc, on>> /\ UNCHANGED corrupt
      /\ (\A u \in Thread : on[u] # m /\ on[u] # s) /\ entry' = [entry EXCEPT ![m] = 0]
  BY <1>1 DEF MbCreate
<1>3. m \in Object /\ open' \subseteq Object /\ corrupt' \in BOOLEAN
  BY <1>1, <1>2, Lists DEF Inv, IpcInv, IpcTypeOK
<1>4. IpcInv' /\ WaitersClean'
  BY <1>2, <1>3, IdleStep DEF Inv
<1>5. \A x \in Object : Waiting(x)' = Waiting(x) /\ Resumed(x)' = Resumed(x)
  BY <1>2 DEF Waiting, Resumed
<1>6. Waiting(m) = {} /\ Waiting(s) = {}
  BY <1>2, <1>3, UnusedIsEmpty DEF Inv
<1>. QED  BY <1>1, <1>2, <1>3, <1>4, <1>5, <1>6, EntryStep

\* The resumed thread that runs was resumed from the list of its call, and a
\* thread that calls from none.
LEMMA RunnerResumed ==
    ASSUME NEW t, NEW l, Runs(t, "run") \/ (Runs(t, "wait_ret") /\ on[t] = l)
    PROVE  \A x \in Object \ {l} : t \notin Resumed(x)
  BY ResumedHere DEF Runs, Waits

\* A mail is sent, at once or after a wait.
LEMMA SendKept ==
    ASSUME Inv, NEW t \in App, NEW m \in Mailboxes, NEW s, s = suspend_sender_thread[m],
           NEW v, Put(m, v), ResumesOne(t, m), UNCHANGED <<open, corrupt>>,
           Runs(t, "run") \/ (Runs(t, "wait_ret") /\ on[t] = s)
    PROVE  Kept'
<1>1. m \in Object /\ entry' = [entry EXCEPT ![m] = entry[m] + 1]
  BY Lists DEF Put
<1>2. IpcInv' /\ WaitersClean' /\ ServesOne({t}, m)
  <2>1. CASE Runs(t, "run")
    BY <1>1, <2>1, ServingStep DEF Inv
  <2>2. CASE Runs(t, "wait_ret")
    BY <1>1, <2>2, ServingStep DEF Inv
  <2>. QED  BY <2>1, <2>2
<1>3. \A x \in Object \ {s} : Resumed(x) \cap {t} = {}
  BY RunnerResumed
<1>. QED  BY <1>1, <1>2, <1>3, PutStep

\* A mail is received, at once or after a wait.
LEMMA RecvKept ==
    ASSUME Inv, NEW t \in App, NEW m \in Mailboxes, NEW s, s = suspend_sender_thread[m],
           Get(m), ResumesOne(t, s), UNCHANGED <<open, corrupt>>,
           Runs(t, "run") \/ (Runs(t, "wait_ret") /\ on[t] = m)
    PROVE  Kept'
<1>1. s \in Object /\ entry' = [entry EXCEPT ![m] = entry[m] - 1]
  BY Lists DEF Get
<1>2. IpcInv' /\ WaitersClean' /\ ServesOne({t}, s)
  <2>1. CASE Runs(t, "run")
    BY <1>1, <2>1, ServingStep DEF Inv
  <2>2. CASE Runs(t, "wait_ret")
    BY <1>1, <2>2, ServingStep DEF Inv
  <2>. QED  BY <2>1, <2>2
<1>3. \A x \in Object \ {m} : t \notin Resumed(x)
  BY RunnerResumed
<1>. QED  BY <1>1, <1>2, <1>3, GetStep

\* An interrupt handler sends a mail.
LEMMA SendIsrKept ==
    ASSUME Inv, NEW m \in Mailboxes, NEW v, SendIsr(m, v)
    PROVE  Kept'
<1>1. /\ m \in Object /\ ResumesOneIsr(m) /\ UNCHANGED <<open, pc, on, corrupt>>
      /\ entry' = [entry EXCEPT ![m] = entry[m] + 1]
  BY Lists DEF SendIsr, Put
<1>2. IpcInv' /\ WaitersClean' /\ ServesOne({}, m)
  BY <1>1, ServingIsr DEF Inv
<1>3. \A x \in Object \ {suspend_sender_thread[m]} : Resumed(x) \cap {} = {}
  OBVIOUS
<1>. QED  BY <1>1, <1>2, <1>3, PutStep

\* A step inside a call.
LEMMA InCallKept ==
    ASSUME Inv, NEW t \in App, InCall(t)
    PROVE  Kept'
<1>1. IpcInv /\ WaitersClean /\ open \subseteq Object /\ corrupt \in BOOLEAN
  BY DEF Inv, IpcInv, IpcTypeOK
<1>2. "run" \in PC \ Waits /\ "run" \notin WorksOnObject
  BY Labels DEF Waits
<1>3. CASE SendRetry(t)
  <2>1. Runs(t, "wait_ret") /\ on[t] \in Senders /\ on[t] \in Object
    BY <1>3, Lists DEF SendRetry
  <2>2. PICK m \in Mailboxes : m = MailboxOf(t)
    BY <2>1, MailboxOfCall
  <2>3. PICK s : s = suspend_sender_thread[m] /\ s = on[t] /\ s # m
    BY <2>1, <2>2, MailboxOfCall, Lists
  <2>4. CASE Put(m, mail[t]) /\ ResumesOne(t, m) /\ UNCHANGED <<open, corrupt>>
    BY <2>1, <2>3, <2>4, SendKept
  <2>5. CASE Full(m) /\ WaitsIn(t, s, t \in limit)
    BY <2>1, <2>3, <2>5, WaitsInStep
  <2>. QED  BY <1>3, <2>2, <2>3, <2>4, <2>5 DEF SendRetry
<1>4. CASE RecvRetry(t)
  <2>1. PICK m \in Mailboxes : m = on[t] /\ Runs(t, "wait_ret")
    BY <1>4 DEF RecvRetry
  <2>2. PICK s : s = suspend_sender_thread[m] /\ s # m
    BY Lists
  <2>3. CASE Get(m) /\ ResumesOne(t, s) /\ UNCHANGED <<open, corrupt>>
    BY <2>1, <2>2, <2>3, RecvKept
  <2>4. CASE Empty(m) /\ WaitsIn(t, m, t \in limit)
    BY <2>1, <2>2, <2>4, WaitsInStep
  <2>. QED  BY <1>4, <2>1, <2>2, <2>3, <2>4 DEF RecvRetry
<1>5. CASE SendExpires(t)
  <2>1. /\ Runs(t, "wait_ret") /\ on[t] \in Senders /\ Full(MailboxOf(t)) /\ UNCHANGED k
        /\ Goes(t, "run", NoObject) /\ UNCHANGED <<open, corrupt, entry>>
    BY <1>5 DEF SendExpires, Returns, ring
  <2>. QED  BY <1>2, <2>1, GoesStep
<1>6. CASE RecvExpires(t)
  <2>1. /\ Runs(t, "wait_ret") /\ on[t] \in Mailboxes /\ Empty(on[t])
        /\ k' = [k EXCEPT !.error[t] = "ETIMEOUT"]
        /\ Goes(t, "run", NoObject) /\ UNCHANGED <<open, corrupt, entry>>
    BY <1>6 DEF RecvExpires, Returns, ring
  <2>2. "ETIMEOUT" \in Error
    BY DEF Error
  <2>. QED  BY <1>2, <2>1, <2>2, GoesStep
<1>7. CASE ReturnError(t)
  <2>1. /\ Runs(t, "wait_ret") /\ k.error[t] # "EOK" /\ UNCHANGED k
        /\ Goes(t, "run", NoObject) /\ UNCHANGED <<open, corrupt, entry>>
    BY <1>7 DEF ReturnError, Returns, ring
  <2>. QED  BY <1>2, <2>1, GoesStep
<1>8. CASE ReadsDeleted(t)
  <2>1. UNCHANGED <<k, open, pc, on>> /\ corrupt' = TRUE /\ UNCHANGED entry
    BY <1>8 DEF ReadsDeleted, ring
  <2>2. IpcInv' /\ NobodyServed
    BY <1>1, <2>1, IdleStep
  <2>. QED  BY <2>1, <2>2, QuietStep
<1>9. CASE (WaitSchedule(t) \/ Schedule(t) \/ DeleteOne(t)) /\ UNCHANGED <<ring, call, got>>
  <2>1. IpcInCall(t) /\ UNCHANGED entry
    BY <1>9 DEF IpcInCall, ring
  <2>2. IpcInv' /\ NobodyServed /\ open' \subseteq open
    BY <1>1, <2>1, IpcInCallInv, IpcInCallServes, IpcOpen
  <2>. QED  BY <2>1, <2>2, QuietStep
<1>. QED  BY <1>3, <1>4, <1>5, <1>6, <1>7, <1>8, <1>9, ControlLoopKept, MbDeleteTestKept
          DEF InCall

\* The start of a call.
LEMMA CallKept ==
    ASSUME Inv, NEW t \in App, Call(t)
    PROVE  Kept'
<1>1. PICK m \in Mailboxes :
        \/ \E v \in Mail : Send(t, m, v)
        \/ \E v \in Mail, timed \in BOOLEAN : SendBlock(t, m, v, timed)
        \/ Recv(t, m)
        \/ \E timed \in BOOLEAN : RecvBlock(t, m, timed)
        \/ Control(t, m) \/ MbDelete(t, m) \/ MbCreate(t, m)
  BY DEF Call
<1>2. PICK s : s = suspend_sender_thread[m] /\ s # m /\ m \in Object /\ s \in Object
  BY Lists
<1>3. ASSUME NEW v \in Mail, Send(t, m, v) PROVE Kept'
  BY <1>2, <1>3, SendKept DEF Send
<1>4. ASSUME NEW v \in Mail, NEW timed \in BOOLEAN, SendBlock(t, m, v, timed) PROVE Kept'
  BY <1>2, <1>4, WaitsInStep DEF SendBlock
<1>5. CASE Recv(t, m)
  BY <1>2, <1>5, RecvKept DEF Recv
<1>6. ASSUME NEW timed \in BOOLEAN, RecvBlock(t, m, timed) PROVE Kept'
  BY <1>2, <1>6, WaitsInStep DEF RecvBlock
<1>7. CASE Control(t, m)
  <2>1. /\ Runs(t, "run") /\ UNCHANGED k
        /\ Goes(t, "irq_off", m) /\ UNCHANGED <<open, corrupt, entry>>
    BY <1>7 DEF Control, ring
  <2>2. "irq_off" \in PC \ Waits
    BY Labels DEF Waits
  <2>. QED  BY <1>2, <2>1, <2>2, GoesStep
<1>8. CASE MbDelete(t, m)
  <2>1. IpcCall(t) /\ UNCHANGED entry
    BY <1>2, <1>8 DEF MbDelete, IpcCall, ring
  <2>2. IpcInv' /\ NobodyServed /\ open' \subseteq open
    BY <2>1, IpcCallInv, IpcCallServes, IpcOpen DEF Inv
  <2>. QED  BY <2>1, <2>2, QuietStep
<1>. QED  BY <1>1, <1>3, <1>4, <1>5, <1>6, <1>7, <1>8, MbCreateKept

\* Every step preserves the invariant.
LEMMA NextInv ==
    ASSUME Inv, [Next]_vars
    PROVE  Inv'
<1>1. IpcInv /\ WaitersClean /\ open \subseteq Object /\ corrupt \in BOOLEAN
  BY DEF Inv, IpcInv, IpcTypeOK
<1>2. CASE UNCHANGED vars
  <2>1. UNCHANGED <<k, open, pc, on>> /\ UNCHANGED corrupt /\ UNCHANGED entry
    BY <1>2 DEF vars, ipcVars, ring
  <2>2. IpcInv' /\ NobodyServed
    BY <1>1, <2>1, IdleStep
  <2>3. Kept'
    BY <2>1, <2>2, QuietStep
  <2>. QED  BY <2>3, TypeStep DEF Inv, Kept
<1>3. CASE Interrupt
  <2>1. ASSUME Tick, UNCHANGED <<ring, call, got>> PROVE Kept'
    <3>1. IpcInv' /\ NobodyServed /\ open' \subseteq open
      BY <1>1, <2>1, TickInv, TickServes, IpcOpen
    <3>. QED  BY <2>1, <3>1, QuietStep DEF ring
  <2>2. Kept'
    BY <1>3, <2>1, SendIsrKept DEF Interrupt
  <2>. QED  BY <2>2, TypeStep DEF Inv, Kept
<1>4. CASE \E t \in App : InCall(t) \/ Call(t)
  <2>1. Kept'
    BY <1>4, InCallKept, CallKept
  <2>. QED  BY <2>1, TypeStep DEF Inv, Kept
<1>. QED  BY <1>2, <1>3, <1>4 DEF Next

-----------------------------------------------------------------------------
\* The inductive invariant holds in every reachable state.
THEOREM Invariance == Spec => []Inv
<1>1. Init => Inv
  BY InitInv
<1>2. Inv /\ [Next]_vars => Inv'
  BY NextInv
<1>. QED  BY <1>1, <1>2, PTL DEF Spec

\* The offsets of a mailbox stay inside its pool and mb->entry between nothing
\* and mb->size, and the calls of its threads keep their types.
THEOREM TypeCorrect == Spec => []TypeOK
<1>1. Inv => TypeOK
  BY DEF Inv, IpcInv, RingTypeOK, TypeOK
<1>. QED  BY <1>1, Invariance, PTL

\* No wake-up of a mailbox is lost: while a receiver waits, every mail has a
\* receiver that was resumed for it, and while a sender waits, every free place
\* has a sender that was resumed for it, whatever interrupt handlers, other
\* threads, timeouts, resets and deletions come between the resuming of a thread
\* and its second look at the mailbox.
THEOREM NoWakeupIsLost == Spec => []NoLostWakeup
<1>1. Inv => NoLostWakeup
  BY DEF Inv
<1>. QED  BY <1>1, Invariance, PTL

\* The kernel stays coherent and nobody is stranded, although a thread that was
\* resumed from either list may put itself back into it.
THEOREM KernelIsKept == Spec => [](Coherent /\ NobodyStranded)
<1>1. Inv => Coherent /\ NobodyStranded
  BY DEF Inv, IpcInv
<1>. QED  BY <1>1, Invariance, PTL

-----------------------------------------------------------------------------
(* The ring implements a bounded queue *)

\* What links the two offsets of a ring and the number of its mails.
RingOrder == \A m \in Mailboxes : in_offset[m] = (out_offset[m] + entry[m]) % SIZE

\* A thread in the list of senders, or resumed from it, has a mail to send.
SendersHaveMail ==
    \A t \in Thread : pc[t] \in Waits /\ on[t] \in Senders => mail[t] \in Mail

OrderInv == RingOrder /\ SendersHaveMail

\* The places of a ring, counted from an offset, wrap around once.
LEMMA Wraps ==
    ASSUME NEW i \in 0 .. SIZE - 1, NEW j \in 0 .. SIZE
    PROVE  /\ (i + j) % SIZE = IF i + j < SIZE THEN i + j ELSE i + j - SIZE
           /\ (i + j) % SIZE \in 0 .. SIZE - 1
<1>1. SIZE \in Nat \ {0} /\ i \in Nat /\ j \in Nat /\ i + j < SIZE + SIZE
  BY MailboxAssumption
<1>2. CASE i + j < SIZE
  <2>1. (i + j) % SIZE = i + j
    BY <1>1, <1>2
  <2>. QED  BY <1>1, <1>2, <2>1
<1>3. CASE ~(i + j < SIZE)
  <2>1. (i + j) % SIZE = i + j - SIZE
    BY <1>1, <1>3
  <2>. QED  BY <1>1, <1>3, <2>1
<1>. QED  BY <1>2, <1>3

\* Counting from the next offset is counting one place further.
LEMMA WrapsNext ==
    ASSUME NEW i \in 0 .. SIZE - 1, NEW j \in 0 .. SIZE - 1
    PROVE  /\ (Step(i) + j) % SIZE = (i + (j + 1)) % SIZE
           /\ Step((i + j) % SIZE) = (i + (j + 1)) % SIZE
<1>1. SIZE \in Nat \ {0} /\ i \in Nat /\ j \in Nat /\ i < SIZE /\ j < SIZE
  BY MailboxAssumption
<1>2. Step(i) \in 0 .. SIZE - 1 /\ j \in 0 .. SIZE /\ j + 1 \in 0 .. SIZE
  BY <1>1, StepType
<1>3. /\ (Step(i) + j) % SIZE = IF Step(i) + j < SIZE THEN Step(i) + j ELSE Step(i) + j - SIZE
      /\ (i + (j + 1)) % SIZE = IF i + (j + 1) < SIZE THEN i + (j + 1) ELSE i + (j + 1) - SIZE
      /\ (i + j) % SIZE = IF i + j < SIZE THEN i + j ELSE i + j - SIZE
  BY <1>2, Wraps
<1>. QED  BY <1>1, <1>3 DEF Step

\* The place of the i-th mail of a ring.
LEMMA Places ==
    ASSUME NEW out \in 0 .. SIZE - 1, NEW i \in 1 .. SIZE
    PROVE  /\ (out + i - 1) % SIZE = (out + (i - 1)) % SIZE
           /\ (out + i - 1) % SIZE \in 0 .. SIZE - 1
<1>1. i - 1 \in 0 .. SIZE /\ out + i - 1 = out + (i - 1)
  BY MailboxAssumption
<1>. QED  BY <1>1, Wraps

\* The mails of a ring are a sequence as long as mb->entry says, before and after
\* a step.
LEMMA ContentsType ==
    ASSUME RingTypeOK, RingTypeOK', NEW m \in Mailboxes
    PROVE  /\ Contents(m) \in Seq(Mail \cup {NoMail}) /\ Len(Contents(m)) = entry[m]
           /\ \A i \in 1 .. entry[m] :
                Contents(m)[i] = msg_pool[m][(out_offset[m] + (i - 1)) % SIZE]
           /\ Contents(m)' \in Seq(Mail \cup {NoMail}) /\ Len(Contents(m)') = entry'[m]
           /\ \A i \in 1 .. entry'[m] :
                Contents(m)'[i] = msg_pool'[m][(out_offset'[m] + (i - 1)) % SIZE]
<1>1. ASSUME NEW i \in 1 .. entry[m]
      PROVE  /\ msg_pool[m][(out_offset[m] + i - 1) % SIZE] \in Mail \cup {NoMail}
             /\ (out_offset[m] + i - 1) % SIZE = (out_offset[m] + (i - 1)) % SIZE
  <2>1. i \in 1 .. SIZE /\ entry[m] \in 0 .. SIZE /\ out_offset[m] \in 0 .. SIZE - 1
        /\ msg_pool[m] \in [0 .. SIZE - 1 -> Mail \cup {NoMail}]
    BY MailboxAssumption DEF RingTypeOK
  <2>. QED  BY <2>1, Places
<1>2. /\ Contents(m) \in [1 .. entry[m] -> Mail \cup {NoMail}] /\ entry[m] \in Nat
      /\ \A i \in 1 .. entry[m] :
           Contents(m)[i] = msg_pool[m][(out_offset[m] + (i - 1)) % SIZE]
  BY <1>1, MailboxAssumption DEF Contents, RingTypeOK
<1>3. ASSUME NEW i \in 1 .. entry'[m]
      PROVE  /\ msg_pool'[m][(out_offset'[m] + i - 1) % SIZE] \in Mail \cup {NoMail}
             /\ (out_offset'[m] + i - 1) % SIZE = (out_offset'[m] + (i - 1)) % SIZE
  <2>1. i \in 1 .. SIZE /\ entry'[m] \in 0 .. SIZE /\ out_offset'[m] \in 0 .. SIZE - 1
        /\ msg_pool'[m] \in [0 .. SIZE - 1 -> Mail \cup {NoMail}]
    BY MailboxAssumption DEF RingTypeOK
  <2>. QED  BY <2>1, Places
<1>4. /\ Contents(m)' \in [1 .. entry'[m] -> Mail \cup {NoMail}] /\ entry'[m] \in Nat
      /\ \A i \in 1 .. entry'[m] :
           Contents(m)'[i] = msg_pool'[m][(out_offset'[m] + (i - 1)) % SIZE]
  BY <1>3, MailboxAssumption DEF Contents, RingTypeOK
<1>5. Contents(m) \in Seq(Mail \cup {NoMail}) /\ Len(Contents(m)) = entry[m]
  BY <1>2
<1>6. Contents(m)' \in Seq(Mail \cup {NoMail}) /\ Len(Contents(m)') = entry'[m]
  BY <1>4
<1>. QED  BY <1>2, <1>4, <1>5, <1>6

\* A mail that is put becomes the last one, and the offsets still agree.
LEMMA PutContents ==
    ASSUME RingTypeOK, RingTypeOK', RingOrder, NEW m \in Mailboxes, ~Full(m),
           NEW v \in Mail \cup {NoMail}, Put(m, v)
    PROVE  /\ Contents(m)' = Append(Contents(m), v)
           /\ \A n \in Mailboxes \ {m} : Contents(n)' = Contents(n)
           /\ RingOrder'
<1>1. /\ entry[m] \in 0 .. SIZE - 1 /\ entry[m] \in Nat /\ SIZE \in Nat \ {0}
      /\ out_offset[m] \in 0 .. SIZE - 1 /\ in_offset[m] \in 0 .. SIZE - 1
  BY MailboxAssumption DEF RingTypeOK, Full
<1>2. /\ entry'[m] = entry[m] + 1 /\ out_offset'[m] = out_offset[m]
      /\ in_offset'[m] = Step(in_offset[m])
      /\ msg_pool'[m][in_offset[m]] = v
      /\ \A i \in (0 .. SIZE - 1) \ {in_offset[m]} : msg_pool'[m][i] = msg_pool[m][i]
  BY <1>1 DEF Put, RingTypeOK
<1>3. \A n \in Mailboxes \ {m} : /\ entry'[n] = entry[n] /\ out_offset'[n] = out_offset[n]
                                 /\ in_offset'[n] = in_offset[n] /\ msg_pool'[n] = msg_pool[n]
  BY DEF Put, RingTypeOK
<1>4. ASSUME NEW n \in Mailboxes \ {m} PROVE Contents(n)' = Contents(n)
  BY <1>3 DEF Contents
<1>5. in_offset[m] = (out_offset[m] + entry[m]) % SIZE
  BY DEF RingOrder
<1>6. in_offset'[m] = (out_offset[m] + (entry[m] + 1)) % SIZE
  BY <1>1, <1>2, <1>5, WrapsNext
<1>7. RingOrder'
  BY <1>2, <1>3, <1>6 DEF RingOrder
<1>8. /\ Contents(m) \in Seq(Mail \cup {NoMail}) /\ Len(Contents(m)) = entry[m]
      /\ \A i \in 1 .. entry[m] :
           Contents(m)[i] = msg_pool[m][(out_offset[m] + (i - 1)) % SIZE]
  BY ContentsType
<1>9. /\ Contents(m)' \in Seq(Mail \cup {NoMail}) /\ Len(Contents(m)') = entry[m] + 1
      /\ \A i \in 1 .. (entry[m] + 1) :
           Contents(m)'[i] = msg_pool'[m][(out_offset[m] + (i - 1)) % SIZE]
  <2>1. /\ Contents(m)' \in Seq(Mail \cup {NoMail}) /\ Len(Contents(m)') = entry'[m]
        /\ \A i \in 1 .. entry'[m] :
             Contents(m)'[i] = msg_pool'[m][(out_offset'[m] + (i - 1)) % SIZE]
    BY ContentsType
  <2>. QED  BY <1>2, <2>1
<1>10. ASSUME NEW i \in 1 .. entry[m] PROVE Contents(m)'[i] = Contents(m)[i]
  <2>1. PICK j \in 0 .. SIZE - 1 : j = (out_offset[m] + (i - 1)) % SIZE /\ j # in_offset[m]
    <3>1. i - 1 \in 0 .. SIZE /\ i - 1 < entry[m] /\ entry[m] \in 0 .. SIZE /\ i - 1 \in Int
      BY <1>1
    <3>2. /\ (out_offset[m] + (i - 1)) % SIZE \in 0 .. SIZE - 1
          /\ (out_offset[m] + (i - 1)) % SIZE =
               IF out_offset[m] + (i - 1) < SIZE THEN out_offset[m] + (i - 1)
               ELSE out_offset[m] + (i - 1) - SIZE
          /\ (out_offset[m] + entry[m]) % SIZE =
               IF out_offset[m] + entry[m] < SIZE THEN out_offset[m] + entry[m]
               ELSE out_offset[m] + entry[m] - SIZE
      BY <1>1, <3>1, Wraps
    <3>3. (out_offset[m] + (i - 1)) % SIZE # (out_offset[m] + entry[m]) % SIZE
      BY <1>1, <3>1, <3>2
    <3>. QED  BY <1>5, <3>2, <3>3
  <2>2. Contents(m)'[i] = msg_pool'[m][j]
    <3>1. i \in 1 .. (entry[m] + 1)
      BY <1>1
    <3>. QED  BY <1>9, <2>1, <3>1
  <2>3. Contents(m)[i] = msg_pool[m][j]
    BY <1>8, <2>1
  <2>. QED  BY <1>2, <2>1, <2>2, <2>3
<1>11. Contents(m)'[entry[m] + 1] = v
  <2>1. entry[m] + 1 \in 1 .. (entry[m] + 1) /\ (entry[m] + 1) - 1 = entry[m]
    BY <1>1
  <2>2. Contents(m)'[entry[m] + 1] = msg_pool'[m][(out_offset[m] + entry[m]) % SIZE]
    BY <1>9, <2>1
  <2>. QED  BY <1>2, <1>5, <2>2
<1>12. Contents(m)' = Append(Contents(m), v)
  <2>1. PICK q \in Seq(Mail \cup {NoMail}) : q = Contents(m)
    BY <1>8
  <2>2. PICK r \in Seq(Mail \cup {NoMail}) : r = Contents(m)'
    BY <1>9
  <2>3. Len(q) = entry[m] /\ Len(r) = entry[m] + 1 /\ r[entry[m] + 1] = v
    BY <1>8, <1>9, <1>11, <2>1, <2>2
  <2>4. \A i \in 1 .. Len(q) : r[i] = q[i]
    BY <1>10, <2>1, <2>2, <2>3
  <2>5. r = Append(q, v)
    BY <1>1, <2>3, <2>4
  <2>. QED  BY <2>1, <2>2, <2>5
<1>. QED  BY <1>4, <1>7, <1>12

\* A mail that is taken was the first one, and the offsets still agree.
LEMMA GetContents ==
    ASSUME RingTypeOK, RingTypeOK', RingOrder, NEW m \in Mailboxes, ~Empty(m), Get(m)
    PROVE  /\ Contents(m) # <<>> /\ Contents(m)' = Tail(Contents(m))
           /\ got' = [got EXCEPT ![m] = Head(Contents(m))]
           /\ \A n \in Mailboxes \ {m} : Contents(n)' = Contents(n)
           /\ RingOrder'
<1>1. /\ entry[m] \in 1 .. SIZE /\ entry[m] \in Nat /\ SIZE \in Nat \ {0}
      /\ out_offset[m] \in 0 .. SIZE - 1
  BY MailboxAssumption DEF RingTypeOK, Empty
<1>2. /\ entry'[m] = entry[m] - 1 /\ out_offset'[m] = Step(out_offset[m])
      /\ in_offset' = in_offset /\ msg_pool' = msg_pool
  BY DEF Get, RingTypeOK
<1>3. \A n \in Mailboxes \ {m} : /\ entry'[n] = entry[n] /\ out_offset'[n] = out_offset[n]
                                 /\ in_offset'[n] = in_offset[n] /\ msg_pool'[n] = msg_pool[n]
  BY DEF Get, RingTypeOK
<1>4. ASSUME NEW n \in Mailboxes \ {m} PROVE Contents(n)' = Contents(n)
  BY <1>3 DEF Contents
<1>5. in_offset[m] = (out_offset[m] + entry[m]) % SIZE
  BY DEF RingOrder
<1>6. in_offset'[m] = (out_offset'[m] + entry'[m]) % SIZE
  <2>1. PICK j \in 0 .. SIZE - 1 : j = entry[m] - 1 /\ entry[m] = j + 1
    BY <1>1
  <2>2. (Step(out_offset[m]) + j) % SIZE = (out_offset[m] + (j + 1)) % SIZE
    BY <1>1, WrapsNext
  <2>. QED  BY <1>2, <1>5, <2>1, <2>2
<1>7. RingOrder'
  BY <1>3, <1>6 DEF RingOrder
<1>8. /\ Contents(m) \in Seq(Mail \cup {NoMail}) /\ Len(Contents(m)) = entry[m]
      /\ \A i \in 1 .. entry[m] :
           Contents(m)[i] = msg_pool[m][(out_offset[m] + (i - 1)) % SIZE]
  BY ContentsType
<1>9. /\ Contents(m)' \in Seq(Mail \cup {NoMail}) /\ Len(Contents(m)') = entry[m] - 1
      /\ \A i \in 1 .. (entry[m] - 1) :
           Contents(m)'[i] = msg_pool[m][(Step(out_offset[m]) + (i - 1)) % SIZE]
  <2>1. /\ Contents(m)' \in Seq(Mail \cup {NoMail}) /\ Len(Contents(m)') = entry'[m]
        /\ \A i \in 1 .. entry'[m] :
             Contents(m)'[i] = msg_pool'[m][(out_offset'[m] + (i - 1)) % SIZE]
    BY ContentsType
  <2>. QED  BY <1>2, <2>1
<1>10. ASSUME NEW i \in 1 .. (entry[m] - 1) PROVE Contents(m)'[i] = Contents(m)[i + 1]
  <2>1. PICK j \in 0 .. SIZE - 1 : j = i - 1 /\ i = j + 1
    BY <1>1
  <2>2. (Step(out_offset[m]) + j) % SIZE = (out_offset[m] + (j + 1)) % SIZE
    BY <1>1, WrapsNext
  <2>3. i + 1 \in 1 .. entry[m] /\ (i + 1) - 1 = j + 1
    BY <1>1, <2>1
  <2>4. Contents(m)[i + 1] = msg_pool[m][(out_offset[m] + (j + 1)) % SIZE]
    BY <1>8, <2>3
  <2>. QED  BY <1>9, <2>1, <2>2, <2>4
<1>11. Contents(m)[1] = msg_pool[m][out_offset[m]]
  <2>1. 1 \in 1 .. entry[m] /\ 1 - 1 = 0 /\ 0 \in 0 .. SIZE
    BY <1>1
  <2>2. Contents(m)[1] = msg_pool[m][(out_offset[m] + 0) % SIZE]
    BY <1>8, <2>1
  <2>3. (out_offset[m] + 0) % SIZE = out_offset[m]
    <3>1. (out_offset[m] + 0) % SIZE = IF out_offset[m] + 0 < SIZE THEN out_offset[m] + 0
                                       ELSE out_offset[m] + 0 - SIZE
      BY <1>1, <2>1, Wraps
    <3>. QED  BY <1>1, <3>1
  <2>. QED  BY <2>2, <2>3
<1>12. PICK q \in Seq(Mail \cup {NoMail}) :
         q = Contents(m) /\ Len(q) = entry[m] /\ q[1] = msg_pool[m][out_offset[m]]
  BY <1>8, <1>11
<1>13. q # <<>> /\ Head(q) = msg_pool[m][out_offset[m]]
  BY <1>1, <1>12
<1>14. Contents(m)' = Tail(q)
  <2>1. PICK r \in Seq(Mail \cup {NoMail}) : r = Contents(m)' /\ Len(r) = Len(q) - 1
    BY <1>9, <1>12
  <2>2. \A i \in 1 .. Len(r) : r[i] = q[i + 1]
    BY <1>10, <1>12, <2>1
  <2>3. r = Tail(q)
    BY <1>13, <2>1, <2>2
  <2>. QED  BY <2>1, <2>3
<1>15. got' = [got EXCEPT ![m] = Head(q)]
  BY <1>13 DEF Get
<1>. QED  BY <1>4, <1>7, <1>12, <1>13, <1>14, <1>15

\* A ring that is reset is empty.
LEMMA ClearContents ==
    ASSUME RingTypeOK, RingOrder, NEW m \in Mailboxes, entry' = [entry EXCEPT ![m] = 0],
           in_offset' = [in_offset EXCEPT ![m] = 0],
           out_offset' = [out_offset EXCEPT ![m] = 0], UNCHANGED msg_pool
    PROVE  /\ Contents(m)' = <<>>
           /\ \A n \in Mailboxes \ {m} : Contents(n)' = Contents(n)
           /\ RingOrder'
<1>1. /\ entry'[m] = 0 /\ in_offset'[m] = 0 /\ out_offset'[m] = 0
      /\ \A n \in Mailboxes \ {m} : /\ entry'[n] = entry[n] /\ out_offset'[n] = out_offset[n]
                                    /\ in_offset'[n] = in_offset[n]
  BY DEF RingTypeOK
<1>2. (0 + 0) % SIZE = 0
  BY MailboxAssumption
<1>3. Contents(m)' = <<>>
  BY <1>1 DEF Contents
<1>4. ASSUME NEW n \in Mailboxes \ {m} PROVE Contents(n)' = Contents(n)
  BY <1>1 DEF Contents
<1>. QED  BY <1>1, <1>2, <1>3, <1>4 DEF RingOrder

\* The queues of the abstract specification.
Queues == [m \in Mailboxes |-> Contents(m)]

\* What a step has to do to the abstract queues.
Refines == Promise!Next \/ UNCHANGED <<Queues, got>>

\* A send of the abstract specification.
LEMMA SendRefines ==
    ASSUME RingTypeOK, RingTypeOK', RingOrder, NEW m \in Mailboxes, ~Full(m),
           NEW v \in Mail, Put(m, v)
    PROVE  RingOrder' /\ Refines
<1>1. /\ Contents(m)' = Append(Contents(m), v)
      /\ \A n \in Mailboxes \ {m} : Contents(n)' = Contents(n)
      /\ RingOrder'
  BY PutContents
<1>2. Len(Contents(m)) < SIZE
  <2>1. entry[m] < SIZE
    BY MailboxAssumption DEF RingTypeOK, Full
  <2>. QED  BY <2>1, ContentsType
<1>3. Promise!Send(m, v)
  BY <1>1, <1>2 DEF Promise!Send, Put
<1>. QED  BY <1>1, <1>3 DEF Refines, Promise!Next

\* A receive of the abstract specification.
LEMMA ReceiveRefines ==
    ASSUME RingTypeOK, RingTypeOK', RingOrder, NEW m \in Mailboxes, ~Empty(m), Get(m)
    PROVE  RingOrder' /\ Refines
<1>1. /\ Contents(m) # <<>> /\ Contents(m)' = Tail(Contents(m))
      /\ got' = [got EXCEPT ![m] = Head(Contents(m))]
      /\ \A n \in Mailboxes \ {m} : Contents(n)' = Contents(n)
      /\ RingOrder'
  BY GetContents
<1>2. Promise!Receive(m)
  BY <1>1 DEF Promise!Receive
<1>. QED  BY <1>1, <1>2 DEF Refines, Promise!Next

\* A clearing of the abstract specification.
LEMMA ClearRefines ==
    ASSUME RingTypeOK, RingOrder, NEW m \in Mailboxes, entry' = [entry EXCEPT ![m] = 0],
           in_offset' = [in_offset EXCEPT ![m] = 0],
           out_offset' = [out_offset EXCEPT ![m] = 0], UNCHANGED msg_pool, UNCHANGED got
    PROVE  RingOrder' /\ Refines
<1>1. /\ Contents(m)' = <<>>
      /\ \A n \in Mailboxes \ {m} : Contents(n)' = Contents(n)
      /\ RingOrder'
  BY ClearContents
<1>2. Promise!Clear(m)
  BY <1>1 DEF Promise!Clear
<1>. QED  BY <1>1, <1>2 DEF Refines, Promise!Next

\* A step that leaves the ring alone.
LEMMA StutterRefines ==
    ASSUME RingOrder, UNCHANGED ring, UNCHANGED got
    PROVE  RingOrder' /\ Refines
  BY DEF RingOrder, Refines, Queues, Contents, ring

\* Every step is a step of the bounded queue or changes nothing of it.
LEMMA RefinementStep ==
    ASSUME Inv, Inv', OrderInv, [Next]_vars
    PROVE  RingOrder' /\ Refines
<1>1. IpcInv /\ RingTypeOK /\ RingTypeOK' /\ RingOrder /\ SendersHaveMail
  BY DEF Inv, OrderInv
<1>2. CASE UNCHANGED vars
  BY <1>1, <1>2, StutterRefines DEF vars
<1>3. CASE Interrupt
  <2>1. ASSUME NEW m \in Mailboxes, NEW v \in Mail, SendIsr(m, v) PROVE RingOrder' /\ Refines
    BY <1>1, <2>1, SendRefines DEF SendIsr
  <2>. QED  BY <1>1, <1>3, <2>1, StutterRefines DEF Interrupt
<1>4. ASSUME NEW t \in App, InCall(t) PROVE RingOrder' /\ Refines
  <2>1. t \in Thread /\ \A label : Runs(t, label) /\ label \in WorksOnObject => on[t] \in Object
    BY <1>1, Runner DEF App
  <2>2. {"wait_ret", "irq_off"} \subseteq WorksOnObject
    BY Labels
  <2>3. CASE SendRetry(t)
    <3>1. PICK m : m = MailboxOf(t)
      OBVIOUS
    <3>2. m \in Mailboxes
      BY <2>1, <2>2, <2>3, <3>1, MailboxOfCall DEF SendRetry
    <3>3. mail[t] \in Mail
      BY <1>1, <2>1, <2>3 DEF SendRetry, SendersHaveMail, Runs, Waits
    <3>4. CASE ~Full(m) /\ Put(m, mail[t])
      BY <1>1, <3>2, <3>3, <3>4, SendRefines
    <3>5. CASE WaitsIn(t, on[t], t \in limit)
      BY <1>1, <3>5, StutterRefines DEF WaitsIn
    <3>. QED  BY <2>3, <3>1, <3>4, <3>5 DEF SendRetry
  <2>4. CASE RecvRetry(t)
    <3>1. PICK m \in Mailboxes : m = on[t]
      BY <2>4 DEF RecvRetry
    <3>2. CASE ~Empty(m) /\ Get(m)
      BY <1>1, <3>2, ReceiveRefines
    <3>3. CASE WaitsIn(t, m, t \in limit)
      BY <1>1, <3>3, StutterRefines DEF WaitsIn
    <3>. QED  BY <2>4, <3>1, <3>2, <3>3 DEF RecvRetry
  <2>5. CASE ControlLoop(t)
    <3>1. PICK m : m = MailboxOf(t)
      OBVIOUS
    <3>2. m \in Mailboxes
      BY <2>1, <2>2, <2>5, <3>1, MailboxOfCall DEF ControlLoop
    <3>3. \/ UNCHANGED ring
          \/ /\ entry' = [entry EXCEPT ![m] = 0] /\ in_offset' = [in_offset EXCEPT ![m] = 0]
             /\ out_offset' = [out_offset EXCEPT ![m] = 0] /\ UNCHANGED msg_pool
      BY <2>5, <3>1 DEF ControlLoop
    <3>4. UNCHANGED got
      BY <2>5 DEF ControlLoop
    <3>. QED  BY <1>1, <3>2, <3>3, <3>4, ClearRefines, StutterRefines
  <2>6. CASE \/ SendExpires(t) \/ RecvExpires(t) \/ ReturnError(t) \/ ReadsDeleted(t)
             \/ MbDeleteTest(t) \/ UNCHANGED <<ring, call, got>>
    <3>1. UNCHANGED ring /\ UNCHANGED got
      BY <2>6 DEF SendExpires, RecvExpires, ReturnError, ReadsDeleted, MbDeleteTest
    <3>. QED  BY <1>1, <3>1, StutterRefines
  <2>. QED  BY <1>4, <2>3, <2>4, <2>5, <2>6 DEF InCall
<1>5. ASSUME NEW t \in App, Call(t) PROVE RingOrder' /\ Refines
  <2>1. PICK m \in Mailboxes :
          \/ \E v \in Mail : Send(t, m, v)
          \/ \E v \in Mail, timed \in BOOLEAN : SendBlock(t, m, v, timed)
          \/ Recv(t, m)
          \/ \E timed \in BOOLEAN : RecvBlock(t, m, timed)
          \/ Control(t, m) \/ MbDelete(t, m) \/ MbCreate(t, m)
    BY <1>5 DEF Call
  <2>2. ASSUME NEW v \in Mail, Send(t, m, v) PROVE RingOrder' /\ Refines
    BY <1>1, <2>2, SendRefines DEF Send
  <2>3. CASE Recv(t, m)
    BY <1>1, <2>3, ReceiveRefines DEF Recv
  <2>4. CASE MbCreate(t, m)
    <3>1. /\ entry' = [entry EXCEPT ![m] = 0] /\ in_offset' = [in_offset EXCEPT ![m] = 0]
          /\ out_offset' = [out_offset EXCEPT ![m] = 0] /\ UNCHANGED msg_pool /\ UNCHANGED got
      BY <2>4 DEF MbCreate
    <3>. QED  BY <1>1, <3>1, ClearRefines
  <2>5. CASE \/ \E v \in Mail, timed \in BOOLEAN : SendBlock(t, m, v, timed)
             \/ \E timed \in BOOLEAN : RecvBlock(t, m, timed)
             \/ Control(t, m) \/ MbDelete(t, m)
    <3>1. UNCHANGED ring /\ UNCHANGED got
      BY <2>5 DEF SendBlock, RecvBlock, WaitsIn, Control, MbDelete
    <3>. QED  BY <1>1, <3>1, StutterRefines
  <2>. QED  BY <2>1, <2>2, <2>3, <2>4, <2>5
<1>. QED  BY <1>2, <1>3, <1>4, <1>5 DEF Next

\* A step of one thread keeps the mails of the senders if it keeps its own.
LEMMA MailStep ==
    ASSUME IpcInv, SendersHaveMail, NEW t \in Thread, NEW label, NEW o, Goes(t, label, o),
           \A u \in Thread \ {t} : mail'[u] = mail[u],
           label \in Waits /\ o \in Senders => mail'[t] \in Mail
    PROVE  SendersHaveMail'
<1>1. /\ pc'[t] = label /\ on'[t] = o
      /\ \A u \in Thread \ {t} : pc'[u] = pc[u] /\ on'[u] = on[u]
  BY DEF IpcInv, IpcTypeOK, Goes
<1>. QED  BY <1>1 DEF SendersHaveMail

\* Every step keeps the mails of the senders.
LEMMA MailsKept ==
    ASSUME Inv, SendersHaveMail, [Next]_vars
    PROVE  SendersHaveMail'
<1>1. IpcInv /\ mail \in [Thread -> Mail \cup {NoMail}] /\ NoObject \notin Senders
  BY Lists, IpcAssumption DEF Inv, RingTypeOK
<1>2. ASSUME UNCHANGED <<pc, on, mail>> PROVE SendersHaveMail'
  BY <1>2 DEF SendersHaveMail
<1>3. ASSUME NEW t \in App PROVE t \in Thread
  BY DEF App
<1>4. "run" \notin Waits /\ "sched" \notin Waits /\ "irq_off" \notin Waits
      /\ "del" \notin Waits /\ "del_one" \notin Waits
  BY DEF Waits
<1>5. CASE UNCHANGED vars
  BY <1>2, <1>5 DEF vars, ipcVars, call
<1>6. CASE Interrupt
  <2>1. ASSUME NEW m \in Mailboxes, NEW v \in Mail, SendIsr(m, v) PROVE UNCHANGED <<pc, on, mail>>
    BY <2>1 DEF SendIsr, call
  <2>2. ASSUME Tick, UNCHANGED <<ring, call, got>> PROVE UNCHANGED <<pc, on, mail>>
    BY <2>2 DEF Tick, SliceEnd, Timeout, call
  <2>. QED  BY <1>2, <1>6, <2>1, <2>2 DEF Interrupt
<1>7. ASSUME NEW t \in App, InCall(t) PROVE SendersHaveMail'
  <2>1. ASSUME CallEnds(t) PROVE \A u \in Thread \ {t} : mail'[u] = mail[u]
    BY <1>1, <2>1 DEF CallEnds
  <2>2. ASSUME UNCHANGED call PROVE UNCHANGED mail
    BY <2>2 DEF call
  <2>3. ASSUME NEW l, ResumesOne(t, l), CallEnds(t) PROVE SendersHaveMail'
    <3>1. Goes(t, "sched", NoObject) \/ Goes(t, "run", NoObject)
      BY <2>3 DEF ResumesOne, Returns
    <3>. QED  BY <1>1, <1>3, <1>4, <2>1, <2>3, <3>1, MailStep
  <2>4. CASE SendRetry(t)
    <3>1. mail[t] \in Mail
      BY <1>3, <2>4 DEF SendRetry, SendersHaveMail, Runs, Waits
    <3>2. ASSUME NEW timed, WaitsIn(t, on[t], timed), UNCHANGED call PROVE SendersHaveMail'
      BY <1>1, <1>3, <2>2, <3>1, <3>2, MailStep DEF WaitsIn
    <3>. QED  BY <2>3, <2>4, <3>2 DEF SendRetry
  <2>5. CASE RecvRetry(t)
    <3>1. on[t] \notin Senders
      BY <2>5, MailboxAssumption DEF RecvRetry
    <3>2. ASSUME NEW timed, WaitsIn(t, on[t], timed), UNCHANGED call PROVE SendersHaveMail'
      BY <1>1, <1>3, <2>2, <3>1, <3>2, MailStep DEF WaitsIn
    <3>. QED  BY <2>3, <2>5, <3>2 DEF RecvRetry
  <2>6. CASE SendExpires(t) \/ RecvExpires(t) \/ ReturnError(t)
    <3>1. Goes(t, "run", NoObject) /\ CallEnds(t)
      BY <2>6 DEF SendExpires, RecvExpires, ReturnError, Returns
    <3>. QED  BY <1>1, <1>3, <1>4, <2>1, <3>1, MailStep
  <2>7. CASE ReadsDeleted(t)
    BY <1>2, <2>2, <2>7 DEF ReadsDeleted
  <2>8. CASE ControlLoop(t) \/ MbDeleteTest(t) \/ (Schedule(t) /\ UNCHANGED <<ring, call, got>>)
             \/ (DeleteOne(t) /\ UNCHANGED <<ring, call, got>>)
    <3>1. UNCHANGED mail
      BY <2>2, <2>8 DEF ControlLoop, MbDeleteTest
    <3>2. \/ UNCHANGED <<pc, on>>
          \/ \E label, o : Goes(t, label, o) /\ label \notin Waits
      <4>1. CASE ControlLoop(t)
        BY <1>4, <4>1 DEF ControlLoop
      <4>2. CASE MbDeleteTest(t)
        BY <1>4, <4>2 DEF MbDeleteTest, Returns
      <4>3. CASE Schedule(t)
        BY <1>4, <4>3 DEF Schedule, Returns
      <4>4. CASE DeleteOne(t)
        BY <1>4, <4>4 DEF DeleteOne
      <4>. QED  BY <2>8, <4>1, <4>2, <4>3, <4>4
    <3>. QED  BY <1>1, <1>2, <1>3, <3>1, <3>2, MailStep
  <2>9. CASE WaitSchedule(t) /\ UNCHANGED <<ring, call, got>>
    <3>1. Goes(t, "wait_ret", on[t]) /\ UNCHANGED mail /\ pc[t] \in Waits
      BY <2>2, <2>9 DEF WaitSchedule, Runs, Waits
    <3>2. on[t] \in Senders => mail'[t] \in Mail
      BY <1>3, <3>1 DEF SendersHaveMail
    <3>. QED  BY <1>1, <1>3, <3>1, <3>2, MailStep
  <2>. QED  BY <1>7, <2>4, <2>5, <2>6, <2>7, <2>8, <2>9 DEF InCall
<1>8. ASSUME NEW t \in App, Call(t) PROVE SendersHaveMail'
  <2>1. PICK m \in Mailboxes :
          \/ \E v \in Mail : Send(t, m, v)
          \/ \E v \in Mail, timed \in BOOLEAN : SendBlock(t, m, v, timed)
          \/ Recv(t, m)
          \/ \E timed \in BOOLEAN : RecvBlock(t, m, timed)
          \/ Control(t, m) \/ MbDelete(t, m) \/ MbCreate(t, m)
    BY <1>8 DEF Call
  <2>2. ASSUME NEW v \in Mail, NEW timed \in BOOLEAN, SendBlock(t, m, v, timed)
        PROVE  SendersHaveMail'
    <3>1. Goes(t, "wait_sched", suspend_sender_thread[m]) /\ mail' = [mail EXCEPT ![t] = v]
      BY <2>2 DEF SendBlock, WaitsIn
    <3>2. mail'[t] = v /\ \A u \in Thread \ {t} : mail'[u] = mail[u]
      BY <1>1, <1>3, <3>1
    <3>. QED  BY <1>1, <1>3, <3>1, <3>2, MailStep
  <2>3. ASSUME NEW timed \in BOOLEAN, RecvBlock(t, m, timed) PROVE SendersHaveMail'
    <3>1. Goes(t, "wait_sched", m) /\ UNCHANGED mail /\ m \notin Senders
      BY <2>3, MailboxAssumption DEF RecvBlock, WaitsIn
    <3>. QED  BY <1>1, <1>3, <3>1, MailStep
  <2>4. CASE MbCreate(t, m)
    BY <1>2, <2>4 DEF MbCreate, call
  <2>5. CASE \/ \E v \in Mail : Send(t, m, v)
             \/ Recv(t, m) \/ Control(t, m) \/ MbDelete(t, m)
    <3>1. /\ UNCHANGED mail
          /\ \E label, o : Goes(t, label, o) /\ label \notin Waits
      <4>1. ASSUME NEW l, ResumesOne(t, l) PROVE \E label, o : Goes(t, label, o) /\ label \notin Waits
        BY <1>4, <4>1 DEF ResumesOne, Returns
      <4>2. ASSUME NEW v, Send(t, m, v) PROVE ResumesOne(t, m) /\ UNCHANGED mail
        BY <4>2 DEF Send, call
      <4>3. CASE Recv(t, m)
        BY <4>1, <4>3 DEF Recv, call
      <4>4. CASE Control(t, m)
        BY <1>4, <4>4 DEF Control, call
      <4>5. CASE MbDelete(t, m)
        BY <1>4, <4>5 DEF MbDelete, Delete, call
      <4>. QED  BY <2>5, <4>1, <4>2, <4>3, <4>4, <4>5
    <3>. QED  BY <1>1, <1>3, <3>1, MailStep
  <2>. QED  BY <2>1, <2>2, <2>3, <2>4, <2>5
<1>. QED  BY <1>5, <1>6, <1>7, <1>8 DEF Next

\* When the scheduler starts the rings are empty and nobody waits.
LEMMA InitRefines ==
    ASSUME Init
    PROVE  OrderInv /\ Promise!Init
<1>1. /\ entry = [m \in Mailboxes |-> 0] /\ in_offset = [m \in Mailboxes |-> 0]
      /\ out_offset = [m \in Mailboxes |-> 0] /\ got = [m \in Mailboxes |-> NoMail]
      /\ pc = [t \in Thread |-> "run"]
  BY DEF Init, IpcInit
<1>2. (0 + 0) % SIZE = 0
  BY MailboxAssumption
<1>3. RingOrder /\ SendersHaveMail
  BY <1>1, <1>2 DEF RingOrder, SendersHaveMail, Waits
<1>4. \A m \in Mailboxes : Contents(m) = <<>>
  BY <1>1 DEF Contents
<1>5. Promise!Init
  BY <1>1, <1>4 DEF Promise!Init
<1>. QED  BY <1>3, <1>5 DEF OrderInv

\* The mailboxes implement bounded queues: every mail that was accepted is
\* received once, in the order in which mails were accepted, and no other is,
\* whoever sends, receives, waits, looks again and is interrupted in between.
THEOREM OrderIsKept == Spec => KeepsOrder
<1>1. Init => OrderInv /\ Promise!Init
  BY InitRefines
<1>2. Inv /\ Inv' /\ OrderInv /\ [Next]_vars => OrderInv' /\ Refines
  BY RefinementStep, MailsKept DEF OrderInv
<1>3. Inv /\ Inv' /\ OrderInv /\ [Next]_vars =>
        OrderInv' /\ [Promise!Next]_<<Queues, got>>
  BY <1>2 DEF Refines
<1>. QED  BY <1>1, <1>3, Invariance, PTL DEF Spec, KeepsOrder, Promise!Spec, Queues
=============================================================================
