------------------------------- MODULE Event -------------------------------
(***************************************************************************)
(* The event sets of src/ipc.c.  A thread waits for all (AND) or for any   *)
(* (OR) of the bits it names and may ask that the bits it receives are     *)
(* cleared.  rt_event_send sets bits and walks the whole list of waiting   *)
(* threads in one interrupt-disabled section; a thread early in the list   *)
(* may clear what a later one waits for.                                   *)
(***************************************************************************)
EXTENDS Ipc

CONSTANTS
    Bit,           \* the bits of an event set
    Resettable     \* the events rt_event_control resets

ASSUME EventAssumption == Resettable \subseteq Object

VARIABLES
    set,           \* event->set
    event_set,     \* thread->event_set, meaningful while the thread is in its call
    event_info,    \* thread->event_info, likewise
    asked          \* history: the bits a waiting thread asked for

eventVars == <<set, event_set, event_info, asked>>
vars == <<ipcVars, eventVars>>

Bits == SUBSET Bit \ {{}}
\* The options of rt_event_recv; all is RT_EVENT_FLAG_AND, else RT_EVENT_FLAG_OR.
Option == [all : BOOLEAN, clear : BOOLEAN]
NoOption == [all |-> FALSE, clear |-> FALSE]

Init ==
    /\ IpcInit
    /\ set = [e \in Object |-> {}]
    /\ event_set = [t \in Thread |-> {}]
    /\ event_info = [t \in Thread |-> NoOption]
    /\ asked = [t \in Thread |-> {}]

-----------------------------------------------------------------------------
Satisfied(wanted, option, bits) ==
    IF option.all THEN wanted \subseteq bits ELSE wanted \cap bits # {}

(* rt_event_send *)

\* Slip: a thread that asked for all its bits is woken by any of them.
SendToAny(acc, t) ==
    IF acc.event_set[t] \cap acc.set = {} THEN acc
    ELSE LET received == acc.event_set[t] \cap acc.set
         IN  [k |-> rt_thread_resume(acc.k, t),
              set |-> IF event_info[t].clear THEN acc.set \ received ELSE acc.set,
              event_set |-> [acc.event_set EXCEPT ![t] = received]]

\* Slip: RT_EVENT_FLAG_CLEAR is not looked at.
SendToKeeps(acc, t) ==
    IF ~Satisfied(acc.event_set[t], event_info[t], acc.set) THEN acc
    ELSE [k |-> rt_thread_resume(acc.k, t),
          set |-> acc.set,
          event_set |-> [acc.event_set EXCEPT ![t] = @ \cap acc.set]]

\* One turn of the loop: thread t of the list, with acc the kernel, the bits of
\* the event and the event_set of the threads so far.
SendTo(acc, t) ==
    IF ~Satisfied(acc.event_set[t], event_info[t], acc.set) THEN acc
    ELSE LET received == acc.event_set[t] \cap acc.set
         IN  [k |-> rt_thread_resume(acc.k, t),
              set |-> IF event_info[t].clear THEN acc.set \ received ELSE acc.set,
              event_set |-> [acc.event_set EXCEPT ![t] = received]]

\* What the loop starts from.
Start(e, bits) == [k |-> k, set |-> set[e] \cup bits, event_set |-> event_set]

\* Slip: only the first thread of the list is looked at.
SentToFirst(e, bits) ==
    IF k.list[e] = <<>> THEN Start(e, bits) ELSE SendTo(Start(e, bits), Head(k.list[e]))

\* The loop: after[i] is what its first i turns leave.
SentTo(e, bits) ==
    LET after[i \in 0 .. Len(k.list[e])] ==
            IF i = 0 THEN Start(e, bits) ELSE SendTo(after[i - 1], k.list[e][i])
    IN  after[Len(k.list[e])]

Send(t, e, bits) ==
    /\ Runs(t, "run") /\ Usable(e)
    /\ \E r \in {SentTo(e, bits)} :
          /\ k' = r.k
          /\ set' = [set EXCEPT ![e] = r.set]
          /\ event_set' = r.event_set
          /\ IF r.k.list[e] # k.list[e] THEN Goes(t, "sched", NoObject)
             ELSE UNCHANGED <<pc, on>>
    /\ UNCHANGED <<event_info, asked, open, corrupt>>

SendIsr(e, bits) ==
    /\ Interruptible /\ Usable(e)
    /\ \E r \in {SentTo(e, bits)} :
          /\ k' = IF r.k.list[e] # k.list[e] THEN rt_schedule(r.k) ELSE r.k
          /\ set' = [set EXCEPT ![e] = r.set]
          /\ event_set' = r.event_set
    /\ UNCHANGED <<event_info, asked, open, pc, on, corrupt>>

-----------------------------------------------------------------------------
(* rt_event_recv *)

Recv(t, e, wanted, option) ==
    /\ Runs(t, "run") /\ Usable(e)
    /\ Satisfied(wanted, option, set[e])
    /\ k' = [k EXCEPT !.error[t] = "EOK"]
    /\ set' = [set EXCEPT ![e] = IF option.clear THEN @ \ wanted ELSE @]
    /\ UNCHANGED <<event_set, event_info, asked, open, pc, on, corrupt>>

\* With waiting time 0.
RecvNothing(t, e, wanted, option) ==
    /\ Runs(t, "run") /\ Usable(e)
    /\ ~Satisfied(wanted, option, set[e])
    /\ k' = [k EXCEPT !.error[t] = "ETIMEOUT"]
    /\ UNCHANGED <<eventVars, open, pc, on, corrupt>>

RecvBlock(t, e, wanted, option, timed) ==
    /\ Runs(t, "run") /\ Usable(e)
    /\ ~Satisfied(wanted, option, set[e])
    /\ event_set' = [event_set EXCEPT ![t] = wanted]
    /\ event_info' = [event_info EXCEPT ![t] = option]
    /\ asked' = [asked EXCEPT ![t] = wanted]
    /\ k' = Wait([k EXCEPT !.error[t] = "EOK"], t, e, timed)
    /\ Goes(t, "wait_sched", e)
    /\ UNCHANGED <<set, open, corrupt>>

\* The thread returns its error or, with RT_EOK, the bits in event_set.
RecvReturn(t) ==
    /\ Runs(t, "wait_ret")
    /\ event_set' = [event_set EXCEPT ![t] = {}]
    /\ event_info' = [event_info EXCEPT ![t] = NoOption]
    /\ asked' = [asked EXCEPT ![t] = {}]
    /\ Returns(t)
    /\ UNCHANGED <<k, set, open, corrupt>>

-----------------------------------------------------------------------------
(* rt_event_control with RT_IPC_CMD_RESET *)

Control(t, e) ==
    /\ Runs(t, "run") /\ Usable(e) /\ e \in Resettable
    /\ Goes(t, "irq_off", e)
    /\ UNCHANGED <<k, eventVars, open, corrupt>>

ControlLoop(t) ==
    /\ Runs(t, "irq_off")
    /\ LET e == on[t]
       IN  IF k.list[e] # <<>>
           THEN k' = ResumeFirst(e) /\ UNCHANGED <<set, pc, on>>
           ELSE /\ set' = [set EXCEPT ![e] = {}]
                /\ Goes(t, "sched", NoObject)
                /\ UNCHANGED k
    /\ UNCHANGED <<event_set, event_info, asked, open, corrupt>>

\* rt_event_init or rt_event_create
EventCreate(t, e) ==
    /\ Create(t, e)
    /\ set' = [set EXCEPT ![e] = {}]
    /\ UNCHANGED <<event_set, event_info, asked>>

-----------------------------------------------------------------------------
InCall(t) == RecvReturn(t) \/ ControlLoop(t) \/ (IpcInCall(t) /\ UNCHANGED eventVars)

Call(t) ==
    \/ \E e \in Object :
          \/ \E bits \in Bits : Send(t, e, bits)
          \/ \E wanted \in Bits, option \in Option :
                \/ Recv(t, e, wanted, option)
                \/ RecvNothing(t, e, wanted, option)
                \/ \E timed \in BOOLEAN : RecvBlock(t, e, wanted, option, timed)
          \/ Control(t, e) \/ EventCreate(t, e)
    \/ IpcCall(t) /\ UNCHANGED eventVars

Interrupt ==
    \/ \E e \in Object, bits \in Bits : SendIsr(e, bits)
    \/ Tick /\ UNCHANGED eventVars

Next == Interrupt \/ \E t \in App : InCall(t) \/ Call(t)

Spec == Init /\ [][Next]_vars

-----------------------------------------------------------------------------
\* No event is missed: a thread waits only while the bits that are set do not
\* satisfy it, whatever others cleared or received before it in the list.
NoMissedEvent ==
    \A e \in Object : \A t \in Waiting(e) :
        ~Satisfied(event_set[t], event_info[t], set[e])

\* A thread that was woken by a send returns bits it asked for: all of them
\* with RT_EVENT_FLAG_AND, at least one with RT_EVENT_FLAG_OR; while it waits
\* its request is not narrowed.
WakesEarned ==
    \A e \in Object :
        /\ \A t \in Waiting(e) : event_set[t] = asked[t]
        /\ \A t \in Resumed(e) :
             IF event_info[t].all THEN event_set[t] = asked[t]
             ELSE event_set[t] # {} /\ event_set[t] \subseteq asked[t]

\* A bit received with RT_EVENT_FLAG_CLEAR is consumed: when one send wakes
\* several threads, no two of those that clear get the same bit, and what they
\* got is no longer set.
ClearConsumes ==
    [][\A e \in Object :
         LET cleared == {t \in Resumed(e)' \ Resumed(e) : event_info[t].clear}
         IN  \A t \in cleared :
               /\ event_set'[t] \cap set'[e] = {}
               /\ \A u \in cleared \ {t} : event_set'[t] \cap event_set'[u] = {}]_vars
=============================================================================
