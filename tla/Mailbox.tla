------------------------------ MODULE Mailbox ------------------------------
(***************************************************************************)
(* The mailboxes of src/ipc.c: a ring of mails, a list of threads that     *)
(* wait to receive and a second one of threads that wait to send.  A       *)
(* thread that was resumed is not served by the call that resumed it: it   *)
(* looks again, and another thread or an interrupt handler may have been   *)
(* faster; it then waits again for the rest of its time.                   *)
(*                                                                         *)
(* A mailbox is named by its list of receivers, parent.suspend_thread.     *)
(***************************************************************************)
EXTENDS Ipc

CONSTANTS
    Mailboxes,
    suspend_sender_thread,   \* [Mailboxes -> List], the lists of senders
    SIZE,                    \* mb->size
    Mail, NoMail,
    Resettable               \* the mailboxes rt_mb_control resets

Senders == {suspend_sender_thread[m] : m \in Mailboxes}

ASSUME MailboxAssumption ==
    /\ SIZE \in Nat \ {0}
    /\ NoMail \notin Mail
    /\ suspend_sender_thread \in [Mailboxes -> List]
    /\ List = Mailboxes \cup Senders /\ Mailboxes \cap Senders = {}
    /\ \A m \in Mailboxes : Flag[suspend_sender_thread[m]] = Flag[m]
    /\ \A m, n \in Mailboxes :
          suspend_sender_thread[m] = suspend_sender_thread[n] => m = n
    /\ Deletable \subseteq Mailboxes /\ Resettable \subseteq Mailboxes

VARIABLES
    msg_pool, entry, in_offset, out_offset,
    limit,    \* the threads whose call has a time limit
    mail,     \* the mail a thread that waits is about to send
    got       \* history: the last mail received from a mailbox

ring == <<msg_pool, entry, in_offset, out_offset>>
call == <<limit, mail>>
vars == <<ipcVars, ring, call, got>>

Init ==
    /\ IpcInit
    /\ msg_pool = [m \in Mailboxes |-> [i \in 0 .. SIZE - 1 |-> NoMail]]
    /\ entry = [m \in Mailboxes |-> 0]
    /\ in_offset = [m \in Mailboxes |-> 0]
    /\ out_offset = [m \in Mailboxes |-> 0]
    /\ limit = {}
    /\ mail = [t \in Thread |-> NoMail]
    /\ got = [m \in Mailboxes |-> NoMail]

-----------------------------------------------------------------------------
MbUsable(m) == Usable(m) /\ Usable(suspend_sender_thread[m])

\* The mailbox a waiting thread works on.
MailboxOf(t) ==
    CHOOSE m \in Mailboxes : on[t] \in {m, suspend_sender_thread[m]}

Full(m) == entry[m] = SIZE
Empty(m) == entry[m] = 0

\* Slip: the test that the end of the pool is reached is off by one.
StepTooFar(offset) == IF offset + 1 > SIZE THEN 0 ELSE offset + 1

Step(offset) == IF offset + 1 >= SIZE THEN 0 ELSE offset + 1

Put(m, v) ==
    /\ msg_pool' = [msg_pool EXCEPT ![m][in_offset[m]] = v]
    /\ in_offset' = [in_offset EXCEPT ![m] = Step(@)]
    /\ entry' = [entry EXCEPT ![m] = @ + 1]
    /\ UNCHANGED <<out_offset, got>>

\* Slip: the mail is read after out_offset was advanced.
GetNext(m) ==
    /\ got' = [got EXCEPT ![m] = msg_pool[m][Step(out_offset[m])]]
    /\ out_offset' = [out_offset EXCEPT ![m] = Step(@)]
    /\ entry' = [entry EXCEPT ![m] = @ - 1]
    /\ UNCHANGED <<msg_pool, in_offset>>

Get(m) ==
    /\ got' = [got EXCEPT ![m] = msg_pool[m][out_offset[m]]]
    /\ out_offset' = [out_offset EXCEPT ![m] = Step(@)]
    /\ entry' = [entry EXCEPT ![m] = @ - 1]
    /\ UNCHANGED <<msg_pool, in_offset>>

\* Thread t goes to wait in list l of its mailbox, for the rest of its time.
WaitsIn(t, l, timed) ==
    /\ k' = Wait([k EXCEPT !.error[t] = "EOK"], t, l, timed)
    /\ Goes(t, "wait_sched", l)
    /\ UNCHANGED <<ring, got, open, corrupt>>

CallEnds(t) ==
    /\ limit' = limit \ {t}
    /\ mail' = [mail EXCEPT ![t] = NoMail]

-----------------------------------------------------------------------------
(* rt_mb_send_wait.  With waiting time 0 it returns -RT_EFULL at once when *)
(* the mailbox is full, and changes nothing.                               *)

\* Slip: a receiver is resumed only when the mailbox was empty.
SendWakesFirst(t, m, v) ==
    /\ Runs(t, "run") /\ MbUsable(m) /\ ~Full(m)
    /\ Put(m, v)
    /\ IF Empty(m) THEN ResumesOne(t, m) ELSE Returns(t) /\ UNCHANGED k
    /\ UNCHANGED <<call, open, corrupt>>

Send(t, m, v) ==
    /\ Runs(t, "run") /\ MbUsable(m) /\ ~Full(m)
    /\ Put(m, v)
    /\ ResumesOne(t, m)
    /\ UNCHANGED <<call, open, corrupt>>

\* rt_mb_send in an interrupt handler
SendIsr(m, v) ==
    /\ Interruptible /\ MbUsable(m) /\ ~Full(m)
    /\ Put(m, v)
    /\ ResumesOneIsr(m)
    /\ UNCHANGED <<call, open, pc, on, corrupt>>

SendBlock(t, m, v, timed) ==
    /\ Runs(t, "run") /\ MbUsable(m) /\ Full(m)
    /\ WaitsIn(t, suspend_sender_thread[m], timed)
    /\ limit' = IF timed THEN limit \cup {t} ELSE limit
    /\ mail' = [mail EXCEPT ![t] = v]

\* The thread runs again and looks at the mailbox again.
SendRetry(t) ==
    /\ Runs(t, "wait_ret") /\ on[t] \in Senders \cap open /\ k.error[t] = "EOK"
    /\ LET m == MailboxOf(t)
       IN  \/ /\ ~Full(m)
              /\ Put(m, mail[t])
              /\ ResumesOne(t, m)
              /\ CallEnds(t)
              /\ UNCHANGED <<open, corrupt>>
           \/ /\ Full(m)
              /\ WaitsIn(t, on[t], t \in limit)
              /\ UNCHANGED call

\* Its time is over: -RT_EFULL.
SendExpires(t) ==
    /\ Runs(t, "wait_ret") /\ on[t] \in Senders \cap open /\ k.error[t] = "EOK"
    /\ Full(MailboxOf(t)) /\ t \in limit
    /\ Returns(t) /\ CallEnds(t)
    /\ UNCHANGED <<k, ring, got, open, corrupt>>

-----------------------------------------------------------------------------
(* rt_mb_recv.  With waiting time 0 it returns -RT_ETIMEOUT at once when    *)
(* the mailbox is empty, and changes nothing.                               *)

Recv(t, m) ==
    /\ Runs(t, "run") /\ MbUsable(m) /\ ~Empty(m)
    /\ Get(m)
    /\ ResumesOne(t, suspend_sender_thread[m])
    /\ UNCHANGED <<call, open, corrupt>>

RecvBlock(t, m, timed) ==
    /\ Runs(t, "run") /\ MbUsable(m) /\ Empty(m)
    /\ WaitsIn(t, m, timed)
    /\ limit' = IF timed THEN limit \cup {t} ELSE limit
    /\ UNCHANGED mail

RecvRetry(t) ==
    /\ Runs(t, "wait_ret") /\ on[t] \in Mailboxes \cap open /\ k.error[t] = "EOK"
    /\ LET m == on[t]
       IN  \/ /\ ~Empty(m)
              /\ Get(m)
              /\ ResumesOne(t, suspend_sender_thread[m])
              /\ CallEnds(t)
              /\ UNCHANGED <<open, corrupt>>
           \/ /\ Empty(m)
              /\ WaitsIn(t, m, t \in limit)
              /\ UNCHANGED call

RecvExpires(t) ==
    /\ Runs(t, "wait_ret") /\ on[t] \in Mailboxes \cap open /\ k.error[t] = "EOK"
    /\ Empty(on[t]) /\ t \in limit
    /\ k' = [k EXCEPT !.error[t] = "ETIMEOUT"]
    /\ Returns(t) /\ CallEnds(t)
    /\ UNCHANGED <<ring, got, open, corrupt>>

\* Either call returns the error left by a timeout, a reset or a deletion.
ReturnError(t) ==
    /\ Runs(t, "wait_ret") /\ k.error[t] # "EOK"
    /\ Returns(t) /\ CallEnds(t)
    /\ UNCHANGED <<k, ring, got, open, corrupt>>

\* A thread that was resumed to be served finds the mailbox deleted: it reads
\* an object that is gone.
ReadsDeleted(t) ==
    /\ Runs(t, "wait_ret") /\ on[t] \notin open /\ k.error[t] = "EOK"
    /\ corrupt' = TRUE
    /\ UNCHANGED <<k, open, pc, on, ring, call, got>>

-----------------------------------------------------------------------------
(* rt_mb_control with RT_IPC_CMD_RESET: both lists and the ring in one      *)
(* interrupt-disabled section, then rt_schedule.                            *)

Control(t, m) ==
    /\ Runs(t, "run") /\ MbUsable(m) /\ m \in Resettable
    /\ Goes(t, "irq_off", m)
    /\ UNCHANGED <<k, open, corrupt, ring, call, got>>

ControlLoop(t) ==
    /\ Runs(t, "irq_off")
    /\ LET m == MailboxOf(t)
       IN  IF k.list[on[t]] # <<>>
           THEN k' = ResumeFirst(on[t]) /\ UNCHANGED <<pc, on, ring>>
           ELSE IF on[t] = m
           THEN Goes(t, "irq_off", suspend_sender_thread[m]) /\ UNCHANGED <<k, ring>>
           ELSE /\ entry' = [entry EXCEPT ![m] = 0]
                /\ in_offset' = [in_offset EXCEPT ![m] = 0]
                /\ out_offset' = [out_offset EXCEPT ![m] = 0]
                /\ Goes(t, "sched", NoObject)
                /\ UNCHANGED <<k, msg_pool>>
    /\ UNCHANGED <<open, corrupt, call, got>>

(* rt_mb_delete and rt_mb_detach: first the receivers, then the senders *)
MbDelete(t, m) ==
    /\ Delete(t, m) /\ Usable(suspend_sender_thread[m])
    /\ UNCHANGED <<ring, call, got>>

MbDeleteTest(t) ==
    /\ Runs(t, "del")
    /\ LET m == MailboxOf(t)
       IN  IF Waiting(on[t]) # {}
           THEN Goes(t, "del_one", on[t]) /\ UNCHANGED open
           ELSE IF on[t] = m
           THEN Goes(t, "del", suspend_sender_thread[m]) /\ UNCHANGED open
           ELSE Returns(t) /\ open' = open \ {m, suspend_sender_thread[m]}
    /\ UNCHANGED <<k, corrupt, ring, call, got>>

\* rt_mb_init or rt_mb_create
MbCreate(t, m) ==
    /\ Runs(t, "run") /\ m \notin open
    /\ \A u \in Thread : on[u] \notin {m, suspend_sender_thread[m]}
    /\ open' = open \cup {m, suspend_sender_thread[m]}
    /\ entry' = [entry EXCEPT ![m] = 0]
    /\ in_offset' = [in_offset EXCEPT ![m] = 0]
    /\ out_offset' = [out_offset EXCEPT ![m] = 0]
    /\ UNCHANGED <<k, pc, on, corrupt, msg_pool, call, got>>

-----------------------------------------------------------------------------
InCall(t) ==
    \/ SendRetry(t) \/ SendExpires(t) \/ RecvRetry(t) \/ RecvExpires(t)
    \/ ReturnError(t) \/ ReadsDeleted(t) \/ ControlLoop(t) \/ MbDeleteTest(t)
    \/ /\ WaitSchedule(t) \/ Schedule(t) \/ DeleteOne(t)
       /\ UNCHANGED <<ring, call, got>>

Call(t) ==
    \E m \in Mailboxes :
        \/ \E v \in Mail : Send(t, m, v)
        \/ \E v \in Mail, timed \in BOOLEAN : SendBlock(t, m, v, timed)
        \/ Recv(t, m)
        \/ \E timed \in BOOLEAN : RecvBlock(t, m, timed)
        \/ Control(t, m) \/ MbDelete(t, m) \/ MbCreate(t, m)

Interrupt ==
    \/ \E m \in Mailboxes, v \in Mail : SendIsr(m, v)
    \/ Tick /\ UNCHANGED <<ring, call, got>>

Next == Interrupt \/ \E t \in App : InCall(t) \/ Call(t)

Spec == Init /\ [][Next]_vars

-----------------------------------------------------------------------------
TypeOK ==
    /\ IpcTypeOK
    /\ msg_pool \in [Mailboxes -> [0 .. SIZE - 1 -> Mail \cup {NoMail}]]
    /\ entry \in [Mailboxes -> 0 .. SIZE]
    /\ in_offset \in [Mailboxes -> 0 .. SIZE - 1]
    /\ out_offset \in [Mailboxes -> 0 .. SIZE - 1]
    /\ limit \subseteq Thread
    /\ mail \in [Thread -> Mail \cup {NoMail}]
    /\ got \in [Mailboxes -> Mail \cup {NoMail}]

\* No wake-up is lost: while a receiver waits, every mail in the box has a
\* receiver that was resumed for it and has not yet looked, and while a sender
\* waits, every free place has a sender that was resumed for it; a thread that
\* was overtaken goes back to wait only when nothing is left for it.
NoLostWakeup ==
    \A m \in Mailboxes \cap open :
        LET s == suspend_sender_thread[m]
        IN  /\ Waiting(m) # {} => entry[m] <= Cardinality(Resumed(m))
            /\ Waiting(s) # {} => SIZE - entry[m] <= Cardinality(Resumed(s))

\* The mails in the ring, oldest first.
Contents(m) ==
    [i \in 1 .. entry[m] |-> msg_pool[m][(out_offset[m] + i - 1) % SIZE]]

Promise == INSTANCE QueueSpec WITH
    Queue <- Mailboxes, Message <- Mail, NoMessage <- NoMail, Urgent <- {},
    queue <- [m \in Mailboxes |-> Contents(m)]

\* The ring implements a bounded queue: whoever sends and receives, waits,
\* retries and is interrupted in between, every mail that was accepted is
\* received once, in order, and never one that was not sent.
KeepsOrder == Promise!Spec
=============================================================================
