---------------------------- MODULE MessageQueue ----------------------------
(***************************************************************************)
(* The message queues of src/ipc.c.  The blocks of a queue are linked by   *)
(* their next field in two lists: the messages, from msg_queue_head to     *)
(* msg_queue_tail, and the free blocks.  A sender takes a free block in    *)
(* one interrupt-disabled section, copies its message with interrupts      *)
(* enabled, and links the block in a second section; a receiver unlinks,   *)
(* copies and frees in the same way.  In between the block is only in the  *)
(* hands of that thread.                                                   *)
(***************************************************************************)
EXTENDS Ipc

CONSTANTS
    Block, NIL,          \* the blocks of a queue, max_msgs of them, and RT_NULL
    Message, NoMessage,
    Urgent,              \* the messages sent with rt_mq_urgent
    Resettable           \* the queues rt_mq_control resets

ASSUME MessageQueueAssumption ==
    /\ IsFiniteSet(Block) /\ NIL \notin Block
    /\ NoMessage \notin Message /\ Urgent \subseteq Message
    /\ Resettable \subseteq Object

VARIABLES
    next, data,          \* of every block of a queue: its link, its message
    msg_queue_head, msg_queue_tail, msg_queue_free, entry,
    msg,                 \* the local variable msg of a thread in a call
    buffer,              \* the message a thread is sending
    limit,               \* the threads whose call has a time limit
    got                  \* history: the message that was unlinked last

links == <<next, msg_queue_head, msg_queue_tail, msg_queue_free, entry>>
call == <<msg, buffer, limit>>
mqVars == <<links, data, call, got>>
vars == <<ipcVars, mqVars>>

max_msgs == Cardinality(Block)

\* The free list rt_mq_init builds, for some order of the blocks in memory.
order == CHOOSE s \in [1 .. max_msgs -> Block] : IsInjective(s)
Fresh == [b \in Block |->
            LET i == CHOOSE j \in 1 .. max_msgs : order[j] = b
            IN  IF i = max_msgs THEN NIL ELSE order[i + 1]]
FirstFree == IF Block = {} THEN NIL ELSE order[1]

Init ==
    /\ IpcInit
    /\ next = [m \in Object |-> Fresh]
    /\ data = [m \in Object |-> [b \in Block |-> NoMessage]]
    /\ msg_queue_head = [m \in Object |-> NIL]
    /\ msg_queue_tail = [m \in Object |-> NIL]
    /\ msg_queue_free = [m \in Object |-> FirstFree]
    /\ entry = [m \in Object |-> 0]
    /\ msg = [t \in Thread |-> NIL]
    /\ buffer = [t \in Thread |-> NoMessage]
    /\ limit = {}
    /\ got = [m \in Object |-> NoMessage]

-----------------------------------------------------------------------------
(* rt_mq_send and rt_mq_urgent; -RT_EFULL, without a change, when no block is *)
(* free                                                                       *)

\* The first section: take a free block.
Allocate(t, m, v) ==
    /\ Runs(t, "run") /\ Usable(m) /\ msg_queue_free[m] # NIL
    /\ msg' = [msg EXCEPT ![t] = msg_queue_free[m]]
    /\ msg_queue_free' = [msg_queue_free EXCEPT ![m] = next[m][@]]
    /\ buffer' = [buffer EXCEPT ![t] = v]
    /\ Goes(t, "put_copy", m)
    /\ UNCHANGED <<k, open, corrupt, next, data, msg_queue_head, msg_queue_tail,
                   entry, limit, got>>

\* Slip: the block goes to the beginning of the queue.
LinkInFront(m, b) ==
    /\ next' = [next EXCEPT ![m][b] = msg_queue_head[m]]
    /\ msg_queue_head' = [msg_queue_head EXCEPT ![m] = b]
    /\ msg_queue_tail' = [msg_queue_tail EXCEPT ![m] = IF @ = NIL THEN b ELSE @]
    /\ entry' = [entry EXCEPT ![m] = @ + 1]

\* The links after block b went to the end of queue m, or to its beginning.
LinkTail(m, b) ==
    LET tail == msg_queue_tail[m]
    IN  /\ next' = [next EXCEPT ![m] =
                      [c \in Block |-> IF c = b THEN NIL
                                       ELSE IF c = tail THEN b ELSE @[c]]]
        /\ msg_queue_tail' = [msg_queue_tail EXCEPT ![m] = b]
        /\ msg_queue_head' = [msg_queue_head EXCEPT ![m] = IF @ = NIL THEN b ELSE @]
        /\ entry' = [entry EXCEPT ![m] = @ + 1]

LinkHead(m, b) ==
    /\ next' = [next EXCEPT ![m][b] = msg_queue_head[m]]
    /\ msg_queue_head' = [msg_queue_head EXCEPT ![m] = b]
    /\ msg_queue_tail' = [msg_queue_tail EXCEPT ![m] = IF @ = NIL THEN b ELSE @]
    /\ entry' = [entry EXCEPT ![m] = @ + 1]

\* Block b with message v becomes part of queue m.
Linked(m, b, v) ==
    /\ data' = [data EXCEPT ![m][b] = v]
    /\ IF v \in Urgent THEN LinkHead(m, b) ELSE LinkTail(m, b)

CallEnds(t) ==
    /\ msg' = [msg EXCEPT ![t] = NIL]
    /\ buffer' = [buffer EXCEPT ![t] = NoMessage]
    /\ limit' = limit \ {t}

\* The copy and the second section.
Link(t) ==
    /\ Runs(t, "put_copy") /\ on[t] \in open
    /\ Linked(on[t], msg[t], buffer[t])
    /\ ResumesOne(t, on[t])
    /\ CallEnds(t)
    /\ UNCHANGED <<msg_queue_free, got, open, corrupt>>

\* Slip: a receiver is resumed only when the queue was empty.
SendIsrWakesFirst(m, v) ==
    /\ Interruptible /\ Usable(m) /\ msg_queue_free[m] # NIL
    /\ msg_queue_free' = [msg_queue_free EXCEPT ![m] = next[m][@]]
    /\ Linked(m, msg_queue_free[m], v)
    /\ IF entry[m] = 0 THEN ResumesOneIsr(m) ELSE UNCHANGED k
    /\ UNCHANGED <<open, pc, on, corrupt, call, got>>

\* The whole call in an interrupt handler.
SendIsr(m, v) ==
    /\ Interruptible /\ Usable(m) /\ msg_queue_free[m] # NIL
    /\ msg_queue_free' = [msg_queue_free EXCEPT ![m] = next[m][@]]
    /\ Linked(m, msg_queue_free[m], v)
    /\ ResumesOneIsr(m)
    /\ UNCHANGED <<open, pc, on, corrupt, call, got>>

-----------------------------------------------------------------------------
(* rt_mq_recv; with waiting time 0 it returns -RT_ETIMEOUT when the queue is *)
(* empty, and changes nothing                                                *)

\* Slip: msg_queue_tail keeps pointing to the last message that was taken.
UnlinkKeepsTail(t, m) ==
    LET first == msg_queue_head[m]
    IN  /\ msg' = [msg EXCEPT ![t] = first]
        /\ msg_queue_head' = [msg_queue_head EXCEPT ![m] = next[m][first]]
        /\ entry' = [entry EXCEPT ![m] = @ - 1]
        /\ got' = [got EXCEPT ![m] = data[m][first]]
        /\ Goes(t, "get_copy", m)
        /\ UNCHANGED <<k, open, corrupt, next, data, msg_queue_tail, msg_queue_free,
                       buffer, limit>>

\* The first section: unlink the first message.
Unlink(t, m) ==
    LET first == msg_queue_head[m]
    IN  /\ msg' = [msg EXCEPT ![t] = first]
        /\ msg_queue_head' = [msg_queue_head EXCEPT ![m] = next[m][first]]
        /\ msg_queue_tail' = [msg_queue_tail EXCEPT ![m] = IF @ = first THEN NIL ELSE @]
        /\ entry' = [entry EXCEPT ![m] = @ - 1]
        /\ got' = [got EXCEPT ![m] = data[m][first]]
        /\ Goes(t, "get_copy", m)
        /\ UNCHANGED <<k, open, corrupt, next, data, msg_queue_free, buffer, limit>>

WaitsFor(t, m, timed) ==
    /\ k' = Wait([k EXCEPT !.error[t] = "EOK"], t, m, timed)
    /\ Goes(t, "wait_sched", m)
    /\ UNCHANGED <<open, corrupt, links, data, msg, buffer, got>>

Recv(t, m) ==
    /\ Runs(t, "run") /\ Usable(m) /\ entry[m] # 0
    /\ Unlink(t, m)

RecvBlock(t, m, timed) ==
    /\ Runs(t, "run") /\ Usable(m) /\ entry[m] = 0
    /\ WaitsFor(t, m, timed)
    /\ limit' = IF timed THEN limit \cup {t} ELSE limit

\* The thread runs again: another may have taken the message.
RecvRetry(t) ==
    /\ Runs(t, "wait_ret") /\ on[t] \in open /\ k.error[t] = "EOK"
    /\ \/ entry[on[t]] # 0 /\ Unlink(t, on[t])
       \/ entry[on[t]] = 0 /\ WaitsFor(t, on[t], t \in limit) /\ UNCHANGED limit

RecvExpires(t) ==
    /\ Runs(t, "wait_ret") /\ on[t] \in open /\ k.error[t] = "EOK"
    /\ entry[on[t]] = 0 /\ t \in limit
    /\ k' = [k EXCEPT !.error[t] = "ETIMEOUT"]
    /\ Returns(t) /\ CallEnds(t)
    /\ UNCHANGED <<open, corrupt, links, data, got>>

RecvError(t) ==
    /\ Runs(t, "wait_ret") /\ k.error[t] # "EOK"
    /\ Returns(t) /\ CallEnds(t)
    /\ UNCHANGED <<k, open, corrupt, links, data, got>>

\* The copy and the second section: free the block.
Free(t) ==
    /\ Runs(t, "get_copy") /\ on[t] \in open
    /\ LET m == on[t]
       IN  /\ next' = [next EXCEPT ![m][msg[t]] = msg_queue_free[m]]
           /\ msg_queue_free' = [msg_queue_free EXCEPT ![m] = msg[t]]
    /\ Returns(t) /\ CallEnds(t)
    /\ UNCHANGED <<k, open, corrupt, data, msg_queue_head, msg_queue_tail, entry, got>>

\* A thread in the middle of a call finds the queue deleted: it works on
\* memory that is gone.
UsesDeleted(t) ==
    /\ k.cur = t /\ ~corrupt /\ on[t] \in Object \ open
    /\ \/ pc[t] = "wait_ret" /\ k.error[t] = "EOK"
       \/ pc[t] \in {"put_copy", "get_copy"}
    /\ corrupt' = TRUE
    /\ UNCHANGED <<k, open, pc, on, mqVars>>

-----------------------------------------------------------------------------
(* rt_mq_control with RT_IPC_CMD_RESET: wake the receivers, then move every *)
(* message to the free list, with interrupts disabled throughout.           *)

Control(t, m) ==
    /\ Runs(t, "run") /\ Usable(m) /\ m \in Resettable
    /\ Goes(t, "irq_off", m)
    /\ UNCHANGED <<k, open, corrupt, mqVars>>

ControlLoop(t) ==
    /\ Runs(t, "irq_off")
    /\ LET m == on[t]
           first == msg_queue_head[m]
       IN  \/ /\ k.list[m] # <<>>
              /\ k' = ResumeFirst(m)
              /\ UNCHANGED <<pc, on, links>>
           \/ /\ k.list[m] = <<>> /\ first # NIL
              /\ msg_queue_head' = [msg_queue_head EXCEPT ![m] = next[m][first]]
              /\ msg_queue_tail' = [msg_queue_tail EXCEPT ![m] = IF @ = first THEN NIL ELSE @]
              /\ next' = [next EXCEPT ![m][first] = msg_queue_free[m]]
              /\ msg_queue_free' = [msg_queue_free EXCEPT ![m] = first]
              /\ UNCHANGED <<k, pc, on, entry>>
           \/ /\ k.list[m] = <<>> /\ first = NIL
              /\ entry' = [entry EXCEPT ![m] = 0]
              /\ Goes(t, "sched", NoObject)
              /\ UNCHANGED <<k, next, msg_queue_head, msg_queue_tail, msg_queue_free>>
    /\ UNCHANGED <<open, corrupt, data, call, got>>

\* rt_mq_init or rt_mq_create
MqCreate(t, m) ==
    /\ Create(t, m)
    /\ next' = [next EXCEPT ![m] = Fresh]
    /\ msg_queue_head' = [msg_queue_head EXCEPT ![m] = NIL]
    /\ msg_queue_tail' = [msg_queue_tail EXCEPT ![m] = NIL]
    /\ msg_queue_free' = [msg_queue_free EXCEPT ![m] = FirstFree]
    /\ entry' = [entry EXCEPT ![m] = 0]
    /\ UNCHANGED <<data, call, got>>

-----------------------------------------------------------------------------
InCall(t) ==
    \/ Link(t) \/ RecvRetry(t) \/ RecvExpires(t) \/ RecvError(t) \/ Free(t)
    \/ UsesDeleted(t) \/ ControlLoop(t)
    \/ IpcInCall(t) /\ UNCHANGED mqVars

Call(t) ==
    \/ \E m \in Object :
          \/ \E v \in Message : Allocate(t, m, v)
          \/ Recv(t, m)
          \/ \E timed \in BOOLEAN : RecvBlock(t, m, timed)
          \/ Control(t, m) \/ MqCreate(t, m)
    \/ IpcCall(t) /\ UNCHANGED mqVars

Interrupt ==
    \/ \E m \in Object, v \in Message : SendIsr(m, v)
    \/ Tick /\ UNCHANGED mqVars

Next == Interrupt \/ \E t \in App : InCall(t) \/ Call(t)

Spec == Init /\ [][Next]_vars

-----------------------------------------------------------------------------
\* The blocks of queue m from block b on, up to the end of the list.
Chain(m, b) ==
    LET at[i \in 0 .. max_msgs] ==
          IF i = 0 THEN b ELSE IF at[i - 1] = NIL THEN NIL ELSE next[m][at[i - 1]]
        n == Cardinality({i \in 0 .. max_msgs : at[i] # NIL})
    IN  [i \in 1 .. n |-> at[i - 1]]

\* A reset of queue m is under way; nothing else happens until it is done.
Resetting(m) == \E t \in Thread : on[t] = m /\ pc[t] = "irq_off"

\* The threads that hold a block between the two sections of their call.
InHand(m) == {t \in Thread : on[t] = m /\ pc[t] \in {"put_copy", "get_copy"}}

\* Every block of a queue is in exactly one place: in the list of messages,
\* whose length is entry and whose last block is msg_queue_tail, in the free
\* list, or in the hands of one thread.  No block is lost or used twice,
\* however the two sections of senders, receivers and resets interleave.
BlocksAccounted ==
    \A m \in open :
        LET queued == Chain(m, msg_queue_head[m])
            free   == Chain(m, msg_queue_free[m])
        IN  ~Resetting(m) =>
              /\ Len(queued) = entry[m]
              /\ msg_queue_tail[m] = (IF queued = <<>> THEN NIL ELSE Last(queued))
              /\ Len(queued) + Len(free) + Cardinality(InHand(m)) = max_msgs
              /\ ToSet(queued) \cup ToSet(free) \cup {msg[t] : t \in InHand(m)} = Block

\* No wake-up is lost: while a receiver waits, every message in the queue has a
\* receiver that was resumed for it and has not yet looked.
NoLostWakeup ==
    \A m \in open : Waiting(m) # {} => entry[m] <= Cardinality(Resumed(m))

\* The messages of queue m, none once a reset of it has begun.
Contents(m) ==
    LET c == Chain(m, msg_queue_head[m])
    IN  IF Resetting(m) THEN <<>> ELSE [i \in 1 .. Len(c) |-> data[m][c[i]]]

Promise == INSTANCE QueueSpec WITH
    Queue <- Object, SIZE <- max_msgs, queue <- [m \in Object |-> Contents(m)]

\* The linked blocks implement a bounded queue: messages are unlinked once, in
\* the order in which they were linked, urgent ones first, although senders and
\* receivers copy with interrupts enabled.
KeepsOrder == Promise!Spec
=============================================================================
